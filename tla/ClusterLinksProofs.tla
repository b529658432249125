-------------------------- MODULE ClusterLinksProofs --------------------------
(***************************************************************************)
(* Proofs about ClusterLinks, for every number of nodes, every plan, every *)
(* environment and any number of crashes and false verdicts.              *)
(***************************************************************************)
EXTENDS ClusterLinks, TLAPS

-----------------------------------------------------------------------------
(* Settings.                                                               *)

\* A settings file of the plan, alone or among the files of a node.
IsToml(t) == \E g \in Gen : t = Plan[g].toml

\* Whatever environment and file say, every port a process works with is of
\* 16 bits, the one derived by adding 1000 included.
LEMMA PortsOfProcess ==
    ASSUME NEW n \in Node, NEW f, IsToml(f.toml)
    PROVE  /\ load(n, f).port \in Port /\ load(n, f).api_port \in Port
           /\ internal_port(load(n, f)) \in Port
           /\ forward_port(load(n, f)) \in Port
<1> DEFINE t == f.toml
           c == load(n, f)
<1>1. c = Over(Env[n], Over(t, Default))
  BY DEF load, Loaded, IsToml
<1>2. PortsFit(Env[n]) /\ PortsFit(t) /\ MaxPort \in Nat /\ MaxPort >= 3000
  BY LinksAssumption DEF IsToml
<1>3. DOMAIN Default = {"port", "api_port", "cluster_enabled", "tls_enabled"}
        /\ Default.port = 3000 /\ Default.api_port = 3000
  BY DEF Default
<1>4. /\ DOMAIN c = DOMAIN Env[n] \cup DOMAIN t \cup DOMAIN Default
      /\ \A k \in DOMAIN c :
           c[k] = IF k \in DOMAIN Env[n] THEN Env[n][k]
                  ELSE IF k \in DOMAIN t THEN t[k] ELSE Default[k]
  BY <1>1 DEF Over
<1>5. c["port"] \in Port /\ c["api_port"] \in Port
  BY <1>2, <1>3, <1>4 DEF PortsFit, PortKey, Port
<1>6. "internal_port" \in DOMAIN c => c["internal_port"] \in Port
  BY <1>2, <1>3, <1>4 DEF PortsFit, PortKey, Port
<1>7. internal_port(c) \in Port
  BY <1>2, <1>5, <1>6 DEF internal_port, Port
<1> QED
  BY <1>5, <1>7 DEF forward_port

-----------------------------------------------------------------------------
(* Types.                                                                  *)

\* Files that a process can have read.
Files(f) == DOMAIN f = Part /\ \A p \in Part : \E g \in Gen : f[p] = Plan[g][p]

\* A running process has come through main's set-up with files of the plan.
ProcStarted == \A n \in Node : Up(n) => Files(proc[n]) /\ Starts(n, proc[n])

LinksTyped == TypeOK /\ ProcStarted

LEMMA FilesHaveToml ==
    ASSUME NEW f, Files(f)
    PROVE  IsToml(f.toml) /\ f # Down
<1>1. "toml" \in Part
  BY DEF Part
<1>2. DOMAIN Down = {}
  BY DEF Down
<1>3. DOMAIN f = Part /\ \E g \in Gen : f["toml"] = Plan[g]["toml"]
  BY <1>1 DEF Files
<1> QED
  BY <1>1, <1>2, <1>3 DEF IsToml

LEMMA TypedInit == Init => LinksTyped
<1> SUFFICES ASSUME Init PROVE LinksTyped
  OBVIOUS
<1>1. 1 \in Gen
  BY LinksAssumption DEF Gen
<1>2. \A n \in Node : disk[n] = Plan[1] /\ proc[n] = Down /\ book[n] = << >>
  BY DEF Init
<1>3. Files(Plan[1])
  BY <1>1, LinksAssumption DEF Files
<1>4. DOMAIN << >> = {}
  OBVIOUS
<1>5. 0 \in 0..MaxFaults
  BY LinksAssumption
<1>6. \A n \in Node : Files(disk[n]) /\ DOMAIN book[n] = {} /\ ~Up(n)
  BY <1>2, <1>3, <1>4 DEF Up
<1> QED
  BY <1>1, <1>5, <1>6 DEF Init, LinksTyped, TypeOK, ProcStarted, Files

LEMMA TypedStep ==
    ASSUME LinksTyped, [Next]_vars
    PROVE  LinksTyped'
<1>0. /\ target \in Gen /\ faults \in 0..MaxFaults
      /\ DOMAIN disk = Node /\ DOMAIN proc = Node /\ DOMAIN book = Node
      /\ \A n \in Node : Files(disk[n])
      /\ \A n \in Node : Up(n) => Files(proc[n]) /\ Starts(n, proc[n])
      /\ \A n \in Node : DOMAIN book[n] \subseteq Node \ {n}
      /\ \A n \in Node : \A m \in DOMAIN book[n] : book[n][m] \in Port
  BY DEF LinksTyped, TypeOK, ProcStarted, Files
<1>1. ASSUME target' \in Gen, faults' \in 0..MaxFaults,
             DOMAIN disk' = Node, DOMAIN proc' = Node, DOMAIN book' = Node,
             \A n \in Node : Files(disk'[n]),
             \A n \in Node : proc'[n] # Down =>
                               Files(proc'[n]) /\ Starts(n, proc'[n]),
             \A n \in Node : DOMAIN book'[n] \subseteq Node \ {n},
             \A n \in Node : \A m \in DOMAIN book'[n] : book'[n][m] \in Port
      PROVE  LinksTyped'
  BY <1>1 DEF LinksTyped, TypeOK, ProcStarted, Files, Up
<1>2. CASE Advance
  <2>1. target' \in Gen
    BY <1>0, <1>2, LinksAssumption DEF Advance, Gen
  <2> QED
    BY <1>0, <1>1, <1>2, <2>1 DEF Advance, Up
<1>3. ASSUME NEW n \in Node, NEW p \in Part, Install(n, p)
      PROVE  LinksTyped'
  <2>1. /\ UNCHANGED <<target, proc, book, faults>>
        /\ disk' = [disk EXCEPT ![n][p] = Plan[target][p]]
    BY <1>3 DEF Install
  <2>2. DOMAIN disk' = Node /\ \A m \in Node \ {n} : disk'[m] = disk[m]
    BY <1>0, <2>1
  <2>3. /\ DOMAIN disk'[n] = Part
        /\ \A q \in Part : disk'[n][q] = IF q = p THEN Plan[target][p] ELSE disk[n][q]
    BY <1>0, <2>1 DEF Files
  <2>4. Files(disk'[n])
    BY <1>0, <2>3 DEF Files
  <2> QED
    BY <1>0, <1>1, <2>1, <2>2, <2>4 DEF Up
<1>4. ASSUME NEW n \in Node, Stop(n)
      PROVE  LinksTyped'
  BY <1>0, <1>1, <1>4 DEF Stop, Up
<1>5. ASSUME NEW n \in Node, Crash(n)
      PROVE  LinksTyped'
  <2>1. faults' \in 0..MaxFaults
    BY <1>0, <1>5, LinksAssumption DEF Crash
  <2> QED
    BY <1>0, <1>1, <1>5, <2>1 DEF Crash, Up
<1>6. ASSUME NEW n \in Node, Start(n)
      PROVE  LinksTyped'
  <2>1. /\ UNCHANGED <<target, disk, faults>> /\ Starts(n, disk[n])
        /\ proc' = [proc EXCEPT ![n] = disk[n]]
        /\ book' = [book EXCEPT ![n] = << >>]
    BY <1>6 DEF Start
  <2>2. /\ DOMAIN proc' = Node /\ proc'[n] = disk[n]
        /\ \A m \in Node \ {n} : proc'[m] = proc[m]
    BY <1>0, <2>1
  <2>3. /\ DOMAIN book' = Node /\ book'[n] = << >>
        /\ \A m \in Node \ {n} : book'[m] = book[m]
    BY <1>0, <2>1
  <2>4. DOMAIN book'[n] = {}
    BY <2>3
  <2>5. \A m \in Node : proc'[m] # Down => Files(proc'[m]) /\ Starts(m, proc'[m])
    BY <1>0, <2>1, <2>2 DEF Up
  <2>6. /\ \A m \in Node : DOMAIN book'[m] \subseteq Node \ {m}
        /\ \A m \in Node : \A k \in DOMAIN book'[m] : book'[m][k] \in Port
    BY <1>0, <2>3, <2>4
  <2> QED
    BY <1>0, <1>1, <2>1, <2>2, <2>3, <2>5, <2>6
<1>7. ASSUME NEW n \in Node, NEW m \in Node, Hear(n, m)
      PROVE  LinksTyped'
  <2> DEFINE new == [k \in {m} |-> forward_port(Cfg(m))]
  <2>1. /\ UNCHANGED <<target, disk, proc, faults>> /\ n # m /\ Up(m)
        /\ book' = [book EXCEPT ![n] = Over(new, book[n])]
    BY <1>7 DEF Hear
  <2>2. forward_port(Cfg(m)) \in Port
    BY <1>0, <2>1, FilesHaveToml, PortsOfProcess DEF Cfg
  <2>3. /\ DOMAIN book' = Node /\ book'[n] = Over(new, book[n])
        /\ \A k \in Node \ {n} : book'[k] = book[k]
    BY <1>0, <2>1
  <2>4. /\ DOMAIN book'[n] = {m} \cup DOMAIN book[n]
        /\ \A k \in DOMAIN book'[n] :
             book'[n][k] = IF k = m THEN forward_port(Cfg(m)) ELSE book[n][k]
    BY <2>3 DEF Over
  <2>5. /\ \A k \in Node : DOMAIN book'[k] \subseteq Node \ {k}
        /\ \A k \in Node : \A j \in DOMAIN book'[k] : book'[k][j] \in Port
    BY <1>0, <2>1, <2>2, <2>3, <2>4
  <2> QED
    BY <1>0, <1>1, <2>1, <2>3, <2>5 DEF Up
<1>8. ASSUME NEW n \in Node, NEW m \in Node, Forget(n, m)
      PROVE  LinksTyped'
  <2> DEFINE left == [k \in DOMAIN book[n] \ {m} |-> book[n][k]]
  <2>1. /\ UNCHANGED <<target, disk, proc>> /\ faults' \in 0..MaxFaults
        /\ book' = [book EXCEPT ![n] = left]
    BY <1>0, <1>8, LinksAssumption DEF Forget
  <2>2. /\ DOMAIN book' = Node /\ book'[n] = left
        /\ \A k \in Node \ {n} : book'[k] = book[k]
    BY <1>0, <2>1
  <2>3. /\ \A k \in Node : DOMAIN book'[k] \subseteq Node \ {k}
        /\ \A k \in Node : \A j \in DOMAIN book'[k] : book'[k][j] \in Port
    BY <1>0, <2>2
  <2> QED
    BY <1>0, <1>1, <2>1, <2>2, <2>3 DEF Up
<1>9. CASE UNCHANGED vars
  BY <1>0, <1>1, <1>9 DEF vars, Up
<1> QED
  BY <1>2, <1>3, <1>4, <1>5, <1>6, <1>7, <1>8, <1>9 DEF Next

\* The files, address books and processes are of their types, and a process
\* that runs has come through main's checks.
LEMMA TypedAlways == Spec => []LinksTyped
<1> QED
  BY TypedInit, TypedStep, PTL DEF Spec

-----------------------------------------------------------------------------
(* Calls.                                                                  *)

\* At the port a running node announces, a listener of its own scheme
\* answers: the two listeners of a node with mTLS have different ports.
LEMMA AnnouncedPortAnswers ==
    ASSUME LinksTyped, NEW m \in Node, Up(m), Honest(Cfg(m))
    PROVE  Listener(m, forward_port(Cfg(m))) = scheme(m)
<1>1. tls_bundle(Cfg(m)) => internal_port(Cfg(m)) # Cfg(m).port
  BY DEF LinksTyped, ProcStarted, Starts, Cfg
<1>2. CASE tls_bundle(Cfg(m))
  BY <1>1, <1>2 DEF Listener, forward_port, scheme
<1>3. CASE ~tls_bundle(Cfg(m))
  BY <1>3 DEF Listener, forward_port, scheme, Honest
<1> QED
  BY <1>2, <1>3

\* What then decides about a call.
LEMMA OutcomeAtAnnounced ==
    ASSUME LinksTyped, NEW n \in Node, NEW m \in Node, Up(m), Honest(Cfg(m)),
           book[n][m] = forward_port(Cfg(m)), auth_middleware(m, n)
    PROVE  Outcome(n, m) = IF scheme(m) # scheme(n) \/ ~Handshake(n, m)
                           THEN "handshake" ELSE "ok"
<1>1. Listener(m, book[n][m]) = scheme(m)
  BY AnnouncedPortAnswers
<1>2. scheme(m) # "none"
  BY DEF scheme
<1> QED
  BY <1>1, <1>2 DEF Outcome

\* Whoever trusts whom, the two sides of a handshake ask for the same.
LEMMA MutualLinks == LinksTyped => LinksAreMutual
<1> SUFFICES ASSUME LinksTyped PROVE LinksAreMutual
  OBVIOUS
<1>1. ASSUME NEW n \in Node, NEW m \in Node,
             Calls(n, m), Calls(m, n), Honest(Cfg(n)), Honest(Cfg(m)),
             book[n][m] = forward_port(Cfg(m)), book[m][n] = forward_port(Cfg(n)),
             auth_middleware(m, n), auth_middleware(n, m)
      PROVE  Outcome(n, m) = Outcome(m, n)
  <2>1. Up(n) /\ Up(m)
    BY <1>1 DEF Calls
  <2>2. Outcome(n, m) = IF scheme(m) # scheme(n) \/ ~Handshake(n, m)
                        THEN "handshake" ELSE "ok"
    BY <1>1, <2>1, OutcomeAtAnnounced
  <2>3. Outcome(m, n) = IF scheme(n) # scheme(m) \/ ~Handshake(m, n)
                        THEN "handshake" ELSE "ok"
    BY <1>1, <2>1, OutcomeAtAnnounced
  <2>4. scheme(n) = scheme(m) => (Handshake(n, m) <=> Handshake(m, n))
    BY DEF Handshake, ClientAccepts, ServerAccepts
  <2> QED
    BY <2>2, <2>3, <2>4
<1> QED
  BY <1>1 DEF LinksAreMutual, LinksTyped

\* Two running nodes with one token that know each other's address reach each
\* other both ways or not at all, whatever mixture of generations they run
\* (Starts, forward_port, load_or_generate, build_server_config).
THEOREM LinksAreMutualHolds == Spec => []LinksAreMutual
<1> QED
  BY TypedAlways, MutualLinks, PTL

-----------------------------------------------------------------------------
(* Rotation.                                                               *)

\* The generation being rolled out and the one before it.
Current == {g \in {target, target - 1} : g >= 1}

\* No node holds or runs anything older than the generation before the one
\* being rolled out, ...
FilesRecent ==
    \A n \in Node, p \in Part :
        /\ \E g \in Current : disk[n][p] = Plan[g][p]
        /\ Up(n) => \E g \in Current : proc[n][p] = Plan[g][p]

\* ... what a running node has on disk and not in memory is new, ...
OnlyNewOnDisk ==
    \A n \in Node, p \in Part :
        Up(n) => disk[n][p] \in {proc[n][p], Plan[target][p]}

\* ... and an address, however old, was announced under the settings of some
\* generation rolled out so far.
BookOfPlan ==
    \A n \in Node : \A m \in DOMAIN book[n] :
        \E g \in 1..target : book[n][m] = forward_port(load(m, Plan[g]))

RollOut == LinksTyped /\ FilesRecent /\ OnlyNewOnDisk /\ BookOfPlan

LEMMA RollOutInit == Init => RollOut
<1> SUFFICES ASSUME Init PROVE RollOut
  OBVIOUS
<1>1. LinksTyped
  BY TypedInit
<1>2. 1 \in Current
  BY DEF Init, Current
<1>3. \A n \in Node : disk[n] = Plan[1] /\ ~Up(n)
  BY DEF Init, Up
<1>4. DOMAIN << >> = {}
  OBVIOUS
<1>5. \A n \in Node : DOMAIN book[n] = {}
  BY <1>4 DEF Init
<1> QED
  BY <1>1, <1>2, <1>3, <1>5 DEF RollOut, FilesRecent, OnlyNewOnDisk, BookOfPlan

LEMMA RollOutStep ==
    ASSUME RollOut, [Next]_vars
    PROVE  RollOut'
<1>0. LinksTyped /\ LinksTyped'
  BY TypedStep DEF RollOut
<1>1. /\ target \in Nat /\ target \in Gen
      /\ DOMAIN disk = Node /\ DOMAIN proc = Node /\ DOMAIN book = Node
      /\ \A n \in Node : DOMAIN disk[n] = Part
  BY <1>0, LinksAssumption DEF LinksTyped, TypeOK, Gen
<1>2. /\ \A n \in Node, p \in Part : \E g \in Current : disk[n][p] = Plan[g][p]
      /\ \A n \in Node, p \in Part :
            proc[n] # Down => \E g \in Current : proc[n][p] = Plan[g][p]
      /\ \A n \in Node, p \in Part :
            proc[n] # Down => disk[n][p] \in {proc[n][p], Plan[target][p]}
      /\ \A n \in Node : \A m \in DOMAIN book[n] :
            \E g \in 1..target : book[n][m] = forward_port(load(m, Plan[g]))
  BY DEF RollOut, FilesRecent, OnlyNewOnDisk, BookOfPlan, Up
<1>3. target \in Current
  BY <1>1, LinksAssumption DEF Current, Gen
<1>4. ASSUME \A n \in Node, p \in Part : \E g \in Current' : disk'[n][p] = Plan[g][p],
             \A n \in Node, p \in Part :
                proc'[n] # Down => \E g \in Current' : proc'[n][p] = Plan[g][p],
             \A n \in Node, p \in Part :
                proc'[n] # Down => disk'[n][p] \in {proc'[n][p], Plan[target'][p]},
             \A n \in Node : \A m \in DOMAIN book'[n] :
                \E g \in 1..target' : book'[n][m] = forward_port(load(m, Plan[g]))
      PROVE  RollOut'
  BY <1>0, <1>4 DEF RollOut, FilesRecent, OnlyNewOnDisk, BookOfPlan, Up
<1>5. CASE Advance
  <2>1. /\ target' = target + 1 /\ UNCHANGED <<disk, proc, book>>
        /\ \A n \in Node : proc[n] = Plan[target]
    BY <1>5 DEF Advance
  <2>2. target \in Current'
    BY <1>1, <2>1, LinksAssumption DEF Current, Gen
  <2>3. \A n \in Node : DOMAIN proc[n] = Part /\ proc[n] # Down
    <3>1. DOMAIN Plan[target] = Part /\ "toml" \in Part
      BY <1>1, LinksAssumption DEF Part
    <3>2. DOMAIN Down = {}
      BY DEF Down
    <3> QED
      BY <2>1, <3>1, <3>2
  <2>4. \A n \in Node, p \in Part : proc[n][p] = Plan[target][p] /\ disk[n][p] = proc[n][p]
    BY <1>2, <2>1, <2>3
  <2>5. 1..target \subseteq 1..target'
    BY <1>1, <2>1
  <2> QED
    BY <1>2, <1>4, <2>1, <2>2, <2>4, <2>5
<1>6. ASSUME NEW n \in Node, NEW p \in Part, Install(n, p)
      PROVE  RollOut'
  <2>1. /\ UNCHANGED <<target, proc, book>>
        /\ disk' = [disk EXCEPT ![n][p] = Plan[target][p]]
    BY <1>6 DEF Install
  <2>2. Current' = Current
    BY <2>1 DEF Current
  <2>3. \A m \in Node, q \in Part :
          disk'[m][q] = IF m = n /\ q = p THEN Plan[target][p] ELSE disk[m][q]
    BY <1>1, <2>1
  <2> QED
    BY <1>2, <1>3, <1>4, <2>1, <2>2, <2>3
<1>7. ASSUME NEW n \in Node, Stop(n) \/ Crash(n)
      PROVE  RollOut'
  <2>1. UNCHANGED <<target, disk, book>> /\ proc' = [proc EXCEPT ![n] = Down]
    BY <1>7 DEF Stop, Crash
  <2>2. Current' = Current
    BY <2>1 DEF Current
  <2>3. \A m \in Node : proc'[m] = IF m = n THEN Down ELSE proc[m]
    BY <1>1, <2>1
  <2> QED
    BY <1>2, <1>4, <2>1, <2>2, <2>3
<1>8. ASSUME NEW n \in Node, Start(n)
      PROVE  RollOut'
  <2>1. /\ UNCHANGED <<target, disk>>
        /\ proc' = [proc EXCEPT ![n] = disk[n]]
        /\ book' = [book EXCEPT ![n] = << >>]
    BY <1>8 DEF Start
  <2>2. Current' = Current
    BY <2>1 DEF Current
  <2>3. \A m \in Node : proc'[m] = IF m = n THEN disk[n] ELSE proc[m]
    BY <1>1, <2>1
  <2>4. DOMAIN << >> = {}
    OBVIOUS
  <2>5. \A m \in Node : book'[m] = IF m = n THEN << >> ELSE book[m]
    BY <1>1, <2>1
  <2>6. \A m \in Node : \A k \in DOMAIN book'[m] :
          m # n /\ k \in DOMAIN book[m] /\ book'[m][k] = book[m][k]
    BY <2>4, <2>5
  <2> QED
    BY <1>2, <1>4, <2>1, <2>2, <2>3, <2>6
<1>9. ASSUME NEW n \in Node, NEW m \in Node, Hear(n, m)
      PROVE  RollOut'
  <2> DEFINE new == [k \in {m} |-> forward_port(Cfg(m))]
  <2>1. /\ UNCHANGED <<target, disk, proc>> /\ Up(m)
        /\ book' = [book EXCEPT ![n] = Over(new, book[n])]
    BY <1>9 DEF Hear
  <2>2. Current' = Current
    BY <2>1 DEF Current
  <2>3. \A k \in Node : book'[k] = IF k = n THEN Over(new, book[n]) ELSE book[k]
    BY <1>1, <2>1
  <2>4. \A k \in Node : \A j \in DOMAIN book'[k] :
          \/ j \in DOMAIN book[k] /\ book'[k][j] = book[k][j]
          \/ j = m /\ book'[k][j] = forward_port(Cfg(m))
    BY <2>3 DEF Over
  <2>5. PICK g \in Current : proc[m]["toml"] = Plan[g]["toml"]
    BY <1>2, <2>1 DEF Part, Up
  <2>6. g \in 1..target
    BY <1>1 DEF Current
  <2>7. Cfg(m) = load(m, Plan[g])
    BY <2>5 DEF Cfg, load
  <2>8. \A k \in Node : \A j \in DOMAIN book'[k] :
          \E h \in 1..target : book'[k][j] = forward_port(load(j, Plan[h]))
    BY <1>2, <2>4, <2>6, <2>7
  <2> QED
    BY <1>2, <1>4, <2>1, <2>2, <2>8
<1>10. ASSUME NEW n \in Node, NEW m \in Node, Forget(n, m)
       PROVE  RollOut'
  <2> DEFINE left == [k \in DOMAIN book[n] \ {m} |-> book[n][k]]
  <2>1. UNCHANGED <<target, disk, proc>> /\ book' = [book EXCEPT ![n] = left]
    BY <1>10 DEF Forget
  <2>2. Current' = Current
    BY <2>1 DEF Current
  <2>3. \A k \in Node : book'[k] = IF k = n THEN left ELSE book[k]
    BY <1>1, <2>1
  <2>4. \A k \in Node : \A j \in DOMAIN book'[k] :
          j \in DOMAIN book[k] /\ book'[k][j] = book[k][j]
    BY <2>3
  <2> QED
    BY <1>2, <1>4, <2>1, <2>2, <2>4
<1>11. CASE UNCHANGED vars
  <2>1. Current' = Current /\ UNCHANGED <<target, disk, proc, book>>
    BY <1>11 DEF Current, vars
  <2> QED
    BY <1>2, <1>4, <2>1
<1> QED
  BY <1>5, <1>6, <1>7, <1>8, <1>9, <1>10, <1>11 DEF Next

\* Under a rotation two running nodes have the settings of the first
\* generation, and trust each other's certificates.
LEMMA RotationLinks == RollOut => RotationKeepsLinks
<1> SUFFICES ASSUME RollOut, OnlyRotated, NEW n \in Node, NEW m \in Node,
                    Calls(n, m), Up(m)
             PROVE  Outcome(n, m) = "ok"
  BY DEF RotationKeepsLinks
<1>1. LinksTyped /\ Up(n) /\ m \in DOMAIN book[n]
  BY DEF RollOut, Calls
<1>2. target \in Nat /\ target >= 1 /\ 1 \in 1..target
  BY <1>1, LinksAssumption DEF LinksTyped, TypeOK, Gen
<1>3. /\ \A g \in 1..target : Plan[g]["toml"] = Plan[1]["toml"]
      /\ \A g, h \in Current : Plan[g]["cert"].issuer \in Plan[h]["ca"]
  <2>1. \A g \in Current : g \in 1..target
    BY <1>2 DEF Current
  <2>2. \A g, h \in Current : g - h \in -1..1
    BY <1>2 DEF Current
  <2> QED
    BY <1>2, <2>1, <2>2 DEF OnlyRotated
<1>4. \A k \in Node : Up(k) =>
         /\ \E g \in Current : proc[k]["toml"] = Plan[g]["toml"]
         /\ \E g \in Current : proc[k]["cert"] = Plan[g]["cert"]
         /\ \E g \in Current : proc[k]["ca"] = Plan[g]["ca"]
  BY DEF RollOut, FilesRecent, Part
<1>5. \A k \in Node : Up(k) => Cfg(k) = load(k, Plan[1])
  <2> SUFFICES ASSUME NEW k \in Node, Up(k) PROVE Cfg(k) = load(k, Plan[1])
    OBVIOUS
  <2>1. PICK g \in Current : proc[k]["toml"] = Plan[g]["toml"]
    BY <1>4
  <2>2. g \in 1..target
    BY <1>2 DEF Current
  <2> QED
    BY <1>3, <2>1, <2>2 DEF Cfg, load
<1>6. /\ Honest(Cfg(m)) /\ Honest(Cfg(n))
      /\ tls_bundle(Cfg(n)) <=> tls_bundle(Cfg(m))
      /\ tls_bundle(Cfg(n)) => Path \subseteq DOMAIN Cfg(n) /\ Path \subseteq DOMAIN Cfg(m)
      /\ auth_middleware(m, n)
  BY <1>1, <1>5 DEF OnlyRotated, Uniform, auth_middleware, tls_bundle
<1>7. book[n][m] = forward_port(Cfg(m))
  <2>1. PICK g \in 1..target : book[n][m] = forward_port(load(m, Plan[g]))
    BY <1>1 DEF RollOut, BookOfPlan
  <2>2. load(m, Plan[g]) = load(m, Plan[1])
    BY <1>3, <2>1 DEF load
  <2> QED
    BY <1>5, <2>1, <2>2
<1>8. Outcome(n, m) = IF scheme(m) # scheme(n) \/ ~Handshake(n, m)
                      THEN "handshake" ELSE "ok"
  BY <1>1, <1>6, <1>7, OutcomeAtAnnounced
<1>9. scheme(m) = scheme(n)
  BY <1>6 DEF scheme
<1>10. ASSUME tls_bundle(Cfg(n)) PROVE Handshake(n, m)
  <2>1. /\ Bundle(n).ca = proc[n]["ca"] /\ Bundle(n).cert = proc[n]["cert"]
        /\ Bundle(m).ca = proc[m]["ca"] /\ Bundle(m).cert = proc[m]["cert"]
    BY <1>6, <1>10 DEF Bundle, load_or_generate, Cfg
  <2>2. /\ proc[m]["cert"].issuer \in proc[n]["ca"]
        /\ proc[n]["cert"].issuer \in proc[m]["ca"]
    BY <1>1, <1>3, <1>4
  <2> QED
    BY <2>1, <2>2 DEF Handshake, ClientAccepts, ServerAccepts
<1>11. ~tls_bundle(Cfg(n)) => Handshake(n, m)
  BY DEF Handshake, scheme
<1> QED
  BY <1>8, <1>9, <1>10, <1>11

LEMMA RollOutAlways == Spec => []RollOut
<1> QED
  BY RollOutInit, RollOutStep, PTL DEF Spec

\* Rotating CA and certificates by rolling restarts, each generation of which
\* trusts its neighbours, never costs a call between two running nodes: for
\* any number of nodes and generations, crashes between two file
\* replacements included (load_or_generate, build_server_config,
\* ClusterRouter::new).
THEOREM RotationKeepsLinksHolds == Spec => []RotationKeepsLinks
<1> QED
  BY RollOutAlways, RotationLinks, PTL

=============================================================================
