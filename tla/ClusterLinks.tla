---------------------------- MODULE ClusterLinks ----------------------------
(***************************************************************************)
(* Whether a call from one node to another can succeed at all (config.rs,  *)
(* tls.rs, auth.rs, the set-up in main.rs, ClusterRouter::new in           *)
(* router.rs), while an operator rolls a new configuration out.            *)
(*                                                                         *)
(* A node reads its settings, CA bundle, certificate and key from four     *)
(* files when it starts and never again.  Plan is the sequence of          *)
(* generations of these files; the operator replaces them one at a time,   *)
(* restarts one node at a time and begins a generation when every node     *)
(* has the one before, as docs/security.md describes ("replace the files   *)
(* on disk, then restart one node at a time").  A node may crash between   *)
(* two replacements and come back with a mixture.                          *)
(*                                                                         *)
(* Settings are a function on the keys that are set: an Option that is     *)
(* None is a key outside its domain.  Each node is a host of its own; of   *)
(* an address only the port is kept.                                       *)
(***************************************************************************)
EXTENDS Integers, Sequences

CONSTANTS
    Node,
    Plan,         \* the generations: [toml (settings), ca (a set of CAs),
                  \* cert ([issuer, key]), key]
    Env,          \* Env[n]: the settings of n's environment variables
    MaxPort,      \* u16::MAX
    MaxFaults     \* bound on crashes and false verdicts of the detector

Gen == 1..Len(Plan)
Part == {"toml", "ca", "cert", "key"}     \* the files
Path == {"ca_cert_path", "node_cert_path", "node_key_path"}

PortKey == {"port", "api_port", "internal_port"}

\* The ports among some settings are of 16 bits.
PortsFit(settings) ==
    \A k \in PortKey \cap DOMAIN settings : settings[k] \in 0..MaxPort

ASSUME LinksAssumption ==
    /\ Len(Plan) \in Nat \ {0}
    /\ \A g \in Gen : DOMAIN Plan[g] = Part /\ PortsFit(Plan[g].toml)
    /\ DOMAIN Env = Node
    /\ \A n \in Node : PortsFit(Env[n])
    /\ MaxPort \in Nat /\ MaxPort >= 3000 /\ MaxFaults \in Nat

VARIABLES
    target,    \* the generation the operator is rolling out
    disk,      \* disk[n]: n's files
    proc,      \* proc[n]: the files as n's process has read them, or Down
    book,      \* book[n][m]: the port at which n calls m (ClusterState.addrs)
    faults

vars == <<target, disk, proc, book, faults>>

Down == << >>
Up(n) == proc[n] # Down

-----------------------------------------------------------------------------
(* What a process makes of the files it reads.                             *)

Default == [port |-> 3000, api_port |-> 3000, cluster_enabled |-> FALSE,
            tls_enabled |-> FALSE]

\* f where it has a value, else g.
Over(f, g) ==
    [k \in DOMAIN f \cup DOMAIN g |-> IF k \in DOMAIN f THEN f[k] ELSE g[k]]

\* FerrocacheConfig::load, tabulated for the settings files of the plan:
\* environment over file over defaults, key by key.
Loaded ==
    [n \in Node |-> [toml \in {Plan[g].toml : g \in Gen} |->
        Over(Env[n], Over(toml, Default))]]

load(n, f) == Loaded[n][f.toml]

internal_port(cfg) ==
    IF "internal_port" \in DOMAIN cfg THEN cfg.internal_port
    ELSE IF cfg.port + 1000 > MaxPort THEN MaxPort ELSE cfg.port + 1000

\* There is a bundle in cluster mode only.
tls_bundle(cfg) == cfg.cluster_enabled /\ cfg.tls_enabled

\* A CA of n's own that signs n's certificate and nothing else.
generate_ca(n) == <<"ferrocache-dev-ca", n>>
generate_node_cert(n) == [issuer |-> generate_ca(n), key |-> n]

\* With one path missing the files on disk are not used at all.
load_or_generate(n, f) ==
    IF Path \subseteq DOMAIN load(n, f)
    THEN [ca |-> f.ca, cert |-> f.cert, key |-> f.key]
    ELSE [ca |-> {generate_ca(n)},
          cert |-> generate_node_cert(n),
          key |-> generate_node_cert(n).key]

\* forward_addr: what the node tells the others by gossip.
forward_port(cfg) ==
    IF tls_bundle(cfg) THEN internal_port(cfg) ELSE cfg.api_port

\* main goes through to its listeners.  An empty CA file or a key that does
\* not fit its certificate is refused when the TLS configurations are built;
\* two listeners on one port end the process.
Starts(n, f) ==
    LET cfg == load(n, f)
        bundle == load_or_generate(n, f)
    IN  tls_bundle(cfg) =>
          /\ bundle.ca # {}
          /\ bundle.cert.key = bundle.key
          /\ internal_port(cfg) # cfg.port

-----------------------------------------------------------------------------
(* A call from n to m, from the settings each of them runs with.           *)

Cfg(n) == load(n, proc[n])
Bundle(n) == load_or_generate(n, proc[n])

\* What answers at the port: the public listener, the mTLS one, or nothing.
Listener(m, port) ==
    IF port = Cfg(m).port THEN "http"
    ELSE IF tls_bundle(Cfg(m)) /\ port = internal_port(Cfg(m)) THEN "https"
    ELSE "none"

\* ClusterRouter::scheme
scheme(n) == IF tls_bundle(Cfg(n)) THEN "https" ELSE "http"

\* The client trusts the CAs of its bundle and no others.
ClientAccepts(n, m) == Bundle(m).cert.issuer \in Bundle(n).ca

\* Mutant: the server trusts the CA that signed its own certificate.
ServerAccepts_OwnIssuer(m, n) == Bundle(n).cert.issuer = Bundle(m).cert.issuer

\* Mutant: the server asks for no client certificate.
ServerAccepts_Anyone(m, n) == TRUE

\* build_server_config: the client needs a certificate of one of the CAs.
ServerAccepts(m, n) == Bundle(n).cert.issuer \in Bundle(m).ca

Handshake(n, m) ==
    scheme(n) = "https" => ClientAccepts(n, m) /\ ServerAccepts(m, n)

\* An empty token installs no middleware at the server, but a client sends
\* any token it has.
auth_middleware(m, n) ==
    LET token == "auth_token"
    IN  token \in DOMAIN Cfg(m) /\ Cfg(m)[token] # ""
          => token \in DOMAIN Cfg(n) /\ Cfg(n)[token] = Cfg(m)[token]

Outcome(n, m) ==
    IF ~Up(m) \/ Listener(m, book[n][m]) = "none" THEN "refused"
    ELSE IF Listener(m, book[n][m]) # scheme(n) \/ ~Handshake(n, m)
         THEN "handshake"
    ELSE IF ~auth_middleware(m, n) THEN "unauthorized"
    ELSE "ok"

\* n can call m: the router runs in cluster mode and has an address.
Calls(n, m) == n # m /\ Up(n) /\ Cfg(n).cluster_enabled /\ m \in DOMAIN book[n]

-----------------------------------------------------------------------------
Init ==
    /\ target = 1
    /\ disk = [n \in Node |-> Plan[1]]
    /\ proc = [n \in Node |-> Down]
    /\ book = [n \in Node |-> << >>]
    /\ faults = 0

\* The operator goes on to the next generation: every node runs this one.
Advance ==
    /\ target < Len(Plan)
    /\ \A n \in Node : proc[n] = Plan[target]
    /\ target' = target + 1
    /\ UNCHANGED <<disk, proc, book, faults>>

\* The operator replaces one file.
Install(n, p) ==
    /\ disk[n][p] # Plan[target][p]
    /\ disk' = [disk EXCEPT ![n][p] = Plan[target][p]]
    /\ UNCHANGED <<target, proc, book, faults>>

\* The operator stops a node that has all new files, the others being up.
Stop(n) ==
    /\ \A m \in Node : Up(m)
    /\ disk[n] = Plan[target] /\ proc[n] # disk[n]
    /\ proc' = [proc EXCEPT ![n] = Down]
    /\ UNCHANGED <<target, disk, book, faults>>

Crash(n) ==
    /\ Up(n) /\ faults < MaxFaults
    /\ proc' = [proc EXCEPT ![n] = Down]
    /\ faults' = faults + 1
    /\ UNCHANGED <<target, disk, book>>

\* ClusterState::new begins with an empty address book.
Start(n) ==
    /\ ~Up(n) /\ Starts(n, disk[n])
    /\ proc' = [proc EXCEPT ![n] = disk[n]]
    /\ book' = [book EXCEPT ![n] = << >>]
    /\ UNCHANGED <<target, disk, faults>>

\* Mutant: an address that is known is not replaced.
Hear_Known(n, m) ==
    /\ n # m /\ Up(n) /\ Up(m)
    /\ Cfg(n).cluster_enabled /\ Cfg(m).cluster_enabled
    /\ book' = [book EXCEPT ![n] = Over(@, [k \in {m} |-> forward_port(Cfg(m))])]
    /\ UNCHANGED <<target, disk, proc, faults>>

\* n's reconciler hears m's present incarnation.  Until then the address of
\* an earlier one stays.
Hear(n, m) ==
    /\ n # m /\ Up(n) /\ Up(m)
    /\ Cfg(n).cluster_enabled /\ Cfg(m).cluster_enabled
    /\ book' = [book EXCEPT ![n] = Over([k \in {m} |-> forward_port(Cfg(m))], @)]
    /\ UNCHANGED <<target, disk, proc, faults>>

\* n's detector declares m Dead, rightly or, when m's heartbeats were late,
\* wrongly.
Forget(n, m) ==
    /\ Up(n) /\ m \in DOMAIN book[n]
    /\ \/ ~Up(m) /\ UNCHANGED faults
       \/ Up(m) /\ faults < MaxFaults /\ faults' = faults + 1
    /\ book' = [book EXCEPT ![n] = [k \in DOMAIN @ \ {m} |-> @[k]]]
    /\ UNCHANGED <<target, disk, proc>>

Next ==
    \/ Advance
    \/ \E n \in Node, p \in Part : Install(n, p)
    \/ \E n \in Node : Stop(n)
    \/ \E n \in Node : Crash(n) \/ Start(n)
    \/ \E n, m \in Node : Hear(n, m) \/ Forget(n, m)

\* The operator completes the plan and the supervisor restarts what stops;
\* gossip and the reconciler run every few seconds.
Fairness ==
    /\ WF_vars(Advance)
    /\ \A n \in Node : WF_vars(Start(n)) /\ WF_vars(Stop(n))
    /\ \A n \in Node, p \in Part : WF_vars(Install(n, p))
    /\ \A n, m \in Node : WF_vars(Hear(n, m))

Spec == Init /\ [][Next]_vars /\ Fairness

-----------------------------------------------------------------------------
Port == 0..MaxPort

\* Every port a node announces fits 16 bits, the derived ones included; files
\* are those of the plan.
TypeOK ==
    /\ target \in Gen
    /\ DOMAIN disk = Node /\ DOMAIN proc = Node /\ DOMAIN book = Node
    /\ \A n \in Node :
         /\ DOMAIN disk[n] = Part
         /\ \A p \in Part : \E g \in Gen : disk[n][p] = Plan[g][p]
         /\ Up(n) => DOMAIN proc[n] = Part
    /\ \A n \in Node : DOMAIN book[n] \subseteq Node \ {n}
    /\ \A n \in Node : \A m \in DOMAIN book[n] : book[n][m] \in Port
    /\ faults \in 0..MaxFaults

\* api_addr names the port the node listens at, if it is the one announced.
Honest(cfg) == tls_bundle(cfg) \/ cfg.api_port = cfg.port

\* With the settings of generation g the nodes agree on TLS and the token.
Uniform(g) ==
    \A n, m \in Node :
        LET c == load(n, Plan[g])
            d == load(m, Plan[g])
        IN  /\ Honest(c)
            /\ tls_bundle(c) = tls_bundle(d)
            /\ tls_bundle(c) => Path \subseteq DOMAIN c
            /\ "auth_token" \in DOMAIN c =>
                 "auth_token" \in DOMAIN d /\ c.auth_token = d.auth_token

\* So far only CAs and certificates were replaced, and each generation trusts
\* the certificates of the next and of the one before.
OnlyRotated ==
    /\ Uniform(1)
    /\ \A g, h \in 1..target : /\ Plan[g].toml = Plan[h].toml
                               /\ g - h \in -1..1 => Plan[g].cert.issuer \in Plan[h].ca

\* A rotation of CA and certificates by rolling restarts, each of whose
\* generations trusts its neighbours, never costs a call: whatever mixture of
\* files a crashed node came back with, and however old the address a caller
\* has, a call between two running nodes is accepted (load_or_generate,
\* build_server_config, ClusterRouter::new).
RotationKeepsLinks ==
    OnlyRotated =>
        \A n, m \in Node : Calls(n, m) /\ Up(m) => Outcome(n, m) = "ok"

\* Two nodes with one token that know each other's present address either
\* reach each other both ways or not at all, in every mixture of generations:
\* mTLS on one side only, a CA of one's own, certificates half rotated.  A
\* one-way link would leave a replica that takes inserts and never repairs.
\* (And the state is of its type, the announced ports of 16 bits.)
LinksAreMutual ==
  /\ TypeOK
  /\ \A n, m \in Node :
        (/\ Calls(n, m) /\ Calls(m, n)
         /\ Honest(Cfg(n)) /\ Honest(Cfg(m))
         /\ book[n][m] = forward_port(Cfg(m)) /\ book[m][n] = forward_port(Cfg(n))
         /\ auth_middleware(m, n) /\ auth_middleware(n, m))
            => Outcome(n, m) = Outcome(m, n)

\* Once the operator's plan is complete, and its last generation is the same
\* for all, every node reaches every other for good: no address of an earlier
\* generation stays in a book (forward_addr, reconcile_step).
UniformClusterConnects ==
    <>[](\A n, m \in Node : n # m => Calls(n, m) /\ Outcome(n, m) = "ok")

=============================================================================
