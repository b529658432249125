---------------------------- MODULE MetricsProofs ----------------------------
(***************************************************************************)
(* Proofs about Metrics: no update is lost and a page never goes back, for *)
(* any number of tasks, namespaces, buckets, calls and pages, and whatever *)
(* the order in which the updates of a call are seen.                      *)
(***************************************************************************)
EXTENDS Metrics, FiniteSetTheorems, TLAPS

-----------------------------------------------------------------------------
(* What is still to do.                                                    *)

\* The tasks with an update of A that is not seen yet.
Pending(tasks, A) == {t \in Task : \E u \in tasks[t].todo : u \in A}

Owed(A) == Cardinality(Pending(task, A))

\* The updates that are counted against each other.
Totals(c)     == {TotalOf(c)}
InSpaces(c)   == {OfNs(c, n) : n \in Namespace}
Counts(h)     == {CountOf(h)}
Bucket(h, i)  == {BucketOf(h, i)}

\* What a counter comes to once all updates are seen.
DueTotal(c)     == total[c] + Owed(Totals(c))
DueSum(c)       == SumOver(c) + Owed(InSpaces(c))
DueCount(h)     == hist[h].count + Owed(Counts(h))
DueBucket(h, i) == hist[h].bucket[i] + Owed(Bucket(h, i))

\* The counters agree on what is due, at any time.
Ledger ==
    /\ DueTotal("queries") = DueTotal("hit") + DueTotal("miss")
    /\ \A c \in NsCounter : IsFiniteSet(Counted(c)) /\ DueTotal(c) = DueSum(c)
    /\ DueCount("query") = DueTotal("queries")
    /\ DueCount("insert") = DueTotal("insert")
    /\ \A h \in Hist, i \in 1..Buckets :
         DueBucket(h, i) <= IF i = Buckets THEN DueCount(h) ELSE DueBucket(h, i + 1)

\* A call is about one namespace.
OneNs(s) == \A u, v \in s : u.kind = "ns" /\ v.kind = "ns" => u = v

\* Only a namespace's counter makes a task go for the write lock.
Waiting ==
    \A t \in Task : \A u \in task[t].write : u \in task[t].todo /\ u.kind = "ns"

\* The part of the page that has line l.
PartOf(l) ==
    CASE l.kind = "total" -> 1
      [] l.kind = "ns"    -> 2
      [] OTHER            -> 3

PartNow ==
    CASE page.pc = "off"    -> 0
      [] page.pc = "totals" -> 1
      [] page.pc = "ns"     -> 2
      [] page.pc = "hists"  -> 3

\* What pages have shown is not ahead of the counters, and a line that the
\* page before had is read, or is still to be read.
Shown ==
    /\ \A l \in Line : last[l] <= ValueOf(l) /\ page.seen[l] <= ValueOf(l)
    /\ \A l \in Line : last[l] > 0 =>
         \/ page.seen[l] >= last[l]
         \/ l \in page.todo
         \/ PartNow < PartOf(l)

MetricsInv ==
    /\ TypeOK
    /\ \A t \in Task : OneNs(task[t].todo)
    /\ Waiting
    /\ Ledger
    /\ Shown

-----------------------------------------------------------------------------
(* Updates.                                                                *)

\* Every update is one of the five kinds, with the fields of its kind.
LEMMA CellKinds ==
    ASSUME NEW u \in Cell
    PROVE  /\ u.kind \in {"total", "ns", "bucket", "sum", "count"}
           /\ u.kind = "total" => u.c \in Total /\ u = TotalOf(u.c)
           /\ u.kind = "ns" =>
                u.c \in NsCounter /\ u.n \in Namespace /\ u = OfNs(u.c, u.n)
           /\ u.kind = "bucket" =>
                u.c \in Hist /\ u.i \in 1..Buckets /\ u = BucketOf(u.c, u.i)
           /\ u.kind = "sum" =>
                u.c \in Hist /\ u.i \in {0} \cup Latency /\ u = SumOf(u.c, u.i)
           /\ u.kind = "count" => u.c \in Hist /\ u = CountOf(u.c)
<1>1. CASE \E c \in Total : u = TotalOf(c)
  BY <1>1 DEF TotalOf
<1>2. CASE \E c \in NsCounter, n \in Namespace : u = OfNs(c, n)
  BY <1>2 DEF OfNs
<1>3. CASE \E h \in Hist, i \in 1..Buckets : u = BucketOf(h, i)
  BY <1>3 DEF BucketOf
<1>4. CASE \E h \in Hist, d \in {0} \cup Latency : u = SumOf(h, d)
  BY <1>4 DEF SumOf
<1>5. CASE \E h \in Hist : u = CountOf(h)
  BY <1>5 DEF CountOf
<1> QED BY <1>1, <1>2, <1>3, <1>4, <1>5 DEF Cell

\* The sets of updates that are counted against each other, by their fields.
LEMMA CellSets ==
    ASSUME NEW u \in Cell
    PROVE  /\ \A c : u \in Totals(c) <=> u.kind = "total" /\ u.c = c
           /\ \A c : u \in InSpaces(c) <=> u.kind = "ns" /\ u.c = c
           /\ \A h : u \in Counts(h) <=> u.kind = "count" /\ u.c = h
           /\ \A h, i : u \in Bucket(h, i) <=> u.kind = "bucket" /\ u.c = h /\ u.i = i
<1>1. \A c : u = TotalOf(c) <=> u.kind = "total" /\ u.c = c
  BY CellKinds DEF TotalOf
<1>2. \A c : (\E n \in Namespace : u = OfNs(c, n)) <=> u.kind = "ns" /\ u.c = c
  BY CellKinds DEF OfNs
<1>3. \A h : u = CountOf(h) <=> u.kind = "count" /\ u.c = h
  BY CellKinds DEF CountOf
<1>4. \A h, i : u = BucketOf(h, i) <=> u.kind = "bucket" /\ u.c = h /\ u.i = i
  BY CellKinds DEF BucketOf
<1> QED BY <1>1, <1>2, <1>3, <1>4 DEF Totals, InSpaces, Counts, Bucket

-----------------------------------------------------------------------------
(* How many tasks have an update to do.                                    *)

LEMMA PendingFinite ==
    ASSUME NEW tasks, NEW A
    PROVE  /\ IsFiniteSet(Pending(tasks, A))
           /\ Cardinality(Pending(tasks, A)) \in Nat
<1>1. IsFiniteSet(Task) /\ Pending(tasks, A) \subseteq Task
  BY MetricsAssumption DEF Pending
<1> QED BY <1>1, FS_Subset, FS_CardinalityType

\* Update u of task t is seen, and the others wait.
Advances(tasks, tasks2, t, u) ==
    /\ u \in tasks[t].todo
    /\ tasks2[t].todo = tasks[t].todo \ {u}
    /\ \A x \in Task \ {t} : tasks2[x].todo = tasks[x].todo

LEMMA PendingAdvances ==
    ASSUME NEW tasks, NEW tasks2, NEW t \in Task, NEW u, NEW A,
           Advances(tasks, tasks2, t, u),
           \A v \in tasks[t].todo : u \in A /\ v \in A => v = u
    PROVE  LET before == Cardinality(Pending(tasks, A))
               after == Cardinality(Pending(tasks2, A))
           IN  /\ before \in Nat /\ after \in Nat
               /\ u \in A => after + 1 = before
               /\ u \notin A => after = before
<1>1. PICK P, Q : P = Pending(tasks, A) /\ Q = Pending(tasks2, A)
  OBVIOUS
<1>2. IsFiniteSet(P) /\ Cardinality(P) \in Nat /\ Cardinality(Q) \in Nat
  BY <1>1, PendingFinite
<1>3. P \subseteq Task /\ Q \subseteq Task
  BY <1>1 DEF Pending
<1>4. \A x \in Task \ {t} : x \in P <=> x \in Q
  BY <1>1 DEF Pending, Advances
<1>5. CASE u \in A
  <2>1. t \in P /\ t \notin Q
    BY <1>1, <1>5 DEF Pending, Advances
  <2>2. Q = P \ {t}
    BY <1>3, <1>4, <2>1
  <2>3. Cardinality(P \ {t}) = Cardinality(P) - 1
    BY <1>2, <2>1, FS_RemoveElement
  <2> QED BY <1>1, <1>2, <1>5, <2>2, <2>3
<1>6. CASE u \notin A
  <2>1. t \in P <=> t \in Q
    BY <1>1, <1>6 DEF Pending, Advances
  <2>2. Q = P
    BY <1>3, <1>4, <2>1
  <2> QED BY <1>1, <1>2, <1>6, <2>2
<1> QED BY <1>5, <1>6

\* Idle task t begins a call with updates s, and the others wait.
Starts(tasks, tasks2, t, s) ==
    /\ tasks[t].todo = {} /\ tasks2[t].todo = s
    /\ \A x \in Task \ {t} : tasks2[x].todo = tasks[x].todo

Has(s, A) == \E u \in s : u \in A

LEMMA PendingStarts ==
    ASSUME NEW tasks, NEW tasks2, NEW t \in Task, NEW s, NEW A,
           Starts(tasks, tasks2, t, s)
    PROVE  LET before == Cardinality(Pending(tasks, A))
               after == Cardinality(Pending(tasks2, A))
           IN  /\ before \in Nat /\ after \in Nat
               /\ Has(s, A) => after = before + 1
               /\ ~Has(s, A) => after = before
<1>1. PICK P, Q : P = Pending(tasks, A) /\ Q = Pending(tasks2, A)
  OBVIOUS
<1>2. IsFiniteSet(P) /\ Cardinality(P) \in Nat /\ Cardinality(Q) \in Nat
  BY <1>1, PendingFinite
<1>3. P \subseteq Task /\ Q \subseteq Task
  BY <1>1 DEF Pending
<1>4. /\ \A x \in Task \ {t} : x \in P <=> x \in Q
      /\ t \notin P /\ (t \in Q <=> Has(s, A))
  BY <1>1 DEF Pending, Starts, Has
<1>5. CASE Has(s, A)
  <2>1. Q = P \cup {t}
    BY <1>3, <1>4, <1>5
  <2>2. Cardinality(P \cup {t}) = Cardinality(P) + 1
    BY <1>2, <1>4, FS_AddElement
  <2> QED BY <1>1, <1>2, <1>5, <2>1, <2>2
<1>6. CASE ~Has(s, A)
  <2>1. Q = P
    BY <1>3, <1>4, <1>6
  <2> QED BY <1>1, <1>2, <1>6, <2>1
<1> QED BY <1>5, <1>6

-----------------------------------------------------------------------------
(* A call raises what is due alike.                                        *)

Fresh(s) ==
    /\ Has(s, Totals("queries")) <=> Has(s, Totals("hit")) \/ Has(s, Totals("miss"))
    /\ ~(Has(s, Totals("hit")) /\ Has(s, Totals("miss")))
    /\ \A c \in NsCounter : Has(s, Totals(c)) <=> Has(s, InSpaces(c))
    /\ Has(s, Counts("query")) <=> Has(s, Totals("queries"))
    /\ Has(s, Counts("insert")) <=> Has(s, Totals("insert"))
    /\ \A h \in Hist, i \in 1..Buckets : Has(s, Bucket(h, i)) =>
         Has(s, IF i = Buckets THEN Counts(h) ELSE Bucket(h, i + 1))

\* The updates are told apart by what they update.
LEMMA Distinct ==
    /\ \A c, d : TotalOf(c) = TotalOf(d) => c = d
    /\ \A c, n, d, m : OfNs(c, n) = OfNs(d, m) => c = d /\ n = m
    /\ \A h, i, g, j : BucketOf(h, i) = BucketOf(g, j) => h = g /\ i = j
    /\ \A h, g : CountOf(h) = CountOf(g) => h = g
    /\ \A c, d, n : TotalOf(c) # OfNs(d, n)
    /\ \A c, h, i : TotalOf(c) # BucketOf(h, i)
    /\ \A c, h, d : TotalOf(c) # SumOf(h, d)
    /\ \A c, h : TotalOf(c) # CountOf(h)
    /\ \A c, n, h, i : OfNs(c, n) # BucketOf(h, i)
    /\ \A c, n, h, d : OfNs(c, n) # SumOf(h, d)
    /\ \A c, n, h : OfNs(c, n) # CountOf(h)
    /\ \A h, i, g, d : BucketOf(h, i) # SumOf(g, d)
    /\ \A h, i, g : BucketOf(h, i) # CountOf(g)
    /\ \A h, d, g : SumOf(h, d) # CountOf(g)
<1>1. /\ \A c : TotalOf(c).kind = "total" /\ TotalOf(c).c = c
      /\ \A c, n : OfNs(c, n).kind = "ns" /\ OfNs(c, n).c = c /\ OfNs(c, n).n = n
      /\ \A h, i : /\ BucketOf(h, i).kind = "bucket" /\ BucketOf(h, i).c = h
                   /\ BucketOf(h, i).i = i
      /\ \A h, d : SumOf(h, d).kind = "sum"
      /\ \A h : CountOf(h).kind = "count" /\ CountOf(h).c = h
  BY DEF TotalOf, OfNs, BucketOf, SumOf, CountOf
<1> QED BY <1>1

\* Set s has the updates of counters C, of these per namespace of N, and of a
\* histogram if h is one.
Updates(s, C, N, n, h, d) ==
    s = {TotalOf(c) : c \in C} \cup {OfNs(c, n) : c \in N}
          \cup (IF h \in Hist THEN observe(h, d) ELSE {})

Says(s, C, N, n, h, d) ==
    /\ s \subseteq Cell
    /\ \A c : Has(s, Totals(c)) <=> c \in C
    /\ \A c : Has(s, InSpaces(c)) <=> c \in N
    /\ \A g : Has(s, Counts(g)) <=> h \in Hist /\ g = h
    /\ \A g, i : Has(s, Bucket(g, i)) <=> h \in Hist /\ g = h /\ i \in d..Buckets
    /\ \A u \in s : u.kind = "ns" => u \in {OfNs(c, n) : c \in N}

LEMMA UpdatesSay ==
    ASSUME NEW C \in SUBSET Total, NEW N \in SUBSET NsCounter,
           NEW n \in Namespace, NEW h, NEW d \in Latency, NEW s,
           Updates(s, C, N, n, h, d)
    PROVE  Says(s, C, N, n, h, d)
<1>0. Buckets \in Nat /\ d \in 1..(Buckets + 1) /\ d..Buckets \subseteq 1..Buckets
  BY MetricsAssumption DEF Latency
<1>1. \A u : u \in s <=>
        \/ \E c \in C : u = TotalOf(c)
        \/ \E c \in N : u = OfNs(c, n)
        \/ /\ h \in Hist
           /\ \/ \E i \in d..Buckets : u = BucketOf(h, i)
              \/ u = SumOf(h, d)
              \/ u = CountOf(h)
  BY DEF Updates, observe
<1>2. s \subseteq Cell
  BY <1>0, <1>1 DEF Cell
<1>3. \A c : Has(s, Totals(c)) <=> c \in C
  BY <1>1, Distinct DEF Has, Totals
<1>4. \A c : Has(s, InSpaces(c)) <=> c \in N
  BY <1>1, Distinct DEF Has, InSpaces
<1>5. \A g : Has(s, Counts(g)) <=> h \in Hist /\ g = h
  BY <1>1, Distinct DEF Has, Counts
<1>6. \A g, i : Has(s, Bucket(g, i)) <=> h \in Hist /\ g = h /\ i \in d..Buckets
  BY <1>1, Distinct DEF Has, Bucket
<1>7. ASSUME NEW u \in s, u.kind = "ns"
      PROVE  u \in {OfNs(c, n) : c \in N}
  <2>1. \A c : TotalOf(c).kind = "total"
    BY DEF TotalOf
  <2>2. /\ \A i : BucketOf(h, i).kind = "bucket"
        /\ SumOf(h, d).kind = "sum" /\ CountOf(h).kind = "count"
    BY DEF BucketOf, SumOf, CountOf
  <2> QED BY <1>1, <1>7, <2>1, <2>2
<1> QED BY <1>2, <1>3, <1>4, <1>5, <1>6, <1>7 DEF Says

LEMMA UpdatesFresh ==
    ASSUME NEW C \in SUBSET Total, NEW N \in SUBSET NsCounter,
           NEW n \in Namespace, NEW h, NEW d \in Latency, NEW s,
           Updates(s, C, N, n, h, d),
           "queries" \in C <=> "hit" \in C \/ "miss" \in C,
           ~("hit" \in C /\ "miss" \in C),
           \A c \in NsCounter : c \in C <=> c \in N,
           \A c, e \in N : c = e,
           h = "query" <=> "queries" \in C, h = "insert" <=> "insert" \in C
    PROVE  s \subseteq Cell /\ Fresh(s) /\ OneNs(s)
<1>0. Buckets \in Nat /\ d \in 1..(Buckets + 1)
  BY MetricsAssumption DEF Latency
<1>a. Says(s, C, N, n, h, d)
  BY UpdatesSay
<1>1. /\ s \subseteq Cell
      /\ \A c : Has(s, Totals(c)) <=> c \in C
      /\ \A c : Has(s, InSpaces(c)) <=> c \in N
      /\ \A g : Has(s, Counts(g)) <=> h \in Hist /\ g = h
      /\ \A g, i : Has(s, Bucket(g, i)) <=> h \in Hist /\ g = h /\ i \in d..Buckets
      /\ \A u \in s : u.kind = "ns" => u \in {OfNs(c, n) : c \in N}
  BY <1>a DEF Says
<1>2. OneNs(s)
  BY <1>1 DEF OneNs
<1>3. ASSUME NEW g \in Hist, NEW i \in 1..Buckets, Has(s, Bucket(g, i))
      PROVE  Has(s, IF i = Buckets THEN Counts(g) ELSE Bucket(g, i + 1))
  <2>1. h \in Hist /\ g = h /\ i \in d..Buckets
    BY <1>1, <1>3
  <2>2. CASE i = Buckets
    BY <1>1, <2>1, <2>2
  <2>3. CASE i # Buckets
    <3>1. i + 1 \in d..Buckets
      BY <1>0, <2>1, <2>3
    <3>2. Has(s, Bucket(g, i + 1))
      BY <1>1, <2>1, <3>1
    <3> QED BY <2>3, <3>2
  <2> QED BY <2>2, <2>3
<1>4. "query" \in Hist /\ "insert" \in Hist
  BY DEF Hist
<1> QED BY <1>1, <1>2, <1>3, <1>4 DEF Fresh

\* Whatever a record_* function updates belongs together.
LEMMA RecordFresh ==
    ASSUME NEW c \in NsCounter \cup Plain, NEW n \in Namespace, NEW d \in Latency
    PROVE  LET s == Record(c, n, d) IN s \subseteq Cell /\ Fresh(s) /\ OneNs(s)
<1>1. PICK s : s = Record(c, n, d)
  OBVIOUS
<1>2. CASE c \in {"hit", "miss"}
  <2>0. s = {TotalOf("queries"), TotalOf(c), OfNs(c, n)} \cup observe("query", d)
    <3>1. s = record_query(c, n, d)
      BY <1>1, <1>2 DEF Record, Plain
    <3> QED BY <3>1 DEF record_query
  <2>a. /\ {TotalOf(x) : x \in {"queries", c}} = {TotalOf("queries"), TotalOf(c)}
        /\ {OfNs(x, n) : x \in {c}} = {OfNs(c, n)}
    OBVIOUS
  <2>b. "query" \in Hist
    BY DEF Hist
  <2>1. Updates(s, {"queries", c}, {c}, n, "query", d)
    BY <2>0, <2>a, <2>b DEF Updates
  <2>2. {"queries", c} \subseteq Total /\ {c} \subseteq NsCounter
    BY <1>2 DEF Total, NsCounter
  <2>3. \A e \in NsCounter : e \in {"queries", c} <=> e \in {c}
    BY DEF NsCounter
  <2>4. "insert" \notin {"queries", c} /\ ~("hit" \in {"queries", c} /\ "miss" \in {"queries", c})
    BY <1>2
  <2> QED BY <1>1, <1>2, <2>1, <2>2, <2>3, <2>4, UpdatesFresh
<1>3. CASE c = "insert"
  <2>0. s = {TotalOf("insert"), OfNs("insert", n)} \cup observe("insert", d)
    <3>1. s = record_insert(n, d)
      BY <1>1, <1>3 DEF Record, Plain
    <3> QED BY <3>1 DEF record_insert
  <2>a. /\ {TotalOf(x) : x \in {"insert"}} = {TotalOf("insert")}
        /\ {OfNs(x, n) : x \in {"insert"}} = {OfNs("insert", n)}
    OBVIOUS
  <2>b. "insert" \in Hist
    BY DEF Hist
  <2>1. Updates(s, {"insert"}, {"insert"}, n, "insert", d)
    BY <2>0, <2>a, <2>b DEF Updates
  <2>2. {"insert"} \subseteq Total /\ {"insert"} \subseteq NsCounter
    BY DEF Total, NsCounter
  <2> QED BY <1>1, <2>1, <2>2, UpdatesFresh
<1>4. CASE c \in Plain
  <2>1. Updates(s, {c}, {}, n, "none", d)
    BY <1>1, <1>4 DEF Updates, Record, record_plain, Hist, Plain
  <2>2. {c} \subseteq Total /\ c \notin NsCounter /\ c # "queries"
    BY <1>4 DEF Total, NsCounter, Plain
  <2>3. c \notin {"hit", "miss", "insert", "queries"}
    BY <1>4 DEF Plain
  <2> QED BY <1>1, <2>1, <2>2, <2>3, UpdatesFresh
<1>5. CASE c \in NsCounter \ {"hit", "miss", "insert"}
  <2>1. Updates(s, {c}, {c}, n, "none", d)
    BY <1>1, <1>5 DEF Updates, Record, record_removal, record_exact_match_hit, Hist,
                      Plain, NsCounter
  <2>2. {c} \subseteq Total /\ {c} \subseteq NsCounter
    BY <1>5 DEF Total
  <2>3. c \notin {"hit", "miss", "insert", "queries"}
    BY <1>5 DEF NsCounter
  <2> QED BY <1>1, <2>1, <2>2, <2>3, UpdatesFresh
<1> QED BY <1>2, <1>3, <1>4, <1>5

-----------------------------------------------------------------------------
(* Sums over the namespaces.                                               *)

CountedIn(b, c) == UNION {{n} \X (1..b[n][c]) : n \in DOMAIN b}

\* Map b with the counters of n changed, n being put in if it is not there.
Puts(b, b2, n) ==
    /\ DOMAIN b2 = DOMAIN b \cup {n}
    /\ \A m \in DOMAIN b \ {n} : b2[m] = b[m]

\* A counter that stays, or starts at zero, leaves the sum alone.
LEMMA CountedStays ==
    ASSUME NEW b, NEW b2, NEW n, NEW c, Puts(b, b2, n),
           IF n \in DOMAIN b THEN b2[n][c] = b[n][c] ELSE b2[n][c] = 0
    PROVE  CountedIn(b2, c) = CountedIn(b, c)
<1>1. ASSUME NEW p \in CountedIn(b2, c)
      PROVE  p \in CountedIn(b, c)
  <2>1. PICK m \in DOMAIN b2 : p \in {m} \X (1..b2[m][c])
    BY DEF CountedIn
  <2>2. CASE m \in DOMAIN b
    <3>1. b2[m][c] = b[m][c]
      BY <2>2 DEF Puts
    <3> QED BY <2>1, <2>2, <3>1 DEF CountedIn
  <2>3. CASE m \notin DOMAIN b
    <3>1. b2[m][c] = 0
      BY <2>1, <2>3 DEF Puts
    <3> QED BY <2>1, <3>1
  <2> QED BY <2>2, <2>3
<1>2. ASSUME NEW p \in CountedIn(b, c)
      PROVE  p \in CountedIn(b2, c)
  <2>1. PICK m \in DOMAIN b : p \in {m} \X (1..b[m][c])
    BY DEF CountedIn
  <2>2. m \in DOMAIN b2 /\ b2[m][c] = b[m][c]
    BY <2>1 DEF Puts
  <2> QED BY <2>1, <2>2 DEF CountedIn
<1> QED BY <1>1, <1>2

\* A counter that goes up by one takes the sum with it.
LEMMA CountedGrows ==
    ASSUME NEW b, NEW b2, NEW n, NEW c, Puts(b, b2, n), NEW old \in Nat,
           IF n \in DOMAIN b THEN old = b[n][c] ELSE old = 0,
           b2[n][c] = old + 1, IsFiniteSet(CountedIn(b, c))
    PROVE  /\ IsFiniteSet(CountedIn(b2, c))
           /\ Cardinality(CountedIn(b2, c)) = Cardinality(CountedIn(b, c)) + 1
<1>1. <<n, old + 1>> \notin CountedIn(b, c)
  <2> SUFFICES ASSUME NEW m \in DOMAIN b, <<n, old + 1>> \in {m} \X (1..b[m][c])
               PROVE  FALSE
    BY DEF CountedIn
  <2>1. m = n /\ old + 1 \in 1..b[m][c]
    OBVIOUS
  <2> QED BY <2>1
<1>2. ASSUME NEW p \in CountedIn(b2, c)
      PROVE  p \in CountedIn(b, c) \cup {<<n, old + 1>>}
  <2>1. PICK m \in DOMAIN b2 : \E k \in 1..b2[m][c] : p = <<m, k>>
    BY DEF CountedIn
  <2>2. PICK k \in 1..b2[m][c] : p = <<m, k>>
    BY <2>1
  <2>3. CASE m # n
    <3>1. m \in DOMAIN b /\ b2[m][c] = b[m][c]
      BY <2>1, <2>3 DEF Puts
    <3> QED BY <2>2, <3>1 DEF CountedIn
  <2>4. CASE m = n /\ k = old + 1
    BY <2>2, <2>4
  <2>5. CASE m = n /\ k # old + 1
    <3>1. k \in 1..old
      BY <2>2, <2>5
    <3>2. n \in DOMAIN b /\ k \in 1..b[n][c]
      BY <3>1
    <3> QED BY <2>2, <2>5, <3>2 DEF CountedIn
  <2> QED BY <2>3, <2>4, <2>5
<1>3. ASSUME NEW p \in CountedIn(b, c)
      PROVE  p \in CountedIn(b2, c)
  <2>1. PICK m \in DOMAIN b : \E k \in 1..b[m][c] : p = <<m, k>>
    BY DEF CountedIn
  <2>2. PICK k \in 1..b[m][c] : p = <<m, k>>
    BY <2>1
  <2>3. m \in DOMAIN b2 /\ k \in 1..b2[m][c]
    <3>1. CASE m = n
      BY <2>1, <2>2, <3>1 DEF Puts
    <3>2. CASE m # n
      BY <2>1, <2>2, <3>2 DEF Puts
    <3> QED BY <3>1, <3>2
  <2> QED BY <2>2, <2>3 DEF CountedIn
<1>4. <<n, old + 1>> \in CountedIn(b2, c)
  <2>1. n \in DOMAIN b2 /\ old + 1 \in 1..b2[n][c]
    BY DEF Puts
  <2> QED BY <2>1 DEF CountedIn
<1>5. CountedIn(b2, c) = CountedIn(b, c) \cup {<<n, old + 1>>}
  BY <1>2, <1>3, <1>4
<1> QED BY <1>1, <1>5, FS_AddElement

-----------------------------------------------------------------------------
(* The ledger.                                                             *)

\* Update u is carried out: its counter goes up by one, and no other moves.
Applies(u) ==
    /\ \A c \in Total : total'[c] =
         IF u.kind = "total" /\ u.c = c THEN total[c] + 1 ELSE total[c]
    /\ \A h \in Hist : hist'[h].count =
         IF u.kind = "count" /\ u.c = h THEN hist[h].count + 1 ELSE hist[h].count
    /\ \A h \in Hist, i \in 1..Buckets : hist'[h].bucket[i] =
         IF u.kind = "bucket" /\ u.c = h /\ u.i = i
         THEN hist[h].bucket[i] + 1 ELSE hist[h].bucket[i]
    /\ \A c \in NsCounter : IsFiniteSet(CountedIn(byNs', c))
    /\ \A c \in NsCounter : Cardinality(CountedIn(byNs', c)) =
         IF u.kind = "ns" /\ u.c = c
         THEN Cardinality(CountedIn(byNs, c)) + 1
         ELSE Cardinality(CountedIn(byNs, c))

\* Once update u is seen the same is due as before: what a counter gains, a
\* task no longer has to do.
LEMMA DuesStay ==
    ASSUME TypeOK, NEW t \in Task, NEW u, OneNs(task[t].todo),
           Advances(task, task', t, u), Applies(u),
           \A c \in NsCounter : IsFiniteSet(CountedIn(byNs, c))
    PROVE  /\ \A c \in Total : DueTotal(c)' = DueTotal(c)
           /\ \A c \in NsCounter : IsFiniteSet(Counted(c)') /\ DueSum(c)' = DueSum(c)
           /\ \A h \in Hist : DueCount(h)' = DueCount(h)
           /\ \A h \in Hist, i \in 1..Buckets : DueBucket(h, i)' = DueBucket(h, i)
<1> DEFINE Was(A) == Cardinality(Pending(task, A))
           Is(A) == Cardinality(Pending(task', A))
<1>1. task[t].todo \subseteq Cell /\ u \in task[t].todo
  BY DEF TypeOK, Advances
<1>2. u \in Cell
  BY <1>1
<1>3. ASSUME NEW A, \A v \in task[t].todo : u \in A /\ v \in A => v = u
      PROVE  /\ Was(A) \in Nat /\ Is(A) \in Nat
             /\ u \in A => Is(A) + 1 = Was(A)
             /\ u \notin A => Is(A) = Was(A)
  BY <1>3, PendingAdvances
<1> HIDE DEF Was, Is
<1>4. ASSUME NEW c \in Total
      PROVE  DueTotal(c)' = DueTotal(c)
  <2>1. u \in Totals(c) <=> u.kind = "total" /\ u.c = c
    BY <1>2, CellSets
  <2>2. \A v \in task[t].todo : u \in Totals(c) /\ v \in Totals(c) => v = u
    BY DEF Totals
  <2>3. /\ Was(Totals(c)) \in Nat /\ Is(Totals(c)) \in Nat
        /\ u \in Totals(c) => Is(Totals(c)) + 1 = Was(Totals(c))
        /\ u \notin Totals(c) => Is(Totals(c)) = Was(Totals(c))
    BY <1>3, <2>2
  <2>4. /\ total[c] \in Nat
        /\ u \in Totals(c) => total'[c] = total[c] + 1
        /\ u \notin Totals(c) => total'[c] = total[c]
    BY <2>1 DEF TypeOK, Applies
  <2>5. total'[c] + Is(Totals(c)) = total[c] + Was(Totals(c))
    BY <2>3, <2>4
  <2> QED BY <2>5 DEF DueTotal, Owed, Was, Is
<1>5. ASSUME NEW c \in NsCounter
      PROVE  IsFiniteSet(Counted(c)') /\ DueSum(c)' = DueSum(c)
  <2>1. \A v \in Cell : v \in InSpaces(c) <=> v.kind = "ns" /\ v.c = c
    BY CellSets
  <2>2. \A v \in task[t].todo : u \in InSpaces(c) /\ v \in InSpaces(c) => v = u
    BY <1>1, <2>1 DEF OneNs
  <2>3. /\ Was(InSpaces(c)) \in Nat /\ Is(InSpaces(c)) \in Nat
        /\ u \in InSpaces(c) => Is(InSpaces(c)) + 1 = Was(InSpaces(c))
        /\ u \notin InSpaces(c) => Is(InSpaces(c)) = Was(InSpaces(c))
    BY <1>3, <2>2
  <2>4. Cardinality(CountedIn(byNs, c)) \in Nat /\ IsFiniteSet(CountedIn(byNs', c))
    BY FS_CardinalityType DEF Applies
  <2>5. /\ u \in InSpaces(c) =>
             Cardinality(CountedIn(byNs', c)) = Cardinality(CountedIn(byNs, c)) + 1
        /\ u \notin InSpaces(c) =>
             Cardinality(CountedIn(byNs', c)) = Cardinality(CountedIn(byNs, c))
    BY <1>2, <2>1 DEF Applies
  <2>6. Cardinality(CountedIn(byNs', c)) + Is(InSpaces(c))
          = Cardinality(CountedIn(byNs, c)) + Was(InSpaces(c))
    BY <2>3, <2>4, <2>5
  <2> QED BY <2>4, <2>6 DEF DueSum, Owed, Was, Is, SumOver, Counted, CountedIn
<1>6. ASSUME NEW h \in Hist
      PROVE  DueCount(h)' = DueCount(h)
  <2>1. u \in Counts(h) <=> u.kind = "count" /\ u.c = h
    BY <1>2, CellSets
  <2>2. \A v \in task[t].todo : u \in Counts(h) /\ v \in Counts(h) => v = u
    BY DEF Counts
  <2>3. /\ Was(Counts(h)) \in Nat /\ Is(Counts(h)) \in Nat
        /\ u \in Counts(h) => Is(Counts(h)) + 1 = Was(Counts(h))
        /\ u \notin Counts(h) => Is(Counts(h)) = Was(Counts(h))
    BY <1>3, <2>2
  <2>4. /\ hist[h].count \in Nat
        /\ u \in Counts(h) => hist'[h].count = hist[h].count + 1
        /\ u \notin Counts(h) => hist'[h].count = hist[h].count
    BY <2>1 DEF TypeOK, Applies
  <2>5. hist'[h].count + Is(Counts(h)) = hist[h].count + Was(Counts(h))
    BY <2>3, <2>4
  <2> QED BY <2>5 DEF DueCount, Owed, Was, Is
<1>7. ASSUME NEW h \in Hist, NEW i \in 1..Buckets
      PROVE  DueBucket(h, i)' = DueBucket(h, i)
  <2>1. u \in Bucket(h, i) <=> u.kind = "bucket" /\ u.c = h /\ u.i = i
    BY <1>2, CellSets
  <2>2. \A v \in task[t].todo : u \in Bucket(h, i) /\ v \in Bucket(h, i) => v = u
    BY DEF Bucket
  <2>3. /\ Was(Bucket(h, i)) \in Nat /\ Is(Bucket(h, i)) \in Nat
        /\ u \in Bucket(h, i) => Is(Bucket(h, i)) + 1 = Was(Bucket(h, i))
        /\ u \notin Bucket(h, i) => Is(Bucket(h, i)) = Was(Bucket(h, i))
    BY <1>3, <2>2
  <2>4. hist[h].bucket[i] \in Nat
    BY DEF TypeOK
  <2>5. /\ u \in Bucket(h, i) => hist'[h].bucket[i] = hist[h].bucket[i] + 1
        /\ u \notin Bucket(h, i) => hist'[h].bucket[i] = hist[h].bucket[i]
    BY <2>1 DEF Applies
  <2>6. hist'[h].bucket[i] + Is(Bucket(h, i)) = hist[h].bucket[i] + Was(Bucket(h, i))
    BY <2>3, <2>4, <2>5
  <2> QED BY <2>6 DEF DueBucket, Owed, Was, Is
<1> QED BY <1>4, <1>5, <1>6, <1>7

\* The counters and histograms the ledger is about.
LEMMA Names ==
    /\ {"queries", "hit", "miss", "insert"} \subseteq Total /\ NsCounter \subseteq Total
    /\ {"query", "insert"} \subseteq Hist
    /\ \A i \in 1..Buckets : i # Buckets => i + 1 \in 1..Buckets
<1>1. \A i \in 1..Buckets : i # Buckets => i + 1 \in 1..Buckets
  BY MetricsAssumption
<1> QED BY <1>1 DEF Total, NsCounter, Hist

\* If the same is due as before, the ledger still agrees.
LEMMA LedgerKept ==
    ASSUME Ledger,
           \A c \in Total : DueTotal(c)' = DueTotal(c),
           \A c \in NsCounter : IsFiniteSet(Counted(c)') /\ DueSum(c)' = DueSum(c),
           \A h \in Hist : DueCount(h)' = DueCount(h),
           \A h \in Hist, i \in 1..Buckets : DueBucket(h, i)' = DueBucket(h, i)
    PROVE  Ledger'
<1>1. (DueTotal("queries") = DueTotal("hit") + DueTotal("miss"))'
  <2>1. DueTotal("queries") = DueTotal("hit") + DueTotal("miss")
    BY DEF Ledger
  <2> QED BY <2>1, Names
<1>2. ASSUME NEW c \in NsCounter
      PROVE  (IsFiniteSet(Counted(c)) /\ DueTotal(c) = DueSum(c))'
  <2>1. DueTotal(c) = DueSum(c)
    BY DEF Ledger
  <2> QED BY <2>1, Names
<1>3. (DueCount("query") = DueTotal("queries") /\ DueCount("insert") = DueTotal("insert"))'
  <2>1. DueCount("query") = DueTotal("queries") /\ DueCount("insert") = DueTotal("insert")
    BY DEF Ledger
  <2> QED BY <2>1, Names
<1>4. ASSUME NEW h \in Hist, NEW i \in 1..Buckets
      PROVE  (DueBucket(h, i) <= IF i = Buckets THEN DueCount(h) ELSE DueBucket(h, i + 1))'
  <2>1. DueBucket(h, i) <= IF i = Buckets THEN DueCount(h) ELSE DueBucket(h, i + 1)
    BY DEF Ledger
  <2> QED BY <2>1, Names
<1> QED BY <1>1, <1>2, <1>3, <1>4 DEF Ledger

\* Carrying out an update keeps the ledger.
LEMMA LedgerAdvances ==
    ASSUME TypeOK, Ledger, NEW t \in Task, NEW u, OneNs(task[t].todo),
           Advances(task, task', t, u), Applies(u)
    PROVE  Ledger'
<1>1. \A c \in NsCounter : IsFiniteSet(CountedIn(byNs, c))
  BY DEF Ledger, Counted, CountedIn
<1>2. /\ \A c \in Total : DueTotal(c)' = DueTotal(c)
      /\ \A c \in NsCounter : IsFiniteSet(Counted(c)') /\ DueSum(c)' = DueSum(c)
      /\ \A h \in Hist : DueCount(h)' = DueCount(h)
      /\ \A h \in Hist, i \in 1..Buckets : DueBucket(h, i)' = DueBucket(h, i)
  BY <1>1, DuesStay
<1> QED BY <1>2, LedgerKept

\* A step that leaves the counters and the updates to do alone keeps the ledger.
LEMMA LedgerStays ==
    ASSUME Ledger, \A t \in Task : task'[t].todo = task[t].todo,
           UNCHANGED <<total, byNs, hist>>
    PROVE  Ledger'
<1>1. ASSUME NEW A
      PROVE  Owed(A)' = Owed(A)
  <2>1. Pending(task', A) = Pending(task, A)
    BY DEF Pending
  <2> QED BY <2>1 DEF Owed
<1>2. \A c : Counted(c)' = Counted(c)
  BY DEF Counted
<1>3. \A c \in NsCounter : IsFiniteSet(Counted(c)') /\ DueSum(c)' = DueSum(c)
  BY <1>1, <1>2 DEF Ledger, DueSum, SumOver
<1>4. /\ \A c \in Total : DueTotal(c)' = DueTotal(c)
      /\ \A h \in Hist : DueCount(h)' = DueCount(h)
      /\ \A h \in Hist, i \in 1..Buckets : DueBucket(h, i)' = DueBucket(h, i)
  BY <1>1 DEF DueTotal, DueCount, DueBucket
<1> QED BY <1>3, <1>4, LedgerKept

\* The beginning of a call makes more due, alike for all that must agree.
LEMMA LedgerStarts ==
    ASSUME TypeOK, Ledger, NEW t \in Task, NEW s, Starts(task, task', t, s), Fresh(s),
           UNCHANGED <<total, byNs, hist>>
    PROVE  Ledger'
<1> DEFINE More(A) == IF Has(s, A) THEN 1 ELSE 0
<1>1. ASSUME NEW A
      PROVE  Owed(A) \in Nat /\ Owed(A)' = Owed(A) + More(A) /\ More(A) \in Nat
  <2>1. /\ Owed(A) \in Nat
        /\ Has(s, A) => Owed(A)' = Owed(A) + 1
        /\ ~Has(s, A) => Owed(A)' = Owed(A)
    BY PendingStarts DEF Owed
  <2> QED BY <2>1
<1> HIDE DEF More
<1>2. /\ \A c \in Total : total[c] \in Nat
      /\ \A h \in Hist : hist[h].count \in Nat
      /\ \A h \in Hist, i \in 1..Buckets : hist[h].bucket[i] \in Nat
  <2>1. /\ total \in [Total -> Nat]
        /\ hist \in [Hist -> [bucket : [1..Buckets -> Nat], sum : Nat, count : Nat]]
    BY DEF TypeOK
  <2>2. \A h \in Hist : hist[h].bucket \in [1..Buckets -> Nat] /\ hist[h].count \in Nat
    BY <2>1
  <2> QED BY <2>1, <2>2
<1>3. ASSUME NEW c \in Total
      PROVE  DueTotal(c) \in Nat /\ DueTotal(c)' = DueTotal(c) + More(Totals(c))
  <2>1. /\ Owed(Totals(c)) \in Nat /\ More(Totals(c)) \in Nat
        /\ Owed(Totals(c))' = Owed(Totals(c)) + More(Totals(c))
    BY <1>1
  <2>2. DueTotal(c)' = total[c] + Owed(Totals(c))'
    BY DEF DueTotal
  <2> QED BY <1>2, <2>1, <2>2 DEF DueTotal
<1>4. ASSUME NEW c \in NsCounter
      PROVE  /\ IsFiniteSet(Counted(c)') /\ DueSum(c) \in Nat
             /\ DueSum(c)' = DueSum(c) + More(InSpaces(c))
  <2>1. /\ Owed(InSpaces(c)) \in Nat /\ More(InSpaces(c)) \in Nat
        /\ Owed(InSpaces(c))' = Owed(InSpaces(c)) + More(InSpaces(c))
    BY <1>1
  <2>2. IsFiniteSet(Counted(c)) /\ SumOver(c) \in Nat
    BY FS_CardinalityType DEF Ledger, SumOver
  <2>3. Counted(c)' = Counted(c)
    BY DEF Counted
  <2>4. DueSum(c)' = SumOver(c) + Owed(InSpaces(c))'
    BY <2>3 DEF DueSum, SumOver
  <2> QED BY <2>1, <2>2, <2>3, <2>4 DEF DueSum
<1>5. ASSUME NEW h \in Hist
      PROVE  /\ DueCount(h) \in Nat /\ More(Counts(h)) \in Nat
             /\ DueCount(h)' = DueCount(h) + More(Counts(h))
  <2>1. /\ Owed(Counts(h)) \in Nat /\ More(Counts(h)) \in Nat
        /\ Owed(Counts(h))' = Owed(Counts(h)) + More(Counts(h))
    BY <1>1
  <2>2. DueCount(h)' = hist[h].count + Owed(Counts(h))'
    BY DEF DueCount
  <2> QED BY <1>2, <2>1, <2>2 DEF DueCount
<1>6. ASSUME NEW h \in Hist, NEW i \in 1..Buckets
      PROVE  /\ DueBucket(h, i) \in Nat /\ More(Bucket(h, i)) \in Nat
             /\ DueBucket(h, i)' = DueBucket(h, i) + More(Bucket(h, i))
  <2>1. /\ Owed(Bucket(h, i)) \in Nat /\ More(Bucket(h, i)) \in Nat
        /\ Owed(Bucket(h, i))' = Owed(Bucket(h, i)) + More(Bucket(h, i))
    BY <1>1
  <2>2. DueBucket(h, i)' = hist[h].bucket[i] + Owed(Bucket(h, i))'
    BY DEF DueBucket
  <2> QED BY <1>2, <2>1, <2>2 DEF DueBucket
<1>7. (DueTotal("queries") = DueTotal("hit") + DueTotal("miss"))'
  <2>1. DueTotal("queries") = DueTotal("hit") + DueTotal("miss")
    BY DEF Ledger
  <2>2. More(Totals("queries")) = More(Totals("hit")) + More(Totals("miss"))
    BY DEF Fresh, More
  <2>3. /\ More(Totals("hit")) \in Nat /\ More(Totals("miss")) \in Nat
    BY <1>1
  <2>4. \A c \in {"queries", "hit", "miss"} :
          DueTotal(c) \in Nat /\ DueTotal(c)' = DueTotal(c) + More(Totals(c))
    BY <1>3, Names
  <2> QED BY <2>1, <2>2, <2>3, <2>4
<1>8. ASSUME NEW c \in NsCounter
      PROVE  (IsFiniteSet(Counted(c)) /\ DueTotal(c) = DueSum(c))'
  <2>1. DueTotal(c) = DueSum(c)
    BY DEF Ledger
  <2>2. More(Totals(c)) = More(InSpaces(c))
    BY DEF Fresh, More
  <2> QED BY <1>3, <1>4, <2>1, <2>2, Names
<1>9. (DueCount("query") = DueTotal("queries") /\ DueCount("insert") = DueTotal("insert"))'
  <2>1. DueCount("query") = DueTotal("queries") /\ DueCount("insert") = DueTotal("insert")
    BY DEF Ledger
  <2>2. /\ More(Counts("query")) = More(Totals("queries"))
        /\ More(Counts("insert")) = More(Totals("insert"))
    BY DEF Fresh, More
  <2> QED BY <1>3, <1>5, <2>1, <2>2, Names
<1>10. ASSUME NEW h \in Hist, NEW i \in 1..Buckets
       PROVE  (DueBucket(h, i) <= IF i = Buckets THEN DueCount(h) ELSE DueBucket(h, i + 1))'
  <2>1. DueBucket(h, i) <= IF i = Buckets THEN DueCount(h) ELSE DueBucket(h, i + 1)
    BY DEF Ledger
  <2>2. Has(s, Bucket(h, i)) =>
          Has(s, IF i = Buckets THEN Counts(h) ELSE Bucket(h, i + 1))
    BY DEF Fresh
  <2>3. CASE i = Buckets
    <3>1. More(Bucket(h, i)) <= More(Counts(h))
      BY <2>2, <2>3 DEF More
    <3>2. DueBucket(h, i) <= DueCount(h)
      BY <2>1, <2>3
    <3>3. DueBucket(h, i)' <= DueCount(h)'
      BY <1>5, <1>6, <3>1, <3>2
    <3> QED BY <2>3, <3>3
  <2>4. CASE i # Buckets
    <3>0. i + 1 \in 1..Buckets
      BY <2>4, Names
    <3>1. More(Bucket(h, i)) <= More(Bucket(h, i + 1))
      BY <2>2, <2>4 DEF More
    <3>2. DueBucket(h, i) <= DueBucket(h, i + 1)
      BY <2>1, <2>4
    <3>3. DueBucket(h, i)' <= DueBucket(h, i + 1)'
      BY <1>6, <3>0, <3>1, <3>2
    <3> QED BY <2>4, <3>3
  <2> QED BY <2>3, <2>4
<1> QED BY <1>7, <1>8, <1>9, <1>10 DEF Ledger

-----------------------------------------------------------------------------
(* Counters only grow.                                                     *)

LEMMA ValuesTyped ==
    ASSUME TypeOK, NEW l \in Line
    PROVE  ValueOf(l) \in Nat
<1>1. l \in Cell
  BY DEF Line
<1>2. CASE l.kind = "total"
  BY <1>1, <1>2, CellKinds DEF TypeOK, ValueOf
<1>3. CASE l.kind = "ns"
  <2>1. l.c \in NsCounter
    BY <1>1, <1>3, CellKinds
  <2>2. CASE l.n \in DOMAIN byNs
    <3>1. byNs[l.n] \in [NsCounter -> Nat]
      BY <2>2 DEF TypeOK
    <3>2. ValueOf(l) = byNs[l.n][l.c]
      BY <1>3, <2>2 DEF ValueOf
    <3> QED BY <2>1, <3>1, <3>2
  <2>3. CASE l.n \notin DOMAIN byNs
    BY <1>3, <2>3 DEF ValueOf
  <2> QED BY <2>2, <2>3
<1>4. CASE l.kind = "bucket"
  <2>1. l.c \in Hist /\ l.i \in 1..Buckets
    BY <1>1, <1>4, CellKinds
  <2>2. hist[l.c].bucket \in [1..Buckets -> Nat]
    BY <2>1 DEF TypeOK
  <2>3. ValueOf(l) = hist[l.c].bucket[l.i]
    BY <1>4 DEF ValueOf
  <2> QED BY <2>1, <2>2, <2>3
<1>5. CASE l.kind = "sum"
  BY <1>1, <1>5, CellKinds DEF TypeOK, ValueOf
<1>6. CASE l.kind = "count"
  BY <1>1, <1>6, CellKinds DEF TypeOK, ValueOf
<1> QED BY <1>1, <1>2, <1>3, <1>4, <1>5, <1>6, CellKinds

\* The same after a step.
LEMMA ValuesTypedNext ==
    ASSUME TypeOK', NEW l \in Line
    PROVE  ValueOf(l)' \in Nat
<1>1. l \in Cell
  BY DEF Line
<1>2. CASE l.kind = "total"
  BY <1>1, <1>2, CellKinds DEF TypeOK, ValueOf
<1>3. CASE l.kind = "ns"
  <2>1. l.c \in NsCounter
    BY <1>1, <1>3, CellKinds
  <2>2. CASE l.n \in DOMAIN byNs'
    <3>1. byNs'[l.n] \in [NsCounter -> Nat]
      BY <2>2 DEF TypeOK
    <3>2. ValueOf(l)' = byNs'[l.n][l.c]
      BY <1>3, <2>2 DEF ValueOf
    <3> QED BY <2>1, <3>1, <3>2
  <2>3. CASE l.n \notin DOMAIN byNs'
    BY <1>3, <2>3 DEF ValueOf
  <2> QED BY <2>2, <2>3
<1>4. CASE l.kind = "bucket"
  <2>1. l.c \in Hist /\ l.i \in 1..Buckets
    BY <1>1, <1>4, CellKinds
  <2>2. hist'[l.c].bucket \in [1..Buckets -> Nat]
    BY <2>1 DEF TypeOK
  <2>3. ValueOf(l)' = hist'[l.c].bucket[l.i]
    BY <1>4 DEF ValueOf
  <2> QED BY <2>1, <2>2, <2>3
<1>5. CASE l.kind = "sum"
  BY <1>1, <1>5, CellKinds DEF TypeOK, ValueOf
<1>6. CASE l.kind = "count"
  BY <1>1, <1>6, CellKinds DEF TypeOK, ValueOf
<1> QED BY <1>1, <1>2, <1>3, <1>4, <1>5, <1>6, CellKinds

\* No counter goes down, and no namespace disappears.
Grows ==
    /\ \A c \in Total : total[c] <= total'[c]
    /\ DOMAIN byNs \subseteq DOMAIN byNs'
    /\ \A n \in DOMAIN byNs, c \in NsCounter : byNs[n][c] <= byNs'[n][c]
    /\ \A h \in Hist : hist[h].sum <= hist'[h].sum /\ hist[h].count <= hist'[h].count
    /\ \A h \in Hist, i \in 1..Buckets : hist[h].bucket[i] <= hist'[h].bucket[i]

\* Unless the step is about a namespace, its map is all that can change.
LEMMA GrowsIfSame ==
    ASSUME TypeOK, UNCHANGED <<total, hist>>, DOMAIN byNs \subseteq DOMAIN byNs',
           \A n \in DOMAIN byNs, c \in NsCounter : byNs[n][c] <= byNs'[n][c]
    PROVE  Grows
<1>1. \A c \in Total : total[c] <= total'[c]
  BY DEF TypeOK
<1>2. \A h \in Hist : hist[h].sum <= hist'[h].sum /\ hist[h].count <= hist'[h].count
  BY DEF TypeOK
<1>3. ASSUME NEW h \in Hist, NEW i \in 1..Buckets
      PROVE  hist[h].bucket[i] <= hist'[h].bucket[i]
  <2>1. hist[h].bucket \in [1..Buckets -> Nat]
    BY DEF TypeOK
  <2>2. hist[h].bucket[i] \in Nat
    BY <2>1
  <2> QED BY <2>2
<1> QED BY <1>1, <1>2, <1>3 DEF Grows

LEMMA GrowsShown ==
    ASSUME TypeOK, TypeOK', Grows, Shown, UNCHANGED <<page, last>>
    PROVE  Shown'
<1>1. ASSUME NEW l \in Line
      PROVE  ValueOf(l) <= ValueOf(l)'
  <2>1. l \in Cell
    BY DEF Line
  <2>2. CASE l.kind = "total"
    BY <2>1, <2>2, CellKinds DEF Grows, ValueOf
  <2>3. CASE l.kind = "ns"
    <3>1. l.c \in NsCounter
      BY <2>1, <2>3, CellKinds
    <3>2. CASE l.n \in DOMAIN byNs
      BY <2>3, <3>1, <3>2 DEF Grows, ValueOf
    <3>3. CASE l.n \notin DOMAIN byNs
      <4>1. ValueOf(l) = 0
        BY <2>3, <3>3 DEF ValueOf
      <4>2. ValueOf(l)' \in Nat
        BY ValuesTypedNext
      <4> QED BY <4>1, <4>2
    <3> QED BY <3>2, <3>3
  <2>4. CASE l.kind = "bucket"
    BY <2>1, <2>4, CellKinds DEF Grows, ValueOf
  <2>5. CASE l.kind = "sum"
    BY <2>1, <2>5, CellKinds DEF Grows, ValueOf
  <2>6. CASE l.kind = "count"
    BY <2>1, <2>6, CellKinds DEF Grows, ValueOf
  <2> QED BY <2>1, <2>2, <2>3, <2>4, <2>5, <2>6, CellKinds
<1>2. ASSUME NEW l \in Line
      PROVE  (last[l] <= ValueOf(l) /\ page.seen[l] <= ValueOf(l))'
  <2>1. ValueOf(l) \in Nat /\ last[l] \in Int /\ page.seen[l] \in Int
    BY ValuesTyped DEF TypeOK, Value, NotRead
  <2>2. ValueOf(l)' \in Int
    BY ValuesTypedNext
  <2>3. last[l] <= ValueOf(l) /\ page.seen[l] <= ValueOf(l)
    BY DEF Shown
  <2>4. PICK v \in Int : v = ValueOf(l)'
    BY <2>2
  <2>5. PICK w \in Int : w = ValueOf(l)
    BY <2>1
  <2>6. last[l] <= v /\ page.seen[l] <= v
    BY <1>1, <2>1, <2>3, <2>4, <2>5
  <2> QED BY <2>4, <2>6
<1>3. ASSUME NEW l \in Line, last[l]' > 0
      PROVE  (\/ page.seen[l] >= last[l]
              \/ l \in page.todo
              \/ PartNow < PartOf(l))'
  <2>1. \/ page.seen[l] >= last[l]
        \/ l \in page.todo
        \/ PartNow < PartOf(l)
    BY <1>3 DEF Shown
  <2> QED BY <2>1 DEF PartNow, PartOf
<1> QED BY <1>2, <1>3 DEF Shown

-----------------------------------------------------------------------------
(* The steps of a task.                                                    *)

TaskRecord == [todo : SUBSET Cell, write : SUBSET Cell]

\* A task that is done with an update goes on with the others.
LEMMA DoneSays ==
    ASSUME MetricsInv, NEW t \in Task, NEW u \in task[t].todo, Done(t, u)
    PROVE  /\ Advances(task, task', t, u)
           /\ task' \in [Task -> TaskRecord]
           /\ \A x \in Task : OneNs(task'[x].todo)
           /\ Waiting'
<1>1. task \in [Task -> TaskRecord]
  BY DEF MetricsInv, TypeOK, TaskRecord
<1>2. \A x \in Task : OneNs(task[x].todo)
  BY DEF MetricsInv
<1>3. PICK r : r = [todo |-> task[t].todo \ {u}, write |-> task[t].write \ {u}]
  OBVIOUS
<1>4. task[t].todo \subseteq Cell /\ task[t].write \subseteq Cell
  BY <1>1 DEF TaskRecord
<1>5. /\ r \in TaskRecord /\ r.todo = task[t].todo \ {u}
      /\ r.write = task[t].write \ {u}
  BY <1>3, <1>4 DEF TaskRecord
<1>6. task' = [task EXCEPT ![t] = r]
  BY <1>3 DEF Done
<1>7. /\ task' \in [Task -> TaskRecord] /\ task'[t] = r
      /\ \A x \in Task \ {t} : task'[x] = task[x]
  BY <1>1, <1>5, <1>6
<1>8. Advances(task, task', t, u)
  BY <1>5, <1>7 DEF Advances
<1>9. ASSUME NEW x \in Task
      PROVE  OneNs(task'[x].todo)
  BY <1>2, <1>5, <1>7 DEF OneNs
<1>10. Waiting'
  <2> SUFFICES ASSUME NEW x \in Task, NEW v \in task'[x].write
               PROVE  v \in task'[x].todo /\ v.kind = "ns"
    BY DEF Waiting
  <2> QED BY <1>5, <1>7 DEF MetricsInv, Waiting
<1> QED BY <1>7, <1>8, <1>9, <1>10

Histogram == [bucket : [1..Buckets -> Nat], sum : Nat, count : Nat]

\* fetch_add on a counter of the node or of a histogram.
LEMMA AddKeeps ==
    ASSUME MetricsInv, NEW t \in Task, NEW u \in task[t].todo, Add(t, u)
    PROVE  MetricsInv'
<1>2. /\ u.kind # "ns" /\ Done(t, u)
      /\ total' = (IF u.kind = "total" THEN [total EXCEPT ![u.c] = @ + 1] ELSE total)
      /\ hist' = (CASE u.kind = "bucket" -> [hist EXCEPT ![u.c].bucket[u.i] = @ + 1]
                    [] u.kind = "sum"    -> [hist EXCEPT ![u.c].sum = @ + u.i]
                    [] u.kind = "count"  -> [hist EXCEPT ![u.c].count = @ + 1]
                    [] OTHER             -> hist)
      /\ UNCHANGED <<byNs, events, entries, page, last, pages>>
  BY DEF Add, pageVars
<1>3. /\ Advances(task, task', t, u)
      /\ task' \in [Task -> TaskRecord]
      /\ \A x \in Task : OneNs(task'[x].todo)
      /\ Waiting'
  BY <1>2, DoneSays
<1>4. u \in Cell
  BY DEF MetricsInv, TypeOK
<1>5. total \in [Total -> Nat]
  BY DEF MetricsInv, TypeOK
<1>6. hist \in [Hist -> Histogram]
  BY DEF MetricsInv, TypeOK, Histogram
<1>7. /\ total' \in [Total -> Nat]
      /\ \A c \in Total : total'[c] =
           IF u.kind = "total" /\ u.c = c THEN total[c] + 1 ELSE total[c]
  <2>1. CASE u.kind = "total"
    <3>1. u.c \in Total /\ total' = [total EXCEPT ![u.c] = @ + 1]
      BY <1>2, <1>4, <2>1, CellKinds
    <3> QED BY <1>5, <2>1, <3>1
  <2>2. CASE u.kind # "total"
    BY <1>2, <1>5, <2>2
  <2> QED BY <2>1, <2>2
<1>8. /\ hist' \in [Hist -> Histogram]
      /\ \A h \in Hist : hist'[h].count =
           IF u.kind = "count" /\ u.c = h THEN hist[h].count + 1 ELSE hist[h].count
      /\ \A h \in Hist, i \in 1..Buckets : hist'[h].bucket[i] =
           IF u.kind = "bucket" /\ u.c = h /\ u.i = i
           THEN hist[h].bucket[i] + 1 ELSE hist[h].bucket[i]
      /\ \A h \in Hist : hist[h].sum <= hist'[h].sum
  <2>1. CASE u.kind \in {"bucket", "sum", "count"}
    <3>1. u.c \in Hist /\ (u.kind = "bucket" => u.i \in 1..Buckets)
          /\ (u.kind = "sum" => u.i \in Nat)
      BY <1>4, <2>1, CellKinds, MetricsAssumption DEF Latency
    <3>2. PICK r \in Histogram : r = hist[u.c]
      BY <1>6, <3>1
    <3>3. PICK g : g = [r.bucket EXCEPT ![u.i] = r.bucket[u.i] + 1]
      OBVIOUS
    <3>4. PICK a : a = (CASE u.kind = "bucket" -> [r EXCEPT !.bucket = g]
                         [] u.kind = "sum"    -> [r EXCEPT !.sum = r.sum + u.i]
                         [] u.kind = "count"  -> [r EXCEPT !.count = r.count + 1])
      OBVIOUS
    <3>5. r.bucket \in [1..Buckets -> Nat] /\ r.sum \in Nat /\ r.count \in Nat
      BY DEF Histogram
    <3>6. CASE u.kind = "bucket"
      <4>1. hist' = [hist EXCEPT ![u.c].bucket[u.i] = @ + 1]
        BY <1>2, <3>6
      <4>2. hist' = [hist EXCEPT ![u.c] = a]
        BY <3>2, <3>3, <3>4, <3>6, <4>1
      <4>3. PICK f \in [1..Buckets -> Nat] : f = r.bucket
        BY <3>5
      <4>4. /\ g \in [1..Buckets -> Nat]
            /\ \A i \in 1..Buckets : g[i] = IF u.i = i THEN f[i] + 1 ELSE f[i]
        <5>1. u.i \in 1..Buckets /\ f[u.i] + 1 \in Nat
          BY <3>1, <3>6
        <5> QED BY <3>3, <4>3, <5>1
      <4>5. a \in Histogram /\ a.bucket = g /\ a.sum = r.sum /\ a.count = r.count
        BY <3>4, <3>6, <4>4 DEF Histogram
      <4>6. /\ hist' \in [Hist -> Histogram] /\ hist'[u.c] = a
            /\ \A h \in Hist \ {u.c} : hist'[h] = hist[h]
        BY <1>6, <3>1, <4>2, <4>5
      <4>7. ASSUME NEW h \in Hist
            PROVE  hist'[h].count = hist[h].count /\ hist'[h].sum = hist[h].sum
        BY <3>2, <4>5, <4>6
      <4>8. ASSUME NEW h \in Hist, NEW i \in 1..Buckets
            PROVE  hist'[h].bucket[i] =
                     IF u.kind = "bucket" /\ u.c = h /\ u.i = i
                     THEN hist[h].bucket[i] + 1 ELSE hist[h].bucket[i]
        BY <3>2, <3>6, <4>3, <4>4, <4>5, <4>6
      <4>9. \A h \in Hist : hist[h].sum \in Nat
        BY <1>6 DEF Histogram
      <4> QED BY <3>6, <4>6, <4>7, <4>8, <4>9
    <3>7. CASE u.kind = "sum"
      <4>1. hist' = [hist EXCEPT ![u.c].sum = @ + u.i]
        BY <1>2, <3>7
      <4>2. hist' = [hist EXCEPT ![u.c] = a]
        BY <3>2, <3>4, <3>7, <4>1
      <4>3. PICK v \in Nat : v = r.sum + u.i
        BY <3>1, <3>5, <3>7
      <4>4. a \in Histogram /\ a.bucket = r.bucket /\ a.sum = v /\ a.count = r.count
        BY <3>4, <3>7, <4>3 DEF Histogram
      <4>5. /\ hist' \in [Hist -> Histogram] /\ hist'[u.c] = a
            /\ \A h \in Hist \ {u.c} : hist'[h] = hist[h]
        BY <1>6, <3>1, <4>2, <4>4
      <4>6. ASSUME NEW h \in Hist
            PROVE  hist'[h].count = hist[h].count /\ hist'[h].bucket = hist[h].bucket
        BY <3>2, <4>4, <4>5
      <4>7. ASSUME NEW h \in Hist
            PROVE  hist[h].sum <= hist'[h].sum
        <5>1. hist[h].sum \in Nat
          BY <1>6 DEF Histogram
        <5>2. CASE h = u.c
          BY <3>1, <3>2, <3>5, <3>7, <4>3, <4>4, <4>5, <5>2
        <5>3. CASE h # u.c
          BY <4>5, <5>1, <5>3
        <5> QED BY <5>2, <5>3
      <4> QED BY <3>7, <4>5, <4>6, <4>7
    <3>8. CASE u.kind = "count"
      <4>1. hist' = [hist EXCEPT ![u.c].count = @ + 1]
        BY <1>2, <3>8
      <4>2. hist' = [hist EXCEPT ![u.c] = a]
        BY <3>2, <3>4, <3>8, <4>1
      <4>3. PICK v \in Nat : v = r.count + 1
        BY <3>5
      <4>4. a \in Histogram /\ a.bucket = r.bucket /\ a.sum = r.sum /\ a.count = v
        BY <3>4, <3>8, <4>3 DEF Histogram
      <4>5. /\ hist' \in [Hist -> Histogram] /\ hist'[u.c] = a
            /\ \A h \in Hist \ {u.c} : hist'[h] = hist[h]
        BY <1>6, <3>1, <4>2, <4>4
      <4>6. ASSUME NEW h \in Hist
            PROVE  hist'[h].sum = hist[h].sum /\ hist'[h].bucket = hist[h].bucket
        BY <3>2, <4>4, <4>5
      <4>7. \A h \in Hist : hist[h].sum \in Nat
        BY <1>6 DEF Histogram
      <4>8. ASSUME NEW h \in Hist
            PROVE  hist'[h].count =
                     IF u.c = h THEN hist[h].count + 1 ELSE hist[h].count
        BY <3>2, <4>3, <4>4, <4>5
      <4> QED BY <3>8, <4>5, <4>6, <4>7, <4>8
    <3> QED BY <2>1, <3>6, <3>7, <3>8
  <2>2. CASE u.kind \notin {"bucket", "sum", "count"}
    <3>1. hist' = hist
      BY <1>2, <2>2
    <3> QED BY <1>6, <2>2, <3>1 DEF Histogram
  <2> QED BY <2>1, <2>2
<1>9. TypeOK'
  BY <1>2, <1>3, <1>7, <1>8 DEF MetricsInv, TypeOK, Histogram, TaskRecord
<1>10. Applies(u)
  <2>1. \A c \in NsCounter : IsFiniteSet(CountedIn(byNs, c))
    BY DEF MetricsInv, Ledger, Counted, CountedIn
  <2> QED BY <1>2, <1>7, <1>8, <2>1 DEF Applies
<1>11. Ledger'
  BY <1>3, <1>10, LedgerAdvances DEF MetricsInv
<1>12. Grows
  <2>1. /\ \A h \in Hist : hist[h].count \in Nat
        /\ \A h \in Hist, i \in 1..Buckets : hist[h].bucket[i] \in Nat
    BY <1>6 DEF Histogram
  <2>2. \A h \in Hist : hist[h].count <= hist'[h].count /\ hist[h].sum <= hist'[h].sum
    BY <1>8, <2>1
  <2>3. \A h \in Hist, i \in 1..Buckets : hist[h].bucket[i] <= hist'[h].bucket[i]
    BY <1>8, <2>1
  <2>4. \A c \in Total : total[c] <= total'[c]
    BY <1>5, <1>7
  <2>5. \A n \in DOMAIN byNs, c \in NsCounter : byNs[n][c] <= byNs'[n][c]
    BY <1>2 DEF MetricsInv, TypeOK
  <2> QED BY <1>2, <2>2, <2>3, <2>4, <2>5 DEF Grows
<1>13. Shown'
  BY <1>2, <1>9, <1>12, GrowsShown DEF MetricsInv
<1> QED BY <1>3, <1>9, <1>11, <1>13 DEF MetricsInv

\* A namespace's counter goes up by one, the namespace being put in if need be.
NsCounts(t, u) ==
    /\ u \in task[t].todo /\ u.kind = "ns" /\ Done(t, u)
    /\ Puts(byNs, byNs', u.n)
    /\ byNs' \in [DOMAIN byNs' -> [NsCounter -> Nat]]
    /\ \A c \in NsCounter :
         byNs'[u.n][c] = (IF u.n \in DOMAIN byNs THEN byNs[u.n][c] ELSE 0)
                           + (IF c = u.c THEN 1 ELSE 0)
    /\ UNCHANGED <<total, hist, events, entries, page, last, pages>>

LEMMA NsCountsKeeps ==
    ASSUME MetricsInv, NEW t \in Task, NEW u, NsCounts(t, u)
    PROVE  MetricsInv'
<1>1. /\ Advances(task, task', t, u)
      /\ task' \in [Task -> TaskRecord]
      /\ \A x \in Task : OneNs(task'[x].todo)
      /\ Waiting'
  BY DoneSays DEF NsCounts
<1>2. u \in Cell
  BY DEF MetricsInv, TypeOK, NsCounts
<1>3. u.kind = "ns" /\ u.c \in NsCounter /\ u.n \in Namespace
  BY <1>2, CellKinds DEF NsCounts
<1>4. Puts(byNs, byNs', u.n) /\ byNs' \in [DOMAIN byNs' -> [NsCounter -> Nat]]
  BY DEF NsCounts
<1>5. DOMAIN byNs \subseteq Namespace /\ byNs \in [DOMAIN byNs -> [NsCounter -> Nat]]
  BY DEF MetricsInv, TypeOK
<1>6. TypeOK'
  <2>1. DOMAIN byNs' \subseteq Namespace
    BY <1>3, <1>4, <1>5 DEF Puts
  <2> QED BY <1>1, <1>4, <2>1 DEF MetricsInv, TypeOK, NsCounts, TaskRecord
<1>7. ASSUME NEW c \in NsCounter
      PROVE  /\ IsFiniteSet(CountedIn(byNs', c))
             /\ Cardinality(CountedIn(byNs', c)) =
                  IF u.c = c THEN Cardinality(CountedIn(byNs, c)) + 1
                  ELSE Cardinality(CountedIn(byNs, c))
  <2>1. IsFiniteSet(CountedIn(byNs, c))
    BY DEF MetricsInv, Ledger, Counted, CountedIn
  <2>2. PICK old : old = IF u.n \in DOMAIN byNs THEN byNs[u.n][c] ELSE 0
    OBVIOUS
  <2>3. old \in Nat
    BY <1>5, <2>2
  <2>4. byNs'[u.n][c] = old + (IF c = u.c THEN 1 ELSE 0)
    BY <2>2 DEF NsCounts
  <2>5. CASE c = u.c
    <3>1. byNs'[u.n][c] = old + 1
      BY <2>3, <2>4, <2>5
    <3>2. IF u.n \in DOMAIN byNs THEN old = byNs[u.n][c] ELSE old = 0
      BY <2>2
    <3>3. /\ IsFiniteSet(CountedIn(byNs', c))
          /\ Cardinality(CountedIn(byNs', c)) = Cardinality(CountedIn(byNs, c)) + 1
      BY <1>4, <2>1, <2>3, <3>1, <3>2, CountedGrows
    <3> QED BY <2>5, <3>3
  <2>6. CASE c # u.c
    <3>1. byNs'[u.n][c] = old
      BY <2>3, <2>4, <2>6
    <3>2. IF u.n \in DOMAIN byNs THEN byNs'[u.n][c] = byNs[u.n][c] ELSE byNs'[u.n][c] = 0
      BY <2>2, <3>1
    <3>3. CountedIn(byNs', c) = CountedIn(byNs, c)
      <4>1. PICK n : n = u.n
        OBVIOUS
      <4>2. /\ Puts(byNs, byNs', n)
            /\ IF n \in DOMAIN byNs THEN byNs'[n][c] = byNs[n][c] ELSE byNs'[n][c] = 0
        BY <1>4, <3>2, <4>1
      <4> QED BY <4>2, CountedStays
    <3> QED BY <2>1, <2>6, <3>3
  <2> QED BY <2>5, <2>6
<1>8. Applies(u)
  BY <1>3, <1>7 DEF Applies, NsCounts
<1>9. Ledger'
  BY <1>1, <1>8, LedgerAdvances DEF MetricsInv, NsCounts
<1>10. Grows
  <2>1. ASSUME NEW n \in DOMAIN byNs, NEW c \in NsCounter
        PROVE  byNs[n][c] <= byNs'[n][c]
    <3>1. byNs[n][c] \in Nat
      BY <1>5
    <3>2. CASE n = u.n
      BY <3>1, <3>2 DEF NsCounts
    <3>3. CASE n # u.n
      BY <1>4, <3>1, <3>3 DEF Puts
    <3> QED BY <3>2, <3>3
  <2>2. DOMAIN byNs \subseteq DOMAIN byNs'
    BY <1>4 DEF Puts
  <2> QED BY <2>1, <2>2, GrowsIfSame DEF NsCounts, MetricsInv
<1>11. Shown'
  BY <1>6, <1>10, GrowsShown DEF MetricsInv, NsCounts
<1> QED BY <1>1, <1>6, <1>9, <1>11 DEF MetricsInv

\* Under the read lock.
LEMMA NsReadKeeps ==
    ASSUME MetricsInv, NEW t \in Task, NEW u \in task[t].todo, NsRead(t, u)
    PROVE  MetricsInv'
<1>2. /\ u.kind = "ns"
      /\ IF u.n \in DOMAIN byNs
         THEN byNs' = [byNs EXCEPT ![u.n][u.c] = @ + 1] /\ Done(t, u)
         ELSE task' = [task EXCEPT ![t].write = {u}] /\ UNCHANGED byNs
      /\ UNCHANGED <<total, hist, events, entries, page, last, pages>>
  BY DEF NsRead, pageVars
<1>3. u \in Cell
  BY DEF MetricsInv, TypeOK
<1>4. u.c \in NsCounter /\ u.n \in Namespace
  BY <1>2, <1>3, CellKinds
<1>5. DOMAIN byNs \subseteq Namespace /\ byNs \in [DOMAIN byNs -> [NsCounter -> Nat]]
  BY DEF MetricsInv, TypeOK
<1>6. CASE u.n \in DOMAIN byNs
  <2>1. byNs' = [byNs EXCEPT ![u.n][u.c] = @ + 1] /\ Done(t, u)
    BY <1>2, <1>6
  <2>2. PICK f \in [NsCounter -> Nat] : f = byNs[u.n]
    BY <1>5, <1>6
  <2>3. PICK g : g = [f EXCEPT ![u.c] = f[u.c] + 1]
    OBVIOUS
  <2>4. /\ g \in [NsCounter -> Nat]
        /\ \A c \in NsCounter : g[c] = f[c] + (IF c = u.c THEN 1 ELSE 0)
    BY <1>4, <2>2, <2>3
  <2>5. byNs' = [byNs EXCEPT ![u.n] = g]
    BY <2>1, <2>2, <2>3
  <2>6. /\ DOMAIN byNs' = DOMAIN byNs /\ byNs'[u.n] = g
        /\ byNs' \in [DOMAIN byNs -> [NsCounter -> Nat]]
        /\ \A m \in DOMAIN byNs \ {u.n} : byNs'[m] = byNs[m]
    BY <1>5, <1>6, <2>4, <2>5
  <2>7. Puts(byNs, byNs', u.n)
    BY <1>6, <2>6 DEF Puts
  <2>8. \A c \in NsCounter :
          byNs'[u.n][c] = (IF u.n \in DOMAIN byNs THEN byNs[u.n][c] ELSE 0)
                            + (IF c = u.c THEN 1 ELSE 0)
    BY <1>6, <2>2, <2>4, <2>6
  <2>9. NsCounts(t, u)
    BY <1>2, <2>1, <2>6, <2>7, <2>8 DEF NsCounts
  <2> QED BY <2>9, NsCountsKeeps
<1>7. CASE u.n \notin DOMAIN byNs
  <2>1. task' = [task EXCEPT ![t].write = {u}] /\ UNCHANGED byNs
    BY <1>2, <1>7
  <2>2. task \in [Task -> TaskRecord]
    BY DEF MetricsInv, TypeOK, TaskRecord
  <2>3. PICK r \in TaskRecord : r = task[t]
    BY <2>2
  <2>4. PICK a : a = [r EXCEPT !.write = {u}]
    OBVIOUS
  <2>5. a \in TaskRecord /\ a.todo = r.todo /\ a.write = {u}
    BY <1>3, <2>4 DEF TaskRecord
  <2>6. task' = [task EXCEPT ![t] = a]
    BY <2>1, <2>3, <2>4
  <2>7. /\ task' \in [Task -> TaskRecord] /\ task'[t] = a
        /\ \A x \in Task \ {t} : task'[x] = task[x]
    BY <2>2, <2>5, <2>6
  <2>8. \A x \in Task : task'[x].todo = task[x].todo
    BY <2>3, <2>5, <2>7
  <2>9. TypeOK'
    BY <1>2, <2>1, <2>7 DEF MetricsInv, TypeOK, TaskRecord
  <2>10. \A x \in Task : OneNs(task'[x].todo)
    BY <2>8 DEF MetricsInv
  <2>11. Waiting'
    <3> SUFFICES ASSUME NEW x \in Task, NEW v \in task'[x].write
                 PROVE  v \in task'[x].todo /\ v.kind = "ns"
      BY DEF Waiting
    <3>1. CASE x = t
      BY <1>2, <2>5, <2>7, <2>8, <3>1
    <3>2. CASE x # t
      BY <2>7, <3>2 DEF MetricsInv, Waiting
    <3> QED BY <3>1, <3>2
  <2>12. Ledger'
    BY <1>2, <2>1, <2>8, LedgerStays DEF MetricsInv
  <2>13. Grows
    <3>1. ASSUME NEW n \in DOMAIN byNs, NEW c \in NsCounter
          PROVE  byNs[n][c] <= byNs'[n][c]
      BY <1>5, <2>1
    <3> QED BY <1>2, <2>1, <3>1, GrowsIfSame DEF MetricsInv
  <2>14. Shown'
    BY <1>2, <2>9, <2>13, GrowsShown DEF MetricsInv
  <2> QED BY <2>9, <2>10, <2>11, <2>12, <2>14 DEF MetricsInv
<1> QED BY <1>6, <1>7

\* Under the write lock.
LEMMA NsWriteKeeps ==
    ASSUME MetricsInv, NEW t \in Task, NEW u \in task[t].todo, NsWrite(t, u)
    PROVE  MetricsInv'
<1>2. PICK old : old = IF u.n \in DOMAIN byNs THEN byNs[u.n] ELSE Zeros
  OBVIOUS
<1>3. PICK g : g = [old EXCEPT ![u.c] = old[u.c] + 1]
  OBVIOUS
<1>4. /\ u \in task[t].write /\ Done(t, u)
      /\ byNs' = [n \in DOMAIN byNs \cup {u.n} |-> IF n = u.n THEN g ELSE byNs[n]]
      /\ UNCHANGED <<total, hist, events, entries, page, last, pages>>
  BY <1>2, <1>3 DEF NsWrite, pageVars
<1>5. u.kind = "ns"
  BY <1>4 DEF MetricsInv, Waiting
<1>6. u \in Cell
  BY DEF MetricsInv, TypeOK
<1>7. u.c \in NsCounter /\ u.n \in Namespace
  BY <1>5, <1>6, CellKinds
<1>8. byNs \in [DOMAIN byNs -> [NsCounter -> Nat]]
  BY DEF MetricsInv, TypeOK
<1>9. /\ old \in [NsCounter -> Nat]
      /\ \A c \in NsCounter : old[c] = IF u.n \in DOMAIN byNs THEN byNs[u.n][c] ELSE 0
  <2>1. CASE u.n \in DOMAIN byNs
    BY <1>2, <1>8, <2>1
  <2>2. CASE u.n \notin DOMAIN byNs
    BY <1>2, <2>2 DEF Zeros
  <2> QED BY <2>1, <2>2
<1>10. /\ g \in [NsCounter -> Nat]
       /\ \A c \in NsCounter : g[c] = old[c] + (IF c = u.c THEN 1 ELSE 0)
  BY <1>3, <1>7, <1>9
<1>11. /\ DOMAIN byNs' = DOMAIN byNs \cup {u.n} /\ byNs'[u.n] = g
       /\ byNs' \in [DOMAIN byNs \cup {u.n} -> [NsCounter -> Nat]]
       /\ \A m \in DOMAIN byNs \ {u.n} : byNs'[m] = byNs[m]
  BY <1>4, <1>8, <1>10
<1>12. NsCounts(t, u)
  BY <1>4, <1>5, <1>9, <1>10, <1>11 DEF NsCounts, Puts
<1> QED BY <1>12, NsCountsKeeps

LEMMA BeginKeeps ==
    ASSUME MetricsInv, NEW t \in Task, NEW c \in Ops, NEW n \in Namespace,
           NEW d \in Latency, Begin(t, c, n, d)
    PROVE  MetricsInv'
<1>1. PICK s : s = Record(c, n, d)
  OBVIOUS
<1>2. s \subseteq Cell /\ Fresh(s) /\ OneNs(s)
  BY <1>1, OpsAssumption, RecordFresh
<1>3. /\ task[t] = Idle /\ events < MaxEvents /\ events' = events + 1
      /\ task' = [task EXCEPT ![t].todo = s]
      /\ UNCHANGED <<total, byNs, hist, entries, page, last, pages>>
  BY <1>1 DEF Begin, pageVars
<1>4. task \in [Task -> TaskRecord]
  BY DEF MetricsInv, TypeOK, TaskRecord
<1>5. PICK a : a = [task[t] EXCEPT !.todo = s]
  OBVIOUS
<1>6. task' = [task EXCEPT ![t] = a]
  BY <1>3, <1>5
<1>7. a \in TaskRecord /\ a.todo = s /\ a.write = {}
  <2>1. PICK r \in TaskRecord : r = task[t]
    BY <1>4
  <2>2. r.write = {}
    BY <1>3, <2>1 DEF Idle
  <2>3. a = [r EXCEPT !.todo = s]
    BY <1>5, <2>1
  <2> QED BY <1>2, <2>2, <2>3 DEF TaskRecord
<1>8. /\ task' \in [Task -> TaskRecord] /\ task'[t] = a
      /\ \A x \in Task \ {t} : task'[x] = task[x]
  BY <1>4, <1>6, <1>7
<1>9. TypeOK'
  <2>1. events' \in 0..MaxEvents
    BY <1>3, MetricsAssumption DEF MetricsInv, TypeOK
  <2> QED BY <1>3, <1>8, <2>1 DEF MetricsInv, TypeOK, TaskRecord
<1>10. ASSUME NEW x \in Task
       PROVE  OneNs(task'[x].todo)
  BY <1>2, <1>7, <1>8 DEF MetricsInv
<1>11. Waiting'
  <2> SUFFICES ASSUME NEW x \in Task, NEW v \in task'[x].write
               PROVE  v \in task'[x].todo /\ v.kind = "ns"
    BY DEF Waiting
  <2>1. x # t
    BY <1>7, <1>8
  <2> QED BY <1>8, <2>1 DEF MetricsInv, Waiting
<1>12. Starts(task, task', t, s)
  BY <1>3, <1>7, <1>8 DEF Starts, Idle
<1>13. Ledger'
  BY <1>2, <1>3, <1>12, LedgerStarts DEF MetricsInv
<1>14. Grows
  <2>1. byNs \in [DOMAIN byNs -> [NsCounter -> Nat]]
    BY DEF MetricsInv, TypeOK
  <2>2. ASSUME NEW m \in DOMAIN byNs, NEW k \in NsCounter
        PROVE  byNs[m][k] <= byNs'[m][k]
    BY <1>3, <2>1
  <2> QED BY <1>3, <2>2, GrowsIfSame DEF MetricsInv
<1>15. Shown'
  BY <1>3, <1>9, <1>14, GrowsShown DEF MetricsInv
<1> QED BY <1>9, <1>10, <1>11, <1>13, <1>15 DEF MetricsInv

-----------------------------------------------------------------------------
(* The steps of a page.                                                    *)

\* A page changes nothing but itself.
LEMMA PageOnly ==
    ASSUME MetricsInv, UNCHANGED <<total, byNs, hist, task>>, TypeOK', Shown'
    PROVE  MetricsInv'
<1>1. Ledger'
  BY LedgerStays DEF MetricsInv
<1>2. Waiting'
  BY DEF MetricsInv, Waiting
<1> QED BY <1>1, <1>2 DEF MetricsInv

\* The counters of two states that agree show the same.
LEMMA ValuesStay ==
    ASSUME UNCHANGED <<total, byNs, hist>>, NEW l
    PROVE  ValueOf(l)' = ValueOf(l)
BY DEF ValueOf

PageRecord ==
    [pc : {"off", "totals", "ns", "hists"}, todo : SUBSET Line,
     index : SUBSET Namespace, seen : [Line -> Value]]

\* The page goes on to its next part, with all that the part has to show.
GoesOn(from, to, todo) ==
    /\ page.pc = from /\ (from # "off" => page.todo = {})
    /\ page'.pc = to /\ page'.todo = todo /\ page'.seen = page.seen
    /\ page' \in PageRecord /\ last' = last
    /\ UNCHANGED <<total, byNs, hist, task, entries, events>>

LEMMA PartsFollow ==
    ASSUME MetricsInv, NEW from, NEW to, NEW todo, GoesOn(from, to, todo),
           pages' \in 0..MaxPages,
           \/ from = "off" /\ to = "totals"
           \/ from = "totals" /\ to = "ns"
           \/ from = "ns" /\ to = "hists",
           \A l \in Line : ValueOf(l) > 0 /\ PartNow + 1 = PartOf(l) => l \in todo
    PROVE  MetricsInv'
<1>1. TypeOK'
  BY DEF MetricsInv, TypeOK, GoesOn, PageRecord
<1>2. PartNow \in Nat /\ PartNow' = PartNow + 1
  BY DEF GoesOn, PartNow
<1>3. ASSUME NEW l \in Line
      PROVE  /\ (last[l] <= ValueOf(l) /\ page.seen[l] <= ValueOf(l))'
             /\ last[l]' > 0 =>
                  (\/ page.seen[l] >= last[l]
                   \/ l \in page.todo
                   \/ PartNow < PartOf(l))'
  <2>1. ValueOf(l)' = ValueOf(l) /\ ValueOf(l) \in Nat
    BY ValuesStay, ValuesTyped DEF MetricsInv, GoesOn
  <2>2. last'[l] = last[l] /\ page'.seen[l] = page.seen[l] /\ last[l] \in Int
    BY DEF GoesOn, MetricsInv, TypeOK, Value, NotRead
  <2>3. last[l] <= ValueOf(l) /\ page.seen[l] <= ValueOf(l)
    BY DEF MetricsInv, Shown
  <2>4. PartOf(l) \in Nat
    BY DEF PartOf
  <2>5. ASSUME last[l] > 0
        PROVE  (\/ page.seen[l] >= last[l]
                \/ l \in page.todo
                \/ PartNow < PartOf(l))'
    <3>1. \/ page.seen[l] >= last[l]
          \/ l \in page.todo
          \/ PartNow < PartOf(l)
      BY <2>5 DEF MetricsInv, Shown
    <3>2. CASE page.seen[l] >= last[l]
      BY <2>2, <3>2
    <3>3. CASE PartNow < PartOf(l)
      <4>1. ValueOf(l) > 0
        BY <2>1, <2>2, <2>3, <2>5
      <4>2. CASE PartNow + 1 = PartOf(l)
        BY <4>1, <4>2 DEF GoesOn
      <4>3. CASE PartNow + 1 # PartOf(l)
        <5>1. PartNow + 1 < PartOf(l)
          BY <1>2, <2>4, <3>3, <4>3
        <5> QED BY <1>2, <5>1 DEF PartOf
      <4> QED BY <4>2, <4>3
    <3>4. CASE l \in page.todo
      <4>1. from = "off"
        BY <3>4 DEF GoesOn
      <4>2. PartNow = 0 /\ PartOf(l) > 0
        BY <4>1 DEF GoesOn, PartNow, PartOf
      <4> QED BY <3>3, <4>2
    <3> QED BY <3>1, <3>2, <3>3, <3>4
  <2> QED BY <2>1, <2>2, <2>3, <2>5
<1>4. Shown'
  BY <1>3 DEF Shown
<1> QED BY <1>1, <1>4, PageOnly DEF GoesOn

LEMMA PageBeginsKeeps ==
    ASSUME MetricsInv, PageBegins
    PROVE  MetricsInv'
<1>1. PICK todo : todo = {l \in Line : l.kind = "total"}
  OBVIOUS
<1>2. /\ page.pc = "off" /\ pages < MaxPages /\ pages' = pages + 1
      /\ page' = [page EXCEPT !.pc = "totals", !.index = entries, !.todo = todo]
      /\ UNCHANGED <<total, byNs, hist, task, entries, events, last>>
  BY <1>1 DEF PageBegins, counters
<1>3. page \in PageRecord /\ entries \subseteq Namespace /\ todo \in SUBSET Line
  BY <1>1 DEF MetricsInv, TypeOK, PageRecord
<1>4. /\ page'.pc = "totals" /\ page'.todo = todo /\ page'.seen = page.seen
      /\ page' \in PageRecord
  BY <1>2, <1>3 DEF PageRecord
<1>5. GoesOn("off", "totals", todo)
  BY <1>2, <1>4 DEF GoesOn
<1>6. pages' \in 0..MaxPages
  BY <1>2, MetricsAssumption DEF MetricsInv, TypeOK
<1>7. ASSUME NEW l \in Line, PartNow + 1 = PartOf(l)
      PROVE  l \in todo
  BY <1>1, <1>2, <1>7 DEF PartNow, PartOf
<1> QED BY <1>5, <1>6, <1>7, PartsFollow

LEMMA PageTakesLockKeeps ==
    ASSUME MetricsInv, PageTakesLock
    PROVE  MetricsInv'
<1>1. PICK todo : todo = {l \in Line : l.kind = "ns" /\ l.n \in PageNamespaces}
  OBVIOUS
<1>2. /\ page.pc = "totals" /\ page.todo = {}
      /\ page' = [page EXCEPT !.pc = "ns", !.index = {}, !.todo = todo]
      /\ UNCHANGED <<total, byNs, hist, task, entries, events, last, pages>>
  BY <1>1 DEF PageTakesLock, counters
<1>3. page \in PageRecord /\ todo \in SUBSET Line
  BY <1>1 DEF MetricsInv, TypeOK, PageRecord
<1>4. /\ page'.pc = "ns" /\ page'.todo = todo /\ page'.seen = page.seen
      /\ page' \in PageRecord
  BY <1>2, <1>3 DEF PageRecord
<1>5. GoesOn("totals", "ns", todo)
  BY <1>2, <1>4 DEF GoesOn
<1>6. pages' \in 0..MaxPages
  BY <1>2 DEF MetricsInv, TypeOK
<1>7. ASSUME NEW l \in Line, ValueOf(l) > 0, PartNow + 1 = PartOf(l)
      PROVE  l \in todo
  <2>1. l.kind = "ns"
    BY <1>2, <1>7 DEF PartNow, PartOf
  <2>2. l.n \in DOMAIN byNs
    BY <1>7, <2>1 DEF ValueOf
  <2> QED BY <1>1, <2>1, <2>2 DEF PageNamespaces
<1> QED BY <1>5, <1>6, <1>7, PartsFollow

LEMMA PageDropsLockKeeps ==
    ASSUME MetricsInv, PageDropsLock
    PROVE  MetricsInv'
<1>1. PICK todo : todo = {l \in Line : l.kind \in {"bucket", "count", "sum"}}
  OBVIOUS
<1>2. /\ page.pc = "ns" /\ page.todo = {}
      /\ page' = [page EXCEPT !.pc = "hists", !.todo = todo]
      /\ UNCHANGED <<total, byNs, hist, task, entries, events, last, pages>>
  BY <1>1 DEF PageDropsLock, counters
<1>3. page \in PageRecord /\ todo \in SUBSET Line
  BY <1>1 DEF MetricsInv, TypeOK, PageRecord
<1>4. /\ page'.pc = "hists" /\ page'.todo = todo /\ page'.seen = page.seen
      /\ page' \in PageRecord
  BY <1>2, <1>3 DEF PageRecord
<1>5. GoesOn("ns", "hists", todo)
  BY <1>2, <1>4 DEF GoesOn
<1>6. pages' \in 0..MaxPages
  BY <1>2 DEF MetricsInv, TypeOK
<1>7. ASSUME NEW l \in Line, PartNow + 1 = PartOf(l)
      PROVE  l \in todo
  <2>1. l \in Cell /\ l.kind \notin {"total", "ns"}
    BY <1>2, <1>7 DEF PartNow, PartOf, Line
  <2> QED BY <1>1, <2>1, CellKinds
<1> QED BY <1>5, <1>6, <1>7, PartsFollow

\* One load.
LEMMA PageReadsKeeps ==
    ASSUME MetricsInv, PageReads
    PROVE  MetricsInv'
<1>1. PICK k \in page.todo :
        page' = [page EXCEPT !.todo = @ \ {k}, !.seen[k] = ValueOf(k)]
  BY DEF PageReads
<1>2. UNCHANGED <<total, byNs, hist, task, entries, events, last, pages>>
  BY DEF PageReads, counters
<1>3. page \in PageRecord
  BY DEF MetricsInv, TypeOK, PageRecord
<1>4. k \in Line /\ ValueOf(k) \in Nat
  <2>1. k \in Line
    BY <1>1, <1>3 DEF PageRecord
  <2> QED BY <2>1, ValuesTyped DEF MetricsInv
<1>5. PICK v \in Value : v = ValueOf(k)
  BY <1>4 DEF Value
<1>6. PICK seen : seen = [page.seen EXCEPT ![k] = v]
  OBVIOUS
<1>7. page.seen \in [Line -> Value] /\ page.todo \in SUBSET Line
  BY <1>3 DEF PageRecord
<1>8. /\ seen \in [Line -> Value] /\ seen[k] = v
      /\ \A l \in Line \ {k} : seen[l] = page.seen[l]
  BY <1>4, <1>6, <1>7
<1>9. page' = [page EXCEPT !.todo = page.todo \ {k}, !.seen = seen]
  BY <1>1, <1>5, <1>6
<1>10. /\ page' \in PageRecord /\ page'.pc = page.pc /\ page'.seen = seen
       /\ page'.todo = page.todo \ {k}
  BY <1>3, <1>7, <1>8, <1>9 DEF PageRecord
<1>11. TypeOK'
  BY <1>2, <1>10 DEF MetricsInv, TypeOK, PageRecord
<1>12. ASSUME NEW l \in Line
       PROVE  /\ (last[l] <= ValueOf(l) /\ page.seen[l] <= ValueOf(l))'
              /\ last[l]' > 0 =>
                   (\/ page.seen[l] >= last[l]
                    \/ l \in page.todo
                    \/ PartNow < PartOf(l))'
  <2>1. ValueOf(l)' = ValueOf(l) /\ ValueOf(l) \in Nat
    BY <1>2, ValuesStay, ValuesTyped DEF MetricsInv
  <2>2. last'[l] = last[l] /\ last[l] \in Int
    BY <1>2 DEF MetricsInv, TypeOK, Value, NotRead
  <2>3. last[l] <= ValueOf(l) /\ page.seen[l] <= ValueOf(l)
    BY DEF MetricsInv, Shown
  <2>4. CASE l = k
    BY <1>5, <1>8, <1>10, <2>1, <2>2, <2>3, <2>4
  <2>5. CASE l # k
    <3>1. page'.seen[l] = page.seen[l] /\ (l \in page'.todo <=> l \in page.todo)
      BY <1>8, <1>10, <2>5
    <3>2. PartNow' = PartNow
      BY <1>10 DEF PartNow
    <3>3. last[l] > 0 => \/ page.seen[l] >= last[l]
                         \/ l \in page.todo
                         \/ PartNow < PartOf(l)
      BY DEF MetricsInv, Shown
    <3> QED BY <2>1, <2>2, <2>3, <3>1, <3>2, <3>3 DEF PartOf
  <2> QED BY <2>4, <2>5
<1>13. Shown'
  BY <1>12 DEF Shown
<1> QED BY <1>2, <1>11, <1>13, PageOnly

LEMMA PageEndsKeeps ==
    ASSUME MetricsInv, PageEnds
    PROVE  MetricsInv'
<1>1. /\ page' = Off /\ last' = page.seen
      /\ UNCHANGED <<total, byNs, hist, task, entries, events, pages>>
  BY DEF PageEnds, counters
<1>2. Off.pc = "off" /\ Off.seen = Blank /\ Off \in PageRecord
  BY DEF Off, PageRecord, Blank, Value, NotRead
<1>3. TypeOK'
  BY <1>1, <1>2 DEF MetricsInv, TypeOK, PageRecord
<1>4. ASSUME NEW l \in Line
      PROVE  /\ (last[l] <= ValueOf(l) /\ page.seen[l] <= ValueOf(l))'
             /\ (PartNow < PartOf(l))'
  <2>1. ValueOf(l)' = ValueOf(l) /\ ValueOf(l) \in Nat
    BY <1>1, ValuesStay, ValuesTyped DEF MetricsInv
  <2>2. page.seen[l] <= ValueOf(l)
    BY DEF MetricsInv, Shown
  <2>3. Blank[l] = -1
    BY DEF Blank, NotRead
  <2>4. PartNow' = 0
    BY <1>1, <1>2 DEF PartNow
  <2>5. PartOf(l) > 0
    BY DEF PartOf
  <2>6. last'[l] <= ValueOf(l) /\ page'.seen[l] <= ValueOf(l)
    BY <1>1, <1>2, <2>1, <2>2, <2>3
  <2> QED BY <2>1, <2>4, <2>5, <2>6 DEF PartOf
<1>5. Shown'
  BY <1>4 DEF Shown
<1> QED BY <1>1, <1>3, <1>5, PageOnly

LEMMA IndexChangesKeeps ==
    ASSUME MetricsInv, NEW n \in Namespace, IndexChanges(n)
    PROVE  MetricsInv'
<1>1. UNCHANGED <<total, byNs, hist, task, page, last, pages>>
  BY DEF IndexChanges, counters
<1>2. TypeOK'
  <2>1. events' \in 0..MaxEvents
    BY MetricsAssumption DEF MetricsInv, TypeOK, IndexChanges
  <2>2. entries' \subseteq Namespace
    BY DEF MetricsInv, TypeOK, IndexChanges
  <2> QED BY <1>1, <2>1, <2>2 DEF MetricsInv, TypeOK
<1>3. Shown'
  <2>1. Grows
    <3>1. byNs \in [DOMAIN byNs -> [NsCounter -> Nat]]
      BY DEF MetricsInv, TypeOK
    <3>2. ASSUME NEW m \in DOMAIN byNs, NEW k \in NsCounter
          PROVE  byNs[m][k] <= byNs'[m][k]
      BY <1>1, <3>1
    <3> QED BY <1>1, <3>2, GrowsIfSame DEF MetricsInv
  <2> QED BY <1>1, <1>2, <2>1, GrowsShown DEF MetricsInv
<1> QED BY <1>1, <1>2, <1>3, PageOnly

-----------------------------------------------------------------------------
(* The theorems.                                                           *)

LEMMA MetricsInit ==
    ASSUME Init
    PROVE  MetricsInv
<1>1. \A t \in Task : task[t].todo = {} /\ task[t].write = {}
  BY DEF Init, Idle
<1>2. TypeOK
  <2>1. task \in [Task -> TaskRecord]
    <3>1. Idle \in TaskRecord
      BY DEF Idle, TaskRecord
    <3> QED BY <3>1 DEF Init
  <2>2. page \in PageRecord /\ last \in [Line -> Value]
    BY DEF Init, Off, PageRecord, Blank, Value, NotRead
  <2>3. DOMAIN byNs = {} /\ byNs \in [DOMAIN byNs -> [NsCounter -> Nat]]
    BY DEF Init
  <2>4. total \in [Total -> Nat]
    BY DEF Init
  <2>5. hist \in [Hist -> Histogram]
    BY DEF Init, Histogram
  <2>6. events \in 0..MaxEvents /\ pages \in 0..MaxPages /\ entries \subseteq Namespace
    BY MetricsAssumption DEF Init
  <2> QED BY <2>1, <2>2, <2>3, <2>4, <2>5, <2>6 DEF TypeOK, PageRecord, Histogram, TaskRecord
<1>3. OneNs({})
  BY DEF OneNs
<1>4. Waiting
  BY <1>1 DEF Waiting
<1>5. Ledger
  <2>1. ASSUME NEW A
        PROVE  Owed(A) = 0
    <3>1. Pending(task, A) = {}
      BY <1>1 DEF Pending
    <3> QED BY <3>1, FS_EmptySet DEF Owed
  <2>2. ASSUME NEW c \in NsCounter
        PROVE  IsFiniteSet(Counted(c)) /\ DueSum(c) = 0
    <3>1. DOMAIN byNs = {}
      BY DEF Init
    <3>2. Counted(c) = {}
      BY <3>1 DEF Counted
    <3> QED BY <2>1, <3>2, FS_EmptySet DEF SumOver, DueSum
  <2>3. \A c \in Total : DueTotal(c) = 0
    BY <2>1 DEF Init, DueTotal
  <2>4. /\ \A h \in Hist : DueCount(h) = 0
        /\ \A h \in Hist, i \in 1..Buckets : DueBucket(h, i) = 0
    <3>1. /\ \A h \in Hist : hist[h].count = 0
          /\ \A h \in Hist, i \in 1..Buckets : hist[h].bucket[i] = 0
      BY DEF Init
    <3> QED BY <2>1, <3>1 DEF DueCount, DueBucket
  <2>5. \A h \in Hist, i \in 1..Buckets :
          DueBucket(h, i) <= IF i = Buckets THEN DueCount(h) ELSE DueBucket(h, i + 1)
    BY <2>4, Names
  <2> QED BY <2>2, <2>3, <2>4, <2>5, Names DEF Ledger
<1>6. Shown
  <2>1. PartNow = 0
    BY DEF Init, Off, PartNow
  <2>2. ASSUME NEW l \in Line
        PROVE  /\ last[l] <= ValueOf(l) /\ page.seen[l] <= ValueOf(l)
               /\ PartNow < PartOf(l)
    <3>1. ValueOf(l) \in Nat
      BY <1>2, ValuesTyped
    <3>2. last[l] = -1 /\ page.seen[l] = -1
      BY DEF Init, Off, Blank, NotRead
    <3>3. PartOf(l) > 0
      BY DEF PartOf
    <3> QED BY <2>1, <3>1, <3>2, <3>3
  <2> QED BY <2>2 DEF Shown
<1> QED BY <1>1, <1>2, <1>3, <1>4, <1>5, <1>6 DEF MetricsInv

LEMMA MetricsNext ==
    ASSUME MetricsInv, [Next]_vars
    PROVE  MetricsInv'
<1>1. ASSUME NEW t \in Task, NEW c \in Ops, NEW n \in Namespace, NEW d \in Latency,
             Begin(t, c, n, d)
      PROVE  MetricsInv'
  BY <1>1, BeginKeeps
<1>2. ASSUME NEW t \in Task, TaskStep(t)
      PROVE  MetricsInv'
  BY <1>2, AddKeeps, NsReadKeeps, NsWriteKeeps DEF TaskStep
<1>3. CASE PageBegins
  BY <1>3, PageBeginsKeeps
<1>4. CASE PageStep
  BY <1>4, PageTakesLockKeeps, PageDropsLockKeeps, PageReadsKeeps, PageEndsKeeps
     DEF PageStep
<1>5. ASSUME NEW n \in Namespace, IndexChanges(n)
      PROVE  MetricsInv'
  BY <1>5, IndexChangesKeeps
<1>6. CASE UNCHANGED vars
  <2>1. TypeOK'
    BY <1>6 DEF vars, MetricsInv, TypeOK
  <2>2. Shown'
    BY <1>6 DEF vars, MetricsInv, Shown, ValueOf, PartNow, PartOf
  <2> QED BY <1>6, <2>1, <2>2, PageOnly DEF vars
<1> QED BY <1>1, <1>2, <1>3, <1>4, <1>5, <1>6 DEF Next

\* The inductive invariant: every whole is its parts and what tasks in the
\* middle of a record_* owe them, and no page is ahead of the counters.
THEOREM MetricsInvariant == Spec => []MetricsInv
<1>1. Init => MetricsInv
  BY MetricsInit
<1>2. MetricsInv /\ [Next]_vars => MetricsInv'
  BY MetricsNext
<1> QED BY <1>1, <1>2, PTL DEF Spec

\* Between calls no update is missing, whatever the tasks of record_* did at
\* the same time and whichever of them created a namespace.
THEOREM RestingCountersAgreeHolds == Spec => []RestingCountersAgree
<1>1. MetricsInv => RestingCountersAgree
  <2> SUFFICES ASSUME MetricsInv
               PROVE  TypeOK /\ ((\A t \in Task : task[t] = Idle) =>
                        /\ total["queries"] = total["hit"] + total["miss"]
                        /\ \A c \in NsCounter : total[c] = SumOver(c)
                        /\ hist["query"].count = total["queries"]
                        /\ hist["insert"].count = total["insert"]
                        /\ \A h \in Hist, i \in 1..Buckets :
                             hist[h].bucket[i] <= IF i = Buckets THEN hist[h].count
                                                  ELSE hist[h].bucket[i + 1])
    BY DEF RestingCountersAgree
  <2>0. TypeOK
    BY DEF MetricsInv
  <2> SUFFICES ASSUME \A t \in Task : task[t] = Idle
               PROVE  /\ total["queries"] = total["hit"] + total["miss"]
                      /\ \A c \in NsCounter : total[c] = SumOver(c)
                      /\ hist["query"].count = total["queries"]
                      /\ hist["insert"].count = total["insert"]
                      /\ \A h \in Hist, i \in 1..Buckets :
                           hist[h].bucket[i] <= IF i = Buckets THEN hist[h].count
                                                ELSE hist[h].bucket[i + 1]
    BY <2>0
  <2>1. ASSUME NEW A
        PROVE  Owed(A) = 0
    <3>1. \A t \in Task : task[t].todo = {}
      BY DEF Idle
    <3>2. Pending(task, A) = {}
      BY <3>1 DEF Pending
    <3> QED BY <3>2, FS_EmptySet DEF Owed
  <2>2. /\ \A c \in Total : total[c] \in Nat
        /\ \A h \in Hist : hist[h].count \in Nat
        /\ \A h \in Hist : hist[h].bucket \in [1..Buckets -> Nat]
    BY <2>0 DEF TypeOK
  <2>3. \A c \in Total : DueTotal(c) = total[c]
    BY <2>1, <2>2 DEF DueTotal
  <2>4. \A h \in Hist : DueCount(h) = hist[h].count
    BY <2>1, <2>2 DEF DueCount
  <2>5. \A h \in Hist, i \in 1..Buckets : DueBucket(h, i) = hist[h].bucket[i]
    <3>1. \A h \in Hist, i \in 1..Buckets : hist[h].bucket[i] \in Nat
      BY <2>2
    <3> QED BY <2>1, <3>1 DEF DueBucket
  <2>6. \A c \in NsCounter : DueSum(c) = SumOver(c)
    <3> SUFFICES ASSUME NEW c \in NsCounter
                 PROVE  DueSum(c) = SumOver(c)
      OBVIOUS
    <3>1. SumOver(c) \in Nat
      BY FS_CardinalityType DEF MetricsInv, Ledger, SumOver
    <3> QED BY <2>1, <3>1 DEF DueSum
  <2>7. /\ DueTotal("queries") = DueTotal("hit") + DueTotal("miss")
        /\ \A c \in NsCounter : DueTotal(c) = DueSum(c)
        /\ DueCount("query") = DueTotal("queries")
        /\ DueCount("insert") = DueTotal("insert")
        /\ \A h \in Hist, i \in 1..Buckets :
             DueBucket(h, i) <= IF i = Buckets THEN DueCount(h) ELSE DueBucket(h, i + 1)
    BY DEF MetricsInv, Ledger
  <2>8. total["queries"] = total["hit"] + total["miss"]
    BY <2>3, <2>7, Names
  <2>9. \A c \in NsCounter : total[c] = SumOver(c)
    BY <2>3, <2>6, <2>7, Names
  <2>10. hist["query"].count = total["queries"] /\ hist["insert"].count = total["insert"]
    BY <2>3, <2>4, <2>7, Names
  <2>11. \A h \in Hist, i \in 1..Buckets :
           hist[h].bucket[i] <= IF i = Buckets THEN hist[h].count
                                ELSE hist[h].bucket[i + 1]
    BY <2>4, <2>5, <2>7, Names
  <2> QED BY <2>8, <2>9, <2>10, <2>11
<1> QED BY <1>1, MetricsInvariant, PTL

\* No counter of the /metrics page goes back from one page to the next, and no
\* namespace that has counted disappears from it.
THEOREM PagesNeverGoBackHolds == Spec => []PagesNeverGoBack
<1>1. MetricsInv => PagesNeverGoBack
  <2> SUFFICES ASSUME MetricsInv, page.pc = "hists", page.todo = {},
                      NEW l \in Line, last[l] > 0
               PROVE  page.seen[l] >= last[l]
    BY DEF PagesNeverGoBack
  <2>1. PartNow = 3 /\ PartOf(l) \in 1..3
    BY DEF PartNow, PartOf
  <2>2. \/ page.seen[l] >= last[l]
        \/ l \in page.todo
        \/ PartNow < PartOf(l)
    BY DEF MetricsInv, Shown
  <2> QED BY <2>1, <2>2
<1> QED BY <1>1, MetricsInvariant, PTL

=============================================================================
