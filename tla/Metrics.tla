------------------------------- MODULE Metrics -------------------------------
(***************************************************************************)
(* The counters of one node (metrics.rs), updated by many tasks and read   *)
(* by the /metrics page (metrics_handler of server.rs).                    *)
(*                                                                         *)
(* A record_* function is a set of relaxed atomic updates, which the other *)
(* tasks see one by one and in any order; a page is a set of loads.  The   *)
(* locks alone give an order: a namespace's counters are looked up under   *)
(* the read lock and created under the write lock, with the lock released  *)
(* in between.  A latency is the number of the smallest bucket that takes  *)
(* it.                                                                     *)
(***************************************************************************)
EXTENDS Integers, FiniteSets

CONSTANTS
    Task,         \* tasks that record
    Namespace,    \* namespaces
    Buckets,      \* how many bounds a histogram has
    Ops,          \* bound: the record_* functions that are called
    Watched(_),   \* bound: the lines of the page that are followed
    MaxEvents,    \* bound on their calls and on changes of the index
    MaxPages      \* bound on the pages rendered

ASSUME MetricsAssumption ==
    /\ Buckets \in Nat \ {0} /\ MaxEvents \in Nat /\ MaxPages \in Nat
    /\ IsFiniteSet(Task)

-----------------------------------------------------------------------------
(* Counters and updates.                                                   *)

\* The fields of NamespaceMetrics.
NsCounter == {"hit", "miss", "insert", "evict", "expire", "delete",
              "invalidate", "exact"}

\* Of these some count along with a latency.
Timed == {"hit", "miss", "insert"}

\* The counters that no namespace has.
Plain == {"forward", "failure", "retry", "compact", "ring", "repair",
          "repair_failure", "rebuild"}

Total == {"queries"} \cup NsCounter \cup Plain

Hist == {"query", "insert"}

ASSUME OpsAssumption == Ops \subseteq NsCounter \cup Plain

\* One atomic update, or one line of a page: counter c in total or for
\* namespace n, or bucket i, sum (of which d is added) or count of histogram h.
TotalOf(c)     == [kind |-> "total",  c |-> c]
OfNs(c, n)     == [kind |-> "ns",     c |-> c, n |-> n]
BucketOf(h, i) == [kind |-> "bucket", c |-> h, i |-> i]
SumOf(h, d)    == [kind |-> "sum",    c |-> h, i |-> d]
CountOf(h)     == [kind |-> "count",  c |-> h]

Latency == 1..Buckets + 1

Cell == {TotalOf(c) : c \in Total}
          \cup {OfNs(c, n) : c \in NsCounter, n \in Namespace}
          \cup {BucketOf(h, i) : h \in Hist, i \in 1..Buckets}
          \cup {SumOf(h, d) : h \in Hist, d \in {0} \cup Latency}
          \cup {CountOf(h) : h \in Hist}

-----------------------------------------------------------------------------
(* record_*.                                                               *)

\* LatencyHistogram::observe: the buckets that take d, the sum and the count.
observe(h, d) ==
    {BucketOf(h, i) : i \in d..Buckets} \cup {SumOf(h, d), CountOf(h)}

\* record_query_hit, record_query_miss.
record_query(c, n, d) ==
    {TotalOf("queries"), TotalOf(c), OfNs(c, n)} \cup observe("query", d)

record_insert(n, d) ==
    {TotalOf("insert"), OfNs("insert", n)} \cup observe("insert", d)

\* record_eviction, record_expiration, record_deletion, record_invalidation.
record_removal(c, n) == {TotalOf(c), OfNs(c, n)}

\* What is also a hit has been recorded as one before.
record_exact_match_hit(n) == {TotalOf("exact"), OfNs("exact", n)}

\* The counters with a function of their own each.
record_plain(c) == {TotalOf(c)}

Record(c, n, d) ==
    CASE c \in {"hit", "miss"} -> record_query(c, n, d)
      [] c = "insert"          -> record_insert(n, d)
      [] c = "exact"           -> record_exact_match_hit(n)
      [] c \in Plain           -> record_plain(c)
      [] OTHER                 -> record_removal(c, n)

-----------------------------------------------------------------------------
VARIABLES
    total,     \* the counters of Metrics
    byNs,      \* namespace_metrics: the namespaces it has and their counters
    hist,      \* query_duration and insert_duration
    task,      \* updates of a task not seen yet, and the lookup that failed
    entries,   \* the namespaces of the index, and their entries
    page,      \* the page being rendered
    last,      \* the page before
    events,    \* calls of record_* and changes of the index so far
    pages      \* pages so far

vars == <<total, byNs, hist, task, entries, page, last, events, pages>>

Zeros == [c \in NsCounter |-> 0]

\* A line that is not on the page.
NotRead == -1

Value == Nat \cup {NotRead}

\* The lines a page can have.
Line == {l \in Cell : (l.kind = "sum" => l.i = 0) /\ Watched(l)}

Blank == [l \in Line |-> NotRead]

TypeOK ==
    /\ total \in [Total -> Nat]
    /\ DOMAIN byNs \subseteq Namespace
    /\ byNs \in [DOMAIN byNs -> [NsCounter -> Nat]]
    /\ hist \in [Hist -> [bucket : [1..Buckets -> Nat], sum : Nat, count : Nat]]
    /\ task \in [Task -> [todo : SUBSET Cell, write : SUBSET Cell]]
    /\ entries \subseteq Namespace
    /\ page \in [pc : {"off", "totals", "ns", "hists"}, todo : SUBSET Line,
                index : SUBSET Namespace, seen : [Line -> Value]]
    /\ last \in [Line -> Value]
    /\ events \in 0..MaxEvents /\ pages \in 0..MaxPages

Idle == [todo |-> {}, write |-> {}]

Off == [pc |-> "off", todo |-> {}, index |-> {}, seen |-> Blank]

\* After replay: the index has its entries, the counters start at zero.
Init ==
    /\ total = [c \in Total |-> 0]
    /\ byNs = [n \in {} |-> Zeros]
    /\ hist = [h \in Hist |-> [bucket |-> [i \in 1..Buckets |-> 0],
                               sum |-> 0, count |-> 0]]
    /\ task = [t \in Task |-> Idle]
    /\ entries = Namespace /\ page = Off /\ last = Blank
    /\ events = 0 /\ pages = 0

-----------------------------------------------------------------------------
(* A task records.                                                         *)

pageVars == <<entries, page, last, pages>>

Begin(t, c, n, d) ==
    /\ task[t] = Idle /\ events < MaxEvents
    /\ task' = [task EXCEPT ![t].todo = Record(c, n, d)]
    /\ events' = events + 1
    /\ UNCHANGED <<total, byNs, hist, pageVars>>

Done(t, u) ==
    task' = [task EXCEPT ![t] = [todo |-> @.todo \ {u}, write |-> @.write \ {u}]]

\* fetch_add on a counter of Metrics or of a histogram.
Add(t, u) ==
    /\ u.kind # "ns"
    /\ Done(t, u)
    /\ total' = IF u.kind = "total" THEN [total EXCEPT ![u.c] = @ + 1] ELSE total
    /\ hist' = CASE u.kind = "bucket" -> [hist EXCEPT ![u.c].bucket[u.i] = @ + 1]
                 [] u.kind = "sum"    -> [hist EXCEPT ![u.c].sum = @ + u.i]
                 [] u.kind = "count"  -> [hist EXCEPT ![u.c].count = @ + 1]
                 [] OTHER             -> hist
    /\ UNCHANGED <<byNs, events, pageVars>>

\* Under the read lock: a namespace that is there is counted, else the task
\* goes for the write lock.
NsRead(t, u) ==
    /\ u.kind = "ns" /\ task[t].write = {}
    /\ IF u.n \in DOMAIN byNs
       THEN byNs' = [byNs EXCEPT ![u.n][u.c] = @ + 1] /\ Done(t, u)
       ELSE task' = [task EXCEPT ![t].write = {u}] /\ UNCHANGED byNs
    /\ UNCHANGED <<total, hist, events, pageVars>>

\* Mutant: the namespace is put into the map, whether it is there or not.
NsWrite_Inserts(t, u) ==
    /\ u \in task[t].write /\ page.pc # "ns"
    /\ byNs' = [n \in DOMAIN byNs \cup {u.n} |->
                  IF n = u.n THEN [Zeros EXCEPT ![u.c] = 1] ELSE byNs[n]]
    /\ Done(t, u)
    /\ UNCHANGED <<total, hist, events, pageVars>>

\* Under the write lock, which waits for a page's read lock: entry().or_default().
NsWrite(t, u) ==
    LET old == IF u.n \in DOMAIN byNs THEN byNs[u.n] ELSE Zeros
    IN  /\ u \in task[t].write /\ page.pc # "ns"
        /\ byNs' = [n \in DOMAIN byNs \cup {u.n} |->
                      IF n = u.n THEN [old EXCEPT ![u.c] = @ + 1] ELSE byNs[n]]
        /\ Done(t, u)
        /\ UNCHANGED <<total, hist, events, pageVars>>

-----------------------------------------------------------------------------
(* metrics_handler and render.                                             *)

counters == <<total, byNs, hist, task>>

\* namespace_stats under the index lock, then render.
PageBegins ==
    /\ page.pc = "off" /\ pages < MaxPages
    /\ page' = [page EXCEPT !.pc = "totals", !.index = entries,
                  !.todo = {l \in Line : l.kind = "total"}]
    /\ pages' = pages + 1
    /\ UNCHANGED <<counters, entries, events, last>>

\* Mutant: the namespaces of the index, without those that only have counts.
PageNamespaces_Index == page.index

\* The namespaces a page lists: those with counters and those of the index.
PageNamespaces == DOMAIN byNs \cup page.index

\* The read lock on namespace_metrics is taken, and held for all of its lines.
PageTakesLock ==
    /\ page.pc = "totals" /\ page.todo = {}
    /\ page' = [page EXCEPT !.pc = "ns", !.index = {},
                  !.todo = {l \in Line : l.kind = "ns" /\ l.n \in PageNamespaces}]
    /\ UNCHANGED <<counters, entries, events, last, pages>>

PageDropsLock ==
    /\ page.pc = "ns" /\ page.todo = {}
    /\ page' = [page EXCEPT !.pc = "hists",
                  !.todo = {l \in Line : l.kind \in {"bucket", "count", "sum"}}]
    /\ UNCHANGED <<counters, entries, events, last, pages>>

\* The value of a line now; a namespace without counters shows zeros.
ValueOf(l) ==
    CASE l.kind = "total"  -> total[l.c]
      [] l.kind = "ns"     -> IF l.n \in DOMAIN byNs THEN byNs[l.n][l.c] ELSE 0
      [] l.kind = "bucket" -> hist[l.c].bucket[l.i]
      [] l.kind = "sum"    -> hist[l.c].sum
      [] l.kind = "count"  -> hist[l.c].count

\* One load.
PageReads ==
    /\ \E l \in page.todo :
         page' = [page EXCEPT !.todo = @ \ {l}, !.seen[l] = ValueOf(l)]
    /\ UNCHANGED <<counters, entries, events, last, pages>>

\* The page is out; it is what the next one is compared with.
PageEnds ==
    /\ page.pc = "hists" /\ page.todo = {}
    /\ page' = Off /\ last' = page.seen
    /\ UNCHANGED <<counters, entries, events, pages>>

\* The index gets its first entry in n, or prunes n.
IndexChanges(n) ==
    /\ events < MaxEvents /\ events' = events + 1
    /\ entries' = IF n \in entries THEN entries \ {n} ELSE entries \cup {n}
    /\ UNCHANGED <<counters, page, last, pages>>

-----------------------------------------------------------------------------
TaskStep(t) ==
    \E u \in task[t].todo : Add(t, u) \/ NsRead(t, u) \/ NsWrite(t, u)

PageStep ==
    PageTakesLock \/ PageDropsLock \/ PageReads \/ PageEnds

Next ==
    \/ \E t \in Task, c \in Ops, n \in Namespace, d \in Latency :
         Begin(t, c, n, d)
    \/ \E t \in Task : TaskStep(t)
    \/ PageBegins \/ PageStep
    \/ \E n \in Namespace : IndexChanges(n)

Spec == Init /\ [][Next]_vars

-----------------------------------------------------------------------------
(* Properties.                                                             *)

\* The sum of counter c over its namespaces: each of them has one pair per count.
Counted(c) == UNION {{n} \X (1..byNs[n][c]) : n \in DOMAIN byNs}

SumOver(c) == Cardinality(Counted(c))

\* Once the updates of all calls are seen none is missing, in whatever order
\* they were and whichever task created a namespace: every query is a hit or a
\* miss, a counter is the sum of its namespaces, the histograms have one
\* observation per query and insert, in cumulative buckets (and every state is
\* of its type).
RestingCountersAgree ==
    /\ TypeOK
    /\ (\A t \in Task : task[t] = Idle) =>
        /\ total["queries"] = total["hit"] + total["miss"]
        /\ \A c \in NsCounter : total[c] = SumOver(c)
        /\ hist["query"].count = total["queries"]
        /\ hist["insert"].count = total["insert"]
        /\ \A h \in Hist, i \in 1..Buckets :
             hist[h].bucket[i] <= IF i = Buckets THEN hist[h].count
                                  ELSE hist[h].bucket[i + 1]

\* A counter on the page never goes back, which a scraper would take for a
\* restart, and no namespace that has counted disappears from it, even if the
\* index has pruned it in the meantime.
PagesNeverGoBack ==
    page.pc = "hists" /\ page.todo = {} =>
        \A l \in Line : last[l] > 0 => page.seen[l] >= last[l]

=============================================================================
