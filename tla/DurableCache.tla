---------------------------- MODULE DurableCache ----------------------------
(***************************************************************************)
(* What a node promises its clients, without log, snapshot, batches or     *)
(* locks: while it is up it holds some entries, among them every one it    *)
(* has acknowledged, and none whose removal is confirmed.  A crash forgets *)
(* what it holds and neither of the two; what was in doubt at the crash    *)
(* may be there afterwards or not.  GroupCommitWal implements it.          *)
(***************************************************************************)

CONSTANT Uuids      \* entry identifiers

VARIABLES
    up,          \* the node has recovered
    contents,    \* the entries it holds
    promised,    \* inserts answered Ok and not removed since
    gone         \* removals that are confirmed, with no insert since

vars == <<up, contents, promised, gone>>

Init ==
    /\ up = FALSE
    /\ contents = {} /\ promised = {} /\ gone = {}

\* A client asks for an entry that was removed to be stored again.
Offer(u) ==
    /\ up
    /\ gone' = gone \ {u}
    /\ UNCHANGED <<up, contents, promised>>

\* The entry is stored and acknowledged, or only stored: its insert may have
\* been overtaken by a removal.
Store(u) ==
    /\ up
    /\ contents' = contents \cup {u}
    /\ promised' \in {promised, promised \cup {u}}
    /\ gone' = gone \ {u}
    /\ UNCHANGED up

\* Entries are deleted, invalidated, evicted or expire.
Remove(S) ==
    /\ up
    /\ contents' = contents \ S
    /\ promised' = promised \ S
    /\ UNCHANGED <<up, gone>>

\* The removal of entries becomes final.
Confirm(S) ==
    /\ up /\ S \cap promised = {}
    /\ contents' = contents \ S
    /\ gone' = gone \cup S
    /\ UNCHANGED <<up, promised>>

Crash ==
    /\ up' = FALSE /\ contents' = {}
    /\ UNCHANGED <<promised, gone>>

\* All that was promised, nothing that is gone, less what has expired.
Recover(S, expired) ==
    /\ ~up /\ up' = TRUE
    /\ promised \subseteq S /\ S \cap gone = {}
    /\ contents' = S \ expired
    /\ promised' = promised \ expired
    /\ UNCHANGED gone

Next ==
    \/ \E u \in Uuids : Offer(u) \/ Store(u)
    \/ \E S \in SUBSET Uuids : Remove(S) \/ Confirm(S)
    \/ Crash
    \/ \E S, expired \in SUBSET Uuids : Recover(S, expired)

Spec == Init /\ [][Next]_vars

=============================================================================
