------------------------------ MODULE Requests ------------------------------
(***************************************************************************)
(* Scopes and conversations on one node (server.rs, index.rs): the keys of *)
(* namespaces, the two-level lookup of a query in a conversation under one *)
(* read lock, deadlines, repairs, invalidations and the reaper.            *)
(*                                                                         *)
(* A string is the sequence of its pieces, so that keys are built the way  *)
(* format! builds them: each colon, each "conv_" and each space is a piece *)
(* of its own, and so is the text between two of them.  An optional field  *)
(* is a set with at most one element.  All requests are about one          *)
(* embedding.  The tables behind a namespace are SemanticIndex's subject,  *)
(* the flush task GroupCommitWal's; here a write is one step under the     *)
(* write lock.                                                             *)
(***************************************************************************)
EXTENDS Integers, Sequences

CONSTANTS
    Models,        \* model_id of valid requests
    Scopes,        \* cache_scope
    Conversations, \* conversation_id
    Ttls,          \* ttl_seconds
    ConversationTtl, \* conversation_ttl_seconds
    LastSecond,    \* u64::MAX
    Queries,       \* query handlers
    MaxInserts,    \* bound on inserts
    MaxTime        \* bound on the clock

\* Nothing but white space.
Blank(s) == \A i \in DOMAIN s : s[i] = " "

None == {}
Some(x) == {x}
Options(S) == {None} \cup {Some(x) : x \in S}
Unwrap(o) == CHOOSE x \in o : TRUE

\* filter(|s| !s.trim().is_empty())
Given(o) == {s \in o : ~Blank(s)}

ASSUME RequestsAssumption ==
    /\ Models # {} /\ \A m \in Models : ~Blank(m)
    /\ \A s \in Models \cup Scopes \cup Conversations : s \in Seq(STRING)
    /\ Ttls \subseteq Nat
    /\ ConversationTtl \subseteq Nat
    /\ ConversationTtl = None \/ \E t \in ConversationTtl : ConversationTtl = Some(t)
    /\ LastSecond \in Nat /\ MaxInserts \in Nat
    /\ MaxTime \in Nat /\ MaxTime <= LastSecond    \* the clock is a u64 too

-----------------------------------------------------------------------------
(* Namespace keys.                                                         *)

Separator == <<":", ":">>

effective_namespace(model, scope) ==
    IF Given(scope) = None THEN model
    ELSE model \o Separator \o Unwrap(Given(scope))

\* Mutant: nothing marks a conversation.
conversation_namespace_NoPrefix(model, scope, id) ==
    effective_namespace(model, scope) \o Separator \o id

conversation_namespace(model, scope, id) ==
    effective_namespace(model, scope) \o Separator \o (<<"conv_">> \o id)

\* Where an insert goes.
InsertNamespace(r) ==
    IF Given(r.conv) = None THEN effective_namespace(r.model, r.scope)
    ELSE conversation_namespace(r.model, r.scope, Unwrap(Given(r.conv)))

-----------------------------------------------------------------------------
(* Deadlines.                                                              *)

\* An explicit TTL wins, a conversation has a default.
EffectiveTtl(r, ttl) ==
    IF ttl # None THEN ttl
    ELSE IF Given(r.conv) # None THEN ConversationTtl ELSE None

\* Mutant: the sum wraps around.
Deadline_Wraps(now, ttl) == {(now + t) % (LastSecond + 1) : t \in ttl}

\* inserted_at.saturating_add(ttl)
Deadline(now, ttl) ==
    {IF now + t > LastSecond THEN LastSecond ELSE now + t : t \in ttl}

Live(e, now) == \A d \in e.expires_at : now <= d

-----------------------------------------------------------------------------
VARIABLES
    store,     \* the entries of the index
    replica,   \* the entries of a replica, that repairs are made from
    lookup,    \* the query handlers
    clock,
    inserts    \* inserts so far

vars == <<store, replica, lookup, clock, inserts>>

Request == [model : Models, scope : Options(Scopes),
            conv : Options(Conversations)]

\* The keys there can be.
Namespaces == {InsertNamespace(r) : r \in Request}

\* ns is the key; for is the request that the entry was inserted by.
Entry == [id : 1..MaxInserts, ns : Namespaces, for : Request,
          inserted_at : 0..MaxTime, expires_at : Options(0..LastSecond)]

Lookup == [pc : {"idle", "lock", "conv", "base"}, req : Request,
           now : 0..MaxTime, exact : BOOLEAN]

AnyRequest == CHOOSE r \in Request : TRUE

Idle == [pc |-> "idle", req |-> AnyRequest, now |-> 0, exact |-> FALSE]

TypeOK ==
    /\ store \subseteq Entry /\ replica \subseteq Entry
    /\ lookup \in [Queries -> Lookup]
    /\ clock \in 0..MaxTime /\ inserts \in 0..MaxInserts

Init ==
    /\ store = {} /\ replica = {} /\ clock = 0 /\ inserts = 0
    /\ lookup = [q \in Queries |-> Idle]

\* Mutant: the lock is released between the levels.
WriteLock_BetweenLevels == \A q \in Queries : lookup[q].pc # "conv"

\* No query holds the read lock.
WriteLock == \A q \in Queries : lookup[q].pc \notin {"conv", "base"}

-----------------------------------------------------------------------------
(* Inserts, repairs and removals.                                          *)

\* local_insert_inner, on this node or on its replica only.
Insert(r, ttl, here) ==
    LET e == [id |-> inserts + 1, ns |-> InsertNamespace(r), for |-> r,
              inserted_at |-> clock,
              expires_at |-> Deadline(clock, EffectiveTtl(r, ttl))]
    IN  /\ inserts < MaxInserts /\ inserts' = inserts + 1
        /\ replica' = replica \cup {e}
        /\ IF here THEN WriteLock /\ store' = store \cup {e}
           ELSE UNCHANGED store
        /\ UNCHANGED <<lookup, clock>>

\* insert_with_uuid leaves an id that is there alone.
Put(e) == IF \E f \in store : f.id = e.id THEN store ELSE store \cup {e}

\* perform_repair: id, key and deadline of its source.
Repair(e) ==
    /\ e \in replica /\ WriteLock
    /\ store' = Put(e)
    /\ UNCHANGED <<replica, lookup, clock, inserts>>

\* read_repair_handler, which takes no deadline.
PushRepair(e) ==
    /\ e \in replica /\ WriteLock
    /\ store' = Put([e EXCEPT !.inserted_at = clock, !.expires_at = None])
    /\ UNCHANGED <<replica, lookup, clock, inserts>>

StartsWith(s, prefix) ==
    Len(s) >= Len(prefix) /\ SubSeq(s, 1, Len(prefix)) = prefix

\* Mutant: the conversations of the scope go too.
Invalidate_Conversations(r) ==
    LET ns == effective_namespace(r.model, r.scope) IN
    /\ WriteLock
    /\ store' = {e \in store : ~StartsWith(e.ns, ns) \/ ~Live(e, clock)}
    /\ UNCHANGED <<replica, lookup, clock, inserts>>

\* invalidate_handler: the live entries of the one namespace.
Invalidate(r) ==
    /\ WriteLock
    /\ store' = {e \in store : e.ns # effective_namespace(r.model, r.scope)
                                 \/ ~Live(e, clock)}
    /\ UNCHANGED <<replica, lookup, clock, inserts>>

\* The reaper.
Reap ==
    /\ WriteLock
    /\ store' = {e \in store : Live(e, clock)}
    /\ UNCHANGED <<replica, lookup, clock, inserts>>

Tick ==
    /\ clock < MaxTime /\ clock' = clock + 1
    /\ UNCHANGED <<store, replica, lookup, inserts>>

-----------------------------------------------------------------------------
(* process_query_locally.                                                  *)

rest == <<store, replica, clock, inserts>>

\* The time is read before the lock.
QueryBegin(q, r) ==
    /\ lookup[q] = Idle
    /\ lookup' = [lookup EXCEPT ![q] = [Idle EXCEPT !.pc = "lock", !.req = r,
                                                    !.now = clock]]
    /\ UNCHANGED rest

\* One acquisition for both levels.  exact is what SemanticIndex says of the
\* conversation's graph: it is small and the overscan covers its ghosts.
QueryLock(q) ==
    /\ lookup[q].pc = "lock"
    /\ \E exact \in BOOLEAN :
         lookup' = [lookup EXCEPT ![q].exact = exact,
                                  ![q].pc = IF Given(lookup[q].req.conv) = None
                                            THEN "base" ELSE "conv"]
    /\ UNCHANGED rest

\* The entries that query_with_text may return.
Hits(ns, now) == {e \in store : e.ns = ns /\ Live(e, now)}

\* It returns none: there is none, the search is not exact, or an entry that
\* waits for the reaper took the place of the one candidate.
MayMiss(ns, now, exact) ==
    \/ Hits(ns, now) = {}
    \/ ~exact
    \/ \E e \in store : e.ns = ns /\ ~Live(e, now)

ConvKey(q) ==
    LET r == lookup[q].req
    IN  conversation_namespace(r.model, r.scope, Unwrap(Given(r.conv)))

ConvHits(q) == Hits(ConvKey(q), lookup[q].now)

BaseHits(q) ==
    Hits(effective_namespace(lookup[q].req.model, lookup[q].req.scope),
         lookup[q].now)

\* A hit in the conversation is the answer and ends the lookup.
QueryConv(q) ==
    /\ lookup[q].pc = "conv"
    /\ \/ ConvHits(q) # {} /\ lookup' = [lookup EXCEPT ![q] = Idle]
       \/ /\ MayMiss(ConvKey(q), lookup[q].now, lookup[q].exact)
          /\ lookup' = [lookup EXCEPT ![q].pc = "base"]
    /\ UNCHANGED rest

\* A hit in the base namespace, or a miss.
QueryBase(q) ==
    /\ lookup[q].pc = "base"
    /\ lookup' = [lookup EXCEPT ![q] = Idle]
    /\ UNCHANGED rest

Next ==
    \/ \E r \in Request, ttl \in Options(Ttls), here \in BOOLEAN :
         Insert(r, ttl, here)
    \/ \E e \in replica : Repair(e) \/ PushRepair(e)
    \/ \E r \in Request : Invalidate(r)
    \/ Reap \/ Tick
    \/ \E q \in Queries, r \in Request : QueryBegin(q, r)
    \/ \E q \in Queries : QueryLock(q) \/ QueryConv(q) \/ QueryBase(q)

Spec == Init /\ [][Next]_vars

-----------------------------------------------------------------------------
(* Properties.                                                             *)

\* What keys need of names so that no two requests of different meaning share
\* one.  No code enforces it.  Models of the documented form name::dimension
\* satisfy the first part, if the name has no "::".
ModelsApart ==
    \A m, n \in Models :
        StartsWith(m \o Separator, n \o Separator) => m = n

\* No scope begins with "conv_", which the docs reserve, or has it behind "::".
CleanScope(s) ==
    \A i \in DOMAIN s : s[i] = "conv_" =>
        i # 1 /\ ~(i > 2 /\ s[i - 1] = ":" /\ s[i - 2] = ":")

\* Conversation ids are free.
NamesApart == ModelsApart /\ \A s \in Scopes : CleanScope(s)

SameScope(e, r) ==
    e.for.model = r.model /\ Given(e.for.scope) = Given(r.scope)

\* The live entries inserted for q's conversation, and for its scope at large.
Own(q) ==
    {e \in store : /\ SameScope(e, lookup[q].req) /\ Live(e, lookup[q].now)
                   /\ Given(e.for.conv) # None
                   /\ Given(e.for.conv) = Given(lookup[q].req.conv)}

Shared(q) ==
    {e \in store : /\ SameScope(e, lookup[q].req) /\ Live(e, lookup[q].now)
                   /\ Given(e.for.conv) = None}

\* Isolation: whatever was inserted, repaired and removed meanwhile, a lookup
\* is answered with a live entry of its own model, scope and conversation, or
\* from the base namespace with one that belongs to no conversation.
NoForeignAnswer ==
    \A q \in Queries :
        /\ lookup[q].pc = "conv" => ConvHits(q) \subseteq Own(q)
        /\ lookup[q].pc = "base" => BaseHits(q) \subseteq Shared(q)

\* Both levels are looked up at one instant, and under the keys that inserts
\* of equal meaning use, blank fields included: the answer comes from the base
\* namespace only while the conversation has no live entry, except where the
\* graph search is inexact or an expired entry of the conversation waits for
\* the reaper, and then from all that the scope has.
NothingOverlooked ==
    \A q \in Queries :
        /\ lookup[q].pc = "conv" => Own(q) \subseteq ConvHits(q)
        /\ lookup[q].pc = "base" =>
             /\ \/ Own(q) = {}
                \/ ~lookup[q].exact
                \/ \E e \in store : e.ns = ConvKey(q) /\ ~Live(e, lookup[q].now)
             /\ Shared(q) \subseteq BaseHits(q)

\* An invalidation takes entries of its own scope and of no conversation.
InvalidationStaysHome ==
    [][\A e \in store \ store' : \A r \in Request :
         Invalidate(r) => SameScope(e, r) /\ Given(e.for.conv) = None]_vars

\* No entry is born expired: however large the TTL, the deadline is a second
\* that can be represented (the state is of its type) and not before the insert.
NeverBornExpired ==
    /\ TypeOK
    /\ \A e \in store \cup replica : Live(e, e.inserted_at)

=============================================================================
