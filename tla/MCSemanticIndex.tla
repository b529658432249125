-------------------------- MODULE MCSemanticIndex ---------------------------
(***************************************************************************)
(* Small instances of SemanticIndex.                                       *)
(***************************************************************************)
EXTENDS SemanticIndex, TLC

CONSTANTS a, b, c, d, base, conv, text, withText, noText

\* a and b in the base namespace, c and d in a conversation.
HomeOf == [u \in Uuids |-> IF u \in {a, b} THEN base ELSE conv]
BaseNamespace == [ns \in Namespaces |-> base]

\* The entries of the conversation differ in dimension.
Dimensions == [u \in Uuids |-> IF u = d THEN 4 ELSE 3]
ProbeDimension == [p \in Probes |-> 3]

\* a and b share a text.
SharedText == [u \in Uuids |-> IF u \in {a, b} THEN text ELSE None]
ProbeTexts == [p \in Probes |-> IF p = withText THEN text ELSE None]

\* Only a expires.
ATtl == [u \in Uuids |-> IF u = a THEN 0 ELSE None]

\* c expires.
CTtl == [u \in Uuids |-> IF u = c THEN 0 ELSE None]

\* a is nearest to every query, then b; c is beyond the radius of one of them.
Near == [p \in Probes |->
           [u \in Uuids |-> CASE u = a -> 1
                              [] u = b -> 2
                              [] OTHER -> IF p = withText THEN 4 ELSE 3]]

=============================================================================
