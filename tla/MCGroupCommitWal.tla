-------------------------- MODULE MCGroupCommitWal --------------------------
(***************************************************************************)
(* Small instances of GroupCommitWal.                                      *)
(***************************************************************************)
EXTENDS GroupCommitWal, TLC

CONSTANTS a, b, base, conv, h1, h2

\* Both entries in the base namespace, with one dimension.
OneNamespace == [u \in Uuids |-> base]
OneDimension == [u \in Uuids |-> 3]

\* All entries in one conversation namespace.
OneConversation == [u \in Uuids |-> conv]

\* The handlers are interchangeable.
HandlerSymmetry == Permutations(Handlers)

=============================================================================
