----------------------------- MODULE MCMembership -----------------------------
(***************************************************************************)
(* A small instance of Membership.                                         *)
(***************************************************************************)
EXTENDS Membership

CONSTANTS n1, n2, n3, addr1, addr2

\* Two virtual nodes each, unevenly spread over seven positions.
SpreadVnodes ==
    [n \in Nodes |-> CASE n = n1 -> [i \in Labels |-> IF i = 0 THEN 4 ELSE 0]
                       [] n = n2 -> [i \in Labels |-> IF i = 0 THEN 1 ELSE 5]
                       [] n = n3 -> [i \in Labels |-> IF i = 0 THEN 3 ELSE 2]]

=============================================================================
