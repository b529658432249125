----------------------------- MODULE MCRequests -----------------------------
(* Requests for TLC: models of the documented form name::dimension, a      *)
(* scope with a separator, a conversation named like it and a blank one.   *)
EXTENDS Requests

White == <<" ">>
M3 == <<"m", ":", ":", "3">>
M4 == <<"m", ":", ":", "4">>
Dotted == <<"x", ":", ":", "3">>

TwoModels == {M3, M4}
OneScope == {Dotted}
TwoConversations == {White, Dotted}
AtOnce == Some(0)

\* The names of this instance keep apart.
ASSUME InstanceNamesApart == NamesApart

=============================================================================
