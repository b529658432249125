------------------------------ MODULE MCNames ------------------------------
(* Requests for TLC, with names that the docs allow and that collide.      *)
EXTENDS Requests

\* A scope that has "conv_" inside: the key of scope a, conversation b.
PlainModel == {<<"m">>}
NestedScopes == {<<"a">>, <<"a", ":", ":", "conv_", "b">>}
OneConversation == {<<"b">>}

\* A model named name::dimension, and one named like its first part.
NestedModels == {<<"m", ":", ":", "3">>, <<"m">>}
ThreeAsScope == {<<"3">>}

=============================================================================
