---------------------------- MODULE MCReplication ----------------------------
(* Replication on three nodes, of which the first two hold the key.        *)
EXTENDS Replication

CONSTANTS n1, n2, n3

Walk == <<n1, n2, n3>>

\* The coordinator may lose sight of the owner, the owner of its replica.
Unsteady3 == {<<n3, n1>>, <<n1, n2>>}

\* Either may be Dead; the owner may have left altogether, its replica may be
\* on its way back.
StartViews3 == {<<<<n3, n1>>, "dead">>, <<<<n3, n1>>, "gone">>,
                <<<<n1, n2>>, "dead">>, <<<<n1, n2>>, "back">>}

\* The coordinator may lose sight of both replicas.
Unsteady2 == {<<n3, n1>>, <<n3, n2>>}

StartViews2 == Unsteady2 \X {"dead", "gone", "back"}

=============================================================================
