--------------------------- MODULE MCClusterLinks ---------------------------
(* Three nodes through a rotation of the CA, a generation without a         *)
(* cluster, one with a path missing and one without TLS.                    *)
EXTENDS ClusterLinks, TLC

CONSTANTS n1, n2, n3, CaA, CaB, k1, k2

Mtls == [cluster_enabled |-> TRUE, tls_enabled |-> TRUE, auth_token |-> "t",
         ca_cert_path |-> "ca", node_cert_path |-> "cert", node_key_path |-> "key"]

NoKeyPath == [cluster_enabled |-> TRUE, tls_enabled |-> TRUE, auth_token |-> "",
              ca_cert_path |-> "ca", node_cert_path |-> "cert", internal_port |-> 4443]

Plain == [cluster_enabled |-> TRUE, auth_token |-> "u"]

OldLeaf == [issuer |-> CaA, key |-> k1]
NewLeaf == [issuer |-> CaB, key |-> k2]

\* The CA is rotated in three steps; then comes a wrong one.
EightGenerations == <<
    [toml |-> Mtls, ca |-> {CaA}, cert |-> OldLeaf, key |-> k1],
    [toml |-> Mtls, ca |-> {CaA, CaB}, cert |-> OldLeaf, key |-> k1],
    [toml |-> Mtls, ca |-> {CaA, CaB}, cert |-> NewLeaf, key |-> k2],
    [toml |-> Mtls, ca |-> {CaB}, cert |-> NewLeaf, key |-> k2],
    [toml |-> Mtls, ca |-> {CaA}, cert |-> NewLeaf, key |-> k2],
    [toml |-> << >>, ca |-> {CaA}, cert |-> NewLeaf, key |-> k2],
    [toml |-> NoKeyPath, ca |-> {CaA}, cert |-> NewLeaf, key |-> k2],
    [toml |-> Plain, ca |-> {CaA}, cert |-> NewLeaf, key |-> k2] >>

\* The second node's port plus 1000 does not fit 16 bits; the third has an
\* internal port of its own.
Environments ==
    (n1 :> << >>) @@ (n2 :> [port |-> 65000, api_port |-> 65000])
                  @@ (n3 :> [internal_port |-> 9000])

=============================================================================
