--------------------------- MODULE MCProvisioning ---------------------------
(* Instances of Provisioning for TLC. *)
EXTENDS Provisioning

\* One connector of one of the stations.
OneConnector == {<<CHOOSE s \in Stations : TRUE, 1>>}

=============================================================================
