-------------------------- MODULE MCEndpointSecret --------------------------
(* Small instances of EndpointSecret. *)
EXTENDS EndpointSecret

TwoEndpoints == {"e1", "e2"}
=============================================================================
