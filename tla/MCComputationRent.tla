-------------------------- MODULE MCComputationRent --------------------------
(* Three clients in turn or at once, and two calls of KillHost. *)
EXTENDS ComputationRent

CONSTANTS c1, c2, c3

MCRents == {c1, c2, c3}

=============================================================================
