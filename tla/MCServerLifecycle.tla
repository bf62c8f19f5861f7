-------------------------- MODULE MCServerLifecycle --------------------------
(* A server that switches a net on twice, and serves one connection. *)
EXTENDS ServerLifecycle

CONSTANT s1

=============================================================================
