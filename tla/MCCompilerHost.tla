--------------------------- MODULE MCCompilerHost ---------------------------
(* Two compilations, of which the second one is not for the rent: the worker of a rent waits *)
(* for its compilation, and there are two workers only when rents overlap (ComputationRent). *)
EXTENDS CompilerHost

CONSTANTS rent, c1

OneForRent == client[2] # rent

=============================================================================
