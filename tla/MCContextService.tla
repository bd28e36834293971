--------------------------- MODULE MCContextService ---------------------------
(* The model service with three editor sources and room for two of them. *)
EXTENDS ContextService, TLC

CONSTANTS A, B, C, q1

Symmetry == Permutations(Sources)
=============================================================================
