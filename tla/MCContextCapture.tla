-------------------------- MODULE MCContextCapture --------------------------
(* Model-checking instances of ContextCapture. *)
EXTENDS ContextCapture, TLC

CONSTANTS e1, e2

OneEditor  == {e1}
TwoEditors == {e1, e2}

Symmetry == Permutations(Editors)
=============================================================================
