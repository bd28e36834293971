-------------------------- MODULE MCBilingualEngine --------------------------
(***************************************************************************)
(* Small instances of BilingualEngine.  One caller stands for the thread   *)
(* that holds the pipe server's _context_forward_lock.                     *)
(***************************************************************************)
EXTENDS BilingualEngine, TLC

CONSTANTS q1, q2

TwoQueriers == {q1, q2}

Symmetry == Permutations(TwoQueriers)
=============================================================================
