--------------------------- MODULE MCCandidatePages ---------------------------
(* Small instances of CandidatePages for TLC. *)
EXTENDS CandidatePages, TLC

CONSTANTS r1, r2, i1, i2

\* One composition whose trie walk may fill a page, one without a trie walk.
TwoLexical == i1 :> "full" @@ i2 :> "none"
OneLexical == i1 :> "full"

Symmetry == Permutations({r1, r2})
=============================================================================
