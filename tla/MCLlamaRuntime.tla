---------------------------- MODULE MCLlamaRuntime ----------------------------
(***************************************************************************)
(* Two page searches with batches of two branches, and an editor whose     *)
(* text grows (or is cut back to max_before_tokens) from one token to a    *)
(* root that leaves no room for a branch in n_ctx.                         *)
(***************************************************************************)
EXTENDS LlamaRuntime, TLC

CONSTANTS s1, s2, bos

TwoScorers == {s1, s2}

Vocabulary == {"a", "b", "c", "d", bos}

EditorTexts == {<<"a">>, <<"c", "a", "b", "d">>}

Symmetry == Permutations(TwoScorers)

TwoBranches == {<<<<"a">>, <<"b">>>>}
=============================================================================
