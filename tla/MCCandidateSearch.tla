-------------------------- MODULE MCCandidateSearch --------------------------
(* The keys "nhn" and a small index matched by PinyinMatch: words of one   *)
(* and of several model tokens, complete, incomplete and longer than the   *)
(* keys.                                                                   *)
EXTENDS CandidateSearch

MCRaw == <<"n", "h", "n">>

ni == <<"n", "i">>
na == <<"n", "a">>
ha == <<"h", "a">>

Word(text, syllables, tokens) == [text |-> text, syllables |-> syllables, tokens |-> tokens]

MCEntries == {Word(<<"Ni">>, <<ni>>, <<1>>), Word(<<"Ha">>, <<ha>>, <<2>>),
              Word(<<"Na", "Ha">>, <<na, ha>>, <<3, 4>>),
              Word(<<"Ha", "Ni", "Na">>, <<ha, ni, na>>, <<5>>),
              Word(<<"Na", "Ha", "Ni", "Ha">>, <<na, ha, ni, ha>>, <<6>>)}

Matcher == INSTANCE PinyinMatch WITH
    Letters <- {"n", "h", "i", "a"}, Entries <- MCEntries, MaxKeys <- 3, PageSize <- 2,
    ShortLimit <- 4, query <- 0, stack <- 0, visited <- 0, found <- 0

MCMatches ==
    [p \in 0..2 |-> Matcher!NeuralMatches([raw |-> MCRaw, boundaries |-> {}, start |-> p,
                                           flavour |-> "all"])]
==============================================================================
