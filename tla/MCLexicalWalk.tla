---------------------------- MODULE MCLexicalWalk ----------------------------
(* A small index: syllables that are prefixes of one another, entries of    *)
(* one to three syllables and of one and two tokens, a text with two        *)
(* readings, and a letter that begins no syllable.                          *)
EXTENDS LexicalWalk

Word(text, syllables, tokens) == [text |-> text, syllables |-> syllables, tokens |-> tokens]

a   == <<"a">>
an  == <<"a", "n">>
na  == <<"n", "a">>
ni  == <<"n", "i">>
nan == <<"n", "a", "n">>

MCLetters == {"a", "n", "i"}
MCEntries == {Word(<<"A">>, <<a>>, <<1>>), Word(<<"An">>, <<an>>, <<2>>),
              Word(<<"Na">>, <<na>>, <<3>>), Word(<<"Na">>, <<ni>>, <<3>>),
              Word(<<"Nan">>, <<nan>>, <<4>>),
              Word(<<"Na", "Nan">>, <<na, nan>>, <<5>>),
              Word(<<"Nan", "An">>, <<nan, an>>, <<4, 6>>),
              Word(<<"Ni", "An", "A">>, <<ni, an, a>>, <<7>>)}
==============================================================================
