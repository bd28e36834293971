----------------------------- MODULE PinyinMatch -----------------------------
(***************************************************************************)
(* Typed pinyin: how raw keys are parsed (pinyin.py), how the index        *)
(* entries that fit them from a position on are enumerated by a walk of    *)
(* the syllable trie (PartialPinyinMatcher in pinyin_partial.py), and the  *)
(* questions the page manager asks of them before it starts a lexical      *)
(* walk (neural_candidate_pages_v3.py).                                    *)
(*                                                                         *)
(* Letters are model values or strings; a syllable is a sequence of        *)
(* letters, an entry a text with its syllables and its model tokens.  A    *)
(* trie node is the sequence of syllables that leads to it.  The walk is a *)
(* state machine, one step per call of visit(); everything else is an      *)
(* operator.  Each has a reference definition it is checked against.       *)
(***************************************************************************)
EXTENDS Naturals, Integers, Sequences, FiniteSets, SequencesExt, FiniteSetsExt, Subsequences

CONSTANTS
    Letters,            \* the letters keys and syllables are made of
    Entries,            \* the index: [text, syllables, tokens]
    MaxKeys,            \* bound on the typed characters
    PageSize,           \* CHINESE_PAGE_SIZE
    ShortLimit          \* _SHORT_SHORTHAND_SYLLABLE_LIMIT

Apostrophe == "'"

ASSUME MatchAssumption ==
    /\ Apostrophe \notin Letters
    /\ IsFiniteSet(Entries)
    /\ \A e \in Entries : /\ e.syllables \in Seq(Seq(Letters)) /\ e.syllables # <<>>
                          /\ \A i \in DOMAIN e.syllables : e.syllables[i] # <<>>
    /\ MaxKeys \in Nat
    /\ PageSize \in Nat \ {0}
    /\ ShortLimit \in Nat

VARIABLES
    query,              \* the keys, and the start and the flavour of the walk
    stack,              \* calls of visit() not made yet, the next one first
    visited,            \* least shorthand each (node, position, incomplete) was visited with
    found               \* the best match of each (entry, position) so far

vars == <<query, stack, visited, found>>

-----------------------------------------------------------------------------
(* Parsing.                                                                 *)

\* _INPUT_RE and the two rules on apostrophes.
Valid(raw) ==
    /\ raw # <<>> => raw[1] # Apostrophe /\ Last(raw) # Apostrophe
    /\ \A i \in 1..(Len(raw) - 1) : raw[i] # Apostrophe \/ raw[i + 1] # Apostrophe

Keys == {raw \in BoundedSeq(Letters \cup {Apostrophe}, MaxKeys) : raw # <<>> /\ Valid(raw)}

Compact(raw) == KeepAt(raw, {i \in DOMAIN raw : raw[i] # Apostrophe})

\* Letters among the first p characters.
LetterCount(raw, p) == Cardinality({i \in 1..p : raw[i] # Apostrophe})

\* explicit_boundaries: the numbers of letters before an apostrophe.
Boundaries(raw) == {LetterCount(raw, i) : i \in {j \in DOMAIN raw : raw[j] = Apostrophe}}

\* raw_characters_for_letters: an apostrophe after the last letter is consumed too.
RawCharactersForLetters(raw, k) ==
    IF k >= LetterCount(raw, Len(raw))
    THEN Len(raw)
    ELSE LET letters == Min({p \in 0..Len(raw) : LetterCount(raw, p) >= k})
         IN  Min({p \in letters..Len(raw) : p = Len(raw) \/ raw[p + 1] # Apostrophe})

\* How v3 turns consumed_keys back into matched letters.
MatchedLetters(raw, consumed) == LetterCount(raw, Min({consumed, Len(raw)}))

\* raw.split("'")
Groups(raw) ==
    LET cuts == {i \in DOMAIN raw : raw[i] = Apostrophe} \cup {0, Len(raw) + 1}
    IN  [g \in 1..(Cardinality(cuts) - 1) |-> SubSeq(raw, Nth(cuts, g) + 1, Nth(cuts, g + 1) - 1)]

-----------------------------------------------------------------------------
(* The trie walk of iter_neural_matches.                                    *)

Children(node) == {e.syllables[Len(node) + 1] :
                       e \in {f \in Entries : IsStrictPrefix(node, f.syllables)}}

\* raw.startswith(syllable, pos)
StartsWith(raw, syllable, pos) ==
    /\ pos + Len(syllable) <= Len(raw)
    /\ SubSeq(raw, pos + 1, pos + Len(syllable)) = syllable

\* Mutant: a syllable may not end at an apostrophe either.
MutantCrossesEnd(boundaries, begin, end) == \E b \in boundaries : begin < b /\ b <= end

CrossesBoundary(boundaries, begin, end) == \E b \in boundaries : begin < b /\ b < end

Match(e, pos, shorthand, incomplete, completion) ==
    [entry |-> e, pos |-> pos, shorthand |-> shorthand, incomplete |-> incomplete,
     completion |-> completion]

Better(m, n) ==
    \/ m.completion < n.completion
    \/ m.completion = n.completion /\ m.shorthand < n.shorthand
    \/ m.completion = n.completion /\ m.shorthand = n.shorthand /\ ~m.incomplete /\ n.incomplete

\* record(): a match replaces a worse one of the same entry and position.
Record(matches, new) ==
    LET same(m, n) == m.entry = n.entry /\ m.pos = n.pos
        kept == {n \in new : \A m \in matches : same(m, n) => Better(n, m)}
    IN  {m \in matches : ~\E n \in kept : same(m, n)} \cup kept

Frame(node, pos, shorthand, incomplete) ==
    [node |-> node, pos |-> pos, shorthand |-> shorthand, incomplete |-> incomplete]

\* What a call of visit() records: the entries that end at its node and, when
\* the keys are used up, the entries below it with the syllables they add.
Recorded(q, f) ==
    LET here  == {Match(e, f.pos, f.shorthand, f.incomplete, 0) :
                      e \in {d \in Entries : d.syllables = f.node}}
        below == {Match(e, f.pos, f.shorthand, FALSE, Len(e.syllables) - Len(f.node)) :
                      e \in {d \in Entries : IsStrictPrefix(f.node, d.syllables)}}
    IN  (IF f.pos > q.start THEN here ELSE {})
        \cup (IF f.pos = Len(q.raw) /\ ~f.incomplete /\ q.flavour = "all" THEN below ELSE {})

\* The calls visit() makes: whole syllables first, then initials and an
\* unfinished last syllable.
Calls(q, f) ==
    LET rest   == Len(q.raw) - f.pos
        remaining == SubSeq(q.raw, f.pos + 1, Len(q.raw))
        next(s) == Append(f.node, s)
        whole  == {Frame(next(s), f.pos + Len(s), f.shorthand, f.incomplete) :
                      s \in {t \in Children(f.node) :
                                /\ StartsWith(q.raw, t, f.pos)
                                /\ ~CrossesBoundary(q.boundaries, f.pos, f.pos + Len(t))}}
        initial == {Frame(next(s), f.pos + 1, f.shorthand + 1, f.incomplete) :
                      s \in {t \in Children(f.node) :
                                /\ q.raw[f.pos + 1] = t[1]
                                /\ ~CrossesBoundary(q.boundaries, f.pos, f.pos + 1)}}
        unfinished == {Frame(next(s), Len(q.raw), f.shorthand, TRUE) :
                      s \in {t \in Children(f.node) :
                                /\ 1 < rest /\ rest < Len(t)
                                /\ IsPrefix(remaining, t)
                                /\ ~CrossesBoundary(q.boundaries, f.pos, Len(q.raw))}}
    IN  IF f.pos >= Len(q.raw)
        THEN <<>>
        ELSE SetToSeq(whole)
             \o (IF q.flavour = "exact" THEN <<>> ELSE SetToSeq(initial \cup unfinished))

StateOf(f) == <<f.node, f.pos, f.incomplete>>

AlreadyVisited(f) == StateOf(f) \in DOMAIN visited /\ visited[StateOf(f)] <= f.shorthand

\* What the caller asks for: all readings, exact ones (exact_only) or none
\* below a node (include_descendants = False).
Flavours == {"all", "exact", "unextended"}

Init ==
    /\ \E keys \in Keys, start \in 0..(MaxKeys - 1), flavour \in Flavours :
          /\ start < Len(Compact(keys))
          /\ query = [keys |-> keys, raw |-> Compact(keys), boundaries |-> Boundaries(keys),
                      start |-> start, flavour |-> flavour]
          /\ stack = <<Frame(<<>>, start, 0, FALSE)>>
    /\ visited = <<>>
    /\ found = {}

Visit ==
    /\ stack # <<>>
    /\ LET f == Head(stack)
       IN  IF AlreadyVisited(f)
           THEN /\ stack' = Tail(stack)
                /\ UNCHANGED <<visited, found>>
           ELSE /\ visited' = [s \in DOMAIN visited \cup {StateOf(f)} |->
                                  IF s = StateOf(f) THEN f.shorthand ELSE visited[s]]
                /\ found' = Record(found, Recorded(query, f))
                /\ stack' = Calls(query, f) \o Tail(stack)
    /\ UNCHANGED query

\* Only the matches of an entry that end furthest are kept.
Furthest(matches) ==
    {m \in matches : \A n \in matches : n.entry = m.entry => n.pos <= m.pos}

Done == stack = <<>> /\ UNCHANGED vars

Next == Visit \/ Done

Spec == Init /\ [][Next]_vars

-----------------------------------------------------------------------------
(* Questions about the keys.                                                *)

Syllables == UNION {Range(e.syllables) : e \in Entries}

\* is_complete_syllable_sequence: positions reached from the left.
IsCompleteSyllableSequence(raw) ==
    LET reachable[pos \in 0..Len(raw)] ==
            pos = 0 \/ \E s \in Syllables :
                           Len(s) <= pos /\ reachable[pos - Len(s)] /\ StartsWith(raw, s, pos - Len(s))
    IN  raw # <<>> /\ reachable[Len(raw)]

\* complete_syllable_count: most syllables of a complete spelling, or -1.
CompleteSyllableCount(value) ==
    LET counts[pos \in 0..Len(value)] ==
            IF pos = 0
            THEN 0
            ELSE Max({-1} \cup {counts[pos - Len(s)] + 1 :
                     s \in {t \in Syllables : /\ Len(t) <= pos
                                              /\ counts[pos - Len(t)] >= 0
                                              /\ StartsWith(value, t, pos - Len(t))}})
    IN  counts[Len(value)]

\* Least syllables of a shorthand spelling of a group; Len + 1 if there is none.
MinimumSyllables(group, last) ==
    LET unreachable == Len(group) + 1
        begins(pos) == {s \in Syllables : s[1] = group[pos + 1]}
        counts[pos \in 0..Len(group)] ==
            IF pos = 0
            THEN 0
            ELSE Min({unreachable} \cup
                     {counts[p] + 1 : p \in {b \in 0..(pos - 1) :
                         /\ counts[b] # unreachable
                         /\ \E s \in begins(b) :
                               \/ pos = b + 1
                               \/ pos = b + Len(s) /\ StartsWith(group, s, b)
                               \/ /\ last /\ pos = Len(group)
                                  /\ 1 < pos - b /\ pos - b < Len(s)
                                  /\ IsPrefix(SubSeq(group, b + 1, pos), s)}})
    IN  counts[Len(group)]

\* Every group has a shorthand spelling, of more than ShortLimit syllables in all.
LongShorthand(raw) ==
    LET groups == Groups(raw)
        least(i) == MinimumSyllables(groups[i], i = Len(groups))
    IN  /\ LetterCount(raw, Len(raw)) > ShortLimit
        /\ \A i \in DOMAIN groups : least(i) # Len(groups[i]) + 1
        /\ SumFunction([i \in DOMAIN groups |-> least(i)]) > ShortLimit

\* Mutant: an unfinished last syllable is not allowed for.
MutantEligibleUnfinished(raw) ==
    LET groups == Groups(raw)
    IN  \/ \A i \in DOMAIN groups : IsCompleteSyllableSequence(groups[i])
        \/ LongShorthand(raw)

\* _lexical_completion_eligible
LexicalCompletionEligible(raw) ==
    LET groups == Groups(raw)
        final  == Last(groups)
        prior  == 1..(Len(groups) - 1)
        count  == SumFunction([i \in prior |-> CompleteSyllableCount(groups[i])])
    IN  \/ /\ \A i \in prior : IsCompleteSyllableSequence(groups[i])
           /\ \/ IsCompleteSyllableSequence(final)
              \/ \E split \in 0..(Len(final) - 1) :
                    /\ count + CompleteSyllableCount(SubSeq(final, 1, split)) >= 2
                    /\ \E s \in Syllables :
                          IsStrictPrefix(SubSeq(final, split + 1, Len(final)), s)
        \/ LongShorthand(raw)

-----------------------------------------------------------------------------
(* What the walk finds, entry by entry and without a trie.                  *)

Reading(pos, shorthand, incomplete) ==
    [pos |-> pos, shorthand |-> shorthand, incomplete |-> incomplete]

\* The ways to read syllable s after the reading r of the syllables before it.
Steps(q, s, r) ==
    LET rest == Len(q.raw) - r.pos
        inside(end) == \E c \in q.boundaries : r.pos < c /\ c < end
        when(p, t) == IF p THEN {t} ELSE {}
        whole == StartsWith(q.raw, s, r.pos) /\ ~inside(r.pos + Len(s))
        unfinished == /\ 1 < rest /\ rest < Len(s)
                      /\ SubSeq(s, 1, rest) = SubSeq(q.raw, r.pos + 1, Len(q.raw))
                      /\ ~inside(Len(q.raw))
    IN  when(whole, Reading(r.pos + Len(s), r.shorthand, r.incomplete))
        \cup (IF q.flavour = "exact"
              THEN {}
              ELSE when(q.raw[r.pos + 1] = s[1], Reading(r.pos + 1, r.shorthand + 1, r.incomplete))
                   \cup when(unfinished, Reading(Len(q.raw), r.shorthand, TRUE)))

\* The ways to read the first k syllables of an entry from "start" on.
Readings(q, e) ==
    LET read[k \in 0..Len(e.syllables)] ==
            IF k = 0
            THEN {Reading(q.start, 0, FALSE)}
            ELSE UNION {Steps(q, e.syllables[k], r) : r \in {t \in read[k - 1] : t.pos < Len(q.raw)}}
    IN  read

\* The matches of an entry: the whole entry is read, or the keys run out at a
\* syllable boundary and the rest of the entry is predicted.
MatchesOf(q, e) ==
    LET n == Len(e.syllables)
        whole == {Match(e, r.pos, r.shorthand, r.incomplete, 0) : r \in Readings(q, e)[n]}
        predicted == UNION {{Match(e, r.pos, r.shorthand, FALSE, n - k) :
                                r \in {t \in Readings(q, e)[k] : t.pos = Len(q.raw) /\ ~t.incomplete}} :
                            k \in 1..(n - 1)}
    IN  IF q.flavour = "all" THEN whole \cup predicted ELSE whole

\* iter_neural_matches: of the matches of an entry that end furthest, the best.
NeuralMatches(q) ==
    UNION {{m \in Furthest(MatchesOf(q, e)) :
               \A n \in Furthest(MatchesOf(q, e)) : ~Better(n, m)} : e \in Entries}

\* The walk of a shared trie, with visits of a state cut off, finds for every
\* entry exactly its best reading among the ones that end furthest: an entry
\* is never missed, never read across an apostrophe, and never given more
\* predicted syllables or shorthand than it needs.
MatchesAreBest == stack = <<>> => Furthest(found) = NeuralMatches(query)

-----------------------------------------------------------------------------
(* The lexical tail.                                                        *)

At(q, pos) == [q EXCEPT !.start = pos, !.flavour = "all"]

\* _lexical_tail_may_fill_page: counts are capped at a page.
LexicalTailMayFillPage(q) ==
    LET count[left \in 0..Len(q.raw)] ==
            IF left = 0
            THEN 1
            ELSE Min({PageSize,
                      SumFunction([m \in NeuralMatches(At(q, Len(q.raw) - left)) |->
                                      count[Len(q.raw) - m.pos]])})
    IN  Cardinality(NeuralMatches(At(q, 0))) >= PageSize \/ count[Len(q.raw)] >= PageSize

\* The sequences of syllables that spell "value".
Spellings(value) ==
    {p \in BoundedSeq(Syllables, Len(value)) : FlattenSeq(p) = value}

\* Every group but the last is spelled out; so is the last, or it ends in an
\* unfinished syllable after at least two complete ones.
SpelledOut(raw) ==
    LET groups == Groups(raw)
        final  == Last(groups)
        prior  == 1..(Len(groups) - 1)
        most(g) == Max({Len(p) : p \in Spellings(g)})
    IN  /\ \A i \in prior : Spellings(groups[i]) # {}
        /\ \/ Spellings(final) # {}
           \/ \E split \in 0..(Len(final) - 1) :
                 /\ Spellings(SubSeq(final, 1, split)) # {}
                 /\ SumFunction([i \in prior |-> most(groups[i])])
                       + most(SubSeq(final, 1, split)) >= 2
                 /\ \E s \in Syllables : IsStrictPrefix(SubSeq(final, split + 1, Len(final)), s)

\* Ways to cover the keys with matches, one after the other.
Paths(q) ==
    LET from[left \in 0..Len(q.raw)] ==
            IF left = 0
            THEN {<<>>}
            ELSE UNION {{<<m.entry>> \o p : p \in from[Len(q.raw) - m.pos]} :
                            m \in NeuralMatches(At(q, Len(q.raw) - left))}
    IN  from[Len(q.raw)]

\* Keys that are spelled out are eligible for a lexical tail, and the tail is
\* given up only when fewer than a page of paths exist ("Return false only
\* after proving fewer than one page of legal paths").
LexicalTailOffered ==
    visited = <<>> /\ query.start = 0 /\ query.flavour = "all" =>
        /\ SpelledOut(query.keys) => LexicalCompletionEligible(query.keys)
        /\ Cardinality(Paths(query)) >= PageSize => LexicalTailMayFillPage(query)
=============================================================================
