----------------------------- MODULE LexicalWalk -----------------------------
(***************************************************************************)
(* The lexical tail of a candidate set: every Han text that index entries  *)
(* laid end to end spell at the typed keys, in best-first order            *)
(* (_iter_lexical_completion_candidates in neural_candidate_pages_v3.py).  *)
(* It starts from the matches the trie walk of PinyinMatch found at        *)
(* position 0.                                                             *)
(*                                                                         *)
(* Keys that can be spelled out are walked twice, first along exact        *)
(* readings only.  Unfinished keys are walked once; there the children of  *)
(* a path enter the heap one at a time, each taking the rest along, and    *)
(* the order depends on the hints of model candidates or, without any, on  *)
(* how much each group of roots has given so far.                          *)
(*                                                                         *)
(* Model scores only break ties: a step may take any of the items the rest *)
(* of the priority does not tell apart.  Scores are finite, entries with   *)
(* the coverage flag are left out, and the pauses of the generator (yield  *)
(* None) change nothing.                                                   *)
(***************************************************************************)
EXTENDS PinyinMatch

CONSTANTS
    MaxTokens,          \* MAX_MODEL_TOKENS
    MaxText,            \* MAX_HAN_CHARACTERS
    MaxPending          \* bound on the candidates of the model when the walk starts

ASSUME WalkAssumption ==
    /\ {MaxTokens, MaxText} \subseteq Nat \ {0}
    /\ MaxPending \in Nat
    /\ \A e \in Entries : /\ e.tokens \in Seq(Nat) /\ e.tokens # <<>>
                          /\ e.text \in Seq(STRING) /\ e.text # <<>>

VARIABLES
    phase,              \* "matching", "exact" (the inner walk), "full" or "end"
    matches,            \* suffix_seeds: neural_matches by flavour and position
    mode,               \* "exact" (exact_spelling_possible), "hinted" or "grouped"
    pending,            \* session.pending when the walk starts, best first
    order,              \* hinted_roots or root_groups: first token -> rank
    heap,               \* items [path, priority, rest]
    deferred,           \* deferred_roots
    taken,              \* visited: states of the paths taken off the heap
    existing,           \* texts seen before the walk or given by it
    emitted             \* emitted_by_root: first token -> candidates given

inputVars == <<matches, mode, pending, order>>
walkVars == <<phase, inputVars, heap, deferred, taken, existing, emitted>>
allVars == <<vars, walkVars>>

-----------------------------------------------------------------------------
(* Paths and their order.                                                   *)

N == Len(query.raw)

Fits(m) == Len(m.entry.tokens) <= MaxTokens /\ Len(m.entry.text) <= MaxText

PredictedBy(m) == IF m.pos = N THEN m.completion ELSE 0

\* A path made of one match of the root plan; its position went through
\* consumed_keys.
RootPath(m) ==
    [text |-> m.entry.text, reading |-> m.entry.syllables, tokens |-> m.entry.tokens,
     predicted |-> PredictedBy(m),
     matched |-> MatchedLetters(query.keys, RawCharactersForLetters(query.keys, m.pos))]

Child(p, m) ==
    [text |-> p.text \o m.entry.text, reading |-> p.reading \o m.entry.syllables,
     tokens |-> p.tokens \o m.entry.tokens, predicted |-> p.predicted + PredictedBy(m),
     matched |-> m.pos]

Allowed(p) == Len(p.tokens) <= MaxTokens /\ Len(p.text) <= MaxText

Root(p) == p.tokens[1]

Before(a, b) == \E i \in DOMAIN a : a[i] < b[i] /\ \A j \in 1..(i - 1) : a[j] = b[j]

\* The elements of S that nothing in S precedes.
Firsts(S, priority(_)) == {x \in S : \A y \in S : ~Before(priority(y), priority(x))}

Extended(p) == FlattenSeq(p.reading) # SubSeq(query.raw, 1, p.matched)

\* structural_rank: letters added, then syllables.
StructuralRank(p) ==
    (Len(FlattenSeq(p.reading)) - p.matched) * (MaxText + 1) + Len(p.reading)

PathPriority(p) ==
    <<IF mode = "exact" /\ Extended(p) THEN 1 ELSE 0, N - p.matched, p.predicted,
      StructuralRank(p), Len(p.tokens)>>

\* Paths of one more match, along all readings or exact ones only.
Longer(p, flavour) ==
    {c \in {Child(p, m) : m \in {n \in matches[flavour][p.matched] : Fits(n)}} : Allowed(c)}

EmptyPath == [text |-> <<>>, reading |-> <<>>, tokens |-> <<>>, predicted |-> 0, matched |-> 0]

\* Paths of k matches laid end to end.
Levels(flavour) ==
    LET level[k \in 0..N] ==
            IF k = 0
            THEN {EmptyPath}
            ELSE UNION {Longer(p, flavour) : p \in {c \in level[k - 1] : c.matched < N}}
    IN  level

\* What the index spells at the keys.
Covers ==
    LET along(flavour) == LET level == Levels(flavour) IN UNION {level[k] : k \in 0..N}
    IN  {p \in along("all") \cup along("exact") : p.matched = N}

-----------------------------------------------------------------------------
(* Roots: hints and groups.                                                 *)

\* _root_han_plan(raw_keys, exact_only); the plan of all matches comes from
\* the trie walk.
RootPaths(exactOnly) ==
    {RootPath(m) : m \in {n \in IF exactOnly
                                THEN matches["exact"][0]
                                ELSE Furthest(found) : Fits(n)}}

\* The longest roots that a pending candidate begins with, in text and reading.
LongestPrefixes(c) ==
    LET begins == {p \in RootPaths(FALSE) : /\ IsStrictPrefix(p.text, c.text)
                                            /\ IsStrictPrefix(p.reading, c.reading)}
        longer(p, q) == Before(<<q.matched, Len(q.text)>>, <<p.matched, Len(p.text)>>)
    IN  {p \in begins : \A q \in begins : ~longer(q, p)}

Hinted == \E i \in DOMAIN pending : LongestPrefixes(pending[i]) # {}

\* The ways to number the tokens T in the order of "key", from 0.
Numberings(T, key(_)) ==
    {[t \in T |-> (CHOOSE i \in DOMAIN s : s[i] = t) - 1] :
        s \in {r \in SetToSeqs(T) : \A i, j \in DOMAIN r : i < j => ~Before(key(r[j]), key(r[i]))}}

\* hinted_roots: roots in the order of the candidates that begin with them;
\* roots without a hint come last.
HintedRoots ==
    LET hints(t) == {i \in DOMAIN pending : \E p \in LongestPrefixes(pending[i]) : Root(p) = t}
        hinted == {Root(p) : p \in UNION {LongestPrefixes(c) : c \in Range(pending)}}
    IN  {[t \in {Root(p) : p \in RootPaths(FALSE)} |->
              IF t \in hinted THEN ranks[t] ELSE Cardinality(hinted)] :
            ranks \in Numberings(hinted, LAMBDA t : <<Min(hints(t))>>)}

\* root_groups, before the division into pages: roots in the order of their
\* best path.
OrderedRoots ==
    LET best(t) == CHOOSE b \in {PathPriority(p) : p \in {q \in RootPaths(FALSE) : Root(q) = t}} :
                      \A p \in RootPaths(FALSE) : Root(p) = t => ~Before(PathPriority(p), b)
    IN  Numberings({Root(p) : p \in RootPaths(FALSE)}, best)

Group(t) == order[t] \div PageSize

EmittedByGroup(g) == MapThenSumSet(LAMBDA t : emitted[t], {t \in DOMAIN order : Group(t) = g})

\* What queue_priority puts before path_priority.
Turn(t) ==
    CASE mode = "exact"   -> <<>>
      [] mode = "hinted"  -> <<order[t]>>
      [] mode = "grouped" ->
            <<EmittedByGroup(Group(t)) \div PageSize, Group(t), emitted[t] \div PageSize>>

QueuePriority(p) == Turn(Root(p)) \o PathPriority(p)

Item(p, rest) == [path |-> p, priority |-> QueuePriority(p), rest |-> rest]

-----------------------------------------------------------------------------
(* Children.                                                                *)

\* ordered_suffixes: matches that use up the keys and predict nothing
\* (unextended), or the others.
OrderedSuffixes(pos, unextended) ==
    {m \in matches[IF unextended THEN "unextended" ELSE "all"][pos] :
        Fits(m) /\ (unextended <=> (m.pos = N /\ m.completion = 0))}

SuffixPriority(m, pos) ==
    <<N - m.pos, PredictedBy(m),
      (Len(FlattenSeq(m.entry.syllables)) - (m.pos - pos)) * (MaxText + 1) + Len(m.entry.syllables),
      Len(m.entry.tokens)>>

Rest(p, seeds, unextended) == [parent |-> p, seeds |-> seeds, unextended |-> unextended]

\* push_child_head: the first seed that is allowed enters the heap and takes
\* the others along; after the unextended seeds come the rest.
PushChildHead(r) ==
    LET allowed(seeds) == {m \in seeds : Allowed(Child(r.parent, m))}
        head(seeds, unextended) ==
            {{Item(Child(r.parent, m), {Rest(r.parent, seeds \ {m}, unextended)})} :
                m \in Firsts(seeds, LAMBDA n : SuffixPriority(n, r.parent.matched))}
        own  == allowed(r.seeds)
        tail == IF r.unextended THEN allowed(OrderedSuffixes(r.parent.matched, FALSE)) ELSE {}
    IN  IF own # {} THEN head(own, r.unextended) ELSE IF tail # {} THEN head(tail, FALSE) ELSE {{}}

\* What an item taken off the heap leaves behind.
PushRemaining(i) == IF i.rest = {} THEN {{}} ELSE UNION {PushChildHead(r) : r \in i.rest}

\* The children of a path that does not use up the keys yet.
Expand(p) ==
    IF mode = "exact"
    THEN {{Item(c, {}) : c \in Longer(p, IF phase = "exact" THEN "exact" ELSE "all")}}
    ELSE PushChildHead(Rest(p, OrderedSuffixes(p.matched, TRUE), TRUE))

-----------------------------------------------------------------------------
(* The walk.                                                                *)

WalkInit ==
    /\ Init
    /\ phase = "matching"
    /\ matches = <<>>
    /\ mode = "exact"
    /\ pending = <<>>
    /\ order = <<>>
    /\ heap = {}
    /\ deferred = {}
    /\ taken = {}
    /\ existing = {}
    /\ emitted = <<>>

Matching == Next /\ UNCHANGED walkVars

\* Roots go to the heap, or aside while exact readings can be had.
Aside == {p \in RootPaths(phase = "exact") : mode = "exact" /\ Extended(p)}
PushRoots ==
    /\ deferred' = Aside'
    /\ heap' = {Item(p, {}) : p \in RootPaths(phase = "exact") \ Aside}'

\* _lexical_completion_fallback starts the walk for eligible keys.
Begin ==
    /\ phase = "matching" /\ stack = <<>>
    /\ query.start = 0 /\ query.flavour = "all"
    /\ LexicalCompletionEligible(query.keys)
    /\ UNCHANGED <<vars, taken>>
    /\ matches' = [f \in Flavours |-> [p \in 0..(N - 1) |->
                      NeuralMatches([query EXCEPT !.start = p, !.flavour = f])]]
    /\ pending' \in {s \in BoundedSeq(Covers', MaxPending) : IsInjective(s)}
    /\ existing' = {c.text : c \in Range(pending')}
    /\ mode' = IF IsCompleteSyllableSequence(query.raw)
               THEN "exact" ELSE IF Hinted' THEN "hinted" ELSE "grouped"
    /\ phase' = IF mode' = "exact" /\ N > 1 THEN "exact" ELSE "full"
    /\ order' \in (CASE mode = "exact"   -> {<<>>}
                     [] mode = "hinted"  -> HintedRoots
                     [] mode = "grouped" -> OrderedRoots)'
    /\ emitted' = [t \in DOMAIN order' |-> 0]
    /\ PushRoots

\* The inner walk is over: again, along all readings.
SecondWalk ==
    /\ phase = "exact" /\ heap = {} /\ deferred = {}
    /\ phase' = "full"
    /\ taken' = {}
    /\ UNCHANGED <<vars, inputVars, existing, emitted>>
    /\ PushRoots

\* Only extended readings are left in the heap: the roots set aside join.
Undefer ==
    /\ phase \in {"exact", "full"}
    /\ deferred # {}
    /\ \A i \in heap : i.priority[1] = 1
    /\ heap' = heap \cup {Item(p, {}) : p \in deferred}
    /\ deferred' = {}
    /\ UNCHANGED <<vars, phase, inputVars, taken, existing, emitted>>

StateKey(p) == <<p.tokens, p.matched, p.predicted>>

\* The counts of its root or group have changed since it was pushed.
\* Mutant: the heap's order is trusted.
MutantNeverStale(i) == FALSE

Stale(i) == i.priority # QueuePriority(i.path)

Top == Firsts(heap, LAMBDA i : i.priority)

\* heappop is not due while roots wait to be put back.
Popping(i) ==
    /\ phase \in {"exact", "full"}
    /\ i \in Top
    /\ deferred # {} => \E j \in heap : j.priority[1] = 0

Requeue(i) ==
    /\ Popping(i) /\ Stale(i)
    /\ heap' = (heap \ {i}) \cup {Item(i.path, i.rest)}
    /\ UNCHANGED <<vars, phase, inputVars, deferred, taken, existing, emitted>>

\* A path whose state was visited leaves only its siblings.
\* Mutant: it leaves nothing.
MutantSkipVisited(i) ==
    /\ Popping(i) /\ ~Stale(i) /\ StateKey(i.path) \in taken
    /\ heap' = heap \ {i}
    /\ UNCHANGED <<vars, phase, inputVars, deferred, taken, existing, emitted>>

SkipVisited(i) ==
    /\ Popping(i) /\ ~Stale(i) /\ StateKey(i.path) \in taken
    /\ \E items \in PushRemaining(i) : heap' = (heap \ {i}) \cup items
    /\ UNCHANGED <<vars, phase, inputVars, deferred, taken, existing, emitted>>

\* A path that uses up the keys is given to the caller if its text is new;
\* then its siblings follow.
Yield(i) ==
    /\ Popping(i) /\ ~Stale(i) /\ StateKey(i.path) \notin taken
    /\ i.path.matched = N
    /\ taken' = taken \cup {StateKey(i.path)}
    /\ existing' = existing \cup {i.path.text}
    /\ emitted' = [t \in DOMAIN emitted |->
                      IF mode = "grouped" /\ t = Root(i.path) /\ i.path.text \notin existing
                      THEN emitted[t] + 1 ELSE emitted[t]]
    /\ UNCHANGED <<vars, phase, inputVars, deferred>>
    /\ \E items \in PushRemaining(i)' : heap' = (heap \ {i}) \cup items

\* A shorter path leaves its siblings and its children.
Widen(i) ==
    /\ Popping(i) /\ ~Stale(i) /\ StateKey(i.path) \notin taken
    /\ i.path.matched < N
    /\ taken' = taken \cup {StateKey(i.path)}
    /\ \E siblings \in PushRemaining(i), children \in Expand(i.path) :
          heap' = (heap \ {i}) \cup siblings \cup children
    /\ UNCHANGED <<vars, phase, inputVars, deferred, existing, emitted>>

\* StopIteration
End ==
    /\ phase = "full" /\ heap = {} /\ deferred = {}
    /\ phase' = "end"
    /\ UNCHANGED <<vars, inputVars, heap, deferred, taken, existing, emitted>>

WalkNext ==
    \/ Matching
    \/ Begin
    \/ SecondWalk
    \/ Undefer
    \/ \E i \in heap : Requeue(i) \/ SkipVisited(i) \/ Yield(i) \/ Widen(i)
    \/ End

WalkSpec == WalkInit /\ [][WalkNext]_allVars

-----------------------------------------------------------------------------
\* The walk ends with every text the index spells at the keys, and no other:
\* none is lost when a path is set aside, requeued, skipped as visited or left
\* as the rest of its sibling ("without losing work at a batch boundary",
\* "retaining every legal path").
WalkLosesNothing ==
    phase = "end" => existing = {c.text : c \in Range(pending)} \cup {c.text : c \in Covers}

\* The text a step gives belongs to a path whose turn has come.
InTurn ==
    LET turn(c) == IF mode = "exact" THEN <<IF Extended(c) THEN 1 ELSE 0>> ELSE Turn(Root(c))
    IN  \E c \in Covers :
           /\ existing' = existing \cup {c.text}
           /\ \A d \in Covers : Before(turn(d), turn(c)) => d.text \in existing'

\* Texts are given in turn: an extended reading only when every exact one is
\* out ("Complete spellings are a hard tier above prefix extensions"), a root
\* only when every root hinted at before it is, and a group or root that has
\* given a page only when those that have given less are used up ("give each
\* nearby group one page before returning to an earlier group").
YieldsInTurn == [][phase # "matching" /\ existing' # existing => InTurn]_allVars
=============================================================================
