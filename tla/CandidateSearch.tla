--------------------------- MODULE CandidateSearch ---------------------------
(***************************************************************************)
(* The search of one candidate set in Chinese-first mode: a session of     *)
(* NeuralCandidatePageManager from its root candidates to its last page    *)
(* (neural_candidate_pages_v3.py and _scored.py, on neural_candidates.py). *)
(*                                                                         *)
(* A path is a sequence of model tokens that spells index entries at the   *)
(* typed keys and, once these are used up, any entries.  Two workers grow  *)
(* the frontier: the scorer, until page zero is frozen, and the preparer   *)
(* of later pages.  Parents are out of the frontier while the lock is      *)
(* released and the model scores them (flight); a long list of next tokens *)
(* is worked off in slices.  Which token scores best is left open: a step  *)
(* may take any of the ones its sort order does not tell apart.            *)
(*                                                                         *)
(* Cancellation, replaced sets and the lexical tail are in CandidatePages: *)
(* the keys here are a short shorthand, which is not eligible for a tail.  *)
(* Latin candidates and their paths are left out.                          *)
(***************************************************************************)
EXTENDS Naturals, Sequences, FiniteSets, SequencesExt, FiniteSetsExt

CONSTANTS
    Raw,                \* the typed letters
    Entries,            \* the index: [text, syllables, tokens]
    Matches,            \* position -> neural_matches there: [entry, pos, completion]
    MaxTokens,          \* MAX_MODEL_TOKENS
    MaxText,            \* MAX_HAN_CHARACTERS
    Slice,              \* MAX_FRONTIER_PER_BUCKET
    Batch,              \* _BACKGROUND_ROOT_BATCH_SIZE
    PageSize,           \* CHINESE_PAGE_SIZE
    Capacity            \* CHINESE_CANDIDATE_COUNT

N == Len(Raw)

ASSUME SearchAssumption ==
    /\ N > 0 /\ Matches[0] # {}
    /\ \A p \in 0..(N - 1) : \A m \in Matches[p] : m.entry \in Entries /\ m.pos \in (p + 1)..N
    /\ {MaxTokens, MaxText, Slice, Batch, PageSize, Capacity} \subseteq Nat \ {0}
    /\ \A e \in Entries : FlattenSeq(e.syllables) # Raw

VARIABLES
    root,               \* a continuation root is available
    frontier,           \* paths and other work not done yet
    expanded,           \* expanded_paths: keys of paths scored or proved dead
    flight,             \* parents being scored
    pending,            \* candidates not on a page yet
    seen,               \* seen_candidates: (text, consumed)
    exhausted,
    pages,              \* frozen_pages
    more,               \* has_more of the last page
    scorer,             \* "off", "on", or "cancelled" and not retired yet
    finished,           \* _page_zero_search_completed
    published,          \* _async_han_cache has completions of these keys
    preparer            \* "off", "prepare" or "search"

sessionVars == <<root, frontier, expanded, flight, pending, seen, exhausted, pages, more>>
workerVars  == <<scorer, finished, published, preparer>>
vars == <<sessionVars, workerVars>>

-----------------------------------------------------------------------------
(* Paths.                                                                   *)

\* _HanSearchPath; "options" are the entries a token fragment may still become
\* and "start" the tokens before the fragment.
Path(text, reading, tokens, predicted, matched, options, start) ==
    [kind |-> "han", text |-> text, reading |-> reading, tokens |-> tokens,
     predicted |-> predicted, matched |-> matched, options |-> options, start |-> start]

Edge(e, matched, predicted) == [entry |-> e, matched |-> matched, predicted |-> predicted]

\* _iter_root_han_plan: what the index offers at position 0.
Plan == {Edge(m.entry, m.pos, IF m.pos = N THEN m.completion ELSE 0) :
            m \in {n \in Matches[0] : /\ Len(n.entry.tokens) <= MaxTokens
                                      /\ Len(n.entry.text) <= MaxText}}

Single(e) == Len(e.entry.tokens) = 1

\* _DeferredHanFrontier, _DeferredRootSeeds and _ScoredHanExpansion.
Deferred == [kind |-> "deferred", matched |-> Min({e.matched : e \in Plan}),
             predicted |-> Min({e.predicted : e \in Plan}), options |-> {}]
Seeds(records, cursor) == [kind |-> "seeds", records |-> records, cursor |-> cursor]
Rest(parent, tokens, cursor) ==
    [kind |-> "resume", parent |-> parent, tokens |-> tokens, cursor |-> cursor]

\* _path_key
PathKey(p) ==
    CASE p.kind = "han"    -> <<"han", p.tokens, p.matched, p.reading,
                                {<<e.entry.tokens, e.matched, e.predicted>> : e \in p.options}>>
      [] p.kind = "resume" -> <<"resume", p.parent.tokens, p.cursor>>
      [] p.kind = "seeds"  -> <<"seeds", p.cursor>>
      [] OTHER             -> <<"deferred">>

\* _root_han_search_frontier_from_scores: one path per single-token root and
\* one per first token of the others.
RootPaths ==
    {Path(e.entry.text, e.entry.syllables, e.entry.tokens, e.predicted, e.matched, {}, 0) :
        e \in {d \in Plan : Single(d)}}
    \cup {Path(<<>>, <<>>, <<t>>, 0, 0, {e \in Plan : ~Single(e) /\ e.entry.tokens[1] = t}, 0) :
        t \in {e.entry.tokens[1] : e \in {d \in Plan : ~Single(d)}}}

\* Order of the root records: complete ones by predicted syllables, the
\* others, fragments last.
SeedRank(p) ==
    IF p.options # {} THEN N + MaxText + 1 ELSE IF p.matched = N THEN p.predicted ELSE N + MaxText

\* The sets of (at most) k elements of S that come first in the order "rank".
Firsts(S, k, rank(_)) ==
    {T \in kSubset(Min({k, Cardinality(S)}), S) : \A x \in T, y \in S \ T : rank(x) <= rank(y)}

\* _materialize_root_seed_records of the next records, the others deferred.
Materialized(records, cursor) ==
    {T \cup (IF T = records THEN {} ELSE {Seeds(records \ T, cursor + Slice)}) :
        T \in Firsts(records, Slice, SeedRank)}

\* _han_edges_for
EdgesFor(p) ==
    CASE p.options # {}  -> {e \in p.options : Len(p.tokens) - p.start < Len(e.entry.tokens)}
      [] p.options = {} /\ p.matched < N ->
            {Edge(m.entry, m.pos, p.predicted + (IF m.pos = N THEN m.completion ELSE 0)) :
                m \in {n \in Matches[p.matched] : /\ Len(p.tokens) + Len(n.entry.tokens) <= MaxTokens
                                                  /\ Len(n.entry.text) <= MaxText}}
      [] OTHER -> {Edge(e, N, p.predicted + Len(e.syllables)) :
                      e \in {f \in Entries : Len(f.tokens) <= MaxTokens /\ Len(f.text) <= MaxText}}

\* Tokens of an entry that p already has.
Taken(p) == IF p.options = {} THEN 0 ELSE Len(p.tokens) - p.start
NextToken(p, e) == e.entry.tokens[Taken(p) + 1]
NextTokens(p) == {NextToken(p, e) : e \in EdgesFor(p)}

\* tier is ranking_tier: 1 for a root, 0 for what the model continued.
Candidate(text, matched, predicted, tier) ==
    [text |-> text, matched |-> matched, predicted |-> predicted, tier |-> tier]

\* _expand_han_constrained on the tokens T: the edges that end with their token
\* give a candidate and a path, the others share one fragment.
Ending(p, T) ==
    {e \in EdgesFor(p) : /\ NextToken(p, e) \in T /\ Taken(p) + 1 = Len(e.entry.tokens)
                         /\ Len(p.tokens) < MaxTokens
                         /\ Len(p.text) + Len(e.entry.text) <= MaxText}
Emitted(p, T) ==
    {Candidate(p.text \o e.entry.text, e.matched, e.predicted, 0) : e \in Ending(p, T)}
Fragments(p, T) ==
    {Path(p.text, p.reading, Append(p.tokens, t), p.predicted, p.matched,
          {e \in EdgesFor(p) : NextToken(p, e) = t /\ Taken(p) + 1 < Len(e.entry.tokens)},
          IF p.options = {} THEN Len(p.tokens) ELSE p.start) : t \in T}
Grown(p, T) ==
    {Path(p.text \o e.entry.text, p.reading \o e.entry.syllables, Append(p.tokens, NextToken(p, e)),
          e.predicted, e.matched, {}, 0) :
        e \in {d \in Ending(p, T) : /\ Len(p.tokens) + 1 < MaxTokens
                                    /\ Len(p.text) + Len(d.entry.text) < MaxText}}
    \cup {f \in Fragments(p, T) : f.options # {} /\ Len(f.tokens) <= MaxTokens}

-----------------------------------------------------------------------------
(* Candidates.                                                              *)

CandidateKey(c) == <<c.text, c.matched>>

\* One candidate for each new key of C: which of several is first is open.
Distinct(C) ==
    LET new == {c \in C : CandidateKey(c) \notin seen}
    IN  {D \in SUBSET new : \A c \in new : Cardinality({d \in D : CandidateKey(d) = CandidateKey(c)}) = 1}

\* _candidate_key up to the scores: tier, completeness, predicted syllables.
Rank(c) == 200 * c.tier + (IF c.matched = N THEN 0 ELSE 100) + c.predicted

\* _root_han_candidates_top_k_from_scores: the best of each text and length.
Roots ==
    LET all == {Candidate(e.entry.text, e.matched, e.predicted, 1) : e \in {d \in Plan : Single(d)}}
    IN  {c \in all : \A d \in all : CandidateKey(d) = CandidateKey(c) => Rank(c) <= Rank(d)}

Add(C) ==
    /\ pending' = pending \cup C
    /\ seen' = seen \cup {CandidateKey(c) : c \in C}

\* _prune_frontier: paths already expanded go, and of several items with one
\* key one stays.
Prune(items, keys) ==
    LET fresh == {p \in items : PathKey(p) \notin keys}
    IN  {CHOOSE p \in fresh : PathKey(p) = k : k \in {PathKey(q) : q \in fresh}}

-----------------------------------------------------------------------------
(* Freezing.                                                                *)

Han(p) == p.kind \in {"han", "deferred"}

Predicted(p) ==
    CASE p.kind = "resume" -> p.parent.predicted [] p.kind = "seeds" -> 0 [] OTHER -> p.predicted
Options(p) ==
    CASE p.kind = "resume" -> p.parent.options [] p.kind = "seeds" -> {} [] OTHER -> p.options

\* _minimum_future_bucket over the frontier; {} stands for None.
\* Mutant: seeds and slices left for later are not waited for.
MutantFutureOfPaths ==
    {p.predicted + (IF p.options # {} THEN 0 ELSE 1) : p \in {q \in frontier : q.kind = "han"}}

FutureBuckets ==
    {Predicted(p) + (IF Options(p) # {} THEN 0 ELSE 1) :
        p \in {q \in frontier : q.kind # "deferred" \/ root}}

Closed(c) == exhausted \/ \A b \in FutureBuckets : c.predicted < b

\* _freezable_candidates: complete candidates of closed buckets, and for page
\* zero those that predict nothing.
Freezable(P, n) ==
    {c \in P : c.matched = N /\ (Closed(c) \/ (n = 0 /\ c.predicted = 0))}

Total == FoldLeft(LAMBDA n, page : n + Cardinality(page), 0, pages)

\* Page zero and the later pages that need no search: sequences of pages.
Filled ==
    LET room(s) == Capacity - FoldLeft(LAMBDA n, page : n + Cardinality(page), 0, s)
        left(s) == pending \ UNION Range(s)
        grow(s) ==
            LET target == Min({PageSize, room(s)})
            IN  IF room(s) = 0 \/ Cardinality(Freezable(left(s), 1)) < target
                THEN {s}
                ELSE {Append(s, T) : T \in Firsts(Freezable(left(s), 1), target, Rank)}
        filled[k \in 0..Capacity] ==
            IF k = 0
            THEN {<<T>> : T \in Firsts(Freezable(pending, 0), PageSize, Rank)}
            ELSE UNION {grow(s) : s \in filled[k - 1]}
    IN  filled[Capacity]

-----------------------------------------------------------------------------
(* The session and page zero.                                               *)

Init ==
    /\ root \in BOOLEAN
    /\ frontier = {Deferred}
    /\ expanded = {}
    /\ flight = {}
    /\ pending \in Firsts(Roots, PageSize, Rank)
    /\ seen = {CandidateKey(c) : c \in pending}
    /\ exhausted = FALSE
    /\ pages = <<>>
    /\ more = TRUE
    /\ scorer = "off"
    /\ finished = FALSE
    /\ published = FALSE
    /\ preparer = "off"

Incomplete(p) == Han(p) /\ (p.options # {} \/ p.matched < N)

\* should_search of _freeze_next_page
ShouldSearch(F) ==
    /\ Cardinality(F) < PageSize
    /\ \E p \in frontier : Incomplete(p)
    /\ F = {} \/ \E p \in frontier : p.kind = "han" /\ p.options # {}
    /\ ~exhausted /\ ~finished

\* _start_background_continuation
MayStart ==
    /\ scorer = "off" /\ ~published /\ ~exhausted
    /\ \E p \in frontier : Han(p) /\ p.matched < N

Wait(F) == F = {} /\ (ShouldSearch(F) \/ scorer # "off")

\* A request for page zero that must be retried.
AskPageZero ==
    /\ pages = <<>>
    /\ Wait(Freezable(pending, 0))
    /\ scorer' = IF ShouldSearch(Freezable(pending, 0)) /\ MayStart THEN "on" ELSE scorer
    /\ UNCHANGED <<sessionVars, finished, published, preparer>>

\* A request for page zero that is answered; it cancels the scorer.
FreezePageZero ==
    /\ pages = <<>>
    /\ LET F == Freezable(pending, 0)
       IN  /\ ~Wait(F)
           /\ scorer' = IF scorer # "off" \/ (ShouldSearch(F) /\ MayStart) THEN "cancelled" ELSE "off"
    /\ \E s \in Filled :
          /\ pages' = s
          /\ pending' = pending \ UNION Range(s)
    /\ more' = TRUE
    /\ UNCHANGED <<root, frontier, expanded, flight, seen, exhausted, finished, published, preparer>>

-----------------------------------------------------------------------------
(* Growing the frontier.  w is the worker that holds the lane.              *)

Working(w) ==
    /\ flight = {}
    /\ IF w = "scorer"
       THEN /\ scorer = "on" /\ root
            /\ pages = <<>> /\ Cardinality(Freezable(pending, 0)) < PageSize
       ELSE /\ preparer = "search" /\ scorer = "off" /\ more /\ ~exhausted
            /\ Total < Capacity
            /\ Cardinality(Freezable(pending, 1)) < Min({PageSize, Capacity - Total})

\* publish_completed: after a step of the scorer that made progress.
Publish(w, C) ==
    published' = (published \/ (w = "scorer" /\ \E c \in C : c.matched = N))

\* _prune_frontier and _prepare_page_search on the deferred roots.
RealizeRoots(w) ==
    /\ Deferred \in frontier
    /\ \/ w = "scorer" /\ Working(w) /\ UNCHANGED <<exhausted, preparer>>
       \/ /\ w = "preparer" /\ preparer = "prepare"
          /\ preparer' = "search"
          /\ exhausted' = (exhausted \/ ~root)
    /\ \E C \in Firsts(Roots, Capacity, Rank) : Add({c \in C : CandidateKey(c) \notin seen})
    /\ \E items \in Materialized(RootPaths, 0) :
          frontier' = Prune((frontier \ {Deferred}) \cup items, expanded)
    /\ UNCHANGED <<root, expanded, flight, pages, more, scorer, finished, published>>

\* The preparer finds the roots realized.
SkipPrepare ==
    /\ preparer = "prepare" /\ Deferred \notin frontier
    /\ preparer' = "search"
    /\ UNCHANGED <<sessionVars, scorer, finished, published>>

\* A slice of the scored parent p: some of its tokens T, at most Slice.
Slices(T) == {S \in SUBSET T : S # {} /\ Cardinality(S) <= Slice}
Left(p, T, S, cursor) == IF S = T THEN {} ELSE {Rest(p, T \ S, cursor + Cardinality(S))}

\* _resume_scored_han_frontier: slices left over go first, then deferred
\* seeds once no root is unscored.
ResumeSlice(w) ==
    /\ Working(w)
    /\ \E r \in frontier :
          /\ r.kind = "resume"
          /\ \E S \in Slices(r.tokens) :
                /\ \E C \in Distinct(Emitted(r.parent, S)) : Add(C) /\ Publish(w, C)
                /\ frontier' = Prune((frontier \ {r}) \cup Grown(r.parent, S)
                                        \cup Left(r.parent, r.tokens, S, r.cursor), expanded)
    /\ exhausted' = (frontier' = {})
    /\ UNCHANGED <<root, expanded, flight, pages, more, scorer, finished, preparer>>

UnscoredRoot(p) == p.kind = "han" /\ Len(p.tokens) = 1 /\ Incomplete(p)

ResumeSeeds(w) ==
    /\ Working(w)
    /\ \A p \in frontier : p.kind # "resume" /\ ~UnscoredRoot(p)
    /\ \E r \in frontier :
          /\ r.kind = "seeds"
          /\ \E items \in Materialized(r.records, r.cursor) :
                frontier' = Prune((frontier \ {r}) \cup items, expanded)
    /\ exhausted' = (frontier' = {})
    /\ UNCHANGED <<root, expanded, flight, pending, seen, pages, more, workerVars>>

NothingToResume ==
    \A p \in frontier :
        /\ p.kind \notin {"resume", "deferred"}
        /\ p.kind = "seeds" => \E q \in frontier : UnscoredRoot(q)

\* The first elements of S in the order "rank" up to k live ones, or all of S.
Taking(S, k, rank(_)) ==
    {T \in SUBSET S :
        LET live == Cardinality({p \in T : NextTokens(p) # {}})
        IN  /\ \A x \in T, y \in S \ T : rank(x) <= rank(y)
            /\ live = k \/ (live < k /\ T = S)}

ScorerRank(p) == 100 * p.predicted + 10 * Len(p.tokens) + (N - p.matched)

\* _expand_background_frontier_batch up to the call of the model: the best
\* incomplete paths leave the frontier; dead ones are retired.
TakeParents ==
    /\ Working("scorer") /\ NothingToResume
    /\ \E T \in Taking({p \in frontier : p.kind = "han" /\ Incomplete(p)}, Batch, ScorerRank) :
          /\ T # {}
          /\ frontier' = frontier \ T
          /\ expanded' = expanded \cup {PathKey(p) : p \in T}
          /\ flight' = {p \in T : NextTokens(p) # {}}
    /\ exhausted' = (exhausted \/ (flight' = {} /\ frontier' = {}))
    /\ UNCHANGED <<root, pending, seen, pages, more, workerVars>>

\* _expand_one_frontier up to the call of the model.
TakeOne ==
    /\ Working("preparer") /\ NothingToResume
    /\ \E T \in Taking({p \in frontier : p.kind = "han"}, 1, LAMBDA p : p.predicted) :
          /\ flight' = {p \in T : NextTokens(p) # {}}
          /\ frontier' = IF flight' = {} THEN {} ELSE frontier \ T
          /\ expanded' = expanded \cup {PathKey(p) : p \in T}
    /\ exhausted' = (exhausted \/ flight' = {})
    /\ UNCHANGED <<root, pending, seen, pages, more, workerVars>>

\* The model gave no answer, or failed: the parents go back.
\* Mutant: they stay marked as expanded.
MutantRollbackKeepsKeys ==
    /\ flight # {}
    /\ frontier' = frontier \cup flight
    /\ flight' = {}
    /\ UNCHANGED <<root, expanded, pending, seen, exhausted, pages, more, workerVars>>

Rollback ==
    /\ flight # {}
    /\ frontier' = frontier \cup flight
    /\ expanded' = expanded \ {PathKey(p) : p \in flight}
    /\ flight' = {}
    /\ UNCHANGED <<root, pending, seen, exhausted, pages, more, workerVars>>

\* The model scored the parents: each is expanded by a slice of its tokens.
Scored ==
    /\ flight # {}
    /\ \E slice \in [flight -> SUBSET UNION {NextTokens(p) : p \in flight}] :
          /\ \A p \in flight : slice[p] \in Slices(NextTokens(p))
          /\ \E C \in Distinct(UNION {Emitted(p, slice[p]) : p \in flight}) :
                Add(C) /\ Publish(IF scorer = "off" THEN "preparer" ELSE "scorer", C)
          /\ frontier' = Prune(frontier \cup UNION {Grown(p, slice[p])
                                   \cup Left(p, NextTokens(p), slice[p], 0) : p \in flight}, expanded)
    /\ flight' = {}
    /\ exhausted' = (exhausted \/ frontier' = {})
    /\ UNCHANGED <<root, expanded, pages, more, scorer, finished, preparer>>

\* _run_background_continuation_scoped: the scorer's time is up, it is
\* cancelled, or it has nothing more to do.
ScorerRetires ==
    /\ scorer # "off" /\ flight = {}
    /\ scorer' = "off"
    /\ finished' = (finished \/ exhausted \/ pages # <<>>)
    /\ UNCHANGED <<sessionVars, published, preparer>>

-----------------------------------------------------------------------------
(* Later pages.                                                             *)

\* _maybe_start_page_preparation, after page zero and when a scorer retires.
StartPreparer ==
    /\ pages # <<>> /\ preparer = "off" /\ scorer # "on" /\ Total < Capacity
    /\ preparer' = "prepare"
    /\ UNCHANGED <<sessionVars, scorer, finished, published>>

FreezeLaterPage ==
    /\ preparer = "search" /\ scorer = "off" /\ flight = {} /\ more /\ Total < Capacity
    /\ LET F == Freezable(pending, 1)
           target == Min({PageSize, Capacity - Total})
       IN  /\ F # {} /\ (Cardinality(F) >= target \/ exhausted)
           /\ \E T \in Firsts(F, target, Rank) :
                 /\ pages' = Append(pages, T)
                 /\ pending' = pending \ T
                 /\ more' = /\ Capacity > Total + Cardinality(T)
                            /\ Cardinality(T) = target \/ pending' # {} \/ ~exhausted
    /\ UNCHANGED <<root, frontier, expanded, flight, seen, exhausted, workerVars>>

\* It stops at the last page and at an exhausted search.
\* Mutant: it stops as soon as no page can be frozen.
MutantStopsAtEmptyPage ==
    /\ preparer = "search" /\ scorer = "off" /\ flight = {}
    /\ ~more \/ Total = Capacity \/ Freezable(pending, 1) = {}
    /\ preparer' = "off"
    /\ UNCHANGED <<sessionVars, scorer, finished, published>>

PreparerStops ==
    /\ preparer = "search" /\ scorer = "off" /\ flight = {}
    /\ ~more \/ Total = Capacity \/ (exhausted /\ Freezable(pending, 1) = {})
    /\ preparer' = "off"
    /\ UNCHANGED <<sessionVars, scorer, finished, published>>

Workers == {"scorer", "preparer"}

Next ==
    \/ AskPageZero
    \/ FreezePageZero
    \/ \E w \in Workers : RealizeRoots(w) \/ ResumeSlice(w) \/ ResumeSeeds(w)
    \/ TakeParents
    \/ TakeOne
    \/ Rollback
    \/ Scored
    \/ ScorerRetires
    \/ SkipPrepare
    \/ StartPreparer
    \/ FreezeLaterPage
    \/ PreparerStops

Spec == Init /\ [][Next]_vars

\* The client asks again until it has page zero; workers run while they are
\* registered and their lane is free; a parent that is tried again and again
\* is scored in the end, the backend's answers being late only while another
\* caller holds the model.
Fairness ==
    /\ WF_vars(AskPageZero) /\ WF_vars(FreezePageZero)
    /\ \A w \in Workers : SF_vars(RealizeRoots(w)) /\ SF_vars(ResumeSlice(w)) /\ SF_vars(ResumeSeeds(w))
    /\ SF_vars(TakeParents) /\ WF_vars(TakeOne) /\ SF_vars(Scored)
    /\ WF_vars(ScorerRetires)
    /\ WF_vars(SkipPrepare) /\ WF_vars(StartPreparer)
    /\ WF_vars(FreezeLaterPage) /\ WF_vars(PreparerStops)

FairSpec == Spec /\ Fairness

-----------------------------------------------------------------------------
(* What is still to be found: the closure of a set of work items under      *)
(* expansion, leaving out paths that would be pruned.                       *)

Children(p) ==
    CASE p.kind = "han"    -> Grown(p, NextTokens(p))
      [] p.kind = "resume" -> Grown(p.parent, p.tokens)
      [] p.kind = "seeds"  -> p.records
      [] OTHER             -> RootPaths
Yield(p) ==
    CASE p.kind = "han"    -> Emitted(p, NextTokens(p))
      [] p.kind = "resume" -> Emitted(p.parent, p.tokens)
      [] p.kind = "seeds"  -> {}
      [] OTHER             -> Roots

Derivable(items) ==
    LET level[k \in 0..(MaxTokens + 2)] ==
            IF k = 0
            THEN items
            ELSE {c \in UNION {Children(p) : p \in level[k - 1]} : PathKey(c) \notin expanded}
    IN  UNION {Yield(p) : p \in UNION {level[k] : k \in 0..(MaxTokens + 2)}}

\* Everything the index and the keys allow, whatever has been searched.
Legal ==
    LET level[k \in 0..MaxTokens] ==
            IF k = 0 THEN {Deferred} ELSE UNION {Children(p) : p \in level[k - 1]}
    IN  UNION {Yield(p) : p \in UNION {level[k] : k \in 0..MaxTokens}}

\* Every candidate the index and the keys allow is known already or can still
\* be reached from the work that is left, and the search calls itself
\* exhausted only when nothing is left: slices, deferred seeds, rollbacks,
\* retired paths and pruning lose nothing, whoever does them in what order.
NothingLost ==
    root => LET reached == seen \cup (IF exhausted THEN {} ELSE {CandidateKey(c) : c \in Derivable(frontier \cup flight)})
            IN  {CandidateKey(c) : c \in Legal} \subseteq reached

\* Short before long: a page frozen while no parent is being scored holds no
\* candidate that predicts more syllables than one still to be found.
ShortBeforeLong ==
    [][\A c \in pending \ pending' :
          root /\ ~exhausted /\ flight = {} =>
              \A d \in Derivable(frontier) :
                  CandidateKey(d) \in seen \/ c.predicted <= d.predicted]_vars

\* Once page zero is out, the search goes on to the last candidate or to a
\* full set, though the model fails now and then.
SearchEnds == pages # <<>> ~> (exhausted \/ Total = Capacity)

=============================================================================
