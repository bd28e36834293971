---------------------------- MODULE CandidatePages ----------------------------
(***************************************************************************)
(* NeuralCandidatePageManager in Chinese-first mode: page-zero requests    *)
(* of pipe threads, the candidate sets (search sessions) they create, and  *)
(* the three kinds of background worker of a set: the lexical worker that  *)
(* fills page zero, the scorer that runs the model, and the preparer that  *)
(* freezes later pages (neural_candidate_pages.py over its base classes).  *)
(*                                                                         *)
(* One step is one section under _state_lock or _admission_lock; the lock  *)
(* is released around model calls and trie walks.  One client is modelled; *)
(* what other clients do to its sets is Evict.  Candidates are their       *)
(* ranks.  "pending" holds the ones that may be frozen: a candidate whose  *)
(* length bucket is still open counts as not produced yet.                 *)
(***************************************************************************)
EXTENDS Naturals, Sequences, FiniteSets, SequencesExt, Subsequences

CONSTANTS
    Requests,           \* pipe threads serving page-zero requests
    Identities,         \* compositions (_SearchIdentity) of the client
    Lexical,            \* what a trie walk can give a composition: see below
    Candidates,         \* ranks of the candidates
    PageSize,           \* CHINESE_PAGE_SIZE
    Capacity,           \* CHINESE_CANDIDATE_COUNT
    MaxTokens,          \* bound on admissions
    MaxSets,            \* bound on the candidate sets created
    None

\* "none": not eligible for lexical completion; "short": eligible, but never
\* enough for a page; "full": may fill a page.
ASSUME PagesAssumption ==
    /\ Lexical \in [Identities -> {"none", "short", "full"}]
    /\ Candidates \subseteq Nat \ {0}
    /\ PageSize \in Nat \ {0}
    /\ Capacity \in Nat \ {0}
    /\ MaxTokens \in Nat
    /\ MaxSets \in Nat

SetIds  == 1..MaxSets
Literal == 0            \* the raw keys themselves

PageType == SUBSET (Candidates \cup {Literal})
Search   == [id : Identities, token : 1..MaxTokens]
SetType  ==
    [id : Identities, token : 1..MaxTokens, pending : SUBSET Candidates,
     supplied : SUBSET Candidates, seen : SUBSET Candidates, frozen : Seq(PageType),
     more : BOOLEAN, exhausted : BOOLEAN, lexicalDone : BOOLEAN, walked : BOOLEAN,
     searchDone : BOOLEAN]

ASSUME NoneAssumption ==
    /\ None \notin Search \cup SetType
    /\ \A page \in PageType : page # None

VARIABLES
    latest,             \* _latest_searches: newest identity and its token, or None
    tokens,             \* cancellation tokens made
    cancelled,          \* the ones that are set
    sessions,           \* keys of _sessions, least recently used first
    sets,               \* _SearchSession of each candidate set, or None
    request,            \* where each request is
    lexical,            \* page-zero lexical worker of each set
    scorer,             \* background continuation of each set
    retiring,           \* sets whose scorer ended and has not looked for waiting sets yet
    wake,               \* sets an ended scorer is about to wake
    preparer,           \* later-page preparer of each set
    clearing,           \* clear_sessions is between its two locks
    cleared,            \* history: tokens made when the last clear began
    shown               \* history: the first pages returned to the client

workerVars == <<lexical, scorer, retiring, wake, preparer>>
clearVars  == <<clearing, cleared>>
vars == <<latest, tokens, cancelled, sessions, sets, request, workerVars, clearVars, shown>>

NoRequest  == [pc |-> "idle", id |-> None, token |-> 0, set |-> 0, page |-> None]
NoScorer   == [pc |-> "off", cancelled |-> FALSE, keep |-> {}]
NoPreparer == [pc |-> "off", ready |-> FALSE, next |-> 0]

Init ==
    /\ latest = None
    /\ tokens = 0
    /\ cancelled = {}
    /\ sessions = <<>>
    /\ sets = [s \in SetIds |-> None]
    /\ request = [r \in Requests |-> NoRequest]
    /\ lexical = [s \in SetIds |-> "off"]
    /\ scorer = [s \in SetIds |-> NoScorer]
    /\ retiring = {}
    /\ wake = {}
    /\ preparer = [s \in SetIds |-> NoPreparer]
    /\ clearing = FALSE
    /\ cleared = 0
    /\ shown = {}

Live == ToSet(sessions)
Drop(seq, S) == KeepAt(seq, {i \in DOMAIN seq : seq[i] \notin S})
MoveToEnd(seq, s) == Append(Drop(seq, {s}), s)

\* A worker of set s is told to stop: its composition was superseded, or the
\* set was removed, which sets the token too.
Stopped(s) == sets[s].token \in cancelled \/ s \notin Live

\* _background_searches: the scorer of s is registered until it retires.
Registered(s) == scorer[s].pc # "off"

-----------------------------------------------------------------------------
(* Pages.  A candidate set b holds pending candidates and frozen pages;     *)
(* "supplied" are the pending ones that came from a trie walk.              *)

\* The k best candidates of S.
Top(S, k) == {c \in S : Cardinality({d \in S : d < c}) < k}

Count(pages) == FoldLeft(LAMBDA n, page : n + Cardinality(page), 0, pages)
Total(b)  == Count(b.frozen)
Full(b)   == Total(b) >= Capacity
Target(b) == Min({PageSize, Capacity - Total(b)})

\* seen_candidates: only candidates not seen before become pending.
Add(b, S) == [b EXCEPT !.pending = @ \cup (S \ b.seen), !.seen = @ \cup S]
Supply(b, S) == [Add(b, S) EXCEPT !.supplied = @ \cup (S \ b.seen)]

Take(b, page) == [b EXCEPT !.pending = @ \ page, !.supplied = @ \ page]

\* _freeze_next_page for page n > 1 (pages are numbered from 1 here).
LaterPage(b, n) ==
    LET page == Top(b.pending, Target(b))
        rest == b.pending \ page
        more == /\ Capacity > Total(b) + Cardinality(page)
                /\ Cardinality(page) = Target(b) \/ rest # {} \/ ~b.exhausted
    IN  IF n > Len(b.frozen)
        THEN [Take(b, page) EXCEPT !.frozen = Append(@, page), !.more = more]
        ELSE [Take(b, page) EXCEPT !.frozen[n] = page, !.more = IF n = Len(b.frozen) THEN more ELSE @]

\* The later pages that need no search are frozen with page zero.
FillPage(b) ==
    IF ~Full(b) /\ Cardinality(b.pending) >= Target(b)
    THEN LaterPage(b, Len(b.frozen) + 1)
    ELSE b
FillPages(b) ==
    LET filled[n \in 0..Capacity] == IF n = 0 THEN b ELSE FillPage(filled[n - 1])
    IN  filled[Capacity]

\* Page zero takes the best candidates; the raw keys if nothing is left to
\* search; it may be empty otherwise.  It is always said to have more.
ZeroPage(b) ==
    LET page == IF b.pending = {} /\ b.exhausted THEN {Literal} ELSE Top(b.pending, PageSize)
    IN  IF b.frozen = <<>>
        THEN [Take(b, page) EXCEPT !.frozen = <<page>>, !.more = TRUE]
        ELSE [Take(b, page) EXCEPT !.frozen[1] = page, !.more = Len(b.frozen) = 1 \/ @]

\* Later pages stay open while exact spellings may still turn up.
ZeroPages(b) == {ZeroPage(b), FillPages(ZeroPage(b))}

\* _lexical_completion_fallback: at most limit candidates, and whether the
\* walk reached its end.
Walks(b, limit) ==
    IF Lexical[b.id] = "none" \/ b.walked \/ limit = 0
    THEN {[found |-> {}, walked |-> b.walked]}
    ELSE {[found |-> S, walked |-> out] :
            S \in {T \in SUBSET (Candidates \ b.seen) : Cardinality(T) <= limit},
            out \in BOOLEAN}

\* The walk of page zero on the request's own budget; a result that cannot
\* fill the page is dropped, though the cursor has moved.
Supplied(b) ==
    LET slots == PageSize - Cardinality(b.pending)
        kept(w) == Lexical[b.id] = "full" \/ Cardinality(w.found) >= slots
    IN  IF b.lexicalDone
        THEN {b}
        ELSE {[(IF kept(w) THEN Supply(b, w.found) ELSE b) EXCEPT !.walked = w.walked] :
                w \in Walks(b, slots)}

\* _freeze_next_page for page zero: the outcomes, with the workers to start.
\* Without a full page it waits for lexical work, and with no candidate at
\* all for the model.
FreezeZero(s, b, walking) ==
    LET Done(z, search) == [set |-> z, walk |-> FALSE, search |-> search, page |-> z.frozen[1]]
        Wait(p, walk, search) == [set |-> p, walk |-> walk, search |-> search, page |-> None]
        Outcome(p) ==
            LET short == Cardinality(p.pending) < PageSize
                walk == short /\ Lexical[p.id] = "full" /\ ~p.lexicalDone
            IN  UNION {IF walk \/ (p.pending = {} /\ (search \/ Registered(s)))
                       THEN {Wait(p, walk, search)}
                       ELSE {Done(z, search) : z \in ZeroPages(p)} :
                            search \in {FALSE, short /\ ~p.exhausted /\ ~p.searchDone}}
    IN  CASE Cardinality(b.pending) >= PageSize -> {Done(z, FALSE) : z \in ZeroPages(b)}
          [] Cardinality(b.pending) < PageSize /\ walking -> {Wait(b, FALSE, FALSE)}
          [] OTHER -> UNION {Outcome(p) : p \in Supplied(b)}

\* Store outcome o of page zero of set s and start the workers it asks for:
\* _start_page_zero_lexical_preparation (else its state becomes otherwise) and
\* _start_background_continuation, which may find nothing to search.
\* Freezing page zero cancels the scorer.
Freeze(s, b, o, otherwise) ==
    /\ sets' = [sets EXCEPT ![s] = o.set]
    /\ lexical' = [lexical EXCEPT ![s] = IF o.walk THEN "walk" ELSE otherwise]
    /\ \E starts \in {FALSE, o.search /\ b.frozen = <<>> /\ ~Registered(s)} :
            scorer' = [scorer EXCEPT
                            ![s].pc = IF starts THEN "loop" ELSE @,
                            ![s].cancelled = (starts \/ Registered(s)) /\ (@ \/ o.page # None)]

\* _page_preparation_allowed_locked
Allowed(s) ==
    /\ ~Stopped(s)
    /\ sets[s].frozen # <<>>
    /\ preparer[s].pc \in {"off", "failed"}
    /\ \A t \in Live : sets[t].id = sets[s].id => ~Registered(t) \/ scorer[t].cancelled
    /\ ~Full(sets[s])

\* _maybe_start_page_preparation
MaybeStart(s) ==
    preparer' = IF Allowed(s) THEN [preparer EXCEPT ![s].pc = "walk"] ELSE preparer

-----------------------------------------------------------------------------
(* Requests.                                                                *)

\* Mutant: a request is not told that it was superseded or cleared.
MutantAdmittedForever(r) == TRUE

\* _raise_if_query_expired: a superseded request does nothing more.
Admitted(r) == request[r].token \notin cancelled

\* The sessions left by _expire_sessions once the tokens in C are set.
Purged(C) == Drop(sessions, {s \in Live : sets[s].token \in C})

\* _admit_search: equal identities share one token, a new one cancels the last.
Admit(r, i) ==
    /\ request[r].pc = "idle"
    /\ LET shares == latest # None /\ latest.id = i /\ latest.token \notin cancelled
           token == IF shares THEN latest.token ELSE tokens + 1
       IN  /\ token <= MaxTokens
           /\ tokens' = IF shares THEN tokens ELSE token
           /\ latest' = [id |-> i, token |-> token]
           /\ cancelled' = IF shares \/ latest = None THEN cancelled
                                                      ELSE cancelled \cup {latest.token}
           /\ request' = [request EXCEPT ![r] = [NoRequest EXCEPT !.pc = "lookup", !.id = i,
                                                                  !.token = token]]
    /\ UNCHANGED <<sessions, sets, workerVars, clearVars, shown>>

\* CandidatePageTimeout: the budget is spent, the lock busy, or the request
\* superseded.
Expires(r) ==
    /\ request[r].pc # "idle"
    /\ request' = [request EXCEPT ![r] = NoRequest]
    /\ UNCHANGED <<latest, tokens, cancelled, sessions, sets, workerVars, clearVars, shown>>

\* _cancel_superseded_searches_locked: the searches of other compositions stop.
Superseded(i) == cancelled \cup {sets[s].token : s \in {t \in Live : sets[t].id # i}}

\* First section of _query_page: cancel what is superseded, then take the
\* newest published set, the oldest unpublished one, or none.
Lookup(r) ==
    /\ request[r].pc = "lookup"
    /\ Admitted(r)
    /\ LET i == request[r].id
           left == Purged(Superseded(i))
           ours == Drop(left, {s \in ToSet(left) : sets[s].id # i})
           published == Drop(ours, {s \in ToSet(ours) : sets[s].frozen = <<>>})
       IN  /\ cancelled' = Superseded(i)
           /\ \/ /\ published # <<>>
                 /\ sessions' = MoveToEnd(left, Last(published))
                 /\ request' = [request EXCEPT ![r].pc = "start", ![r].set = Last(published),
                                               ![r].page = sets[Last(published)].frozen[1]]
              \/ /\ published = <<>> /\ ours # <<>>
                 /\ sessions' = left
                 /\ request' = [request EXCEPT ![r].pc = "retry", ![r].set = Head(ours)]
              \/ /\ ours = <<>>
                 /\ sessions' = left
                 /\ request' = [request EXCEPT ![r].pc = "create"]
    /\ UNCHANGED <<latest, tokens, sets, workerVars, clearVars, shown>>

\* After page zero of set s: on to start the preparer, or give up for now.
AfterFreeze(r, s, o) ==
    request' = [request EXCEPT ![r] = IF o.page = None
                                      THEN NoRequest
                                      ELSE [@ EXCEPT !.pc = "start", !.set = s, !.page = o.page]]

\* Second section for an unpublished set.  That page zero may have been
\* published in between is not looked at.
Retry(r) ==
    LET s == request[r].set
        walking == lexical[s] \in {"walk", "finish"}
    IN  /\ request[r].pc = "retry"
        /\ Admitted(r)
        /\ s \in Live
        /\ \E o \in FreezeZero(s, sets[s], walking) :
                /\ Freeze(s, sets[s], o, lexical[s])
                /\ AfterFreeze(r, s, o)
                /\ sessions' = IF o.page = None THEN sessions ELSE MoveToEnd(sessions, s)
        /\ UNCHANGED <<latest, tokens, cancelled, retiring, wake, preparer, clearVars, shown>>

NewSet(i, token, P, exhausted) ==
    [id |-> i, token |-> token, pending |-> P, supplied |-> {}, seen |-> P, frozen |-> <<>>,
     more |-> FALSE, exhausted |-> exhausted, lexicalDone |-> FALSE, walked |-> FALSE,
     searchDone |-> FALSE]

\* _new_session: the sets of other compositions go, the roots give some first
\* candidates, and page zero is tried at once; the budget may end right after
\* the set is stored.
NewSession(r, left) ==
    LET i == request[r].id
        others == {s \in ToSet(left) : sets[s].id # i}
        new == Cardinality({s \in SetIds : sets[s] # None}) + 1
    IN  /\ new \in SetIds
        /\ sessions' = Append(Drop(left, others), new)
        /\ cancelled' = cancelled \cup {sets[s].token : s \in others}
        /\ \E P \in SUBSET Candidates, exhausted \in BOOLEAN :
              LET b == NewSet(i, request[r].token, P, exhausted)
                  late == [set |-> b, walk |-> FALSE, search |-> FALSE, page |-> None]
              IN  \E o \in {late} \cup FreezeZero(new, b, FALSE) :
                      /\ Freeze(new, b, o, "off")
                      /\ AfterFreeze(r, new, o)

\* query_page of the scored layer: a set published meanwhile, or a new one.
Create(r) ==
    LET left == Purged(cancelled)
        published == Drop(left, {s \in ToSet(left) : \/ sets[s].id # request[r].id
                                                     \/ sets[s].frozen = <<>>})
    IN  /\ request[r].pc = "create"
        /\ Admitted(r)
        /\ \/ /\ published # <<>>
              /\ sessions' = MoveToEnd(left, Head(published))
              /\ request' = [request EXCEPT ![r].pc = "start", ![r].set = Head(published),
                                            ![r].page = sets[Head(published)].frozen[1]]
              /\ UNCHANGED <<cancelled, sets, lexical, scorer>>
           \/ published = <<>> /\ NewSession(r, left)
        /\ UNCHANGED <<latest, tokens, retiring, wake, preparer, clearVars, shown>>

\* Last section: start the preparer and answer with the page.
Start(r) ==
    /\ request[r].pc = "start"
    /\ Admitted(r)
    /\ MaybeStart(request[r].set)
    /\ shown' = shown \cup {[set |-> request[r].set, page |-> request[r].page]}
    /\ request' = [request EXCEPT ![r] = NoRequest]
    /\ UNCHANGED <<latest, tokens, cancelled, sessions, sets, lexical, scorer, retiring, wake,
                   clearVars>>

\* A request for a later page: it answers one that is frozen, or reports
\* "not ready"; it never starts work, and only keeps the set in use.
Navigate(s) ==
    /\ s \in Live
    /\ sets[s].token \notin cancelled
    /\ sessions' = MoveToEnd(Purged(cancelled), s)
    /\ Len(sets[s].frozen) > 1 \/ sets[s].more
    /\ UNCHANGED <<latest, tokens, cancelled, sets, request, workerVars, clearVars, shown>>

\* The least recently used set goes: idle too long, or other clients' sets
\* fill the bounded table.
Evict ==
    /\ sessions # <<>>
    /\ cancelled' = cancelled \cup {sets[Head(sessions)].token}
    /\ sessions' = Tail(sessions)
    /\ UNCHANGED <<latest, tokens, sets, request, workerVars, clearVars, shown>>

\* clear_sessions, under _admission_lock and then under _state_lock.
ClearBegin ==
    /\ ~clearing
    /\ tokens > cleared     \* otherwise there is nothing to clear
    /\ clearing' = TRUE
    /\ cleared' = tokens
    /\ cancelled' = IF latest = None THEN cancelled ELSE cancelled \cup {latest.token}
    /\ latest' = None
    /\ UNCHANGED <<tokens, sessions, sets, request, workerVars, shown>>

ClearEnd ==
    /\ clearing
    /\ clearing' = FALSE
    /\ cancelled' = cancelled \cup {sets[s].token : s \in Live}
    /\ sessions' = <<>>
    /\ UNCHANGED <<latest, tokens, sets, request, workerVars, cleared, shown>>

-----------------------------------------------------------------------------
(* Workers.  serverVars are what no worker touches.                         *)

serverVars == <<latest, tokens, cancelled, sessions, request, clearVars, shown>>

\* A batch of the page-zero lexical worker comes back: add it, publish page
\* zero if it is full, and go on unless that or the walk's end was reached.
\* Its limit is what page zero lacked after the previous batch.
LexicalBatch(s) ==
    /\ lexical[s] = "walk"
    /\ \/ Stopped(s) /\ lexical' = [lexical EXCEPT ![s] = "finish"] /\ UNCHANGED <<sets, scorer>>
       \/ /\ ~Stopped(s)
          /\ \E w \in Walks(sets[s], PageSize) :
                LET b == [Supply(sets[s], w.found) EXCEPT !.walked = w.walked]
                    full == b.frozen = <<>> /\ Cardinality(b.pending) >= PageSize
                    ends == full \/ b.frozen # <<>> \/ b.walked
                    outcomes == IF full
                                THEN FreezeZero(s, b, TRUE)
                                ELSE {[set |-> b, walk |-> FALSE, search |-> FALSE, page |-> None]}
                IN  \E o \in outcomes : Freeze(s, b, o, IF ends THEN "finish" ELSE "walk")
    /\ UNCHANGED <<retiring, wake, preparer, serverVars>>

\* Two workers cannot advance the same generator: the second one's next()
\* raises, which ends the lexical worker's loop ...
LexicalCollides(s) ==
    /\ lexical[s] = "walk"
    /\ preparer[s].pc = "walk"
    /\ Lexical[sets[s].id] # "none"
    /\ lexical' = [lexical EXCEPT ![s] = "finish"]
    /\ UNCHANGED <<sets, scorer, retiring, wake, preparer, serverVars>>

\* The worker's finally section: it is done for good if page zero or the end
\* of the walk was reached, and may then publish what there is.
LexicalFinish(s) ==
    LET done == ~Stopped(s) /\ (sets[s].frozen # <<>> \/ sets[s].walked)
        b == [sets[s] EXCEPT !.lexicalDone = @ \/ done]
        kept == [set |-> b, walk |-> FALSE, search |-> FALSE, page |-> None]
    IN  /\ lexical[s] = "finish"
        /\ \E o \in IF done /\ b.frozen = <<>> THEN FreezeZero(s, b, FALSE) ELSE {kept} :
                Freeze(s, b, o, IF o.set.frozen # <<>> THEN "start" ELSE "off")
        /\ UNCHANGED <<retiring, wake, preparer, serverVars>>

LexicalStart(s) ==
    /\ lexical[s] = "start"
    /\ lexical' = [lexical EXCEPT ![s] = "off"]
    /\ MaybeStart(s)
    /\ UNCHANGED <<sets, scorer, retiring, wake, serverVars>>

\* The scorer leaves _background_searches; its own finally section follows.
Retire(s) ==
    /\ scorer' = [scorer EXCEPT ![s] = NoScorer]
    /\ retiring' = retiring \cup {s}

\* The scorer stops when told to, or when page zero can be or is published.
ScorerStops(s, b) ==
    \/ Stopped(s)
    \/ scorer[s].cancelled
    \/ b.frozen # <<>>
    \/ Cardinality(b.pending) >= PageSize

\* The scorer's thread sends its first batch to the model.
ScorerBegin(s) ==
    /\ scorer[s].pc = "loop"
    /\ IF ScorerStops(s, sets[s])
       THEN Retire(s)
       ELSE scorer' = [scorer EXCEPT ![s].pc = "score"] /\ UNCHANGED retiring
    /\ UNCHANGED <<sets, lexical, wake, preparer, serverVars>>

\* The model answers: nothing (it asks again, or gives up at the deadline), a
\* failure, or scores, whose candidates are built outside the lock.  Those
\* that may replace a supplied one are noted now.
ScorerAnswer(s) ==
    /\ scorer[s].pc = "score"
    /\ \/ Retire(s)
       \/ /\ ~Stopped(s)
          /\ scorer' = [scorer EXCEPT ![s].pc = "merge", ![s].keep = sets[s].supplied]
          /\ UNCHANGED retiring
    /\ UNCHANGED <<sets, lexical, wake, preparer, serverVars>>

\* Candidates S become pending in b: the noted ones always, the others if
\* they were not seen.
Merge(b, S, noted, out) ==
    [b EXCEPT !.pending = @ \cup (S \cap noted) \cup (S \ b.seen),
              !.supplied = @ \ (S \cap noted),
              !.seen = @ \cup S,
              !.exhausted = @ \/ out]

\* Mutant: the set is not looked up again after the candidates are built.
MutantMergeUnchecked(s) ==
    /\ scorer[s].pc = "merge"
    /\ \E S \in SUBSET (Candidates \ sets[s].seen) :
            sets' = [sets EXCEPT ![s] = Merge(sets[s], S, scorer[s].keep, FALSE)]
    /\ Retire(s)
    /\ UNCHANGED <<lexical, wake, preparer, serverVars>>

\* The built candidates are merged, and the next batch is sent.
ScorerMerge(s) ==
    /\ scorer[s].pc = "merge"
    /\ \/ Stopped(s) /\ Retire(s) /\ UNCHANGED sets
       \/ /\ ~Stopped(s)
          /\ \E S \in SUBSET (scorer[s].keep \cup (Candidates \ sets[s].seen)), out \in BOOLEAN :
                LET b == Merge(sets[s], S, scorer[s].keep, out)
                IN  /\ sets' = [sets EXCEPT ![s] = b]
                    /\ IF ScorerStops(s, b) \/ b.exhausted
                       THEN Retire(s)
                       ELSE /\ scorer' = [scorer EXCEPT ![s].pc = "score", ![s].keep = {}]
                            /\ UNCHANGED retiring
    /\ UNCHANGED <<lexical, wake, preparer, serverVars>>

\* _run_background_continuation_scoped, finally: page zero need not wait for
\* the search again if it ended, and the sets that waited are noted.
ScorerRetired(s) ==
    /\ s \in retiring
    /\ retiring' = retiring \ {s}
    /\ sets' = [sets EXCEPT ![s].searchDone =
                    @ \/ (s \in Live /\ (sets[s].exhausted \/ sets[s].frozen # <<>>))]
    /\ wake' = wake \cup {t \in Live : sets[t].id = sets[s].id}
    /\ UNCHANGED <<lexical, scorer, preparer, serverVars>>

ScorerWakes(s) ==
    /\ s \in wake
    /\ wake' = wake \ {s}
    /\ MaybeStart(s)
    /\ UNCHANGED <<sets, lexical, scorer, retiring, serverVars>>

\* The preparer of set s goes on at pc, returns, or is ended by an exception
\* (a failure, or nothing left to search); it stays in _page_preparations
\* until its finally section.  After an exception it counts as failed.
PreparerAt(s, pc) == preparer' = [preparer EXCEPT ![s].pc = pc]
PreparerEnds(s)   == preparer' = [preparer EXCEPT ![s] = [NoPreparer EXCEPT !.pc = "end"]]
PreparerDies(s)   == preparer' = [preparer EXCEPT ![s] = [NoPreparer EXCEPT !.pc = "dying"]]

PreparerOut(s) ==
    /\ \/ preparer[s].pc = "end" /\ PreparerAt(s, "off")
       \/ preparer[s].pc = "dying" /\ PreparerAt(s, "failed")
    /\ UNCHANGED <<sets, lexical, scorer, retiring, wake, serverVars>>

\* After its grace time the preparer resumes the trie walk, for the rest of
\* the set or at least a page.  Unless the whole set is there then,
\* _prepare_page_search adds the roots.
PreparerWalk(s) ==
    LET missing == Capacity - Total(sets[s]) - Cardinality(sets[s].pending)
        limit == Max({0, missing, Target(sets[s])})
    IN  /\ preparer[s].pc = "walk"
        /\ \/ Stopped(s) /\ PreparerEnds(s) /\ UNCHANGED sets
           \/ /\ ~Stopped(s)
              /\ \E w \in Walks(sets[s], limit) :
                    LET b == [Supply(sets[s], w.found) EXCEPT !.walked = w.walked]
                        ready == Total(b) + Cardinality(b.pending) >= Capacity
                    IN  /\ \E S \in SUBSET (Candidates \ b.seen), out \in BOOLEAN :
                            /\ ready => S = {} /\ ~out
                            /\ sets' = [sets EXCEPT ![s] = Merge(b, S, {}, out)]
                        /\ preparer' = [preparer EXCEPT ![s].pc = "loop", ![s].ready = ready]
        /\ UNCHANGED <<lexical, scorer, retiring, wake, serverVars>>

\* ... and the preparer's thread.
PreparerCollides(s) ==
    /\ preparer[s].pc = "walk"
    /\ lexical[s] = "walk"
    /\ Lexical[sets[s].id] # "none"
    /\ PreparerDies(s)
    /\ UNCHANGED <<sets, lexical, scorer, retiring, wake, serverVars>>

\* Mutant: the preparer returns while a cancelled scorer has yet to retire.
MutantReturnOnScorer(s) ==
    /\ preparer[s].pc = "loop"
    /\ IF Stopped(s) \/ ~sets[s].more \/ Registered(s)
       THEN PreparerEnds(s)
       ELSE preparer' = [preparer EXCEPT ![s].pc = "search", ![s].next = Len(sets[s].frozen) + 1]
    /\ UNCHANGED <<sets, lexical, scorer, retiring, wake, serverVars>>

\* Top of the preparer's loop.  It waits for a cancelled scorer to retire,
\* unless the whole set is there.
PreparerLoop(s) ==
    /\ preparer[s].pc = "loop"
    /\ IF Stopped(s) \/ ~sets[s].more \/ (Registered(s) /\ ~scorer[s].cancelled)
       THEN PreparerEnds(s)
       ELSE /\ Registered(s) => preparer[s].ready
            /\ preparer' = [preparer EXCEPT ![s].pc = IF Registered(s) THEN "direct" ELSE "search",
                                            ![s].next = Len(sets[s].frozen) + 1]
    /\ UNCHANGED <<sets, lexical, scorer, retiring, wake, serverVars>>

\* Freeze page b.next; end if that was the last one or the set is full.
PreparerFreeze(s) ==
    LET b == LaterPage(sets[s], preparer[s].next)
        ends == preparer[s].next = Len(b.frozen) /\ ~b.more
    IN  IF Full(sets[s])
        THEN PreparerEnds(s) /\ UNCHANGED sets
        ELSE /\ sets' = [sets EXCEPT ![s] = b]
             /\ IF ends THEN PreparerEnds(s) ELSE PreparerAt(s, "loop")

\* One search step of a later page: candidates, the end of the search, no
\* result in time, or a failure, which ends the thread.
PreparerExpand(s) ==
    \/ /\ \E S \in SUBSET (Candidates \ sets[s].seen), out \in BOOLEAN :
            sets' = [sets EXCEPT ![s] = Merge(sets[s], S, {}, out)]
       /\ UNCHANGED preparer
    \/ PreparerAt(s, "loop") /\ UNCHANGED sets
    \/ PreparerDies(s) /\ UNCHANGED sets

\* The page that is due: frozen by someone else, ready to freeze, or still to
\* be searched for.  The direct path does not look whether it is frozen.
PreparerPage(s) ==
    LET b == sets[s]
        direct == preparer[s].pc = "direct"
        enough == Cardinality(b.pending) >= Target(b)
    IN  /\ preparer[s].pc \in {"direct", "search"}
        /\ CASE Stopped(s) -> PreparerEnds(s) /\ UNCHANGED sets
             [] ~Stopped(s) /\ ~direct /\ preparer[s].next <= Len(b.frozen) ->
                    PreparerAt(s, "loop") /\ UNCHANGED sets
             [] OTHER ->
                    IF enough \/ Full(b) \/ (b.exhausted /\ b.pending # {})
                    THEN PreparerFreeze(s)
                    ELSE IF b.exhausted
                         THEN PreparerDies(s) /\ UNCHANGED sets
                         ELSE PreparerExpand(s)
        /\ UNCHANGED <<lexical, scorer, retiring, wake, serverVars>>

-----------------------------------------------------------------------------

RequestStep ==
    \/ \E r \in Requests : \/ \E i \in Identities : Admit(r, i)
                           \/ Expires(r) \/ Lookup(r) \/ Retry(r) \/ Create(r) \/ Start(r)
    \/ \E s \in SetIds : Navigate(s)
    \/ Evict \/ ClearBegin \/ ClearEnd

WorkerStep ==
    \E s \in SetIds :
        \/ LexicalBatch(s) \/ LexicalCollides(s) \/ LexicalFinish(s) \/ LexicalStart(s)
        \/ ScorerBegin(s) \/ ScorerAnswer(s) \/ ScorerMerge(s)
        \/ ScorerRetired(s) \/ ScorerWakes(s)
        \/ PreparerWalk(s) \/ PreparerCollides(s) \/ PreparerOut(s) \/ PreparerLoop(s) \/ PreparerPage(s)

Next == RequestStep \/ WorkerStep

Spec == Init /\ [][Next]_vars

-----------------------------------------------------------------------------

RequestType ==
    [pc : {"idle", "lookup", "retry", "create", "start"}, id : Identities \cup {None},
     token : 0..tokens, set : 0..MaxSets, page : PageType \cup {None}]
ScorerType ==
    [pc : {"off", "loop", "score", "merge"}, cancelled : BOOLEAN, keep : SUBSET Candidates]
PreparerType ==
    [pc : {"off", "failed", "walk", "loop", "direct", "search", "end", "dying"},
     ready : BOOLEAN, next : Nat]

\* The values the variables take.
WorkerTypeOK ==
    /\ lexical \in [SetIds -> {"off", "walk", "finish", "start"}]
    /\ scorer \in [SetIds -> ScorerType]
    /\ retiring \subseteq SetIds /\ wake \subseteq SetIds
    /\ preparer \in [SetIds -> PreparerType]

TypeOK ==
    /\ latest \in Search \cup {None}
    /\ tokens \in 0..MaxTokens
    /\ cancelled \subseteq 1..tokens
    /\ sessions \in Seq(SetIds) /\ IsInjective(sessions)
    /\ sets \in [SetIds -> SetType \cup {None}]
    /\ \A s \in Live : sets[s] # None
    /\ request \in [Requests -> RequestType]
    /\ WorkerTypeOK
    /\ clearing \in BOOLEAN /\ cleared \in 0..tokens

\* A result that arrives after its composition was superseded, cleared or
\* evicted changes neither the pending candidates nor the pages of its set
\* ("discarded before it can mutate caches or freeze a page", the scored
\* layer's contract; every worker re-checks after it took the lock again).
NoLateResult ==
    [][\A s \in SetIds :
            sets[s] # None /\ Stopped(s) =>
                /\ sets'[s].pending = sets[s].pending
                /\ sets'[s].frozen = sets[s].frozen]_vars

\* Once the client holds page zero of a live set that promises more pages,
\* somebody is going to prepare them: navigation never starts work, so a
\* wakeup lost between the request, the scorer and the lexical worker would
\* leave PageDown "not ready" forever.  It is proved under the hypothesis that
\* no request freezes a published page zero again (654): with three requests of
\* one composition that can happen while the preparer, having found the set
\* full, is ending but still registered, so that no new one is started.
LaterPagesComing ==
    \A s \in Live :
        LET b == sets[s]
        IN  /\ b.frozen # <<>>
            /\ [set |-> s, page |-> b.frozen[1]] \in shown
            /\ ~Stopped(s) /\ b.more /\ ~Full(b)
            => \/ preparer[s].pc \notin {"off", "end"}
               \/ lexical[s] \in {"walk", "finish", "start"}
               \/ s \in wake
               \/ \E t \in Live : sets[t].id = b.id /\ (Registered(t) \/ t \in retiring)

\* After clear_sessions has returned no candidate set admitted before it
\* began is live: the token is checked again before a set is stored.
ClearedStaysCleared ==
    ~clearing => \A s \in Live : sets[s].token > cleared

\* "Once a page is returned it is never mutated."  A page the client was shown
\* is the frozen page of its set as long as the set lives.
ReturnedPagesNeverMutate ==
    \A e \in shown : e.set \in Live => sets[e.set].frozen[1] = e.page
=============================================================================
