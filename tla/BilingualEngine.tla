--------------------------- MODULE BilingualEngine ---------------------------
(***************************************************************************)
(* BilingualImeEngine (bilingual_engine.py) over SnapshotCoordinator: the  *)
(* context texts it remembers per epoch, its query cache, and the lock-    *)
(* free candidate queries that read all of them while contexts change.     *)
(*                                                                         *)
(* raw_keys, limit and the stable script are fixed, so a cache key is an   *)
(* epoch.  An answer is described by what it was computed from: the text   *)
(* of the model snapshot that scored it and the "before" text that ranked  *)
(* it.                                                                     *)
(***************************************************************************)
EXTENDS SnapshotCoordinator, Sequences, Subsequences

CONSTANTS
    Queriers,           \* pipe threads that serve candidate queries
    CacheLimit          \* 256 in _query_state

ASSUME EngineAssumption == CacheLimit \in Nat \ {0}

VARIABLES
    contexts,           \* _contexts, as the set of its items
    queryCache,         \* _query_cache, oldest entry first
    epc,                \* where each caller is in the engine's own code
    assigned,           \* the epoch a caller is about to remember
    expired,            \* expired_epochs of _remember_context
    qpc,                \* where each query is
    query,              \* what each query has read so far
    answer,             \* the last answer of each query, or None
    floor               \* history: wiped and hidden when the query began

engineVars == <<contexts, queryCache, epc, assigned, expired>>
queryVars  == <<qpc, query, answer, floor>>
allVars    == <<vars, engineVars, queryVars>>

NoQuery == [state |-> None, before |-> EmptyText]

EngineInit ==
    /\ Init
    /\ contexts = {}
    /\ queryCache = <<>>
    /\ epc = [c \in Callers |-> "idle"]
    /\ assigned = [c \in Callers |-> 0]
    /\ expired = [c \in Callers |-> {}]
    /\ qpc = [q \in Queriers |-> "idle"]
    /\ query = [q \in Queriers |-> NoQuery]
    /\ answer = [q \in Queriers |-> None]
    /\ floor = [q \in Queriers |-> [wiped |-> 0, hidden |-> 0]]

Goto(c, where) == epc' = [epc EXCEPT ![c] = where]

-----------------------------------------------------------------------------
(* Context updates *)

\* request_context_update: the request is handed to the coordinator first ...
EngineRequest(c) ==
    /\ epc[c] = "idle"
    /\ RequestContextUpdate(c)
    /\ assigned' = [assigned EXCEPT ![c] = requestedEpoch']
    /\ Goto(c, "remember")
    /\ UNCHANGED <<contexts, queryCache, expired, queryVars>>

\* ... and its text is remembered afterwards (_remember_context).
RememberContext(c) ==
    LET known == {x \in contexts : x.epoch # assigned[c]}
                    \cup {[epoch |-> assigned[c], text |-> assigned[c]]}
    IN  /\ epc[c] = "remember"
        /\ contexts' = Retain(known)
        /\ expired' = [expired EXCEPT ![c] = {x.epoch : x \in known \ Retain(known)}]
        /\ Goto(c, IF expired'[c] = {} THEN "idle" ELSE "prune")
        /\ UNCHANGED <<vars, queryCache, assigned, queryVars>>

\* The query cache without the answers of some epochs.
Without(epochs) ==
    KeepAt(queryCache, {i \in DOMAIN queryCache : queryCache[i].epoch \notin epochs})

\* _remember_context drops the cached answers of expired epochs.
PruneCache(c) ==
    /\ epc[c] = "prune"
    /\ queryCache' = Without(expired[c])
    /\ Goto(c, "idle")
    /\ UNCHANGED <<vars, contexts, assigned, expired, queryVars>>

\* update_context: the synchronous form, which remembers only what it published.
EngineUpdate(c) ==
    /\ epc[c] = "idle"
    /\ UpdateContext(c)
    /\ assigned' = [assigned EXCEPT ![c] = requestedEpoch']
    /\ Goto(c, "update")
    /\ UNCHANGED <<contexts, queryCache, expired, queryVars>>

EngineForward(c) ==
    /\ Forward(c)
    /\ Goto(c, CASE pc'[c] # "idle" -> "update"
                 [] latest' = job[c] -> "remember"
                 [] OTHER -> "idle")
    /\ UNCHANGED <<contexts, queryCache, assigned, expired, queryVars>>

-----------------------------------------------------------------------------
(* reset_private_context followed by clear_history, as a secure focus runs them *)

ResetContexts(c) ==
    /\ epc[c] = "idle"
    /\ pc[c] = "idle"
    /\ requestedEpoch < MaxEpoch
    /\ contexts' = {}
    /\ Goto(c, "clear_cache")
    /\ UNCHANGED <<vars, queryCache, assigned, expired, queryVars>>

ResetCache(c) ==
    /\ epc[c] = "clear_cache"
    /\ queryCache' = <<>>
    /\ Goto(c, "invalidate")
    /\ UNCHANGED <<vars, contexts, assigned, expired, queryVars>>

ResetCoordinator(c) ==
    /\ epc[c] = "invalidate"
    /\ Invalidate(c)
    /\ Goto(c, "clear_history")
    /\ UNCHANGED <<contexts, queryCache, assigned, expired, queryVars>>

ResetWipe(c) ==
    /\ HideStates(c) \/ WipeBackend(c) \/ WipeRuntime(c) \/ WipeRuntimeFails(c)
    /\ UNCHANGED <<engineVars, queryVars>>

\* clear_history runs whether or not the wipe raised.
ClearHistory(c) ==
    /\ epc[c] = "clear_history"
    /\ pc[c] = "idle"
    /\ queryCache' = <<>>
    /\ Goto(c, "idle")
    /\ UNCHANGED <<vars, contexts, assigned, expired, queryVars>>

\* commit clears the cache; it is served by a pipe thread of its own.
Commit ==
    /\ queryCache # <<>>
    /\ queryCache' = <<>>
    /\ UNCHANGED <<vars, contexts, epc, assigned, expired, queryVars>>

-----------------------------------------------------------------------------
(* Queries *)

Ask(q, where, s) ==
    /\ qpc' = [qpc EXCEPT ![q] = where]
    /\ query' = [query EXCEPT ![q] = [state |-> s, before |-> EmptyText]]
    /\ answer' = [answer EXCEPT ![q] = None]
    /\ floor' = [floor EXCEPT ![q] = [wiped |-> wiped, hidden |-> hidden]]
    /\ UNCHANGED <<vars, engineVars>>

Answer(q, a) ==
    /\ answer' = [answer EXCEPT ![q] = a]
    /\ qpc' = [qpc EXCEPT ![q] = "idle"]
    /\ query' = [query EXCEPT ![q] = NoQuery]
    /\ UNCHANGED floor

\* query without an epoch captures the latest state; if there is none the
\* constraint engine is asked without a state.
QueryLatest(q) ==
    /\ qpc[q] = "idle"
    /\ Ask(q, IF latest = None THEN "fallback" ELSE "context", latest)

\* query for an epoch captures that state (or returns an empty list).
QueryEpoch(q) ==
    /\ qpc[q] = "idle"
    /\ \E s \in states : Ask(q, "context", s)

\* UnifiedConstraintEngine.query with state None reads backend.latest_state().
QueryFallback(q) ==
    /\ qpc[q] = "fallback"
    /\ Answer(q, [text |-> IF backendState = None THEN EmptyText ELSE backendState.text,
                  before |-> EmptyText])
    /\ UNCHANGED <<vars, engineVars>>

ContextText(e) == IF \E x \in contexts : x.epoch = e
                  THEN (CHOOSE x \in contexts : x.epoch = e).text
                  ELSE EmptyText

\* Mutant of QueryContext: the text of the newest remembered epoch.
MutantQueryNewestContext(q) ==
    /\ qpc[q] = "context"
    /\ query' = [query EXCEPT ![q].before = ContextText(requestedEpoch)]
    /\ qpc' = [qpc EXCEPT ![q] = "lookup"]
    /\ UNCHANGED <<vars, engineVars, answer, floor>>

\* The remembered text of the captured epoch, ("", "") if it is not known.
QueryContext(q) ==
    /\ qpc[q] = "context"
    /\ query' = [query EXCEPT ![q].before = ContextText(query[q].state.epoch)]
    /\ qpc' = [qpc EXCEPT ![q] = "lookup"]
    /\ UNCHANGED <<vars, engineVars, answer, floor>>

CachedAt(e) == {i \in DOMAIN queryCache : queryCache[i].epoch = e}

\* _query_state: a cached answer is returned and becomes the youngest entry.
QueryLookup(q) ==
    LET e == query[q].state.epoch
    IN  /\ qpc[q] = "lookup"
        /\ IF CachedAt(e) = {}
           THEN /\ qpc' = [qpc EXCEPT ![q] = "score"]
                /\ UNCHANGED <<queryCache, query, answer, floor>>
           ELSE LET hit == queryCache[CHOOSE i \in CachedAt(e) : TRUE]
                IN  /\ queryCache' = Append(Without({e}), hit)
                    /\ Answer(q, hit.answer)
        /\ UNCHANGED <<vars, contexts, epc, assigned, expired>>

\* The snapshot scores the candidates unless the backend has been wiped
\* since it was captured (score_allowed_tokens raises).
QueryScore(q) ==
    /\ qpc[q] = "score"
    /\ IF query[q].state.generation = generation
       THEN /\ qpc' = [qpc EXCEPT ![q] = "store"]
            /\ UNCHANGED <<query, answer, floor>>
       ELSE Answer(q, None)
    /\ UNCHANGED <<vars, engineVars>>

\* _query_state stores the answer under its epoch and trims the cache.
QueryStore(q) ==
    LET e == query[q].state.epoch
        result == [text |-> query[q].state.text, before |-> query[q].before]
        grown == Append(Without({e}), [epoch |-> e, answer |-> result])
    IN  /\ qpc[q] = "store"
        /\ queryCache' = IF Len(grown) > CacheLimit THEN Tail(grown) ELSE grown
        /\ Answer(q, result)
        /\ UNCHANGED <<vars, contexts, epc, assigned, expired>>

-----------------------------------------------------------------------------
CallerStep(c) ==
    \/ EngineRequest(c)
    \/ RememberContext(c)
    \/ PruneCache(c)
    \/ EngineUpdate(c)
    \/ EngineForward(c)
    \/ ResetContexts(c)
    \/ ResetCache(c)
    \/ ResetCoordinator(c)
    \/ ResetWipe(c)
    \/ ClearHistory(c)

QueryStep(q) ==
    \/ QueryLatest(q)
    \/ QueryEpoch(q)
    \/ QueryFallback(q)
    \/ QueryContext(q)
    \/ QueryLookup(q)
    \/ QueryScore(q)
    \/ QueryStore(q)

EngineWorker == Worker /\ UNCHANGED <<engineVars, queryVars>>

EngineNext ==
    \/ EngineWorker
    \/ \E c \in Callers : CallerStep(c)
    \/ Commit
    \/ \E q \in Queriers : QueryStep(q)

EngineSpec == EngineInit /\ [][EngineNext]_allVars

-----------------------------------------------------------------------------
(* Properties *)

Answers == {answer[q] : q \in Queriers} \ {None}

\* No answer, cached or fresh, ranks the candidates of one epoch's snapshot
\* with the text of another epoch, however queries, updates and cache
\* evictions interleave.
AnswersNeverMixEpochs == \A a \in Answers : a.before \in {a.text, EmptyText}

\* A query that begins after a secure reset has returned is never answered
\* from text requested before it: not through a retained state, not through
\* the query cache, not through the backend's own latest state.
NoAnswerFromBeforeReset ==
    \A q \in Queriers :
        answer[q] # None => answer[q].text = EmptyText \/ answer[q].text > floor[q].wiped

\* bilingual_engine.py says reset_private_context removes "every query-visible
\* editor artifact before waiting for an in-flight model operation": a query
\* that begins once the coordinator's states are cleared sees no older text.
HiddenBeforeWipe ==
    \A q \in Queriers :
        answer[q] # None => answer[q].text = EmptyText \/ answer[q].text > floor[q].hidden
=============================================================================
