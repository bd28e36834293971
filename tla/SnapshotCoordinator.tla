------------------------- MODULE SnapshotCoordinator -------------------------
(***************************************************************************)
(* SnapshotCoordinator (realtime.py) over _SnapshotBackend (backends.py).  *)
(*                                                                         *)
(* Threads are the callers of the coordinator and its one background       *)
(* worker.  _request_lock and _state_lock are held for straight-line code, *)
(* so each section under them is one step; _backend_update_lock is held    *)
(* across a model forward and is the variable updateLock.                  *)
(*                                                                         *)
(* The (before, after) text of a request is named by the epoch the request *)
(* drew; 0 is the empty text of the permanent baseline, which is not       *)
(* private.  The model starts after initialize_neural_baseline.            *)
(***************************************************************************)
EXTENDS Naturals, FiniteSets

CONSTANTS
    Callers,            \* threads that call the coordinator
    WorkerThread,       \* the daemon thread of _worker_loop
    RetainedStates,     \* retained_states
    MaxEpoch,           \* bound on _requested_epoch
    None                \* Python's None

ASSUME CoordinatorAssumption ==
    /\ WorkerThread \notin Callers
    /\ None \notin Callers \cup {WorkerThread}
    /\ RetainedStates \in Nat \ {0}
    /\ MaxEpoch \in Nat

Threads == Callers \cup {WorkerThread}

EmptyText == 0

Later(a, b) == IF a >= b THEN a ELSE b

\* A BackendState as the coordinator publishes it.
State == [epoch : Nat, text : Nat, generation : Nat]

\* A context request on its way through a thread.
Job == [epoch : Nat, text : Nat, generation : Nat]

ASSUME NoneAssumption == None \notin Nat /\ None \notin State

VARIABLES
    requestedEpoch,     \* _requested_epoch
    pending,            \* _pending
    worker,             \* _worker is not None
    refreshError,       \* _last_refresh_error is not None
    latest,             \* _state
    states,             \* _states, as the set of its values
    updateLock,         \* holder of _backend_update_lock
    generation,         \* backend _generation
    backendState,       \* backend _state (the epoch field is not used)
    runtimeText,        \* the text the model runtime's cache was evaluated on
    pc,                 \* where each thread is
    job,                \* the request each thread carries
    boundaries,         \* history: epochs drawn by invalidate_private_state
    hidden,             \* history: newest boundary whose states were cleared
    wiped               \* history: newest boundary whose backend wipe succeeded

requestVars == <<requestedEpoch, pending, worker, refreshError>>
stateVars   == <<latest, states>>
backendVars == <<generation, backendState, runtimeText>>
historyVars == <<boundaries, hidden, wiped>>
vars == <<requestVars, stateVars, updateLock, backendVars, pc, job, historyVars>>

Idle(t) == IF t = WorkerThread THEN "take" ELSE "idle"

Init ==
    /\ requestedEpoch = 0
    /\ pending = None
    /\ worker = FALSE
    /\ refreshError = FALSE
    /\ latest = None
    /\ states = {}
    /\ updateLock = None
    /\ generation = 0
    /\ backendState = [epoch |-> 0, text |-> EmptyText, generation |-> 0]
    /\ runtimeText = EmptyText
    /\ pc = [t \in Threads |-> IF t = WorkerThread THEN "off" ELSE "idle"]
    /\ job = [t \in Threads |-> [epoch |-> 0, text |-> EmptyText, generation |-> 0]]
    /\ boundaries = {}
    /\ hidden = 0
    /\ wiped = 0

-----------------------------------------------------------------------------
(* Requests *)

NewJob == [epoch |-> requestedEpoch + 1, text |-> requestedEpoch + 1, generation |-> 0]

\* _next_request_epoch
NextRequestEpoch ==
    /\ requestedEpoch < MaxEpoch
    /\ requestedEpoch' = requestedEpoch + 1

\* request_context_update: replace the pending request, start a worker if
\* none is running.
RequestContextUpdate(c) ==
    /\ pc[c] = "idle"
    /\ NextRequestEpoch
    /\ pending' = NewJob
    /\ worker' = TRUE
    /\ pc' = IF worker THEN pc ELSE [pc EXCEPT ![WorkerThread] = "take"]
    /\ UNCHANGED <<refreshError, stateVars, updateLock, backendVars, job, historyVars>>

\* update_context up to the point where it waits for _backend_update_lock.
UpdateContext(c) ==
    /\ pc[c] = "idle"
    /\ NextRequestEpoch
    /\ job' = [job EXCEPT ![c] = NewJob]
    /\ pc' = [pc EXCEPT ![c] = "queued"]
    /\ UNCHANGED <<pending, worker, refreshError, stateVars, updateLock, backendVars,
                   historyVars>>

\* Mutant of WorkerTake: no test for an empty slot.
MutantTakeUnchecked ==
    /\ pc[WorkerThread] = "take"
    /\ pending' = None
    /\ job' = [job EXCEPT ![WorkerThread] = pending]
    /\ pc' = [pc EXCEPT ![WorkerThread] = "queued"]
    /\ UNCHANGED <<worker, requestedEpoch, refreshError, stateVars, updateLock, backendVars,
                   historyVars>>

\* Mutant of WorkerTake: the thread ends without resetting _worker.
MutantTakeKeepsWorker ==
    /\ pc[WorkerThread] = "take"
    /\ pending' = None
    /\ job' = IF pending = None THEN job ELSE [job EXCEPT ![WorkerThread] = pending]
    /\ pc' = [pc EXCEPT ![WorkerThread] = IF pending = None THEN "off" ELSE "queued"]
    /\ UNCHANGED <<worker, requestedEpoch, refreshError, stateVars, updateLock, backendVars,
                   historyVars>>

\* The head of _worker_loop: take the pending request, or retire the thread.
WorkerTake ==
    /\ pc[WorkerThread] = "take"
    /\ pending' = None
    /\ IF pending = None
       THEN /\ worker' = FALSE
            /\ pc' = [pc EXCEPT ![WorkerThread] = "off"]
            /\ UNCHANGED job
       ELSE /\ job' = [job EXCEPT ![WorkerThread] = pending]
            /\ pc' = [pc EXCEPT ![WorkerThread] = "queued"]
            /\ UNCHANGED worker
    /\ UNCHANGED <<requestedEpoch, refreshError, stateVars, updateLock, backendVars,
                   historyVars>>

-----------------------------------------------------------------------------
(* The forward, common to update_context and _worker_loop *)

Current(t) == job[t].epoch = requestedEpoch

\* Under _backend_update_lock, a request that is no longer the newest is
\* dropped before it reaches the model; otherwise the backend notes its
\* generation (_capture_generation).
BeginForward(t) ==
    /\ pc[t] = "queued"
    /\ updateLock = None
    /\ IF Current(t)
       THEN /\ updateLock' = t
            /\ job' = [job EXCEPT ![t].generation = generation]
            /\ pc' = [pc EXCEPT ![t] = "forward"]
       ELSE /\ pc' = [pc EXCEPT ![t] = Idle(t)]
            /\ UNCHANGED <<updateLock, job>>
    /\ UNCHANGED <<requestVars, stateVars, backendVars, historyVars>>

\* runtime.full_logits evaluates the text.
RuntimeForward(t) ==
    /\ pc[t] = "forward"
    /\ runtimeText' = job[t].text
    /\ pc' = [pc EXCEPT ![t] = "publish"]
    /\ UNCHANGED <<requestVars, stateVars, updateLock, generation, backendState, job,
                   historyVars>>

\* An exception leaves the with-blocks: the worker goes on to record it, a
\* caller of update_context gets it.
Raise(t) ==
    /\ updateLock' = None
    /\ pc' = [pc EXCEPT ![t] = IF t = WorkerThread THEN "failed" ELSE "idle"]

\* The forward raises: before the runtime was touched, after it dropped its
\* cache, or after the evaluation (a malformed result).
ForwardFails(t) ==
    /\ pc[t] = "forward"
    /\ runtimeText' \in {runtimeText, EmptyText, job[t].text}
    /\ Raise(t)
    /\ UNCHANGED <<requestVars, stateVars, generation, backendState, job, historyVars>>

\* _SnapshotBackend._publish
BackendPublish(t) ==
    /\ pc[t] = "publish"
    /\ IF job[t].generation = generation
       THEN /\ backendState' = job[t]
            /\ pc' = [pc EXCEPT ![t] = "commit"]
            /\ UNCHANGED updateLock
       ELSE /\ Raise(t)
            /\ UNCHANGED backendState
    /\ UNCHANGED <<requestVars, stateVars, generation, runtimeText, job, historyVars>>

\* Mutant of Retain: keeps the oldest states.
MutantRetainOldest(S) ==
    {s \in S : Cardinality({r \in S : r.epoch < s.epoch}) < RetainedStates}

\* The newest RetainedStates of a set of states.
Retain(S) ==
    {s \in S : Cardinality({r \in S : r.epoch > s.epoch}) < RetainedStates}

\* _publish: s becomes the latest state and joins the retained ones.
Publish(s) ==
    /\ latest' = s
    /\ states' = Retain({r \in states : r.epoch # s.epoch} \cup {s})

\* Mutant of CommitForward: no second epoch check.
MutantCommitUnchecked(t) ==
    /\ pc[t] = "commit"
    /\ Publish(job[t])
    /\ updateLock' = None
    /\ pc' = [pc EXCEPT ![t] = Idle(t)]
    /\ UNCHANGED <<requestVars, backendVars, job, historyVars>>

\* Mutant of CommitForward: the lock is released only after a publication.
MutantCommitKeepsLock(t) ==
    /\ pc[t] = "commit"
    /\ IF Current(t)
       THEN Publish(job[t]) /\ updateLock' = None
       ELSE UNCHANGED <<stateVars, updateLock>>
    /\ pc' = [pc EXCEPT ![t] = Idle(t)]
    /\ UNCHANGED <<requestVars, backendVars, job, historyVars>>

\* The end of the forward: publish unless a newer request was made.
CommitForward(t) ==
    /\ pc[t] = "commit"
    /\ IF Current(t)
       THEN /\ Publish(job[t])
            /\ refreshError' = (refreshError /\ t # WorkerThread)
       ELSE UNCHANGED <<stateVars, refreshError>>
    /\ updateLock' = None
    /\ pc' = [pc EXCEPT ![t] = Idle(t)]
    /\ UNCHANGED <<requestedEpoch, pending, worker, backendVars, job, historyVars>>

\* _worker_loop's exception handler.
WorkerFailed ==
    /\ pc[WorkerThread] = "failed"
    /\ refreshError' = (refreshError \/ Current(WorkerThread))
    /\ pc' = [pc EXCEPT ![WorkerThread] = "take"]
    /\ UNCHANGED <<requestedEpoch, pending, worker, stateVars, updateLock, backendVars, job,
                   historyVars>>

-----------------------------------------------------------------------------
(* invalidate_private_state *)

\* Draw a boundary epoch and drop the pending request.
Invalidate(c) ==
    /\ pc[c] = "idle"
    /\ NextRequestEpoch
    /\ pending' = None
    /\ job' = [job EXCEPT ![c] = NewJob]
    /\ boundaries' = boundaries \cup {requestedEpoch + 1}
    /\ pc' = [pc EXCEPT ![c] = "hide"]
    /\ UNCHANGED <<worker, refreshError, stateVars, updateLock, backendVars, hidden, wiped>>

\* Mutant of HideStates: only the default snapshot is dropped.
MutantHideLatestOnly(c) ==
    /\ pc[c] = "hide"
    /\ latest' = None
    /\ hidden' = Later(hidden, job[c].epoch)
    /\ pc' = [pc EXCEPT ![c] = "wipe"]
    /\ UNCHANGED <<requestVars, states, updateLock, backendVars, job, boundaries, wiped>>

\* Stop exposing retained states.
HideStates(c) ==
    /\ pc[c] = "hide"
    /\ latest' = None
    /\ states' = {}
    /\ hidden' = Later(hidden, job[c].epoch)
    /\ pc' = [pc EXCEPT ![c] = "wipe"]
    /\ UNCHANGED <<requestVars, updateLock, backendVars, job, boundaries, wiped>>

\* Mutant of WipeBackend: does not wait for a running forward.
MutantWipeWithoutLock(c) ==
    /\ pc[c] = "wipe"
    /\ generation' = generation + 1
    /\ backendState' = None
    /\ pc' = [pc EXCEPT ![c] = "scrub"]
    /\ UNCHANGED <<requestVars, stateVars, updateLock, runtimeText, job, historyVars>>

\* Mutant of WipeBackend: the backend keeps its own latest state.
MutantWipeKeepsState(c) ==
    /\ pc[c] = "wipe"
    /\ updateLock = None
    /\ updateLock' = c
    /\ generation' = generation + 1
    /\ pc' = [pc EXCEPT ![c] = "scrub"]
    /\ UNCHANGED <<requestVars, stateVars, backendState, runtimeText, job, historyVars>>

\* Wait out a running forward, then bump the backend's generation.
WipeBackend(c) ==
    /\ pc[c] = "wipe"
    /\ updateLock = None
    /\ updateLock' = c
    /\ generation' = generation + 1
    /\ backendState' = None
    /\ pc' = [pc EXCEPT ![c] = "scrub"]
    /\ UNCHANGED <<requestVars, stateVars, runtimeText, job, historyVars>>

\* runtime.invalidate_private_state
WipeRuntime(c) ==
    /\ pc[c] = "scrub"
    /\ runtimeText' = EmptyText
    /\ wiped' = Later(wiped, job[c].epoch)
    /\ updateLock' = None
    /\ pc' = [pc EXCEPT ![c] = "idle"]
    /\ UNCHANGED <<requestVars, stateVars, generation, backendState, job, boundaries, hidden>>

\* The runtime raises; the caller gets the exception.
WipeRuntimeFails(c) ==
    /\ pc[c] = "scrub"
    /\ runtimeText' \in {runtimeText, EmptyText}
    /\ Raise(c)
    /\ UNCHANGED <<requestVars, stateVars, generation, backendState, job, historyVars>>

-----------------------------------------------------------------------------
Forward(t) ==
    \/ BeginForward(t)
    \/ RuntimeForward(t)
    \/ ForwardFails(t)
    \/ BackendPublish(t)
    \/ CommitForward(t)

Worker == WorkerTake \/ WorkerFailed \/ Forward(WorkerThread)

Finish(c) ==
    \/ HideStates(c)
    \/ WipeBackend(c)
    \/ WipeRuntime(c)
    \/ WipeRuntimeFails(c)
    \/ Forward(c)

Call(c) ==
    \/ RequestContextUpdate(c)
    \/ UpdateContext(c)
    \/ Invalidate(c)

Next ==
    \/ Worker
    \/ \E c \in Callers : Call(c) \/ Finish(c)

\* A started Python thread keeps running; nothing makes a caller call again.
Fairness ==
    /\ WF_vars(Worker)
    /\ \A c \in Callers : WF_vars(Finish(c))

Spec == Init /\ [][Next]_vars

FairSpec == Spec /\ Fairness

-----------------------------------------------------------------------------
(* Properties *)

PcValues == {"idle", "off", "take", "queued", "forward", "publish", "commit", "failed",
             "hide", "wipe", "scrub"}

\* Type correctness of the coordinator, the backend and the threads.
TypeOK ==
    /\ requestedEpoch \in Nat
    /\ pending \in Job \cup {None}
    /\ worker \in BOOLEAN
    /\ refreshError \in BOOLEAN
    /\ latest \in State \cup {None}
    /\ states \subseteq State
    /\ updateLock \in Threads \cup {None}
    /\ generation \in Nat
    /\ backendState \in State \cup {None}
    /\ runtimeText \in Nat
    /\ pc \in [Threads -> PcValues]
    /\ job \in [Threads -> Job]
    /\ boundaries \subseteq Nat
    /\ hidden \in Nat
    /\ wiped \in Nat

Visible == states \cup ({latest} \ {None})

\* Once invalidate_private_state has cleared the states, no snapshot of a
\* request made before it is ever visible again, even if its forward was
\* already running (the second epoch check of _worker_loop and update_context).
NoHiddenStateVisible == \A s \in Visible : s.epoch > hidden

\* Once the backend wipe of an invalidation has returned, neither the backend
\* nor the model runtime holds text requested before that invalidation: a
\* forward that was running is waited out, one that was queued is dropped.
WipeIsFinal ==
    /\ backendState # None /\ backendState.text # EmptyText => backendState.text > wiped
    /\ runtimeText # EmptyText => runtimeText > wiped

\* A pending request always has a worker that will look at it: the worker
\* gives itself up in the same _request_lock section in which it found
\* nothing pending.
PendingHasWorker == pending # None => worker /\ pc[WorkerThread] # "off"

\* The default snapshot is the newest retained one and was computed from the
\* text of the request whose epoch it carries.
LatestIsNewest ==
    latest # None => /\ latest \in states
                     /\ \A s \in states : s.text = s.epoch /\ s.epoch <= latest.epoch

\* The backend still accepts every visible snapshot for scoring
\* (_validate_state).  This needs context requests and invalidations to be
\* serialised by their caller, as the pipe server's _context_forward_lock does.
VisibleStatesScorable == \A s \in Visible : s.generation = generation

\* The newest request is published, fails, or is overtaken: no request is
\* forgotten between _pending and the worker.
RequestResolved ==
    \A e \in 1..MaxEpoch :
        (pending # None /\ pending.epoch = e)
            ~> \/ requestedEpoch > e
               \/ latest # None /\ latest.epoch = e
               \/ pc[WorkerThread] = "failed" /\ job[WorkerThread].epoch = e

\* An invalidation always returns: it waits for at most the running forward.
InvalidationReturns == \A c \in Callers : pc[c] = "hide" ~> pc[c] = "idle"

-----------------------------------------------------------------------------
(* The coordinator implements the abstract snapshot store. *)

Store == INSTANCE SnapshotStore WITH
             latest <- IF latest = None THEN None ELSE latest.epoch,
             retained <- {s.epoch : s \in states}

\* Every step of every thread is a step of the abstract store or leaves it
\* alone: only the newest request is ever published.
ImplementsStore == Store!StoreSpec
=============================================================================
