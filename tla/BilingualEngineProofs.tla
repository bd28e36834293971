----------------------- MODULE BilingualEngineProofs -----------------------
(***************************************************************************)
(* The snapshot coordinator and BilingualImeEngine on top of it, for any   *)
(* number of callers, queries, retained states, epochs and cached answers. *)
(*                                                                         *)
(* The coordinator: epochs are drawn from one counter, so the epoch of a   *)
(* context request is never an invalidation's boundary, and a request that *)
(* is still the newest number lies above every boundary drawn so far.  A   *)
(* forward checks exactly that, under the lock a wipe needs, before it     *)
(* touches the model, and again before it publishes.                       *)
(*                                                                         *)
(* The engine: what a query captures, what the engine remembers and what   *)
(* the cache stores is each filed under the epoch of the text it came      *)
(* from, so the three can be combined without a lock.  A captured snapshot *)
(* was visible when the query began, hence lies above every wipe that had  *)
(* returned by then, and a cached answer is found only under that epoch.   *)
(***************************************************************************)
EXTENDS BilingualEngine, NaturalLemmas, FiniteSetTheorems, TLAPS

-----------------------------------------------------------------------------
(* The snapshot coordinator.                                                *)

Forwarding == {"forward", "publish", "commit"}
Requesting == {"queued"} \cup Forwarding
Wiping     == {"hide", "wipe", "scrub"}

\* Who may be where, and who holds _backend_update_lock.
Control ==
    /\ pc[WorkerThread] \in {"off", "take", "failed"} \cup Requesting
    /\ \A c \in Callers : pc[c] \in {"idle"} \cup Requesting \cup Wiping
    /\ worker <=> pc[WorkerThread] # "off"
    /\ \A t \in Threads : pc[t] \in Forwarding \cup {"scrub"} <=> updateLock = t

\* A request's epoch is positive, drawn, and not a boundary; its text is its own.
IsRequest(j) ==
    /\ j.epoch > 0
    /\ j.epoch <= requestedEpoch
    /\ j.epoch \notin boundaries
    /\ j.text = j.epoch

Epochs ==
    /\ \A b \in boundaries : b > 0 /\ b <= requestedEpoch
    /\ hidden \in boundaries \cup {0}
    /\ wiped \in boundaries \cup {0}
    /\ pending # None => IsRequest(pending)
    /\ \A t \in Threads : pc[t] \in Requesting => IsRequest(job[t])
    /\ \A t \in Threads : pc[t] \in Wiping => job[t].epoch \in boundaries
    /\ \A s \in states : s.text = s.epoch /\ s.epoch <= requestedEpoch

\* What the lock protects.
Wipes ==
    /\ \A t \in Threads : pc[t] \in Forwarding => job[t].text > wiped
    /\ \A t \in Threads : pc[t] = "scrub" => backendState = None

\* The inductive invariant.
IInv ==
    /\ TypeOK
    /\ Control
    /\ Epochs
    /\ Wipes
    /\ NoHiddenStateVisible
    /\ WipeIsFinal
    /\ PendingHasWorker
    /\ LatestIsNewest

USE DEF Threads, EmptyText, Later, Idle, Forwarding, Requesting, Wiping, Visible, IsRequest

\* The newest state survives _publish's eviction.
LEMMA RetainNewest ==
    ASSUME NEW S \in SUBSET State, NEW s \in S, \A r \in S : r.epoch <= s.epoch
    PROVE  s \in Retain(S) /\ Retain(S) \subseteq S
<1>1. {r \in S : r.epoch > s.epoch} = {}
  BY DEF State
<1>2. Cardinality({r \in S : r.epoch > s.epoch}) = 0
  BY <1>1, FS_EmptySet
<1>3. QED
  BY <1>2, CoordinatorAssumption DEF Retain

\* The invariant holds once the baseline is in place.
LEMMA InitIInv == Init => IInv
<1> SUFFICES ASSUME Init PROVE IInv
  OBVIOUS
<1>1. TypeOK
  BY CoordinatorAssumption, NoneAssumption DEF Init, TypeOK, State, Job, PcValues
<1>2. Control
  <2>1. worker <=> pc[WorkerThread] # "off"
    BY DEF Init
  <2>2. \A t \in Threads : pc[t] \in {"off", "idle"} /\ updateLock # t
    BY CoordinatorAssumption DEF Init
  <2>3. pc[WorkerThread] = "off" /\ \A c \in Callers : pc[c] = "idle"
    BY CoordinatorAssumption DEF Init
  <2>4. QED
    BY <2>1, <2>2, <2>3 DEF Control
<1>3. Epochs /\ Wipes
  BY DEF Init, Epochs, Wipes
<1>4. NoHiddenStateVisible /\ WipeIsFinal /\ PendingHasWorker /\ LatestIsNewest
  BY DEF Init, NoHiddenStateVisible, WipeIsFinal, PendingHasWorker, LatestIsNewest
<1>5. QED
  BY <1>1, <1>2, <1>3, <1>4 DEF IInv

USE DEF requestVars, stateVars, backendVars, historyVars

\* A new request lies above every boundary and finds a worker or starts one.
LEMMA RequestPreserves ==
    ASSUME IInv, NEW c \in Callers, RequestContextUpdate(c)
    PROVE  IInv'
BY CoordinatorAssumption, NoneAssumption
   DEF IInv, TypeOK, Control, Epochs, Wipes, NoHiddenStateVisible, WipeIsFinal,
       PendingHasWorker, LatestIsNewest, State, Job, PcValues,
       RequestContextUpdate, NextRequestEpoch, NewJob

\* The same for a request carried by its caller.
LEMMA UpdatePreserves ==
    ASSUME IInv, NEW c \in Callers, UpdateContext(c)
    PROVE  IInv'
BY CoordinatorAssumption, NoneAssumption
   DEF IInv, TypeOK, Control, Epochs, Wipes, NoHiddenStateVisible, WipeIsFinal,
       PendingHasWorker, LatestIsNewest, State, Job, PcValues,
       UpdateContext, NextRequestEpoch, NewJob

\* The worker takes a request or retires in one section.
LEMMA TakePreserves ==
    ASSUME IInv, WorkerTake
    PROVE  IInv'
<1>1. CASE pending = None
  <2>1. /\ worker' = FALSE /\ pending' = None /\ job' = job
        /\ pc' = [pc EXCEPT ![WorkerThread] = "off"]
        /\ pc[WorkerThread] = "take"
    BY <1>1 DEF WorkerTake
  <2>2. TypeOK'
    BY <2>1 DEF WorkerTake, IInv, TypeOK, PcValues
  <2>3. Control'
    BY <2>1, CoordinatorAssumption DEF WorkerTake, IInv, TypeOK, Control
  <2>4. Epochs' /\ Wipes'
    BY <2>1 DEF WorkerTake, IInv, TypeOK, Epochs, Wipes
  <2>5. QED
    BY <2>1, <2>2, <2>3, <2>4
       DEF WorkerTake, IInv, NoHiddenStateVisible, WipeIsFinal, PendingHasWorker,
           LatestIsNewest
<1>2. CASE pending # None
  BY <1>2, CoordinatorAssumption, NoneAssumption
     DEF IInv, TypeOK, Control, Epochs, Wipes, NoHiddenStateVisible, WipeIsFinal,
         PendingHasWorker, LatestIsNewest, State, Job, PcValues, WorkerTake
<1>3. QED
  BY <1>1, <1>2

\* Only the newest request gets the lock, and it lies above every wipe.
LEMMA BeginPreserves ==
    ASSUME IInv, NEW t \in Threads, BeginForward(t)
    PROVE  IInv'
BY CoordinatorAssumption, NoneAssumption
   DEF IInv, TypeOK, Control, Epochs, Wipes, NoHiddenStateVisible, WipeIsFinal,
       PendingHasWorker, LatestIsNewest, State, Job, PcValues,
       BeginForward, Current

\* The runtime takes up text above every wipe.
LEMMA RuntimePreserves ==
    ASSUME IInv, NEW t \in Threads, RuntimeForward(t)
    PROVE  IInv'
BY CoordinatorAssumption, NoneAssumption
   DEF IInv, TypeOK, Control, Epochs, Wipes, NoHiddenStateVisible, WipeIsFinal,
       PendingHasWorker, LatestIsNewest, State, Job, PcValues,
       RuntimeForward

\* A failing forward leaves at most its own text.
LEMMA FailsPreserves ==
    ASSUME IInv, NEW t \in Threads, ForwardFails(t)
    PROVE  IInv'
BY CoordinatorAssumption, NoneAssumption
   DEF IInv, TypeOK, Control, Epochs, Wipes, NoHiddenStateVisible, WipeIsFinal,
       PendingHasWorker, LatestIsNewest, State, Job, PcValues,
       ForwardFails, Raise

\* The backend publishes text above every wipe.
LEMMA BackendPreserves ==
    ASSUME IInv, NEW t \in Threads, BackendPublish(t)
    PROVE  IInv'
BY CoordinatorAssumption, NoneAssumption
   DEF IInv, TypeOK, Control, Epochs, Wipes, NoHiddenStateVisible, WipeIsFinal,
       PendingHasWorker, LatestIsNewest, State, Job, PcValues,
       BackendPublish, Raise

\* Recording an error disturbs nothing.
LEMMA FailedPreserves ==
    ASSUME IInv, WorkerFailed
    PROVE  IInv'
BY CoordinatorAssumption, NoneAssumption
   DEF IInv, TypeOK, Control, Epochs, Wipes, NoHiddenStateVisible, WipeIsFinal,
       PendingHasWorker, LatestIsNewest, State, Job, PcValues,
       WorkerFailed, Current

\* A boundary is a fresh number.
LEMMA InvalidatePreserves ==
    ASSUME IInv, NEW c \in Callers, Invalidate(c)
    PROVE  IInv'
BY CoordinatorAssumption, NoneAssumption
   DEF IInv, TypeOK, Control, Epochs, Wipes, NoHiddenStateVisible, WipeIsFinal,
       PendingHasWorker, LatestIsNewest, State, Job, PcValues,
       Invalidate, NextRequestEpoch, NewJob

\* Hiding empties the store.
LEMMA HidePreserves ==
    ASSUME IInv, NEW c \in Callers, HideStates(c)
    PROVE  IInv'
BY CoordinatorAssumption, NoneAssumption
   DEF IInv, TypeOK, Control, Epochs, Wipes, NoHiddenStateVisible, WipeIsFinal,
       PendingHasWorker, LatestIsNewest, State, Job, PcValues,
       HideStates

\* The wipe starts when no forward runs.
LEMMA WipeBackendPreserves ==
    ASSUME IInv, NEW c \in Callers, WipeBackend(c)
    PROVE  IInv'
BY CoordinatorAssumption, NoneAssumption
   DEF IInv, TypeOK, Control, Epochs, Wipes, NoHiddenStateVisible, WipeIsFinal,
       PendingHasWorker, LatestIsNewest, State, Job, PcValues,
       WipeBackend

\* The wipe ends before another forward starts.
LEMMA WipeRuntimePreserves ==
    ASSUME IInv, NEW c \in Callers, WipeRuntime(c)
    PROVE  IInv'
BY CoordinatorAssumption, NoneAssumption
   DEF IInv, TypeOK, Control, Epochs, Wipes, NoHiddenStateVisible, WipeIsFinal,
       PendingHasWorker, LatestIsNewest, State, Job, PcValues,
       WipeRuntime

\* A failed wipe releases the lock and promises nothing.
LEMMA WipeFailsPreserves ==
    ASSUME IInv, NEW c \in Callers, WipeRuntimeFails(c)
    PROVE  IInv'
BY CoordinatorAssumption, NoneAssumption
   DEF IInv, TypeOK, Control, Epochs, Wipes, NoHiddenStateVisible, WipeIsFinal,
       PendingHasWorker, LatestIsNewest, State, Job, PcValues,
       WipeRuntimeFails, Raise

\* A published request is above every boundary, and is the newest state.
LEMMA CommitPreserves ==
    ASSUME IInv, NEW t \in Threads, CommitForward(t)
    PROVE  IInv'
<1>1. CASE Current(t)
  <2> DEFINE S == {r \in states : r.epoch # job[t].epoch} \cup {job[t]}
  <2>new. /\ job[t] \in State
        /\ job[t].epoch = requestedEpoch /\ job[t].text = job[t].epoch
        /\ job[t].epoch > hidden
    <3>1. pc[t] \in Requesting /\ job[t].epoch = requestedEpoch
      BY <1>1 DEF CommitForward, Current
    <3>2. job[t] \in State
      BY DEF IInv, TypeOK, State, Job
    <3>3. IsRequest(job[t]) /\ (hidden = 0 \/ hidden \in boundaries)
      BY <3>1 DEF IInv, Epochs
    <3>4. requestedEpoch \in Nat /\ hidden \in Nat /\ \A b \in boundaries : b <= requestedEpoch
      BY DEF IInv, TypeOK, Epochs
    <3>5. QED
      BY <3>1, <3>2, <3>3, <3>4
  <2>old. \A r \in states : /\ r \in State /\ r.text = r.epoch
                           /\ r.epoch <= requestedEpoch /\ r.epoch > hidden
    BY DEF IInv, TypeOK, Epochs, NoHiddenStateVisible
  <2>1. /\ S \in SUBSET State
        /\ job[t] \in S
        /\ \A r \in S : r.text = r.epoch /\ r.epoch <= job[t].epoch /\ r.epoch > hidden
    BY <2>new, <2>old DEF State
  <2>2. job[t] \in Retain(S) /\ Retain(S) \subseteq S
    BY <2>1, RetainNewest
  <2>3. /\ latest' = job[t]
        /\ states' = Retain(S)
        /\ refreshError' \in BOOLEAN
    BY <1>1 DEF CommitForward, Publish, IInv, TypeOK
  <2> HIDE DEF S
  <2>4. TypeOK'
    BY <2>1, <2>2, <2>3, CoordinatorAssumption
       DEF IInv, TypeOK, CommitForward, PcValues, State, Job
  <2>5. Control'
    BY CoordinatorAssumption DEF IInv, TypeOK, Control, CommitForward
  <2>6. Epochs' /\ Wipes'
    BY <1>1, <2>1, <2>2, <2>3
       DEF IInv, TypeOK, Control, Epochs, Wipes, CommitForward, Current, State, Job
  <2>7. NoHiddenStateVisible' /\ LatestIsNewest'
    BY <2>1, <2>2, <2>3 DEF NoHiddenStateVisible, LatestIsNewest, CommitForward
  <2>8. WipeIsFinal' /\ PendingHasWorker'
    BY CoordinatorAssumption
       DEF IInv, TypeOK, WipeIsFinal, PendingHasWorker, Control, CommitForward
  <2>9. QED
    BY <2>4, <2>5, <2>6, <2>7, <2>8 DEF IInv
<1>2. CASE ~Current(t)
  BY <1>2, CoordinatorAssumption, NoneAssumption
     DEF IInv, TypeOK, Control, Epochs, Wipes, NoHiddenStateVisible, WipeIsFinal,
         PendingHasWorker, LatestIsNewest, State, Job, PcValues, CommitForward
<1>3. QED
  BY <1>1, <1>2

\* A step that changes no variable preserves the invariant.
LEMMA StutterPreserves ==
    ASSUME IInv, UNCHANGED vars
    PROVE  IInv'
BY DEF vars, IInv, TypeOK, Control, Epochs, Wipes, NoHiddenStateVisible, WipeIsFinal,
       PendingHasWorker, LatestIsNewest

\* Every step of every thread preserves the invariant.
LEMMA NextPreserves ==
    ASSUME IInv, [Next]_vars
    PROVE  IInv'
<1>1. ASSUME NEW t \in Threads, Forward(t) PROVE IInv'
  BY <1>1, BeginPreserves, RuntimePreserves, FailsPreserves, BackendPreserves,
     CommitPreserves DEF Forward
<1>2. CASE Worker
  BY <1>1, <1>2, TakePreserves, FailedPreserves DEF Worker
<1>3. ASSUME NEW c \in Callers, Call(c) PROVE IInv'
  BY <1>3, RequestPreserves, UpdatePreserves, InvalidatePreserves DEF Call
<1>4. ASSUME NEW c \in Callers, Finish(c) PROVE IInv'
  BY <1>1, <1>4, HidePreserves, WipeBackendPreserves, WipeRuntimePreserves,
     WipeFailsPreserves DEF Finish
<1>5. CASE UNCHANGED vars
  BY <1>5, StutterPreserves
<1>6. QED
  BY <1>2, <1>3, <1>4, <1>5 DEF Next

\* The inductive invariant holds in every reachable state.
THEOREM Invariance == Spec => []IInv
<1>1. Init => IInv
  BY InitIInv
<1>2. IInv /\ [Next]_vars => IInv'
  BY NextPreserves
<1>3. QED
  BY <1>1, <1>2, PTL DEF Spec

\* Type correctness of the coordinator (realtime.py) and its backend.
THEOREM TypeCorrect == Spec => []TypeOK
<1>1. IInv => TypeOK
  BY DEF IInv
<1>2. QED
  BY <1>1, Invariance, PTL

\* No snapshot of a request older than a completed hide is ever visible
\* again, whatever forwards were running: the two epoch checks of
\* update_context and _worker_loop are enough for any number of threads.
THEOREM HiddenStaysHidden == Spec => []NoHiddenStateVisible
<1>1. IInv => NoHiddenStateVisible
  BY DEF IInv
<1>2. QED
  BY <1>1, Invariance, PTL

\* A returned invalidate_private_state leaves no older text in the backend or
\* in the model runtime.
THEOREM WipesAreFinal == Spec => []WipeIsFinal
<1>1. IInv => WipeIsFinal
  BY DEF IInv
<1>2. QED
  BY <1>1, Invariance, PTL

\* No request waits in _pending without a worker thread.
THEOREM NoLostWakeup == Spec => []PendingHasWorker
<1>1. IInv => PendingHasWorker
  BY DEF IInv
<1>2. QED
  BY <1>1, Invariance, PTL

\* The default snapshot is the newest retained one, with its own text.
THEOREM LatestNewest == Spec => []LatestIsNewest
<1>1. IInv => LatestIsNewest
  BY DEF IInv
<1>2. QED
  BY <1>1, Invariance, PTL

-----------------------------------------------------------------------------
(* What calls serialised by their caller gain *)

\* An invalidation hides before it wipes.
HidesFirst ==
    /\ wiped <= hidden
    /\ \A c \in Callers : pc[c] \in {"wipe", "scrub"} => job[c].epoch <= hidden

\* Hiding comes first in every step.
LEMMA NextHidesFirst ==
    ASSUME IInv, HidesFirst, [Next]_vars
    PROVE  HidesFirst'
<1>1. /\ wiped \in Nat /\ hidden \in Nat /\ pc \in [Threads -> PcValues]
      /\ job \in [Threads -> Job] /\ \A t \in Threads : job[t].epoch \in Nat
  BY DEF IInv, TypeOK, Job
<1>2. ASSUME UNCHANGED <<wiped, hidden>>,
             \A c \in Callers : pc'[c] \in {"wipe", "scrub"} =>
                 pc[c] \in {"wipe", "scrub"} /\ job'[c] = job[c]
      PROVE  HidesFirst'
  BY <1>2 DEF HidesFirst
<1>3. ASSUME NEW t \in Threads, Forward(t) PROVE HidesFirst'
  <2>1. /\ UNCHANGED <<wiped, hidden>>
        /\ \E x \in {"forward", "publish", "commit", "idle", "take", "failed"} :
              pc' = [pc EXCEPT ![t] = x]
        /\ job' = job \/ job' = [job EXCEPT ![t].generation = generation]
    BY <1>3 DEF Forward, BeginForward, RuntimeForward, ForwardFails, Raise, BackendPublish,
                CommitForward
  <2>2. QED
    BY <1>1, <1>2, <2>1
<1>4. CASE Worker
  <2>1. CASE WorkerTake
    BY <1>1, <1>2, <2>1, CoordinatorAssumption DEF WorkerTake
  <2>2. CASE WorkerFailed
    BY <1>1, <1>2, <2>2, CoordinatorAssumption DEF WorkerFailed
  <2>3. QED
    BY <1>3, <1>4, <2>1, <2>2 DEF Worker
<1>5. ASSUME NEW c \in Callers, Call(c) PROVE HidesFirst'
  <2>1. /\ UNCHANGED <<wiped, hidden>>
        /\ \A d \in Callers : pc'[d] = pc[d] \/ pc'[d] \in {"queued", "hide"}
        /\ \A d \in Callers : pc[d] # "idle" => job'[d] = job[d]
    BY <1>1, <1>5, CoordinatorAssumption
       DEF Call, RequestContextUpdate, UpdateContext, Invalidate
  <2>2. QED
    BY <1>2, <2>1
<1>6. ASSUME NEW c \in Callers, HideStates(c) PROVE HidesFirst'
  BY <1>1, <1>6 DEF HideStates, HidesFirst
<1>7. ASSUME NEW c \in Callers, WipeBackend(c) PROVE HidesFirst'
  BY <1>1, <1>2, <1>7 DEF WipeBackend
<1>8. ASSUME NEW c \in Callers, WipeRuntime(c) PROVE HidesFirst'
  BY <1>1, <1>8 DEF WipeRuntime, HidesFirst
<1>9. ASSUME NEW c \in Callers, WipeRuntimeFails(c) PROVE HidesFirst'
  BY <1>1, <1>2, <1>9, CoordinatorAssumption DEF WipeRuntimeFails, Raise
<1>10. CASE UNCHANGED vars
  BY <1>10 DEF vars, HidesFirst
<1>11. QED
  BY <1>3, <1>4, <1>5, <1>6, <1>7, <1>8, <1>9, <1>10 DEF Next, Finish

\* A new number is drawn only while no caller is at work, as under the pipe
\* server's _context_forward_lock.
Serialised == requestedEpoch' # requestedEpoch => \A c \in Callers : pc[c] = "idle"

\* With serialised calls an invalidation at work is the newest number, so nothing
\* becomes visible until its wipe is done, and no forward outlives a generation.
Serial ==
    /\ \A c \in Callers : pc[c] \in Wiping => job[c].epoch = requestedEpoch
    /\ \A c \in Callers : pc[c] \in {"wipe", "scrub"} => latest = None /\ states = {}
    /\ \A t \in Threads : pc[t] \in Forwarding => job[t].generation = generation
    /\ VisibleStatesScorable

\* Publishing a request of the current generation.
LEMMA CommitSerial ==
    ASSUME IInv, Serial, NEW t \in Threads, CommitForward(t)
    PROVE  Serial'
<1>1. /\ pc \in [Threads -> PcValues] /\ pc[t] = "commit" /\ job[t].generation = generation
      /\ pc' = [pc EXCEPT ![t] = Idle(t)]
      /\ UNCHANGED <<requestedEpoch, generation, job>>
  BY DEF CommitForward, IInv, TypeOK, Serial
<1>2. \A r \in Threads : pc'[r] \in Forwarding \cup Wiping => pc'[r] = pc[r]
  BY <1>1
<1>3. CASE ~Current(t)
  <2>1. UNCHANGED <<latest, states>>
    BY <1>3 DEF CommitForward
  <2>2. QED
    BY <1>1, <1>2, <2>1 DEF Serial, VisibleStatesScorable
<1>4. CASE Current(t)
  <2>1. /\ job[t].epoch = requestedEpoch /\ job[t].epoch \notin boundaries
        /\ \A c \in Callers : pc[c] \in Wiping => job[c].epoch \in boundaries
    BY <1>1, <1>4 DEF Current, IInv, Epochs
  <2>2. \A c \in Callers : pc[c] \notin Wiping
    BY <2>1 DEF Serial
  <2>3. latest' = job[t] /\ states' \subseteq states \cup {job[t]}
    BY <1>4 DEF CommitForward, Publish, Retain
  <2>4. \A s \in Visible' : s.generation = generation
    BY <1>1, <2>3 DEF Serial, VisibleStatesScorable
  <2>5. QED
    BY <1>1, <1>2, <2>2, <2>4 DEF Serial, VisibleStatesScorable
<1>5. QED
  BY <1>3, <1>4

\* Every serialised step keeps the visible snapshots scorable.
LEMMA NextSerial ==
    ASSUME IInv, Serial, [Next /\ Serialised]_vars
    PROVE  Serial'
<1>1. pc \in [Threads -> PcValues] /\ job \in [Threads -> Job] /\ requestedEpoch \in Nat
  BY DEF IInv, TypeOK
<1>2. ASSUME UNCHANGED <<latest, states, generation, requestedEpoch>>,
             \A t \in Threads :
                /\ pc'[t] \in Forwarding =>
                      job'[t].generation = generation \/ (pc[t] \in Forwarding /\ job'[t] = job[t])
                /\ pc'[t] \in Wiping => pc'[t] = pc[t] /\ job'[t] = job[t]
      PROVE  Serial'
  BY <1>2 DEF Serial, VisibleStatesScorable
<1>3. ASSUME NEW t \in Threads, Forward(t) PROVE Serial'
  <2>1. CASE BeginForward(t)
    <3>1. /\ UNCHANGED <<latest, states, generation, requestedEpoch>>
          /\ \/ /\ job' = [job EXCEPT ![t].generation = generation]
                /\ pc' = [pc EXCEPT ![t] = "forward"]
             \/ pc' = [pc EXCEPT ![t] = Idle(t)] /\ job' = job
      BY <2>1 DEF BeginForward
    <3>2. CASE pc' = [pc EXCEPT ![t] = Idle(t)] /\ job' = job
      BY <1>1, <1>2, <3>1, <3>2
    <3>3. CASE /\ job' = [job EXCEPT ![t].generation = generation]
               /\ pc' = [pc EXCEPT ![t] = "forward"]
      <4>1. /\ pc'[t] = "forward" /\ job'[t].generation = generation
            /\ \A r \in Threads : r # t => pc'[r] = pc[r] /\ job'[r] = job[r]
        BY <1>1, <3>3 DEF Job
      <4>2. QED
        BY <1>2, <3>1, <4>1
    <3>4. QED
      BY <3>1, <3>2, <3>3
  <2>2. CASE RuntimeForward(t) \/ ForwardFails(t) \/ BackendPublish(t)
    <3>1. /\ UNCHANGED <<latest, states, generation, requestedEpoch, job>>
          /\ \E x \in {"publish", "commit", "idle", "failed"} : pc' = [pc EXCEPT ![t] = x]
          /\ pc[t] \in Forwarding
      BY <2>2 DEF RuntimeForward, ForwardFails, Raise, BackendPublish
    <3>2. QED
      BY <1>1, <1>2, <3>1
  <2>3. QED
    BY <1>3, <2>1, <2>2, CommitSerial DEF Forward
<1>4. CASE Worker
  <2>1. CASE WorkerTake
    BY <1>1, <1>2, <2>1, CoordinatorAssumption DEF WorkerTake
  <2>2. CASE WorkerFailed
    BY <1>1, <1>2, <2>2, CoordinatorAssumption DEF WorkerFailed
  <2>3. QED
    BY <1>3, <1>4, <2>1, <2>2 DEF Worker
<1>5. ASSUME NEW c \in Callers, Call(c), Serialised PROVE Serial'
  <2>1. requestedEpoch' = requestedEpoch + 1 /\ UNCHANGED <<latest, states, generation>>
    BY <1>5 DEF Call, RequestContextUpdate, UpdateContext, Invalidate, NextRequestEpoch
  <2>2. \A d \in Callers : pc[d] = "idle"
    BY <1>1, <1>5, <2>1 DEF Serialised
  <2>3. CASE RequestContextUpdate(c) \/ UpdateContext(c)
    <3>1. /\ \A t \in Threads : pc'[t] = pc[t] \/ pc'[t] \in {"take", "queued"}
          /\ \A t \in Threads : t # c => job'[t] = job[t]
          /\ pc'[c] \in {"idle", "queued"}
      BY <1>1, <2>2, <2>3, CoordinatorAssumption DEF RequestContextUpdate, UpdateContext
    <3>2. QED
      BY <2>1, <2>2, <3>1 DEF Serial, VisibleStatesScorable
  <2>4. CASE Invalidate(c)
    <3>1. /\ pc'[c] = "hide" /\ job'[c].epoch = requestedEpoch'
          /\ \A t \in Threads : t # c => pc'[t] = pc[t] /\ job'[t] = job[t]
      BY <1>1, <2>1, <2>4 DEF Invalidate, NewJob
    <3>2. QED
      BY <2>1, <2>2, <3>1 DEF Serial, VisibleStatesScorable
  <2>5. QED
    BY <1>5, <2>3, <2>4 DEF Call
<1>6. ASSUME NEW c \in Callers, HideStates(c) PROVE Serial'
  BY <1>1, <1>6 DEF HideStates, Serial, VisibleStatesScorable
<1>7. ASSUME NEW c \in Callers, WipeBackend(c) PROVE Serial'
  <2>1. /\ latest = None /\ states = {} /\ UNCHANGED <<latest, states, requestedEpoch, job>>
        /\ pc' = [pc EXCEPT ![c] = "scrub"] /\ pc[c] = "wipe"
    BY <1>7 DEF WipeBackend, Serial
  <2>2. \A t \in Threads : pc[t] \notin Forwarding
    BY <1>7, CoordinatorAssumption DEF WipeBackend, IInv, Control
  <2>3. QED
    BY <1>1, <2>1, <2>2 DEF Serial, VisibleStatesScorable
<1>8. ASSUME NEW c \in Callers, WipeRuntime(c) \/ WipeRuntimeFails(c) PROVE Serial'
  <2>1. /\ UNCHANGED <<latest, states, generation, requestedEpoch, job>>
        /\ pc' = [pc EXCEPT ![c] = "idle"]
    BY <1>8, CoordinatorAssumption DEF WipeRuntime, WipeRuntimeFails, Raise
  <2>2. QED
    BY <1>1, <1>2, <2>1
<1>9. CASE UNCHANGED vars
  BY <1>9 DEF vars, Serial, VisibleStatesScorable
<1>10. QED
  BY <1>3, <1>4, <1>5, <1>6, <1>7, <1>8, <1>9 DEF Next, Finish

\* As long as context requests and invalidations do not overlap, the backend accepts
\* every visible snapshot for scoring (_validate_state), for any number of callers.
THEOREM ScorableWhenSerialised == Spec /\ [][Serialised]_vars => []VisibleStatesScorable
<1>1. Init => Serial
  BY CoordinatorAssumption DEF Init, Serial, VisibleStatesScorable
<1>2. IInv /\ Serial /\ [Next]_vars /\ [Serialised]_vars => Serial'
  <2>1. [Next]_vars /\ [Serialised]_vars => [Next /\ Serialised]_vars
    OBVIOUS
  <2>2. QED
    BY <2>1, NextSerial
<1>3. Serial => VisibleStatesScorable
  BY DEF Serial
<1>4. QED
  BY <1>1, <1>2, <1>3, Invariance, PTL DEF Spec

-----------------------------------------------------------------------------
(* Refinement *)

USE DEF Store!StoreNext, Store!Ask, Store!Retire, Store!Publish, Store!Hide, Store!storeVars

\* The baseline is the abstract store's empty state.
LEMMA InitRefines == Init => Store!StoreInit
BY DEF Init, Store!StoreInit

\* A publication of the newest request is the abstract Publish; the end of a
\* superseded forward is invisible.
LEMMA CommitRefines ==
    ASSUME IInv, NEW t \in Threads, CommitForward(t)
    PROVE  [Store!StoreNext]_Store!storeVars
<1>1. CASE Current(t)
  <2> DEFINE S == {r \in states : r.epoch # job[t].epoch} \cup {job[t]}
  <2>1. /\ S \in SUBSET State
        /\ job[t] \in S
        /\ \A r \in S : r.epoch <= job[t].epoch
    BY <1>1 DEF IInv, TypeOK, Epochs, CommitForward, Current, State, Job
  <2>2. job[t] \in Retain(S) /\ Retain(S) \subseteq S
    BY <2>1, RetainNewest
  <2>3. latest' = job[t] /\ states' = Retain(S)
    BY <1>1 DEF CommitForward, Publish
  <2>4. \A r \in states' : r \in states \/ r.epoch = requestedEpoch
    BY <1>1, <2>2, <2>3 DEF Current
  <2>5. \E r \in states' : r.epoch = requestedEpoch
    BY <1>1, <2>2, <2>3 DEF Current
  <2>6. job[t] # None /\ job[t].epoch = requestedEpoch /\ job[t].epoch > 0
        /\ job[t].epoch \notin boundaries
    BY <1>1, NoneAssumption
       DEF IInv, TypeOK, Epochs, CommitForward, Current, State, Job
  <2>7. Store!Publish
    BY <2>3, <2>4, <2>5, <2>6 DEF CommitForward
  <2>8. QED
    BY <2>7
<1>2. CASE ~Current(t)
  BY <1>2 DEF CommitForward
<1>3. QED
  BY <1>1, <1>2

\* Every other step of a forward is invisible.
LEMMA ForwardRefines ==
    ASSUME IInv, NEW t \in Threads, Forward(t)
    PROVE  [Store!StoreNext]_Store!storeVars
BY CommitRefines
   DEF Forward, BeginForward, RuntimeForward, ForwardFails, BackendPublish

\* Every step of the coordinator is a step of the abstract store or invisible.
LEMMA NextRefines ==
    ASSUME IInv, [Next]_vars
    PROVE  [Store!StoreNext]_Store!storeVars
<1>1. CASE Worker
  BY <1>1, ForwardRefines DEF Worker, WorkerTake, WorkerFailed
<1>2. ASSUME NEW c \in Callers, Call(c) PROVE Store!StoreNext
  BY <1>2 DEF Call, RequestContextUpdate, UpdateContext, Invalidate, NextRequestEpoch
<1>3. ASSUME NEW c \in Callers, HideStates(c) PROVE Store!StoreNext
  <2>1. boundaries # {}
    BY <1>3 DEF HideStates, IInv, Epochs
  <2>2. latest' = None /\ states' = {} /\ UNCHANGED <<requestedEpoch, boundaries>>
    BY <1>3 DEF HideStates
  <2>3. QED
    BY <2>1, <2>2
<1>4. ASSUME NEW c \in Callers, Finish(c) PROVE [Store!StoreNext]_Store!storeVars
  BY <1>3, <1>4, ForwardRefines DEF Finish, WipeBackend, WipeRuntime, WipeRuntimeFails
<1>5. CASE UNCHANGED vars
  BY <1>5 DEF vars
<1>6. QED
  BY <1>1, <1>2, <1>4, <1>5 DEF Next

\* The coordinator implements the abstract snapshot store: only the newest
\* request is published, and an invalidation's number never is.
THEOREM RefinesStore == Spec => ImplementsStore
<1>1. Init => Store!StoreInit
  BY InitRefines
<1>2. IInv /\ [Next]_vars => [Store!StoreNext]_Store!storeVars
  BY NextRefines
<1>3. QED
  BY <1>1, <1>2, Invariance, PTL DEF Spec, ImplementsStore, Store!StoreSpec

-----------------------------------------------------------------------------
(* The engine.                                                              *)

Result == [text : Nat, before : Nat]
Entry  == [epoch : Nat, answer : Result]

\* The stages at which a query holds a captured snapshot.
Holding == {"context", "lookup", "score", "store"}

EngineTypeOK ==
    /\ contexts \subseteq [epoch : Nat, text : Nat]
    /\ queryCache \in Seq(Entry)
    /\ epc \in [Callers -> {"idle", "remember", "prune", "update", "clear_cache", "invalidate",
                            "clear_history"}]
    /\ assigned \in [Callers -> Nat]
    /\ expired \in [Callers -> SUBSET Nat]
    /\ qpc \in [Queriers -> Holding \cup {"idle", "fallback"}]
    /\ query \in [Queriers -> [state : State \cup {None}, before : Nat]]
    /\ answer \in [Queriers -> Result \cup {None}]
    /\ floor \in [Queriers -> [wiped : Nat, hidden : Nat]]

\* Everything the engine keeps is filed under the epoch of its text.
GoodAnswer(a) == a.before \in {a.text, EmptyText}
Filed ==
    /\ \A x \in contexts : x.text = x.epoch
    /\ \A i \in DOMAIN queryCache :
          /\ queryCache[i].answer.text = queryCache[i].epoch
          /\ GoodAnswer(queryCache[i].answer)

\* A query at work holds a snapshot that no wipe had reached when it began.
GoodQuery(q) ==
    /\ floor[q].wiped <= wiped
    /\ qpc[q] \in Holding =>
          /\ query[q].state \in State
          /\ query[q].state.text = query[q].state.epoch
          /\ query[q].state.epoch > floor[q].wiped
          /\ query[q].before \in {query[q].state.text, EmptyText}
    /\ answer[q] # None =>
          /\ GoodAnswer(answer[q])
          /\ answer[q].text = EmptyText \/ answer[q].text > floor[q].wiped

\* The inductive invariant.
EngineInv ==
    /\ IInv
    /\ HidesFirst
    /\ EngineTypeOK
    /\ Filed
    /\ \A q \in Queriers : GoodQuery(q)

-----------------------------------------------------------------------------
(* The coordinator underneath *)

\* Every step of the engine is a step of the coordinator or leaves it alone.
LEMMA EngineStepsCoordinate ==
    ASSUME [EngineNext]_allVars
    PROVE  [Next]_vars
<1>1. ASSUME NEW c \in Callers, CallerStep(c) PROVE [Next]_vars
  <2>1. CASE EngineRequest(c) \/ EngineUpdate(c) \/ ResetCoordinator(c)
    BY <2>1 DEF EngineRequest, EngineUpdate, ResetCoordinator, Next, Call
  <2>2. CASE EngineForward(c) \/ ResetWipe(c)
    BY <2>2 DEF EngineForward, ResetWipe, Next, Finish
  <2>3. CASE \/ RememberContext(c) \/ PruneCache(c) \/ ResetContexts(c)
             \/ ResetCache(c) \/ ClearHistory(c)
    BY <2>3 DEF RememberContext, PruneCache, ResetContexts, ResetCache, ClearHistory
  <2>4. QED
    BY <1>1, <2>1, <2>2, <2>3 DEF CallerStep
<1>2. ASSUME NEW q \in Queriers, QueryStep(q) PROVE UNCHANGED vars
  BY <1>2 DEF QueryStep, QueryLatest, QueryEpoch, Ask, QueryFallback, QueryContext,
              QueryLookup, QueryScore, QueryStore
<1>3. QED
  BY <1>1, <1>2 DEF EngineNext, EngineWorker, Next, Commit, allVars

\* The engine implements the coordinator's specification.
THEOREM EngineRefinesCoordinator == EngineSpec => Spec
<1>1. EngineInit => Init
  BY DEF EngineInit
<1>2. [EngineNext]_allVars => [Next]_vars
  BY EngineStepsCoordinate
<1>3. QED
  BY <1>1, <1>2, PTL DEF EngineSpec, Spec

\* With one caller at a time in the engine, as under the pipe server's
\* _context_forward_lock, every visible snapshot can be scored.
THEOREM EngineScorable ==
    ASSUME \A a, b \in Callers : a = b
    PROVE  EngineSpec => []VisibleStatesScorable
<1>1. [Next]_vars => [Serialised]_vars
  <2> SUFFICES ASSUME Next, requestedEpoch' # requestedEpoch
               PROVE  \A c \in Callers : pc[c] = "idle"
    BY DEF Serialised
  <2>1. ~Worker /\ \A c \in Callers : ~Finish(c)
    BY DEF Worker, WorkerTake, WorkerFailed, Finish, HideStates, WipeBackend, WipeRuntime,
           WipeRuntimeFails, Forward, BeginForward, RuntimeForward, ForwardFails,
           BackendPublish, CommitForward, requestVars
  <2>2. PICK c \in Callers : Call(c)
    BY <2>1 DEF Next
  <2>3. pc[c] = "idle"
    BY <2>2 DEF Call, RequestContextUpdate, UpdateContext, Invalidate
  <2>4. QED
    BY <2>3
<1>2. QED
  BY <1>1, EngineRefinesCoordinator, ScorableWhenSerialised, PTL DEF Spec

\* A wipe never goes back.
LEMMA WipedGrows ==
    ASSUME IInv, [Next]_vars
    PROVE  wiped \in Nat /\ wiped' \in Nat /\ wiped <= wiped'
<1>1. wiped \in Nat /\ \A t \in Threads : job[t].epoch \in Nat
  BY DEF IInv, TypeOK, Job
<1>2. wiped' = wiped \/ \E c \in Callers : wiped' = Later(wiped, job[c].epoch)
  BY DEF Next, Worker, WorkerTake, WorkerFailed, Call, RequestContextUpdate, UpdateContext,
         Invalidate, Finish, HideStates, WipeBackend, WipeRuntime, WipeRuntimeFails, Forward,
         BeginForward, RuntimeForward, ForwardFails, BackendPublish, CommitForward,
         historyVars, vars
<1>3. QED
  BY <1>1, <1>2 DEF Later, Threads

\* A visible snapshot is newer than every wipe, and its text is its own.
LEMMA VisibleIsFresh ==
    ASSUME IInv, HidesFirst, NEW s, s \in states \/ (s = latest /\ latest # None)
    PROVE  s \in State /\ s.text = s.epoch /\ s.epoch > wiped
<1>1. s \in states
  BY DEF IInv, LatestIsNewest
<1>2. s \in State /\ s.text = s.epoch /\ s.epoch > hidden
  BY <1>1 DEF IInv, TypeOK, Epochs, NoHiddenStateVisible, Visible
<1>3. wiped \in Nat /\ hidden \in Nat /\ wiped <= hidden /\ s.epoch \in Nat
  BY <1>2 DEF IInv, TypeOK, HidesFirst, State
<1>4. QED
  BY <1>2, <1>3

-----------------------------------------------------------------------------
(* The cache *)

\* A cache filed by epochs.
CacheFiled(s) ==
    /\ s \in Seq(Entry)
    /\ \A i \in DOMAIN s : s[i].answer.text = s[i].epoch /\ GoodAnswer(s[i].answer)

\* An empty cache is filed under its keys.
LEMMA EmptyFiled == CacheFiled(<<>>)
BY DEF CacheFiled

\* Dropping epochs from the cache keeps it filed.
LEMMA WithoutFiled ==
    ASSUME EngineTypeOK, Filed, NEW epochs
    PROVE  CacheFiled(Without(epochs))
<1> DEFINE K == {i \in DOMAIN queryCache : queryCache[i].epoch \notin epochs}
<1>1. queryCache \in Seq(Entry) /\ K \in SUBSET DOMAIN queryCache
  BY DEF EngineTypeOK
<1>2. Without(epochs) = KeepAt(queryCache, K)
  BY DEF Without
<1> HIDE DEF K
<1>3. /\ Without(epochs) \in Seq(Entry)
      /\ \A n \in DOMAIN Without(epochs) : \E i \in DOMAIN queryCache :
            Without(epochs)[n] = queryCache[i]
  BY <1>1, <1>2, KeepAtElements
<1>4. QED
  BY <1>3 DEF CacheFiled, Filed

\* An entry joins the cache; the oldest may leave.
LEMMA AppendFiled ==
    ASSUME NEW s, CacheFiled(s), NEW x \in Entry, x.answer.text = x.epoch, GoodAnswer(x.answer)
    PROVE  CacheFiled(Append(s, x)) /\ CacheFiled(Tail(Append(s, x)))
<1> DEFINE a == Append(s, x)
<1>1. s \in Seq(Entry) /\ \A i \in 1 .. Len(s) : /\ s[i].answer.text = s[i].epoch
                                               /\ GoodAnswer(s[i].answer)
  BY DEF CacheFiled
<1>2. /\ a \in Seq(Entry) /\ Len(a) = Len(s) + 1 /\ Len(s) \in Nat
      /\ \A i \in 1 .. Len(a) : a[i] = IF i = Len(a) THEN x ELSE s[i]
  BY <1>1
<1> HIDE DEF a
<1>3. \A i \in 1 .. Len(a) : a[i].answer.text = a[i].epoch /\ GoodAnswer(a[i].answer)
  BY <1>1, <1>2
<1>4. /\ Tail(a) \in Seq(Entry) /\ Len(Tail(a)) = Len(s)
      /\ \A i \in 1 .. Len(s) : Tail(a)[i] = a[i + 1] /\ i + 1 \in 1 .. Len(a)
  BY <1>2
<1>5. CacheFiled(a)
  BY <1>2, <1>3 DEF CacheFiled
<1>6. CacheFiled(Tail(a))
  BY <1>3, <1>4 DEF CacheFiled
<1>7. QED
  BY <1>5, <1>6 DEF a

-----------------------------------------------------------------------------
(* The steps *)

USE DEF EmptyText

\* Queries that do not move stay good while wipes only advance.
LEMMA QueriesStay ==
    ASSUME EngineInv, UNCHANGED queryVars, wiped' \in Nat, wiped \in Nat, wiped <= wiped'
    PROVE  \A q \in Queriers : GoodQuery(q)'
<1> SUFFICES ASSUME NEW q \in Queriers PROVE GoodQuery(q)'
  OBVIOUS
<1>1. GoodQuery(q) /\ floor[q].wiped \in Nat
  BY DEF EngineInv, EngineTypeOK
<1>2. qpc' = qpc /\ query' = query /\ answer' = answer /\ floor' = floor
  BY DEF queryVars
<1>3. QED
  BY <1>1, <1>2 DEF GoodQuery, GoodAnswer

\* A step outside the queries.
LEMMA EngineSteps ==
    ASSUME EngineInv, [Next]_vars, UNCHANGED queryVars,
           contexts' \subseteq [epoch : Nat, text : Nat], \A x \in contexts' : x.text = x.epoch,
           CacheFiled(queryCache'),
           epc' \in [Callers -> {"idle", "remember", "prune", "update", "clear_cache",
                                 "invalidate", "clear_history"}],
           assigned' \in [Callers -> Nat], expired' \in [Callers -> SUBSET Nat]
    PROVE  EngineInv'
<1>1. IInv' /\ HidesFirst'
  BY NextPreserves, NextHidesFirst DEF EngineInv
<1>2. EngineTypeOK'
  BY DEF EngineInv, EngineTypeOK, CacheFiled, queryVars
<1>3. Filed'
  BY DEF CacheFiled, Filed
<1>4. \A q \in Queriers : GoodQuery(q)'
  BY WipedGrows, QueriesStay DEF EngineInv
<1>5. QED
  BY <1>1, <1>2, <1>3, <1>4 DEF EngineInv

\* What the engine's own steps start from.
LEMMA Unmoved ==
    ASSUME EngineInv
    PROVE  /\ contexts \subseteq [epoch : Nat, text : Nat] /\ \A x \in contexts : x.text = x.epoch
           /\ CacheFiled(queryCache)
           /\ epc \in [Callers -> {"idle", "remember", "prune", "update", "clear_cache",
                                   "invalidate", "clear_history"}]
           /\ assigned \in [Callers -> Nat] /\ expired \in [Callers -> SUBSET Nat]
BY DEF EngineInv, EngineTypeOK, Filed, CacheFiled

\* Every step of update, reset, clear_history and commit.
LEMMA CallerPreserves ==
    ASSUME EngineInv, NEW c \in Callers, CallerStep(c)
    PROVE  EngineInv'
<1> DEFINE EPc == {"idle", "remember", "prune", "update", "clear_cache", "invalidate",
                   "clear_history"}
<1>1. [Next]_vars
  <2>1. EngineNext
    BY DEF EngineNext
  <2>2. QED
    BY <2>1, EngineStepsCoordinate
<1>2. ASSUME NEW where \in EPc, Goto(c, where) PROVE epc' \in [Callers -> EPc]
  BY <1>2, Unmoved DEF Goto
<1>3. requestedEpoch \in Nat
  BY DEF EngineInv, IInv, TypeOK
<1>4. CASE EngineRequest(c) \/ EngineUpdate(c)
  <2>1. /\ assigned' = [assigned EXCEPT ![c] = requestedEpoch + 1]
        /\ Goto(c, "remember") \/ Goto(c, "update")
        /\ UNCHANGED <<contexts, queryCache, expired, queryVars>>
    BY <1>4 DEF EngineRequest, EngineUpdate, RequestContextUpdate, UpdateContext,
                NextRequestEpoch
  <2>2. assigned' \in [Callers -> Nat] /\ epc' \in [Callers -> EPc]
    BY <1>2, <1>3, <2>1, Unmoved
  <2>3. QED
    BY <1>1, <2>1, <2>2, Unmoved, EngineSteps
<1>5. CASE EngineForward(c)
  <2>1. /\ \E where \in {"update", "remember", "idle"} : Goto(c, where)
        /\ UNCHANGED <<contexts, queryCache, assigned, expired, queryVars>>
    BY <1>5 DEF EngineForward
  <2>2. epc' \in [Callers -> EPc]
    BY <1>2, <2>1
  <2>3. QED
    BY <1>1, <2>1, <2>2, Unmoved, EngineSteps
<1>6. CASE RememberContext(c)
  <2> DEFINE known == {x \in contexts : x.epoch # assigned[c]}
                         \cup {[epoch |-> assigned[c], text |-> assigned[c]]}
  <2>1. assigned[c] \in Nat
    BY Unmoved
  <2>2. known \subseteq [epoch : Nat, text : Nat] /\ \A x \in known : x.text = x.epoch
    BY <2>1, Unmoved
  <2>3. /\ contexts' = Retain(known)
        /\ expired' = [expired EXCEPT ![c] = {x.epoch : x \in known \ Retain(known)}]
        /\ Goto(c, "idle") \/ Goto(c, "prune")
        /\ UNCHANGED <<queryCache, assigned, queryVars>>
    BY <1>6 DEF RememberContext
  <2> HIDE DEF known
  <2>4. contexts' \subseteq known
    BY <2>3 DEF Retain
  <2>5. {x.epoch : x \in known \ Retain(known)} \in SUBSET Nat
    BY <2>2
  <2>6. expired' \in [Callers -> SUBSET Nat]
    BY <2>3, <2>5, Unmoved
  <2>7. epc' \in [Callers -> EPc]
    BY <1>2, <2>3
  <2>8. contexts' \subseteq [epoch : Nat, text : Nat] /\ \A x \in contexts' : x.text = x.epoch
    BY <2>2, <2>4
  <2>9. QED
    BY <1>1, <2>3, <2>6, <2>7, <2>8, Unmoved, EngineSteps
<1>7. CASE PruneCache(c)
  <2>1. /\ queryCache' = Without(expired[c]) /\ Goto(c, "idle")
        /\ UNCHANGED <<contexts, assigned, expired, queryVars>>
    BY <1>7 DEF PruneCache
  <2>2. CacheFiled(queryCache')
    BY <2>1, WithoutFiled DEF EngineInv
  <2>3. epc' \in [Callers -> EPc]
    BY <1>2, <2>1
  <2>4. QED
    BY <1>1, <2>1, <2>2, <2>3, Unmoved, EngineSteps
<1>8. CASE ResetContexts(c)
  <2>1. /\ contexts' = {} /\ Goto(c, "clear_cache")
        /\ UNCHANGED <<queryCache, assigned, expired, queryVars>>
    BY <1>8 DEF ResetContexts
  <2>2. epc' \in [Callers -> EPc]
    BY <1>2, <2>1
  <2>3. QED
    BY <1>1, <2>1, <2>2, Unmoved, EngineSteps
<1>9. CASE ResetCache(c) \/ ClearHistory(c)
  <2>1. /\ queryCache' = <<>>
        /\ Goto(c, "invalidate") \/ Goto(c, "idle")
        /\ UNCHANGED <<contexts, assigned, expired, queryVars>>
    BY <1>9 DEF ResetCache, ClearHistory
  <2>2. epc' \in [Callers -> EPc]
    BY <1>2, <2>1
  <2>3. QED
    BY <1>1, <2>1, <2>2, Unmoved, EmptyFiled, EngineSteps
<1>10. CASE ResetCoordinator(c)
  <2>1. /\ Goto(c, "clear_history")
        /\ UNCHANGED <<contexts, queryCache, assigned, expired, queryVars>>
    BY <1>10 DEF ResetCoordinator
  <2>2. epc' \in [Callers -> EPc]
    BY <1>2, <2>1
  <2>3. QED
    BY <1>1, <2>1, <2>2, Unmoved, EngineSteps
<1>11. CASE ResetWipe(c)
  <2>1. UNCHANGED <<engineVars, queryVars>>
    BY <1>11 DEF ResetWipe
  <2>2. QED
    BY <1>1, <2>1, Unmoved, EngineSteps DEF engineVars
<1>12. QED
  BY <1>4, <1>5, <1>6, <1>7, <1>8, <1>9, <1>10, <1>11 DEF CallerStep

\* One query moves; the coordinator stands still.
LEMMA QueryMoves ==
    ASSUME EngineInv, NEW q \in Queriers, UNCHANGED <<vars, contexts, epc, assigned, expired>>,
           CacheFiled(queryCache'),
           NEW where \in Holding \cup {"idle", "fallback"},
           NEW x \in [state : State \cup {None}, before : Nat],
           NEW a \in Result \cup {None}, NEW f \in [wiped : Nat, hidden : Nat],
           qpc' = [qpc EXCEPT ![q] = where], query' = [query EXCEPT ![q] = x],
           answer' = [answer EXCEPT ![q] = a], floor' = [floor EXCEPT ![q] = f],
           f.wiped <= wiped,
           where \in Holding =>
              /\ x.state \in State /\ x.state.text = x.state.epoch
              /\ x.state.epoch > f.wiped /\ x.before \in {x.state.text, EmptyText},
           a # None => GoodAnswer(a) /\ (a.text = EmptyText \/ a.text > f.wiped)
    PROVE  EngineInv'
<1>1. IInv' /\ HidesFirst'
  BY NextPreserves, NextHidesFirst DEF EngineInv
<1>2. EngineTypeOK'
  BY DEF EngineInv, EngineTypeOK, CacheFiled
<1>3. Filed'
  BY DEF EngineInv, Filed, CacheFiled
<1>4. ASSUME NEW r \in Queriers PROVE GoodQuery(r)'
  <2>1. wiped' = wiped
    BY DEF vars, historyVars
  <2>2. CASE r = q
    <3>1. qpc'[r] = where /\ query'[r] = x /\ answer'[r] = a /\ floor'[r] = f
      BY <2>2 DEF EngineInv, EngineTypeOK
    <3>2. QED
      BY <2>1, <3>1 DEF GoodQuery, GoodAnswer
  <2>3. CASE r # q
    <3>1. qpc'[r] = qpc[r] /\ query'[r] = query[r] /\ answer'[r] = answer[r] /\ floor'[r] = floor[r]
      BY <2>3 DEF EngineInv, EngineTypeOK
    <3>2. QED
      BY <2>1, <3>1 DEF EngineInv, GoodQuery, GoodAnswer
  <2>4. QED
    BY <2>2, <2>3
<1>5. QED
  BY <1>1, <1>2, <1>3, <1>4 DEF EngineInv

\* What a query has when it is about to move.
LEMMA QueryFacts ==
    ASSUME EngineInv, NEW q \in Queriers
    PROVE  /\ qpc \in [Queriers -> Holding \cup {"idle", "fallback"}]
           /\ query \in [Queriers -> [state : State \cup {None}, before : Nat]]
           /\ answer \in [Queriers -> Result \cup {None}]
           /\ floor \in [Queriers -> [wiped : Nat, hidden : Nat]]
           /\ query[q] \in [state : State \cup {None}, before : Nat]
           /\ answer[q] \in Result \cup {None} /\ floor[q] \in [wiped : Nat, hidden : Nat]
           /\ wiped \in Nat /\ hidden \in Nat /\ floor[q].wiped \in Nat
           /\ GoodQuery(q)
BY DEF EngineInv, EngineTypeOK, IInv, TypeOK

\* A query begins with a visible snapshot, or without one.
LEMMA AskPreserves ==
    ASSUME EngineInv, NEW q \in Queriers, QueryLatest(q) \/ QueryEpoch(q)
    PROVE  EngineInv'
<1>1. PICK s, where :
        /\ Ask(q, where, s)
        /\ \/ where = "fallback" /\ s = None
           \/ where = "context" /\ (s \in states \/ (s = latest /\ latest # None))
  BY DEF QueryLatest, QueryEpoch
<1> DEFINE x == [state |-> s, before |-> EmptyText]
           f == [wiped |-> wiped, hidden |-> hidden]
<1>2. where = "context" => s \in State /\ s.text = s.epoch /\ s.epoch > wiped
  BY <1>1, VisibleIsFresh DEF EngineInv
<1>3. x \in [state : State \cup {None}, before : Nat] /\ f \in [wiped : Nat, hidden : Nat]
  BY <1>1, <1>2, QueryFacts
<1>4. /\ qpc' = [qpc EXCEPT ![q] = where] /\ query' = [query EXCEPT ![q] = x]
      /\ answer' = [answer EXCEPT ![q] = None] /\ floor' = [floor EXCEPT ![q] = f]
      /\ UNCHANGED <<vars, engineVars>>
  BY <1>1 DEF Ask
<1>5. CacheFiled(queryCache') /\ UNCHANGED <<vars, contexts, epc, assigned, expired>>
  BY <1>4, Unmoved DEF engineVars
<1>6. x.state = s /\ x.before = EmptyText /\ f.wiped = wiped /\ f.wiped <= wiped
  BY QueryFacts
<1>7. where \in Holding \cup {"idle", "fallback"} /\ (where \in Holding => where = "context")
  BY <1>1 DEF Holding
<1> HIDE DEF x, f
<1>8. QED
  BY <1>2, <1>3, <1>4, <1>5, <1>6, <1>7, QueryMoves

\* A query is answered.
LEMMA AnswerPreserves ==
    ASSUME EngineInv, NEW q \in Queriers, NEW a \in Result \cup {None}, Answer(q, a),
           UNCHANGED <<vars, contexts, epc, assigned, expired>>, CacheFiled(queryCache'),
           a # None => GoodAnswer(a) /\ (a.text = EmptyText \/ a.text > floor[q].wiped)
    PROVE  EngineInv'
<1>1. /\ qpc' = [qpc EXCEPT ![q] = "idle"] /\ query' = [query EXCEPT ![q] = NoQuery]
      /\ answer' = [answer EXCEPT ![q] = a] /\ floor' = [floor EXCEPT ![q] = floor[q]]
  BY QueryFacts DEF Answer
<1>2. NoQuery \in [state : State \cup {None}, before : Nat]
  BY DEF NoQuery
<1>3. /\ "idle" \in Holding \cup {"idle", "fallback"} /\ "idle" \notin Holding
      /\ floor[q] \in [wiped : Nat, hidden : Nat] /\ floor[q].wiped <= wiped
  BY QueryFacts DEF Holding, GoodQuery
<1>4. QED
  BY <1>1, <1>2, <1>3, QueryMoves

\* The backend's own latest state lies above every wipe too.
LEMMA FallbackPreserves ==
    ASSUME EngineInv, NEW q \in Queriers, QueryFallback(q)
    PROVE  EngineInv'
<1> DEFINE text == IF backendState = None THEN EmptyText ELSE backendState.text
           a == [text |-> text, before |-> EmptyText]
<1>1. text \in Nat /\ (text = EmptyText \/ text > wiped)
  BY DEF EngineInv, IInv, TypeOK, State, WipeIsFinal
<1> HIDE DEF text
<1>2. a \in Result /\ a.text = text /\ GoodAnswer(a)
  BY <1>1 DEF Result, GoodAnswer
<1>3. Answer(q, a) /\ UNCHANGED <<vars, engineVars>>
  BY DEF QueryFallback, text
<1> HIDE DEF a
<1>4. floor[q].wiped <= wiped /\ floor[q].wiped \in Nat /\ wiped \in Nat
  BY QueryFacts DEF GoodQuery
<1>5. a.text = EmptyText \/ a.text > floor[q].wiped
  BY <1>1, <1>2, <1>4
<1>6. CacheFiled(queryCache') /\ UNCHANGED <<vars, contexts, epc, assigned, expired>>
  BY <1>3, Unmoved DEF engineVars
<1>7. QED
  BY <1>2, <1>3, <1>5, <1>6, AnswerPreserves

\* The remembered text of an epoch is that epoch's.
LEMMA ContextPreserves ==
    ASSUME EngineInv, NEW q \in Queriers, QueryContext(q)
    PROVE  EngineInv'
<1> DEFINE e == query[q].state.epoch
           x == [query[q] EXCEPT !.before = ContextText(e)]
<1>1. /\ query[q].state \in State /\ query[q].state.text = e
      /\ e > floor[q].wiped /\ floor[q].wiped <= wiped
      /\ qpc[q] = "context" /\ e \in Nat
  BY QueryFacts DEF QueryContext, GoodQuery, Holding, State
<1>2. ContextText(e) \in {e, EmptyText}
  <2>1. CASE \E y \in contexts : y.epoch = e
    <3> DEFINE y == CHOOSE y \in contexts : y.epoch = e
    <3>1. y \in contexts /\ y.epoch = e
      BY <2>1
    <3>2. ContextText(e) = y.text
      BY <2>1 DEF ContextText
    <3>3. QED
      BY <3>1, <3>2, Unmoved
  <2>2. CASE ~\E y \in contexts : y.epoch = e
    BY <2>2 DEF ContextText
  <2>3. QED
    BY <2>1, <2>2
<1>3. /\ qpc' = [qpc EXCEPT ![q] = "lookup"]
      /\ query' = [query EXCEPT ![q] = x]
      /\ answer' = [answer EXCEPT ![q] = answer[q]] /\ floor' = [floor EXCEPT ![q] = floor[q]]
      /\ UNCHANGED <<vars, engineVars>>
  BY QueryFacts DEF QueryContext
<1>4. /\ x \in [state : State \cup {None}, before : Nat]
      /\ x.state = query[q].state /\ x.before = ContextText(e)
  BY <1>1, <1>2, QueryFacts
<1> HIDE DEF x
<1>5. /\ "lookup" \in Holding
      /\ x.state \in State /\ x.state.text = x.state.epoch /\ x.state.epoch > floor[q].wiped
      /\ x.before \in {x.state.text, EmptyText}
  BY <1>1, <1>2, <1>4 DEF Holding
<1>6. CacheFiled(queryCache') /\ UNCHANGED <<vars, contexts, epc, assigned, expired>>
  BY <1>3, Unmoved DEF engineVars
<1>7. answer[q] # None =>
        GoodAnswer(answer[q]) /\ (answer[q].text = EmptyText \/ answer[q].text > floor[q].wiped)
  BY QueryFacts DEF GoodQuery
<1>8. /\ answer[q] \in Result \cup {None} /\ floor[q] \in [wiped : Nat, hidden : Nat]
      /\ floor[q].wiped <= wiped
  BY <1>1, QueryFacts
<1>9. QED
  BY <1>3, <1>4, <1>5, <1>6, <1>7, <1>8, QueryMoves

\* A query goes on to its next stage with what it holds.
LEMMA StagePreserves ==
    ASSUME EngineInv, NEW q \in Queriers, qpc[q] \in Holding, NEW where \in Holding,
           qpc' = [qpc EXCEPT ![q] = where], UNCHANGED <<query, answer, floor, vars, engineVars>>
    PROVE  EngineInv'
<1>1. /\ query' = [query EXCEPT ![q] = query[q]] /\ answer' = [answer EXCEPT ![q] = answer[q]]
      /\ floor' = [floor EXCEPT ![q] = floor[q]]
  BY QueryFacts
<1>2. CacheFiled(queryCache') /\ UNCHANGED <<vars, contexts, epc, assigned, expired>>
  BY Unmoved DEF engineVars
<1>3. /\ floor[q].wiped <= wiped
      /\ query[q].state \in State /\ query[q].state.text = query[q].state.epoch
      /\ query[q].state.epoch > floor[q].wiped
      /\ query[q].before \in {query[q].state.text, EmptyText}
      /\ answer[q] # None =>
           GoodAnswer(answer[q]) /\ (answer[q].text = EmptyText \/ answer[q].text > floor[q].wiped)
  BY QueryFacts DEF GoodQuery
<1>4. /\ query[q] \in [state : State \cup {None}, before : Nat]
      /\ answer[q] \in Result \cup {None} /\ floor[q] \in [wiped : Nat, hidden : Nat]
  BY QueryFacts
<1>5. PICK x, a, f : x = query[q] /\ a = answer[q] /\ f = floor[q]
  OBVIOUS
<1>6. /\ x \in [state : State \cup {None}, before : Nat] /\ a \in Result \cup {None}
      /\ f \in [wiped : Nat, hidden : Nat] /\ where \in Holding \cup {"idle", "fallback"}
      /\ query' = [query EXCEPT ![q] = x] /\ answer' = [answer EXCEPT ![q] = a]
      /\ floor' = [floor EXCEPT ![q] = f]
  BY <1>1, <1>4, <1>5
<1>7. /\ x.state \in State /\ x.state.text = x.state.epoch /\ x.state.epoch > f.wiped
      /\ x.before \in {x.state.text, EmptyText} /\ f.wiped <= wiped
      /\ a # None => GoodAnswer(a) /\ (a.text = EmptyText \/ a.text > f.wiped)
  BY <1>3, <1>5
<1>8. QED
  BY <1>2, <1>6, <1>7, QueryMoves

\* A cached answer is of the epoch the query holds.
LEMMA LookupPreserves ==
    ASSUME EngineInv, NEW q \in Queriers, QueryLookup(q)
    PROVE  EngineInv'
<1> DEFINE e == query[q].state.epoch
<1>1. /\ qpc[q] = "lookup" /\ "lookup" \in Holding /\ "score" \in Holding
      /\ e > floor[q].wiped
  BY QueryFacts DEF QueryLookup, GoodQuery, Holding
<1>2. CASE CachedAt(e) = {}
  <2>1. /\ qpc' = [qpc EXCEPT ![q] = "score"]
        /\ UNCHANGED <<query, answer, floor, vars, engineVars>>
    BY <1>2 DEF QueryLookup, engineVars
  <2>2. QED
    BY <1>1, <2>1, StagePreserves
<1>3. CASE CachedAt(e) # {}
  <2> DEFINE i == CHOOSE i \in CachedAt(e) : TRUE
             hit == queryCache[i]
  <2>1. i \in DOMAIN queryCache /\ hit.epoch = e
    BY <1>3 DEF CachedAt
  <2>2. /\ queryCache' = Append(Without({e}), hit) /\ Answer(q, hit.answer)
        /\ UNCHANGED <<vars, contexts, epc, assigned, expired>>
    BY <1>3 DEF QueryLookup
  <2> HIDE DEF i
  <2>3. hit \in Entry /\ hit.answer.text = hit.epoch /\ GoodAnswer(hit.answer)
    BY <2>1, Unmoved DEF CacheFiled
  <2>4. hit.answer \in Result
    BY <2>3 DEF Entry
  <2> HIDE DEF hit
  <2>5. CacheFiled(queryCache')
    BY <2>2, <2>3, WithoutFiled, AppendFiled DEF EngineInv
  <2>6. hit.answer.text > floor[q].wiped
    BY <1>1, <2>1, <2>3
  <2>7. QED
    BY <2>2, <2>3, <2>4, <2>5, <2>6, AnswerPreserves
<1>4. QED
  BY <1>2, <1>3

\* A snapshot of an old generation gives no answer.
LEMMA ScorePreserves ==
    ASSUME EngineInv, NEW q \in Queriers, QueryScore(q)
    PROVE  EngineInv'
<1>1. UNCHANGED <<vars, engineVars>> /\ qpc[q] = "score"
  BY DEF QueryScore
<1>2. CASE Answer(q, None)
  <2>1. CacheFiled(queryCache') /\ UNCHANGED <<vars, contexts, epc, assigned, expired>>
    BY <1>1, Unmoved DEF engineVars
  <2>2. QED
    BY <1>2, <2>1, AnswerPreserves
<1>3. CASE qpc' = [qpc EXCEPT ![q] = "store"] /\ UNCHANGED <<query, answer, floor>>
  BY <1>1, <1>3, StagePreserves DEF Holding
<1>4. QED
  BY <1>2, <1>3 DEF QueryScore

\* An answer is stored under the epoch of the snapshot that scored it.
LEMMA StorePreserves ==
    ASSUME EngineInv, NEW q \in Queriers, QueryStore(q)
    PROVE  EngineInv'
<1> DEFINE e == query[q].state.epoch
           result == [text |-> query[q].state.text, before |-> query[q].before]
           x == [epoch |-> e, answer |-> result]
<1>1. /\ query[q].state \in State /\ query[q].state.text = e /\ e \in Nat
      /\ e > floor[q].wiped /\ query[q].before \in {e, EmptyText}
  BY QueryFacts DEF QueryStore, GoodQuery, Holding, State
<1>2. /\ queryCache' \in {Append(Without({e}), x), Tail(Append(Without({e}), x))}
      /\ Answer(q, result)
      /\ UNCHANGED <<vars, contexts, epc, assigned, expired>>
  BY DEF QueryStore
<1>3. /\ result \in Result /\ result.text = e /\ GoodAnswer(result)
      /\ x \in Entry /\ x.answer = result /\ x.epoch = e
  BY <1>1 DEF Result, Entry, GoodAnswer
<1> HIDE DEF result, x
<1>4. CacheFiled(queryCache')
  BY <1>2, <1>3, WithoutFiled, AppendFiled DEF EngineInv
<1>5. QED
  BY <1>1, <1>2, <1>3, <1>4, AnswerPreserves

-----------------------------------------------------------------------------
(* The theorems *)

\* The engine starts with nothing remembered and no call under way.
LEMMA EngineInitInv == EngineInit => EngineInv
<1> SUFFICES ASSUME EngineInit PROVE EngineInv
  OBVIOUS
<1>1. IInv /\ wiped = 0 /\ hidden = 0 /\ \A c \in Callers : pc[c] = "idle"
  BY InitIInv, CoordinatorAssumption DEF EngineInit, Init, Threads
<1>2. HidesFirst
  BY <1>1 DEF HidesFirst
<1>3. EngineTypeOK
  BY DEF EngineInit, EngineTypeOK, NoQuery
<1>4. Filed
  BY DEF EngineInit, Filed
<1>5. \A q \in Queriers : GoodQuery(q)
  BY <1>1 DEF EngineInit, GoodQuery, Holding
<1>6. QED
  BY <1>1, <1>2, <1>3, <1>4, <1>5 DEF EngineInv

\* The engine's inductive invariant holds in every reachable state.
THEOREM EngineInvariance == EngineSpec => []EngineInv
<1>1. EngineInit => EngineInv
  BY EngineInitInv
<1>2. EngineInv /\ [EngineNext]_allVars => EngineInv'
  <2> SUFFICES ASSUME EngineInv, [EngineNext]_allVars PROVE EngineInv'
    OBVIOUS
  <2>1. [Next]_vars
    BY EngineStepsCoordinate
  <2>2. CASE EngineWorker \/ UNCHANGED allVars
    BY <2>1, <2>2, Unmoved, EngineSteps DEF EngineWorker, engineVars, allVars
  <2>3. CASE Commit
    BY <2>1, <2>3, Unmoved, EmptyFiled, EngineSteps DEF Commit
  <2>4. ASSUME NEW q \in Queriers, QueryStep(q) PROVE EngineInv'
    BY <2>4, AskPreserves, FallbackPreserves, ContextPreserves, LookupPreserves,
       ScorePreserves, StorePreserves DEF QueryStep
  <2>5. QED
    BY <2>2, <2>3, <2>4, CallerPreserves DEF EngineNext
<1>3. QED
  BY <1>1, <1>2, PTL DEF EngineSpec

\* No answer of the engine, cached or fresh, ranks one epoch's candidates with
\* another epoch's text.
THEOREM AnswersUnmixed == EngineSpec => []AnswersNeverMixEpochs
<1>1. EngineInv => AnswersNeverMixEpochs
  BY DEF EngineInv, GoodQuery, GoodAnswer, AnswersNeverMixEpochs, Answers
<1>2. QED
  BY <1>1, EngineInvariance, PTL

\* A query that begins after a secure reset has returned is never answered from text
\* requested before it.
THEOREM ResetsReachAnswers == EngineSpec => []NoAnswerFromBeforeReset
<1>1. EngineInv => NoAnswerFromBeforeReset
  BY DEF EngineInv, GoodQuery, NoAnswerFromBeforeReset
<1>2. QED
  BY <1>1, EngineInvariance, PTL
=============================================================================
