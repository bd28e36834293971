------------------------- MODULE ContextUpdateBridge -------------------------
(***************************************************************************)
(* ContextUpdateBridge (native/context/context_update_bridge.cc): editor   *)
(* contexts submitted by the capture broker's threads are sent, newest     *)
(* first, to the Python model service by one worker, and the epoch the     *)
(* service reports ready is handed to Rime through EditorContextEpoch.     *)
(*                                                                         *)
(* Modelled with it, because the protocol only makes sense against them:   *)
(* the pipe (requests and replies may be lost, and a request the client    *)
(* has given up on may still be handled later by its pipe thread) and the  *)
(* service's handlers for context_update, context_update_receipt, focus    *)
(* and health, which are serialised by _context_forward_lock, each one     *)
(* step.  The service may be restarted and has other clients.              *)
(*                                                                         *)
(* A captured text is named by the sequence number of its submission, and  *)
(* so is its source revision: a capability's revisions grow with them.     *)
(***************************************************************************)
EXTENDS Naturals, FiniteSets

CONSTANTS
    Sources,            \* source capabilities
    RecoveryAttempts,   \* recovery_attempts, 2 in the code
    MaxSequence,        \* bound on next_sequence_
    MaxIncarnation,     \* bound on service restarts
    MaxOther,           \* bound on the updates of other clients
    None

ASSUME BridgeAssumption ==
    /\ RecoveryAttempts \in Nat
    /\ MaxSequence \in Nat
    /\ MaxIncarnation \in Nat \ {0}
    /\ MaxOther \in Nat

\* What a submission is: text to send, a secure / password / failed capture
\* that needs immediate cleanup, or text that turns out not to be valid UTF-16.
Kinds == {"normal", "secure", "invalid"}

Update == [seq : Nat, kind : Kinds, source : Sources]

\* The types of the requests the worker sends.
RequestTypes == {"context_update", "context_update_receipt", "focus", "health"}

ASSUME NoneAssumption == None \notin Update \cup Nat \cup RequestTypes

VARIABLES
    nextSequence,       \* next_sequence_ and latest_sequence_
    stopping,
    cleanupPending,     \* cleanup_pending_
    pending,            \* pending_
    accepted,           \* EditorContextEpoch::accepted_, with the process it is from
    wpc,                \* where the worker is
    current,            \* the update in Process
    attempts,           \* recovery_attempts left
    request,            \* type of the request the worker waits on, or None
    reply,              \* the transport's answer to it, or None
    assigned            \* the acknowledged epoch and the process that gave it

VARIABLES
    incarnation,        \* the service process
    requested,          \* its newest epoch
    asking,             \* the newest epoch is a request still to be computed
    ready,              \* health's context_epoch
    receipt,            \* _context_update_receipt
    latestRevision,     \* _latest_source_revisions
    network,            \* requests delivered to a pipe thread and not handled yet
    assignments,        \* history: which text each epoch of each process is for
    lastReset           \* history: newest sequence that reset the accepted epoch

queueVars   == <<nextSequence, stopping, cleanupPending, pending>>
workerVars  == <<wpc, current, attempts, request, reply, assigned>>
serviceVars == <<incarnation, requested, asking, ready, receipt, latestRevision>>
historyVars == <<assignments, lastReset>>
vars == <<queueVars, accepted, workerVars, serviceVars, network, historyVars>>

Init ==
    /\ nextSequence = 0
    /\ stopping = FALSE
    /\ cleanupPending = None
    /\ pending = None
    /\ accepted = None
    /\ wpc = "idle"
    /\ current = None
    /\ attempts = 0
    /\ request = None
    /\ reply = None
    /\ assigned = None
    /\ incarnation = 1
    /\ requested = 0
    /\ asking = FALSE
    /\ ready = 0
    /\ receipt = None
    /\ latestRevision = [s \in Sources |-> 0]
    /\ network = {}
    /\ assignments = {}
    /\ lastReset = 0

IsLatest(u) == u.seq = nextSequence
ContextUpdate(u) == u.kind = "normal"      \* SerializedRequest::context_update
-----------------------------------------------------------------------------
(* Broker threads, each call under mutex_.  The receiver in front of them   *)
(* refuses frames of a retired capability; here sources come in any order,  *)
(* which only adds behaviours.                                              *)

NextSequence ==
    /\ nextSequence < MaxSequence
    /\ nextSequence' = nextSequence + 1

Submit(kind, source) ==
    LET u == [seq |-> nextSequence + 1, kind |-> kind, source |-> source]
    IN  /\ ~stopping
        /\ NextSequence
        /\ IF kind = "secure"
           THEN /\ cleanupPending' = u
                /\ pending' = None
                /\ accepted' = None
                /\ lastReset' = nextSequence + 1
           ELSE /\ pending' = u
                /\ UNCHANGED <<cleanupPending, accepted, lastReset>>
        /\ UNCHANGED <<stopping, workerVars, serviceVars, network, assignments>>

Invalidate ==
    /\ NextSequence
    /\ cleanupPending' = None
    /\ pending' = None
    /\ accepted' = None
    /\ lastReset' = nextSequence + 1
    /\ UNCHANGED <<stopping, workerVars, serviceVars, network, assignments>>

Stop ==
    /\ ~stopping
    /\ NextSequence
    /\ stopping' = TRUE
    /\ cleanupPending' = None
    /\ pending' = None
    /\ accepted' = None
    /\ lastReset' = nextSequence + 1
    /\ UNCHANGED <<workerVars, serviceVars, network, assignments>>

-----------------------------------------------------------------------------
(* The worker *)

\* Mutant of WorkerTake: ordinary work before cleanup.
MutantTakePendingFirst ==
    /\ wpc = "idle"
    /\ ~stopping
    /\ wpc' = "begin"
    /\ \/ /\ pending # None
          /\ current' = pending
          /\ pending' = None
          /\ UNCHANGED cleanupPending
       \/ /\ pending = None
          /\ cleanupPending # None
          /\ current' = cleanupPending
          /\ cleanupPending' = None
          /\ UNCHANGED pending
    /\ UNCHANGED <<nextSequence, stopping, accepted, attempts, request, reply, assigned,
                   serviceVars, network, assignments, lastReset>>

\* WorkerLoop: cleanup before ordinary work, exit when stopping.
WorkerTake ==
    /\ wpc = "idle"
    /\ IF stopping
       THEN /\ wpc' = "exited"
            /\ UNCHANGED <<current, cleanupPending, pending>>
       ELSE /\ wpc' = "begin"
            /\ \/ /\ cleanupPending # None
                  /\ current' = cleanupPending
                  /\ cleanupPending' = None
                  /\ UNCHANGED pending
               \/ /\ cleanupPending = None
                  /\ pending # None
                  /\ current' = pending
                  /\ pending' = None
                  /\ UNCHANGED cleanupPending
    /\ UNCHANGED <<nextSequence, stopping, accepted, attempts, request, reply,
                   assigned, serviceVars, network, assignments, lastReset>>

\* Process returns.  The result it reports (last_result_, a diagnostic) is not kept.
Finish ==
    /\ wpc' = "idle"
    /\ current' = None
    /\ attempts' = 0
    /\ request' = None
    /\ reply' = None
    /\ assigned' = None

\* TryQuery: the request is written to the pipe of the running process.
Send(type) ==
    /\ request' = type
    /\ reply' = None
    /\ network' = network \cup {[type |-> type, seq |-> current.seq, source |-> current.source,
                                 attempt |-> attempts', waiting |-> TRUE]}

UpdateRequest == IF ContextUpdate(current) THEN "context_update" ELSE "focus"

\* The head of Process up to the first query.
ProcessBegin ==
    /\ wpc = "begin"
    /\ accepted' = IF ContextUpdate(current) THEN accepted ELSE None
    /\ IF ContextUpdate(current) /\ ~IsLatest(current)
       THEN /\ Finish
            /\ UNCHANGED network
       ELSE /\ wpc' = "update"
            /\ attempts' = RecoveryAttempts
            /\ Send(UpdateRequest)
            /\ UNCHANGED <<current, assigned>>
    /\ UNCHANGED <<queueVars, serviceVars, historyVars>>

\* The query fails: nothing was delivered, or a pipe thread still has the
\* request, or it was handled and its reply is lost.  A late receipt or
\* health request changes nothing and is forgotten.
QueryFails ==
    /\ request # None
    /\ reply = None
    /\ reply' = [ok |-> FALSE]
    /\ LET mine == {m \in network : m.waiting}
           changing == {m \in mine : m.type \in {"context_update", "focus"}}
       IN  \E late \in SUBSET changing :
               network' = (network \ mine) \cup {[m EXCEPT !.waiting = FALSE] : m \in late}
    /\ UNCHANGED <<queueVars, accepted, wpc, current, attempts, request,
                   assigned, serviceVars, historyVars>>

Failed == reply # None /\ ~reply.ok
Superseded == ContextUpdate(current) /\ ~IsLatest(current)

\* wait_for_recovery lets the worker try again.
Recoverable == attempts > 0 /\ ~stopping /\ ~Superseded

\* Mutant of Recover: an attempt is not used up.
MutantRecoverForever ==
    /\ wpc \in {"update", "receipt"}
    /\ Failed
    /\ Recoverable
    /\ UNCHANGED attempts
    /\ wpc' = IF ContextUpdate(current) THEN "receipt" ELSE "update"
    /\ Send(IF ContextUpdate(current) THEN "context_update_receipt" ELSE "focus")
    /\ UNCHANGED <<queueVars, accepted, current, assigned, serviceVars, historyVars>>

\* An update or receipt query failed and is recovered from: an ordinary
\* update asks for its receipt first, a cleanup is simply sent again.
Recover ==
    /\ wpc \in {"update", "receipt"}
    /\ Failed
    /\ Recoverable
    /\ attempts' = attempts - 1
    /\ wpc' = IF ContextUpdate(current) THEN "receipt" ELSE "update"
    /\ Send(IF ContextUpdate(current) THEN "context_update_receipt" ELSE "focus")
    /\ UNCHANGED <<queueVars, accepted, current, assigned, serviceVars,
                   historyVars>>

\* The failure is not recoverable, the attempts are used up or the deadline
\* has passed.
GiveUp ==
    /\ wpc \in {"update", "receipt", "health"}
    /\ Failed
    /\ Finish
    /\ UNCHANGED <<queueVars, accepted, serviceVars, network, historyVars>>

\* The acknowledged epoch, and the process it belongs to, go to the
\* readiness loop.
Acknowledge ==
    /\ wpc' = "health"
    /\ assigned' = [epoch |-> reply.epoch, incarnation |-> reply.incarnation]
    /\ request' = None
    /\ reply' = None
    /\ UNCHANGED <<current, attempts>>

Answered == reply # None /\ reply.ok

\* The receipt says whether the service took the update: go on with its
\* epoch, or send the original bytes again if there is still time.
ReceiptReply ==
    /\ wpc = "receipt"
    /\ Answered
    /\ IF ~Superseded /\ reply.accepted
       THEN Acknowledge /\ UNCHANGED network
       ELSE \/ Finish /\ UNCHANGED network
            \/ /\ ~Superseded
               /\ wpc' = "update"
               /\ UNCHANGED <<current, attempts, assigned>>
               /\ Send("context_update")
    /\ UNCHANGED <<queueVars, accepted, serviceVars, historyVars>>

\* The reply to the update itself; a cleanup ends with it either way.
UpdateReply ==
    /\ wpc = "update"
    /\ Answered
    /\ IF ContextUpdate(current) /\ ~Superseded /\ reply.accepted
       THEN Acknowledge
       ELSE Finish
    /\ UNCHANGED <<queueVars, accepted, serviceVars, network, historyVars>>

\* The readiness loop asks health, unless superseded or out of time.
PollHealth ==
    /\ wpc = "health"
    /\ request = None
    /\ IsLatest(current)
    /\ UNCHANGED attempts
    /\ Send("health")
    /\ UNCHANGED <<queueVars, accepted, wpc, current, assigned, serviceVars,
                   historyVars>>

LeaveHealth ==
    /\ wpc = "health"
    /\ request = None
    /\ Finish
    /\ UNCHANGED <<queueVars, accepted, serviceVars, network, historyVars>>

\* A failed health query is polled again while attempts last.
RecoverHealth ==
    /\ wpc = "health"
    /\ Failed
    /\ Recoverable
    /\ attempts' = attempts - 1
    /\ request' = None
    /\ reply' = None
    /\ UNCHANGED <<queueVars, accepted, wpc, current, assigned, serviceVars,
                   network, historyVars>>

\* Mutant of Ready: epochs of different processes are compared.
MutantReadyAnyProcess == reply.epoch = assigned.epoch

Ready == reply.incarnation = assigned.incarnation /\ reply.epoch = assigned.epoch

\* Another process answered, or a newer epoch is ready: superseded.  Not
\* ready yet: poll again.
HealthReply ==
    /\ wpc = "health"
    /\ Answered
    /\ ~Ready
    /\ IF reply.incarnation # assigned.incarnation \/ reply.epoch > assigned.epoch
       THEN Finish
       ELSE /\ request' = None
            /\ reply' = None
            /\ UNCHANGED <<wpc, current, attempts, assigned>>
    /\ UNCHANGED <<queueVars, accepted, serviceVars, network, historyVars>>

\* Mutant of PublishReady: no check for a newer sequence.
MutantPublishUnchecked ==
    /\ wpc = "health"
    /\ Answered
    /\ Ready
    /\ accepted' = [epoch |-> assigned.epoch, seq |-> current.seq,
                    incarnation |-> reply.incarnation]
    /\ Finish
    /\ UNCHANGED <<queueVars, serviceVars, network, historyVars>>

\* The assigned epoch is ready: publish it if still the latest, under mutex_.
PublishReady ==
    /\ wpc = "health"
    /\ Answered
    /\ Ready
    /\ accepted' = IF stopping \/ ~IsLatest(current)
                   THEN accepted
                   ELSE [epoch |-> assigned.epoch, seq |-> current.seq,
                         incarnation |-> reply.incarnation]
    /\ Finish
    /\ UNCHANGED <<queueVars, serviceVars, network, historyVars>>

-----------------------------------------------------------------------------
(* The service *)

\* A pipe thread answers m; the reply may be lost, and nobody waits for the
\* reply to a request that was given up on.
Respond(m, r) ==
    /\ network' = network \ {m}
    /\ reply' \in IF m.waiting THEN {r, None} ELSE {reply}
    /\ UNCHANGED <<queueVars, accepted, wpc, current, attempts, request, assigned,
                   lastReset>>

Reply(ok, epoch) ==
    [ok |-> TRUE, accepted |-> ok, epoch |-> epoch, incarnation |-> incarnation]

\* Mutant of IsStale: the same revision counts as new.
MutantStaleStrict(m) == m.seq < latestRevision[m.source]

\* _is_stale_context_update for an update with a source binding.
IsStale(m) == m.seq <= latestRevision[m.source]

\* The engine takes a request: it draws the next epoch and starts computing.
TakeRequest(seq) ==
    /\ requested' = requested + 1
    /\ asking' = TRUE
    /\ receipt' = [seq |-> seq, epoch |-> requested + 1]
    /\ assignments' = assignments \cup
            {[incarnation |-> incarnation, epoch |-> requested + 1, seq |-> seq]}
    /\ UNCHANGED <<incarnation, ready>>

\* _handle_context_update
HandleUpdate(m) ==
    /\ m.type = "context_update"
    /\ IF IsStale(m)
       THEN /\ Respond(m, Reply(FALSE, requested))
            /\ UNCHANGED <<serviceVars, assignments>>
       ELSE /\ TakeRequest(m.seq)
            /\ latestRevision' = [latestRevision EXCEPT ![m.source] = m.seq]
            /\ Respond(m, Reply(TRUE, requested + 1))

\* _handle_context_update_receipt
HandleReceipt(m) ==
    LET matched == receipt # None /\ receipt.seq = m.seq
    IN  /\ m.type = "context_update_receipt"
        /\ Respond(m, Reply(matched, IF matched THEN receipt.epoch ELSE 0))
        /\ UNCHANGED <<serviceVars, assignments>>

\* _handle_focus with secure set; the wipe may raise, which is reported as an
\* internal error.
HandleFocus(m) ==
    /\ m.type = "focus"
    /\ receipt' = None
    /\ requested' = requested + 1
    /\ asking' = FALSE
    /\ ready' = 0
    /\ \E cleaned \in BOOLEAN : Respond(m, Reply(cleaned, 0))
    /\ UNCHANGED <<incarnation, latestRevision, assignments>>

\* _handle_health
HandleHealth(m) ==
    /\ m.type = "health"
    /\ Respond(m, Reply(TRUE, ready))
    /\ UNCHANGED <<serviceVars, assignments>>

bridgeVars == <<queueVars, accepted, workerVars, lastReset>>

\* The newest request has been computed, or has failed.
ForwardEnds ==
    /\ asking
    /\ asking' = FALSE
    /\ ready' \in {ready, requested}
    /\ UNCHANGED <<incarnation, requested, receipt, latestRevision, network, assignments,
                   bridgeVars>>

\* Another client of the service updates the context.
OtherUpdate ==
    /\ Cardinality({a \in assignments : a.seq = 0}) < MaxOther
    /\ TakeRequest(0)
    /\ UNCHANGED <<latestRevision, network, bridgeVars>>

\* The service process dies and a new one takes its place.
Restart ==
    /\ incarnation < MaxIncarnation
    /\ incarnation' = incarnation + 1
    /\ requested' = 0
    /\ asking' = FALSE
    /\ ready' = 0
    /\ receipt' = None
    /\ latestRevision' = [s \in Sources |-> 0]
    /\ network' = {}
    /\ UNCHANGED <<assignments, bridgeVars>>

-----------------------------------------------------------------------------
Broker ==
    \/ \E kind \in Kinds, source \in Sources : Submit(kind, source)
    \/ Invalidate
    \/ Stop

Worker ==
    \/ WorkerTake
    \/ ProcessBegin
    \/ Recover
    \/ GiveUp
    \/ ReceiptReply
    \/ UpdateReply
    \/ PollHealth
    \/ LeaveHealth
    \/ RecoverHealth
    \/ HealthReply
    \/ PublishReady

Handle(m) == HandleUpdate(m) \/ HandleReceipt(m) \/ HandleFocus(m) \/ HandleHealth(m)

Service == (\E m \in network : Handle(m)) \/ ForwardEnds \/ OtherUpdate \/ Restart

Next == Broker \/ Worker \/ QueryFails \/ Service

Spec == Init /\ [][Next]_vars

\* The worker thread runs, a query ends by its timeout, and the readiness
\* deadline ends polling.  Nothing is assumed of the broker or the service.
Fairness ==
    /\ WF_vars(Worker)
    /\ WF_vars(QueryFails)
    /\ SF_vars(LeaveHealth)

FairSpec == Spec /\ Fairness

-----------------------------------------------------------------------------
(* Properties *)

Request == [type : RequestTypes,
            seq : Nat, source : Sources, attempt : Nat, waiting : BOOLEAN]

Answer == [ok : {FALSE}]
            \cup [ok : {TRUE}, accepted : BOOLEAN, epoch : Nat, incarnation : Nat]

\* Type correctness of the bridge, the pipe and the service.
TypeOK ==
    /\ nextSequence \in Nat
    /\ stopping \in BOOLEAN
    /\ cleanupPending \in Update \cup {None}
    /\ pending \in Update \cup {None}
    /\ accepted \in [epoch : Nat, seq : Nat, incarnation : Nat] \cup {None}
    /\ wpc \in {"idle", "begin", "update", "receipt", "health", "exited"}
    /\ current \in Update \cup {None}
    /\ attempts \in Nat
    /\ request \in RequestTypes \cup {None}
    /\ reply \in Answer \cup {None}
    /\ assigned \in [epoch : Nat, incarnation : Nat] \cup {None}
    /\ incarnation \in Nat
    /\ requested \in Nat
    /\ asking \in BOOLEAN
    /\ ready \in Nat
    /\ receipt \in [seq : Nat, epoch : Nat] \cup {None}
    /\ latestRevision \in [Sources -> Nat]
    /\ network \subseteq Request
    /\ assignments \subseteq [incarnation : Nat, epoch : Nat, seq : Nat]
    /\ lastReset \in Nat

\* The epoch Rime is given belongs to the very text of the submission it is
\* published for, in the process that reported it ready: not to a coincident
\* epoch of a restarted service, not to another client's update, not to a
\* receipt of an earlier update.
AcceptedNamesItsText ==
    accepted # None =>
        [incarnation |-> accepted.incarnation, epoch |-> accepted.epoch, seq |-> accepted.seq]
            \in assignments

\* Once a secure submission, an invalidation or a stop has reset the accepted
\* epoch, no handshake that was under way before it can publish again.
NothingPublishedSinceReset == accepted # None => accepted.seq > lastReset

\* However often an update is resent, recovered through its receipt or
\* handled late, one service process computes it at most once.
ModelUpdatedOnce ==
    \A a, b \in assignments :
        a.incarnation = b.incarnation /\ a.seq = b.seq /\ a.seq # 0 => a.epoch = b.epoch

\* A queued cleanup is never overtaken by a newer ordinary update.
CleanupGoesFirst ==
    cleanupPending # None /\ current # None /\ current.kind # "secure"
        => cleanupPending.seq > current.seq

\* Every handshake ends: recovery is bounded and the deadline ends polling.
WorkSettles == current # None ~> current = None

\* Stop joins: the worker exits whatever it was waiting for.
StopTerminates == stopping ~> wpc = "exited"
=============================================================================
