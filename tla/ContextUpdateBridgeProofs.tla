---------------------- MODULE ContextUpdateBridgeProofs ----------------------
(***************************************************************************)
(* The safety of ContextUpdateBridge for any number of sources, recovery   *)
(* attempts, submissions, service restarts and updates of other clients.   *)
(*                                                                         *)
(* The argument: a sequence number belongs to one submission and so to one *)
(* source, and it is never the number of a reset.  The worker waits for at *)
(* most one request, which carries the number of the update in Process, so *)
(* an accepting reply names an epoch the service assigned to that update.  *)
(***************************************************************************)
EXTENDS ContextUpdateBridge, TLAPS

\* The updates the bridge holds.
Held == {pending, cleanupPending, current} \ {None}

\* What the worker has at each point of Process.
Control ==
    /\ current = None <=> wpc \in {"idle", "exited"}
    /\ wpc \in {"idle", "exited", "begin"} => request = None
    /\ wpc = "update" => request = UpdateRequest
    /\ wpc = "receipt" => request = "context_update_receipt" /\ ContextUpdate(current)
    /\ wpc = "health" => ContextUpdate(current) /\ assigned \in [epoch : Nat, incarnation : Nat]
    /\ request = None => reply = None

\* Sequence numbers are drawn once, by a submission or by a reset.
Numbers ==
    /\ lastReset <= nextSequence
    /\ \A u \in Held : u.seq > 0 /\ u.seq <= nextSequence
    /\ \A u \in Held : u.seq = lastReset => u.kind = "secure"
    /\ \A u, v \in Held : u.seq = v.seq => u = v
    /\ cleanupPending # None => cleanupPending.kind = "secure"

\* The requests in the pipe: at most one is waited for, and it is about the
\* update in Process; a number names one source.
Messages ==
    /\ \A m \in network : m.seq <= nextSequence
    /\ \A m \in network : m.waiting => /\ request = m.type
                                       /\ reply = None
                                       /\ current # None
                                       /\ m.seq = current.seq
    /\ \A m, n \in network : m.waiting /\ n.waiting => m = n
    /\ \A m, n \in network : m.seq = n.seq => m.source = n.source
    /\ \A m \in network, u \in Held : m.seq = u.seq => m.source = u.source

\* The epochs of service processes, and the revisions that keep an update of
\* the running process from being taken again.
Epochs ==
    /\ \A a \in assignments : a.incarnation <= incarnation /\ a.seq <= nextSequence
    /\ \A a \in assignments : a.incarnation = incarnation /\ a.seq # 0 =>
            \A u \in Held \cup network : u.seq = a.seq => a.seq <= latestRevision[u.source]
    /\ receipt # None =>
            [incarnation |-> incarnation, epoch |-> receipt.epoch, seq |-> receipt.seq]
                \in assignments

Assigned(r) == [incarnation |-> r.incarnation, epoch |-> r.epoch, seq |-> current.seq]

\* What the worker was told about its update.
Acknowledged ==
    /\ wpc \in {"update", "receipt"} /\ ContextUpdate(current) /\ Answered /\ reply.accepted
            => Assigned(reply) \in assignments
    /\ wpc = "health" => Assigned(assigned) \in assignments

\* What the bridge promises.
Promised ==
    /\ AcceptedNamesItsText
    /\ NothingPublishedSinceReset
    /\ ModelUpdatedOnce
    /\ CleanupGoesFirst

Protocol ==
    /\ Control
    /\ Numbers
    /\ Messages
    /\ Epochs
    /\ Acknowledged
    /\ Promised

\* The inductive invariant.
BridgeInv == TypeOK /\ Protocol

USE DEF queueVars, workerVars, serviceVars, historyVars, bridgeVars, Answered, Failed,
        IsLatest, ContextUpdate, UpdateRequest, Superseded, Held, Assigned

-----------------------------------------------------------------------------
(* Type correctness *)

\* The request the worker writes is a request about the update in Process.
LEMMA SendTyped ==
    ASSUME TypeOK, current # None, attempts' \in Nat, NEW type \in RequestTypes, Send(type)
    PROVE  network' \subseteq Request /\ request' \in RequestTypes /\ reply' = None
<1>1. current.seq \in Nat /\ current.source \in Sources
  BY DEF TypeOK, Update
<1>2. [type |-> type, seq |-> current.seq, source |-> current.source,
       attempt |-> attempts', waiting |-> TRUE] \in Request
  BY <1>1 DEF Request
<1>3. QED
  BY <1>2 DEF Send, TypeOK

\* A service's answer is an answer.
LEMMA ReplyTyped ==
    ASSUME TypeOK, NEW ok \in BOOLEAN, NEW e \in Nat
    PROVE  Reply(ok, e) \in Answer
BY DEF TypeOK, Reply, Answer

\* So is what the worker is left with after a response.
LEMMA RespondTyped ==
    ASSUME TypeOK, NEW m, NEW r \in Answer, Respond(m, r)
    PROVE  network' \subseteq Request /\ reply' \in Answer \cup {None}
BY DEF TypeOK, Respond

\* An accepting answer carries an epoch and its process.
LEMMA AnswerFields ==
    ASSUME TypeOK, Answered
    PROVE  reply.accepted \in BOOLEAN /\ reply.epoch \in Nat /\ reply.incarnation \in Nat
BY NoneAssumption DEF TypeOK, Answer

\* The broker's calls preserve the types.
LEMMA BrokerTyped ==
    ASSUME BridgeInv, Broker
    PROVE  TypeOK'
<1>1. ASSUME NEW k \in Kinds, NEW s \in Sources, Submit(k, s) PROVE TypeOK'
  <2>1. [seq |-> nextSequence + 1, kind |-> k, source |-> s] \in Update
    BY DEF BridgeInv, TypeOK, Update
  <2>2. QED
    BY <1>1, <2>1 DEF BridgeInv, TypeOK, Submit, NextSequence
<1>2. CASE Invalidate
  BY <1>2 DEF BridgeInv, TypeOK, Invalidate, NextSequence
<1>3. CASE Stop
  BY <1>3 DEF BridgeInv, TypeOK, Stop, NextSequence
<1>4. QED
  BY <1>1, <1>2, <1>3 DEF Broker

\* The worker's steps preserve the types.
LEMMA WorkerTyped ==
    ASSUME BridgeInv, Worker
    PROVE  TypeOK'
<1>1. CASE WorkerTake
  BY <1>1 DEF BridgeInv, TypeOK, WorkerTake
<1>2. CASE ProcessBegin
  <2>1. current # None
    BY <1>2 DEF ProcessBegin, BridgeInv, Protocol, Control
  <2>2. UpdateRequest \in RequestTypes
    BY DEF RequestTypes
  <2>3. CASE wpc' = "update"
    <3>1. Send(UpdateRequest) /\ attempts' = RecoveryAttempts
          /\ UNCHANGED <<current, assigned>>
      BY <1>2, <2>3 DEF ProcessBegin, Finish
    <3>2. network' \subseteq Request /\ request' \in RequestTypes /\ reply' = None
      BY <2>1, <2>2, <3>1, SendTyped, BridgeAssumption DEF BridgeInv
    <3>3. QED
      BY <1>2, <2>3, <3>1, <3>2, BridgeAssumption DEF BridgeInv, TypeOK, ProcessBegin
  <2>4. CASE Finish /\ UNCHANGED network
    BY <1>2, <2>4 DEF BridgeInv, TypeOK, ProcessBegin, Finish
  <2>5. QED
    BY <1>2, <2>3, <2>4 DEF ProcessBegin
<1>3. CASE Recover
  <2>1. current # None
    BY <1>3 DEF Recover, BridgeInv, Protocol, Control
  <2>2. attempts' \in Nat
    BY <1>3 DEF Recover, Recoverable, BridgeInv, TypeOK
  <2>3. network' \subseteq Request /\ request' \in RequestTypes /\ reply' = None
    BY <1>3, <2>1, <2>2, SendTyped DEF Recover, BridgeInv, RequestTypes
  <2>4. QED
    BY <1>3, <2>2, <2>3 DEF BridgeInv, TypeOK, Recover
<1>4. CASE GiveUp
  BY <1>4 DEF BridgeInv, TypeOK, GiveUp, Finish
<1>5. CASE ReceiptReply
  <2>1. current # None
    BY <1>5 DEF ReceiptReply, BridgeInv, Protocol, Control
  <2>2. CASE Finish /\ UNCHANGED network
    BY <1>5, <2>2 DEF BridgeInv, TypeOK, ReceiptReply, Finish
  <2>3. CASE Acknowledge /\ UNCHANGED network
    BY <1>5, <2>3, AnswerFields DEF BridgeInv, TypeOK, ReceiptReply, Acknowledge
  <2>4. CASE wpc' = "update" /\ UNCHANGED <<current, attempts, assigned>>
             /\ Send("context_update")
    <3>1. network' \subseteq Request /\ request' \in RequestTypes /\ reply' = None
      BY <2>1, <2>4, SendTyped DEF BridgeInv, TypeOK, RequestTypes
    <3>2. QED
      BY <1>5, <2>4, <3>1 DEF BridgeInv, TypeOK, ReceiptReply
  <2>5. QED
    BY <1>5, <2>2, <2>3, <2>4 DEF ReceiptReply
<1>6. CASE UpdateReply
  <2>1. CASE Finish
    BY <1>6, <2>1 DEF BridgeInv, TypeOK, UpdateReply, Finish
  <2>2. CASE Acknowledge
    BY <1>6, <2>2, AnswerFields DEF BridgeInv, TypeOK, UpdateReply, Acknowledge
  <2>3. QED
    BY <1>6, <2>1, <2>2 DEF UpdateReply
<1>7. CASE PollHealth
  <2>1. current # None
    BY <1>7 DEF PollHealth, BridgeInv, Protocol, Control
  <2>2. network' \subseteq Request /\ request' \in RequestTypes /\ reply' = None
    BY <1>7, <2>1, SendTyped DEF PollHealth, BridgeInv, TypeOK, RequestTypes
  <2>3. QED
    BY <1>7, <2>2 DEF BridgeInv, TypeOK, PollHealth
<1>8. CASE LeaveHealth
  BY <1>8 DEF BridgeInv, TypeOK, LeaveHealth, Finish
<1>9. CASE RecoverHealth
  BY <1>9 DEF BridgeInv, TypeOK, RecoverHealth, Recoverable
<1>10. CASE HealthReply
  BY <1>10 DEF BridgeInv, TypeOK, HealthReply, Finish
<1>11. CASE PublishReady
  <2>1. assigned.epoch \in Nat /\ current # None
    BY <1>11 DEF PublishReady, BridgeInv, Protocol, Control
  <2>2. reply.incarnation \in Nat /\ assigned.epoch \in Nat /\ current.seq \in Nat
    BY <1>11, <2>1, AnswerFields DEF PublishReady, BridgeInv, TypeOK, Update
  <2>3. accepted' \in [epoch : Nat, seq : Nat, incarnation : Nat] \cup {None}
    BY <1>11, <2>2 DEF PublishReady, BridgeInv, TypeOK
  <2>4. QED
    BY <1>11, <2>3 DEF BridgeInv, TypeOK, PublishReady, Finish
<1>12. QED
  BY <1>1, <1>2, <1>3, <1>4, <1>5, <1>6, <1>7, <1>8, <1>9, <1>10, <1>11 DEF Worker

\* A query that fails preserves the types.
LEMMA FailTyped ==
    ASSUME BridgeInv, QueryFails
    PROVE  TypeOK'
<1>1. reply' \in Answer
  BY DEF QueryFails, Answer
<1>2. network' \subseteq Request
  <2> DEFINE mine == {m \in network : m.waiting}
             changing == {m \in mine : m.type \in {"context_update", "focus"}}
  <2>1. PICK late \in SUBSET changing :
            network' = (network \ mine) \cup {[m EXCEPT !.waiting = FALSE] : m \in late}
    BY DEF QueryFails
  <2>2. \A m \in Request : [m EXCEPT !.waiting = FALSE] \in Request
    BY DEF Request
  <2>3. network \subseteq Request
    BY DEF BridgeInv, TypeOK
  <2>4. QED
    BY <2>1, <2>2, <2>3
<1>3. QED
  BY <1>1, <1>2 DEF BridgeInv, TypeOK, QueryFails

\* So does a step that changes nothing.
LEMMA StutterTyped ==
    ASSUME TypeOK, UNCHANGED vars
    PROVE  TypeOK'
BY DEF vars, TypeOK

\* The service's steps preserve the types.
LEMMA ServiceTyped ==
    ASSUME BridgeInv, Service
    PROVE  TypeOK'
<1>1. ASSUME NEW m \in network, HandleUpdate(m) PROVE TypeOK'
  <2>1. m.seq \in Nat /\ m.source \in Sources
    BY DEF BridgeInv, TypeOK, Request
  <2>2. network' \subseteq Request /\ reply' \in Answer \cup {None}
    <3>1. TypeOK /\ requested \in Nat /\ requested + 1 \in Nat
      BY DEF BridgeInv, TypeOK
    <3>2. Reply(FALSE, requested) \in Answer /\ Reply(TRUE, requested + 1) \in Answer
      BY <3>1, ReplyTyped
    <3>3. QED
      BY <1>1, <3>2, RespondTyped DEF HandleUpdate, BridgeInv
  <2>3. CASE IsStale(m)
    BY <1>1, <2>2, <2>3 DEF BridgeInv, TypeOK, HandleUpdate, Respond
  <2>4. CASE ~IsStale(m)
    BY <1>1, <2>1, <2>2, <2>4 DEF BridgeInv, TypeOK, HandleUpdate, Respond, TakeRequest
  <2>5. QED
    BY <2>3, <2>4
<1>2. ASSUME NEW m \in network, HandleReceipt(m) PROVE TypeOK'
  <2> DEFINE matched == receipt # None /\ receipt.seq = m.seq
  <2>1. (IF matched THEN receipt.epoch ELSE 0) \in Nat
    BY DEF BridgeInv, TypeOK
  <2>2. network' \subseteq Request /\ reply' \in Answer \cup {None}
    <3>1. Reply(matched, IF matched THEN receipt.epoch ELSE 0) \in Answer
      BY <2>1, ReplyTyped DEF BridgeInv
    <3>2. QED
      BY <1>2, <3>1, RespondTyped DEF HandleReceipt, BridgeInv
  <2>3. QED
    BY <1>2, <2>2 DEF BridgeInv, TypeOK, HandleReceipt, Respond
<1>3. ASSUME NEW m \in network, HandleFocus(m) PROVE TypeOK'
  <2>1. \A ok \in BOOLEAN : Reply(ok, 0) \in Answer
    BY ReplyTyped DEF BridgeInv
  <2>2. network' \subseteq Request /\ reply' \in Answer \cup {None}
    BY <1>3, <2>1, RespondTyped DEF HandleFocus, BridgeInv
  <2>3. UNCHANGED <<queueVars, accepted, wpc, current, attempts, request, assigned,
                    lastReset, incarnation, latestRevision, assignments>>
    BY <1>3 DEF HandleFocus, Respond
  <2>4. receipt' = None /\ requested' \in Nat /\ asking' = FALSE /\ ready' = 0
    BY <1>3 DEF HandleFocus, BridgeInv, TypeOK
  <2>5. QED
    BY <2>2, <2>3, <2>4 DEF BridgeInv, TypeOK
<1>4. ASSUME NEW m \in network, HandleHealth(m) PROVE TypeOK'
  <2>1. Reply(TRUE, ready) \in Answer
    BY ReplyTyped DEF BridgeInv, TypeOK
  <2>2. network' \subseteq Request /\ reply' \in Answer \cup {None}
    BY <1>4, <2>1, RespondTyped DEF HandleHealth, BridgeInv
  <2>3. QED
    BY <1>4, <2>2 DEF BridgeInv, TypeOK, HandleHealth, Respond
<1>5. CASE ForwardEnds
  <2>1. asking' \in BOOLEAN /\ ready' \in Nat
    BY <1>5 DEF BridgeInv, TypeOK, ForwardEnds
  <2>2. UNCHANGED <<incarnation, requested, receipt, latestRevision, network, assignments,
                    queueVars, accepted, workerVars, lastReset>>
    BY <1>5, Zenon DEF ForwardEnds
  <2>3. QED
    BY <2>1, <2>2 DEF BridgeInv, TypeOK
<1>6. CASE OtherUpdate
  BY <1>6 DEF BridgeInv, TypeOK, OtherUpdate, TakeRequest
<1>7. CASE Restart
  <2>1. incarnation' \in Nat /\ latestRevision' \in [Sources -> Nat] /\ network' = {}
    BY <1>7 DEF Restart, BridgeInv, TypeOK
  <2>2. QED
    BY <1>7, <2>1 DEF BridgeInv, TypeOK, Restart
<1>8. QED
  BY <1>1, <1>2, <1>3, <1>4, <1>5, <1>6, <1>7 DEF Service, Handle

-----------------------------------------------------------------------------
(* The protocol *)

USE DEF Update, Kinds, Request, RequestTypes, Answer

\* The invariant holds before the first submission.
LEMMA InitInv == Init => BridgeInv
<1> SUFFICES ASSUME Init PROVE BridgeInv
  OBVIOUS
<1>1. TypeOK
  BY NoneAssumption, BridgeAssumption DEF Init, TypeOK
<1>2. Protocol
  BY NoneAssumption DEF Init, Protocol, Promised, Control, Numbers, Messages, Epochs,
     Acknowledged, AcceptedNamesItsText, NothingPublishedSinceReset, ModelUpdatedOnce,
     CleanupGoesFirst
<1>3. QED
  BY <1>1, <1>2 DEF BridgeInv

\* Unless the worker waits for a reply, nothing in the pipe is waited for.
LEMMA NothingAwaited ==
    ASSUME BridgeInv, request = None \/ reply # None, NEW m \in network
    PROVE  m.waiting = FALSE
<1>1. m.type # None /\ m.waiting \in BOOLEAN
  BY NoneAssumption DEF BridgeInv, TypeOK
<1>2. m.waiting => request = m.type /\ reply = None
  BY DEF BridgeInv, Protocol, Messages
<1>3. QED
  BY <1>1, <1>2

\* The worker sends only when nothing is waited for, and about its update.
LEMMA SendMessages ==
    ASSUME BridgeInv, current # None, request = None \/ reply # None,
           NEW type, Send(type), UNCHANGED <<queueVars, current>>
    PROVE  Messages'
<1> DEFINE new == [type |-> type, seq |-> current.seq, source |-> current.source,
                   attempt |-> attempts', waiting |-> TRUE]
<1>1. /\ network' = network \cup {new}
      /\ request' = type /\ reply' = None
      /\ UNCHANGED <<nextSequence, pending, cleanupPending, current>>
  BY DEF Send
<1>2. \A m \in network : m.waiting = FALSE
  BY NothingAwaited
<1>3. /\ new.seq = current.seq /\ new.source = current.source /\ new.waiting = TRUE
      /\ new.type = type
  OBVIOUS
<1>4. current \in Held
  OBVIOUS
<1> HIDE DEF new
<1>5. current.seq <= nextSequence
  BY <1>4 DEF BridgeInv, Protocol, Numbers
<1>6. \A u \in Held : u.seq = current.seq => u = current
  BY <1>4 DEF BridgeInv, Protocol, Numbers
<1>7. Held' = Held
  BY <1>1
<1>8. \A m \in network' : m.seq <= nextSequence'
  BY <1>1, <1>3, <1>5 DEF BridgeInv, Protocol, Messages
<1>9. \A m \in network' : m.waiting => m = new
  BY <1>1, <1>2
<1>10. \A m, n \in network' : m.seq = n.seq => m.source = n.source
  BY <1>1, <1>3, <1>4 DEF BridgeInv, Protocol, Messages
<1>11. \A m \in network', u \in Held' : m.seq = u.seq => m.source = u.source
  BY <1>1, <1>3, <1>6, <1>7 DEF BridgeInv, Protocol, Messages
<1>12. QED
  BY <1>1, <1>3, <1>8, <1>9, <1>10, <1>11 DEF Messages

\* A submission draws a number nobody has.
LEMMA SubmitPreserves ==
    ASSUME BridgeInv, NEW k \in Kinds, NEW s \in Sources, Submit(k, s)
    PROVE  Protocol'
BY NoneAssumption DEF BridgeInv, TypeOK, Protocol, Promised, Control, Numbers, Messages,
   Epochs, Acknowledged, AcceptedNamesItsText, NothingPublishedSinceReset,
   ModelUpdatedOnce, CleanupGoesFirst, Submit, NextSequence

\* A reset draws a number no update has.
LEMMA InvalidatePreserves ==
    ASSUME BridgeInv, Invalidate
    PROVE  Protocol'
BY NoneAssumption DEF BridgeInv, TypeOK, Protocol, Promised, Control, Numbers, Messages,
   Epochs, Acknowledged, AcceptedNamesItsText, NothingPublishedSinceReset,
   ModelUpdatedOnce, CleanupGoesFirst, Invalidate, NextSequence

\* So does a stop.
LEMMA StopPreserves ==
    ASSUME BridgeInv, Stop
    PROVE  Protocol'
BY NoneAssumption DEF BridgeInv, TypeOK, Protocol, Promised, Control, Numbers, Messages,
   Epochs, Acknowledged, AcceptedNamesItsText, NothingPublishedSinceReset,
   ModelUpdatedOnce, CleanupGoesFirst, Stop, NextSequence

\* The worker takes the cleanup first.
LEMMA TakePreserves ==
    ASSUME BridgeInv, WorkerTake
    PROVE  Protocol'
BY NoneAssumption DEF BridgeInv, TypeOK, Protocol, Promised, Control, Numbers, Messages,
   Epochs, Acknowledged, AcceptedNamesItsText, NothingPublishedSinceReset,
   ModelUpdatedOnce, CleanupGoesFirst, WorkerTake

\* The first request of a handshake.
LEMMA BeginPreserves ==
    ASSUME BridgeInv, ProcessBegin
    PROVE  Protocol'
<1>1. current # None /\ request = None
  BY DEF BridgeInv, Protocol, Control, ProcessBegin
<1>2. CASE wpc' = "idle"
  BY <1>2, NoneAssumption DEF BridgeInv, TypeOK, Protocol, Promised, Control, Numbers,
     Messages, Epochs, Acknowledged, AcceptedNamesItsText, NothingPublishedSinceReset,
     ModelUpdatedOnce, CleanupGoesFirst, ProcessBegin, Finish, Send
<1>3. CASE wpc' = "update"
  <2>1. Send(UpdateRequest) /\ UNCHANGED <<queueVars, current>>
    BY <1>3 DEF ProcessBegin, Finish
  <2>2. Messages'
    BY <1>1, <2>1, SendMessages
  <2>3. Control' /\ Numbers' /\ Promised'
    BY <1>3, NoneAssumption
       DEF BridgeInv, TypeOK, Protocol, Promised, Control, Numbers, AcceptedNamesItsText,
           NothingPublishedSinceReset, ModelUpdatedOnce, CleanupGoesFirst, ProcessBegin,
           Finish, Send
  <2>4. Epochs' /\ Acknowledged'
    BY <1>1, <1>3, <2>1, NoneAssumption
       DEF BridgeInv, TypeOK, Protocol, Control, Epochs, Acknowledged, ProcessBegin, Send
  <2>5. QED
    BY <2>2, <2>3, <2>4 DEF Protocol
<1>4. QED
  BY <1>2, <1>3 DEF ProcessBegin, Finish

\* A failed query is waited for no longer.
LEMMA FailPreserves ==
    ASSUME BridgeInv, QueryFails
    PROVE  Protocol'
BY NoneAssumption DEF BridgeInv, TypeOK, Protocol, Promised, Control, Numbers, Messages,
   Epochs, Acknowledged, AcceptedNamesItsText, NothingPublishedSinceReset,
   ModelUpdatedOnce, CleanupGoesFirst, QueryFails

\* Recovery sends about the same update.
LEMMA RecoverPreserves ==
    ASSUME BridgeInv, Recover
    PROVE  Protocol'
<1>1. current # None /\ reply # None
  BY DEF BridgeInv, Protocol, Control, Recover
<1>2. PICK type \in RequestTypes : Send(type)
  BY DEF Recover
<1>3. Messages'
  BY <1>1, <1>2, SendMessages DEF Recover
<1>4. Control' /\ Numbers' /\ Promised'
  BY NoneAssumption
     DEF BridgeInv, TypeOK, Protocol, Promised, Control, Numbers, AcceptedNamesItsText,
         NothingPublishedSinceReset, ModelUpdatedOnce, CleanupGoesFirst, Recover, Send
<1>5. Epochs' /\ Acknowledged'
  BY <1>1, NoneAssumption
     DEF BridgeInv, TypeOK, Protocol, Control, Epochs, Acknowledged, Recover, Send
<1>6. QED
  BY <1>3, <1>4, <1>5 DEF Protocol

\* Giving up.
LEMMA GiveUpPreserves ==
    ASSUME BridgeInv, GiveUp
    PROVE  Protocol'
BY NoneAssumption DEF BridgeInv, TypeOK, Protocol, Promised, Control, Numbers, Messages,
   Epochs, Acknowledged, AcceptedNamesItsText, NothingPublishedSinceReset,
   ModelUpdatedOnce, CleanupGoesFirst, GiveUp, Finish

\* An accepting receipt names the update's epoch.
LEMMA ReceiptPreserves ==
    ASSUME BridgeInv, ReceiptReply
    PROVE  Protocol'
<1>1. current # None /\ reply # None
  BY DEF BridgeInv, Protocol, Control, ReceiptReply
<1>2. CASE UNCHANGED network /\ (Finish \/ (~Superseded /\ reply.accepted /\ Acknowledge))
  BY <1>1, <1>2, AnswerFields, NoneAssumption DEF BridgeInv, TypeOK, Protocol, Promised,
     Control, Numbers, Messages, Epochs, Acknowledged, AcceptedNamesItsText,
     NothingPublishedSinceReset, ModelUpdatedOnce, CleanupGoesFirst, ReceiptReply,
     Acknowledge, Finish
<1>3. CASE wpc' = "update" /\ Send("context_update") /\ UNCHANGED <<current, assigned>>
  <2>1. Messages'
    BY <1>1, <1>3, SendMessages DEF ReceiptReply
  <2>2. Control' /\ Numbers' /\ Promised'
    BY <1>1, <1>3, NoneAssumption
       DEF BridgeInv, TypeOK, Protocol, Promised, Control, Numbers, AcceptedNamesItsText,
           NothingPublishedSinceReset, ModelUpdatedOnce, CleanupGoesFirst, ReceiptReply, Send
  <2>3. Epochs' /\ Acknowledged'
    BY <1>1, <1>3, NoneAssumption
       DEF BridgeInv, TypeOK, Protocol, Control, Epochs, Acknowledged, ReceiptReply, Send
  <2>4. QED
    BY <2>1, <2>2, <2>3 DEF Protocol
<1>4. QED
  BY <1>2, <1>3 DEF ReceiptReply

\* An accepting reply names the update's epoch.
LEMMA ReplyPreserves ==
    ASSUME BridgeInv, UpdateReply
    PROVE  Protocol'
BY NoneAssumption DEF BridgeInv, TypeOK, Protocol, Promised, Control, Numbers, Messages,
   Epochs, Acknowledged, AcceptedNamesItsText, NothingPublishedSinceReset,
   ModelUpdatedOnce, CleanupGoesFirst, UpdateReply, Acknowledge, Finish

\* Polling.
LEMMA PollPreserves ==
    ASSUME BridgeInv, PollHealth
    PROVE  Protocol'
<1>1. current # None
  BY DEF BridgeInv, Protocol, Control, PollHealth
<1>2. Messages'
  BY <1>1, SendMessages DEF PollHealth
<1>3. Control' /\ Numbers' /\ Promised'
  BY NoneAssumption
     DEF BridgeInv, TypeOK, Protocol, Promised, Control, Numbers, AcceptedNamesItsText,
         NothingPublishedSinceReset, ModelUpdatedOnce, CleanupGoesFirst, PollHealth, Send
<1>4. Epochs' /\ Acknowledged'
  BY <1>1, NoneAssumption
     DEF BridgeInv, TypeOK, Protocol, Control, Epochs, Acknowledged, PollHealth, Send
<1>5. QED
  BY <1>2, <1>3, <1>4 DEF Protocol

\* The deadline.
LEMMA LeavePreserves ==
    ASSUME BridgeInv, LeaveHealth
    PROVE  Protocol'
BY NoneAssumption DEF BridgeInv, TypeOK, Protocol, Promised, Control, Numbers, Messages,
   Epochs, Acknowledged, AcceptedNamesItsText, NothingPublishedSinceReset,
   ModelUpdatedOnce, CleanupGoesFirst, LeaveHealth, Finish

\* Polling again.
LEMMA RecoverHealthPreserves ==
    ASSUME BridgeInv, RecoverHealth
    PROVE  Protocol'
BY NoneAssumption DEF BridgeInv, TypeOK, Protocol, Promised, Control, Numbers, Messages,
   Epochs, Acknowledged, AcceptedNamesItsText, NothingPublishedSinceReset,
   ModelUpdatedOnce, CleanupGoesFirst, RecoverHealth, Recoverable

\* Not ready.
LEMMA HealthPreserves ==
    ASSUME BridgeInv, HealthReply
    PROVE  Protocol'
BY NoneAssumption DEF BridgeInv, TypeOK, Protocol, Promised, Control, Numbers, Messages,
   Epochs, Acknowledged, AcceptedNamesItsText, NothingPublishedSinceReset,
   ModelUpdatedOnce, CleanupGoesFirst, HealthReply, Finish, Ready

\* Only the latest update is published.
LEMMA PublishPreserves ==
    ASSUME BridgeInv, PublishReady
    PROVE  Protocol'
BY NoneAssumption DEF BridgeInv, TypeOK, Protocol, Promised, Control, Numbers, Messages,
   Epochs, Acknowledged, AcceptedNamesItsText, NothingPublishedSinceReset,
   ModelUpdatedOnce, CleanupGoesFirst, PublishReady, Finish, Ready

\* The service takes an update once.
LEMMA HandleUpdatePreserves ==
    ASSUME BridgeInv, NEW m \in network, HandleUpdate(m)
    PROVE  Protocol'
BY NoneAssumption DEF BridgeInv, TypeOK, Protocol, Promised, Control, Numbers, Messages,
   Epochs, Acknowledged, AcceptedNamesItsText, NothingPublishedSinceReset,
   ModelUpdatedOnce, CleanupGoesFirst, HandleUpdate, IsStale, TakeRequest, Respond,
   Reply

\* Receipt.
LEMMA HandleReceiptPreserves ==
    ASSUME BridgeInv, NEW m \in network, HandleReceipt(m)
    PROVE  Protocol'
<1> DEFINE matched == receipt # None /\ receipt.seq = m.seq
           answer == Reply(matched, IF matched THEN receipt.epoch ELSE 0)
<1>1. /\ network' = network \ {m}
      /\ (m.waiting /\ reply' \in {answer, None}) \/ reply' = reply
      /\ UNCHANGED <<queueVars, accepted, wpc, current, attempts, request, assigned,
                     serviceVars, historyVars>>
  BY DEF HandleReceipt, Respond
<1>2. Control' /\ Numbers' /\ Messages' /\ Epochs' /\ Promised'
  BY <1>1, NoneAssumption DEF BridgeInv, TypeOK, Protocol, Promised, Control, Numbers,
     Messages, Epochs, AcceptedNamesItsText, NothingPublishedSinceReset,
     ModelUpdatedOnce, CleanupGoesFirst
<1>3. CASE reply' = reply \/ reply' = None
  <2>1. Acknowledged'
    BY <1>1, <1>3 DEF BridgeInv, Protocol, Acknowledged
  <2>2. QED
    BY <1>2, <2>1 DEF Protocol
<1>4. CASE m.waiting /\ reply' = answer
  <2>1. m.seq = current.seq
    BY <1>4 DEF BridgeInv, Protocol, Messages
  <2>2. matched => Assigned(answer) \in assignments
    BY <2>1 DEF BridgeInv, Protocol, Epochs, Reply
  <2>3. answer.accepted = matched
    BY DEF Reply
  <2> HIDE DEF answer, matched
  <2>4. Acknowledged'
    BY <1>1, <1>4, <2>2, <2>3 DEF BridgeInv, Protocol, Acknowledged
  <2>5. QED
    BY <1>2, <2>4 DEF Protocol
<1>5. QED
  BY <1>1, <1>3, <1>4

\* Focus.
LEMMA HandleFocusPreserves ==
    ASSUME BridgeInv, NEW m \in network, HandleFocus(m)
    PROVE  Protocol'
BY NoneAssumption DEF BridgeInv, TypeOK, Protocol, Promised, Control, Numbers, Messages,
   Epochs, Acknowledged, AcceptedNamesItsText, NothingPublishedSinceReset,
   ModelUpdatedOnce, CleanupGoesFirst, HandleFocus, Respond, Reply

\* Health.
LEMMA HandleHealthPreserves ==
    ASSUME BridgeInv, NEW m \in network, HandleHealth(m)
    PROVE  Protocol'
BY NoneAssumption DEF BridgeInv, TypeOK, Protocol, Promised, Control, Numbers, Messages,
   Epochs, Acknowledged, AcceptedNamesItsText, NothingPublishedSinceReset,
   ModelUpdatedOnce, CleanupGoesFirst, HandleHealth, Respond, Reply

\* Forward ends.
LEMMA ForwardEndsPreserves ==
    ASSUME BridgeInv, ForwardEnds
    PROVE  Protocol'
BY NoneAssumption DEF BridgeInv, TypeOK, Protocol, Promised, Control, Numbers, Messages,
   Epochs, Acknowledged, AcceptedNamesItsText, NothingPublishedSinceReset,
   ModelUpdatedOnce, CleanupGoesFirst, ForwardEnds

\* Another client's epoch.
LEMMA OtherPreserves ==
    ASSUME BridgeInv, OtherUpdate
    PROVE  Protocol'
BY NoneAssumption DEF BridgeInv, TypeOK, Protocol, Promised, Control, Numbers, Messages,
   Epochs, Acknowledged, AcceptedNamesItsText, NothingPublishedSinceReset,
   ModelUpdatedOnce, CleanupGoesFirst, OtherUpdate, TakeRequest

\* A new process has assigned nothing.
LEMMA RestartPreserves ==
    ASSUME BridgeInv, Restart
    PROVE  Protocol'
BY NoneAssumption DEF BridgeInv, TypeOK, Protocol, Promised, Control, Numbers, Messages,
   Epochs, Acknowledged, AcceptedNamesItsText, NothingPublishedSinceReset,
   ModelUpdatedOnce, CleanupGoesFirst, Restart

\* Every step of the broker, the worker, the pipe and the service preserves
\* the invariant.
LEMMA NextPreserves ==
    ASSUME BridgeInv, [Next]_vars
    PROVE  BridgeInv'
<1>1. CASE Broker
  BY <1>1, BrokerTyped, SubmitPreserves, InvalidatePreserves, StopPreserves
     DEF Broker, BridgeInv
<1>2. CASE Worker
  <2>1. Protocol'
    BY <1>2, TakePreserves, BeginPreserves, RecoverPreserves, GiveUpPreserves,
       ReceiptPreserves, ReplyPreserves, PollPreserves, LeavePreserves,
       RecoverHealthPreserves, HealthPreserves, PublishPreserves DEF Worker
  <2>2. QED
    BY <1>2, <2>1, WorkerTyped DEF BridgeInv
<1>3. CASE QueryFails
  BY <1>3, FailTyped, FailPreserves DEF BridgeInv
<1>4. CASE Service
  <2>1. Protocol'
    BY <1>4, HandleUpdatePreserves, HandleReceiptPreserves, HandleFocusPreserves,
       HandleHealthPreserves, ForwardEndsPreserves, OtherPreserves, RestartPreserves
       DEF Service, Handle
  <2>2. QED
    BY <1>4, <2>1, ServiceTyped DEF BridgeInv
<1>5. CASE UNCHANGED vars
  <2>1. Protocol'
    BY <1>5 DEF vars, BridgeInv, Protocol, Promised, Control, Numbers, Messages,
       Epochs, Acknowledged, AcceptedNamesItsText, NothingPublishedSinceReset,
       ModelUpdatedOnce, CleanupGoesFirst
  <2>2. QED
    BY <1>5, <2>1, StutterTyped DEF BridgeInv
<1>6. QED
  BY <1>1, <1>2, <1>3, <1>4, <1>5 DEF Next

-----------------------------------------------------------------------------
(* Theorems *)

\* The inductive invariant holds in every reachable state.
THEOREM Invariance == Spec => []BridgeInv
<1>1. Init => BridgeInv
  BY InitInv
<1>2. BridgeInv /\ [Next]_vars => BridgeInv'
  BY NextPreserves
<1>3. QED
  BY <1>1, <1>2, PTL DEF Spec

\* Type correctness of context_update_bridge.cc, the pipe and the service.
THEOREM TypeCorrect == Spec => []TypeOK
<1>1. BridgeInv => TypeOK
  BY DEF BridgeInv
<1>2. QED
  BY <1>1, Invariance, PTL

\* The epoch handed to Rime is the one the reporting process assigned to the
\* submission it is published for, however many restarts, lost replies, late
\* requests and other clients there are.
THEOREM EpochsNameTheirText == Spec => []AcceptedNamesItsText
<1>1. BridgeInv => AcceptedNamesItsText
  BY DEF BridgeInv, Protocol, Promised
<1>2. QED
  BY <1>1, Invariance, PTL

\* No handshake begun before a secure submission, an invalidation or a stop
\* publishes after it: the check of latest_sequence_ under mutex_ is enough.
THEOREM ResetsHold == Spec => []NothingPublishedSinceReset
<1>1. BridgeInv => NothingPublishedSinceReset
  BY DEF BridgeInv, Protocol, Promised
<1>2. QED
  BY <1>1, Invariance, PTL

\* A service process computes an update at most once, whatever is resent or
\* handled late: _is_stale_context_update refuses the second one.
THEOREM UpdatesOnce == Spec => []ModelUpdatedOnce
<1>1. BridgeInv => ModelUpdatedOnce
  BY DEF BridgeInv, Protocol, Promised
<1>2. QED
  BY <1>1, Invariance, PTL

\* WorkerLoop takes cleanups first: a cleanup still in the queue is younger
\* than the ordinary update the worker is at.
THEOREM CleanupFirst == Spec => []CleanupGoesFirst
<1>1. BridgeInv => CleanupGoesFirst
  BY DEF BridgeInv, Protocol, Promised
<1>2. QED
  BY <1>1, Invariance, PTL
=============================================================================
