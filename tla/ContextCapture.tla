---------------------------- MODULE ContextCapture ----------------------------
(***************************************************************************)
(* Editor context capture: the TSF adapter in every editor process         *)
(* (native/tsf/weasel_context_adapter.cc over source_context_identity.cc), *)
(* its non-blocking pipe client (context_capture_client.cc), and the       *)
(* capture broker with one thread per connection in front of the context   *)
(* update bridge (native/context/context_capture_broker.cc,                *)
(* context_ipc_protocol.cc).                                               *)
(*                                                                         *)
(* A focus has a random 128-bit capability; here capabilities are drawn    *)
(* from one counter, 0 is "no focus".  The text of a frame is named by the *)
(* stamp (capability, revision) it was captured for.  A frame's process id *)
(* follows from its capability and is not kept.                            *)
(***************************************************************************)
EXTENDS Naturals, Sequences, FiniteSets

CONSTANTS
    Editors,            \* editor processes with the TSF module loaded
    MaxCapability,      \* bound on the focuses that begin
    MaxRevision,        \* bound on the captures of one focus
    MaxConnections,     \* bound on the pipe connections made
    None

ASSUME CaptureAssumption ==
    /\ MaxCapability \in Nat
    /\ MaxRevision \in Nat
    /\ MaxConnections \in Nat

Stamp == [cap : Nat, rev : Nat]

\* "context" carries text; "clear" ends a focus; a clear of a password field
\* also asks for cleanup of the model service.
Frame == [cap : Nat, rev : Nat, kind : {"context", "clear", "password"}]

ASSUME NoneAssumption == None \notin Frame

VARIABLES
    drawn,              \* capabilities drawn so far
    identity,           \* SourceContextIdentity of each editor
    allowed,            \* prediction_allowed of each editor
    sessions,           \* edit sessions requested and not run yet
    denied,             \* edit sessions that are about to clear their focus
    client,             \* ContextCaptureClient of each editor
    conns,              \* connections made, with the broker's thread for each
    hasSource,          \* ContextFrameReceiver
    latest,             \* latest_capability_ and latest_revision_
    retired,            \* retired_capabilities_
    bridge,             \* what the bridge was given last: a frame, or None
    proof,              \* history: the stamp that set prediction_allowed
    captured            \* history: the newest stamp reserved by a capture

adapterVars  == <<drawn, identity, allowed, sessions, denied, proof, captured>>
receiverVars == <<hasSource, latest, retired>>
vars == <<adapterVars, client, conns, receiverVars, bridge>>

NoFocus == [cap |-> 0, rev |-> 0]
NoPipe  == [conn |-> 0, inFlight |-> None, done |-> FALSE, pending |-> None]

Init ==
    /\ drawn = 0
    /\ identity = [e \in Editors |-> NoFocus]
    /\ allowed = [e \in Editors |-> FALSE]
    /\ sessions = [e \in Editors |-> {}]
    /\ denied = [e \in Editors |-> {}]
    /\ client = [e \in Editors |-> NoPipe]
    /\ conns = <<>>
    /\ hasSource = FALSE
    /\ latest = NoFocus
    /\ retired = {}
    /\ bridge = None
    /\ proof = [e \in Editors |-> NoFocus]
    /\ captured = [e \in Editors |-> NoFocus]

-----------------------------------------------------------------------------
(* The pipe client.  An outcome is the client and the connections after a   *)
(* call; TryPush runs under the adapter's mutex, so it is one step with     *)
(* several possible outcomes.                                               *)

Deliver(o, f) == [o EXCEPT !.conns[o.client.conn].queue = Append(@, f)]

\* CloseLocked: a write still in flight is cancelled, or was just taken.
Closed(o) ==
    {[p EXCEPT !.client = NoPipe] :
        p \in IF o.client.inFlight # None /\ ~o.client.done
                 /\ ~o.conns[o.client.conn].broken
              THEN {o, Deliver(o, o.client.inFlight)}
              ELSE {o}}

\* StartWriteLocked: written at once, left in flight, or failed.
StartWrite(o, f) ==
    LET idle == [o EXCEPT !.client.inFlight = None, !.client.done = FALSE]
    IN  Closed(idle) \cup
            IF o.conns[o.client.conn].broken
            THEN {}
            ELSE {Deliver(idle, f), [idle EXCEPT !.client.inFlight = f]}

\* ReapCompletedLocked: a completed write makes room for the pending frame.
ReapCompleted(o) ==
    CASE o.client.inFlight = None -> {o}
      [] o.client.inFlight # None /\ o.client.done ->
            LET free == [o EXCEPT !.client.inFlight = None, !.client.done = FALSE]
            IN  IF o.client.pending = None
                THEN {free}
                ELSE StartWrite([free EXCEPT !.client.pending = None], o.client.pending)
      [] OTHER -> IF o.conns[o.client.conn].broken THEN Closed(o) ELSE {o}

\* ConnectVerified, for the client of editor e.
Connected(o) ==
    IF Len(o.conns) < MaxConnections
    THEN {[client |-> [o.client EXCEPT !.conn = Len(o.conns) + 1],
           conns |-> Append(o.conns, [queue |-> <<>>, hand |-> None, broken |-> FALSE])]}
    ELSE {}

\* TryPush after the reap: latest wins while a write is in flight; without a
\* verified connection the frame is dropped.
PushFrame(o, f) ==
    CASE o.client.inFlight # None -> {[o EXCEPT !.client.pending = f]}
      [] o.client.inFlight = None /\ o.client.conn # 0 -> StartWrite(o, f)
      [] OTHER -> {[o EXCEPT !.client.pending = None]}
                    \cup UNION {StartWrite(p, f) : p \in Connected(o)}

TryPush(e, f) ==
    \E o \in UNION {PushFrame(p, f) :
                        p \in ReapCompleted([client |-> client[e], conns |-> conns])} :
        /\ client' = [client EXCEPT ![e] = o.client]
        /\ conns' = o.conns

-----------------------------------------------------------------------------
(* The adapter.  prediction_allowed is atomic, the identity is under        *)
(* State().mutex.                                                           *)

Active(e) == identity[e].cap # 0

\* SourceContextIdentity::IsCurrent
IsCurrent(e, s) == Active(e) /\ identity[e] = s

\* SourceContextIdentity::Capture: the next revision of the focus.
Bumped(i) == [i EXCEPT !.rev = @ + 1]

FreshFocus ==
    /\ drawn < MaxCapability
    /\ drawn' = drawn + 1

\* BeginWeaselContextFocus: a fresh capability, or none if the generator fails.
BeginFocus(e) ==
    /\ allowed' = [allowed EXCEPT ![e] = FALSE]
    /\ \/ /\ FreshFocus
          /\ identity' = [identity EXCEPT ![e] = [cap |-> drawn + 1, rev |-> 0]]
       \/ /\ identity' = [identity EXCEPT ![e] = NoFocus]
          /\ UNCHANGED drawn
    /\ UNCHANGED <<sessions, denied, proof, captured, client, conns, receiverVars, bridge>>

\* An edit session is requested for the next revision of focus i.
Reserve(e, i) ==
    /\ i.rev < MaxRevision
    /\ identity' = [identity EXCEPT ![e] = Bumped(i)]
    /\ sessions' = [sessions EXCEPT ![e] = @ \cup {Bumped(i)}]
    /\ captured' = [captured EXCEPT ![e] = Bumped(i)]

\* Mutant of Capture: the earlier proof stays.
MutantCaptureKeepsProof(e) ==
    /\ Active(e) /\ Reserve(e, identity[e])
    /\ UNCHANGED <<drawn, allowed, denied, proof, client, conns, receiverVars, bridge>>

\* CaptureWeaselContext: reserve a stamp and ask for an edit session, which
\* runs later, or never.  Without a focus it begins one, if it can.
Capture(e) ==
    /\ allowed' = [allowed EXCEPT ![e] = FALSE]
    /\ \/ /\ Active(e)
          /\ Reserve(e, identity[e])
          /\ UNCHANGED drawn
       \/ /\ ~Active(e)
          /\ FreshFocus
          /\ Reserve(e, [cap |-> drawn + 1, rev |-> 0])
       \/ /\ ~Active(e)
          /\ UNCHANGED <<drawn, identity, sessions, captured>>
    /\ UNCHANGED <<denied, proof, client, conns, receiverVars, bridge>>

\* Mutant of ClearContext: the focus stays current.
MutantClearKeepsFocus(e) ==
    /\ allowed' = [allowed EXCEPT ![e] = FALSE]
    /\ Active(e)
    /\ identity[e].rev < MaxRevision
    /\ identity' = [identity EXCEPT ![e] = Bumped(@)]
    /\ TryPush(e, [cap |-> identity[e].cap, rev |-> identity[e].rev + 1, kind |-> "clear"])
    /\ UNCHANGED <<drawn, sessions, denied, proof, captured, receiverVars, bridge>>

\* ClearWeaselContext
ClearContext(e) ==
    /\ allowed' = [allowed EXCEPT ![e] = FALSE]
    /\ IF Active(e)
       THEN /\ identity' = [identity EXCEPT ![e] = NoFocus]
            /\ TryPush(e, [cap |-> identity[e].cap, rev |-> identity[e].rev + 1,
                           kind |-> "clear"])
       ELSE UNCHANGED <<identity, client, conns>>
    /\ UNCHANGED <<drawn, sessions, denied, proof, captured, receiverVars, bridge>>

\* DoEditSession in a protected or unknown field: prediction is switched off
\* first ...
SessionDenied(e, s) ==
    /\ s \in sessions[e]
    /\ allowed' = [allowed EXCEPT ![e] = FALSE]
    /\ sessions' = [sessions EXCEPT ![e] = @ \ {s}]
    /\ denied' = [denied EXCEPT ![e] = @ \cup {s}]
    /\ UNCHANGED <<drawn, identity, proof, captured, client, conns, receiverVars, bridge>>

\* ... and then its focus is cleared, if it is still the current one
\* (ClearReservedCapability).  Reading the current stamp draws a revision
\* of the current focus, whichever that is.
ClearReserved(e, s) ==
    /\ s \in denied[e]
    /\ denied' = [denied EXCEPT ![e] = @ \ {s}]
    /\ CASE ~Active(e) -> UNCHANGED <<identity, client, conns>>
         [] Active(e) /\ identity[e].cap # s.cap ->
                /\ identity' = [identity EXCEPT ![e] = Bumped(@)]
                /\ UNCHANGED <<client, conns>>
         [] OTHER ->
                /\ identity' = [identity EXCEPT ![e] = NoFocus]
                /\ TryPush(e, [cap |-> s.cap, rev |-> identity[e].rev + 1,
                               kind |-> "password"])
    /\ UNCHANGED <<drawn, allowed, sessions, proof, captured, receiverVars, bridge>>

\* The surrounding text could not be read.
SessionFails(e, s) ==
    /\ s \in sessions[e]
    /\ allowed' = [allowed EXCEPT ![e] = FALSE]
    /\ sessions' = [sessions EXCEPT ![e] = @ \ {s}]
    /\ UNCHANGED <<drawn, identity, denied, proof, captured, client, conns, receiverVars,
                   bridge>>

\* Mutant of SessionCaptures: the stamp is not checked again.
MutantSessionUnchecked(e, s) ==
    /\ s \in sessions[e]
    /\ sessions' = [sessions EXCEPT ![e] = @ \ {s}]
    /\ allowed' = [allowed EXCEPT ![e] = TRUE]
    /\ proof' = [proof EXCEPT ![e] = s]
    /\ TryPush(e, [cap |-> s.cap, rev |-> s.rev, kind |-> "context"])
    /\ UNCHANGED <<drawn, identity, denied, captured, receiverVars, bridge>>

\* The text was read: if its stamp is still current it is pushed, unless it
\* cannot be encoded (EncodeContextFrame).
SessionCaptures(e, s) ==
    /\ s \in sessions[e]
    /\ sessions' = [sessions EXCEPT ![e] = @ \ {s}]
    /\ IF IsCurrent(e, s)
       THEN /\ allowed' = [allowed EXCEPT ![e] = TRUE]
            /\ proof' = [proof EXCEPT ![e] = s]
            /\ \/ TryPush(e, [cap |-> s.cap, rev |-> s.rev, kind |-> "context"])
               \/ UNCHANGED <<client, conns>>
       ELSE UNCHANGED <<allowed, proof, client, conns>>
    /\ UNCHANGED <<drawn, identity, denied, captured, receiverVars, bridge>>

-----------------------------------------------------------------------------
(* The pipe and the broker's threads *)

\* A write in flight completes.
WriteCompletes(e) ==
    /\ client[e].inFlight # None
    /\ ~client[e].done
    /\ ~conns[client[e].conn].broken
    /\ client' = [client EXCEPT ![e].done = TRUE]
    /\ conns' = [conns EXCEPT ![client[e].conn].queue = Append(@, client[e].inFlight)]
    /\ UNCHANGED <<adapterVars, receiverVars, bridge>>

\* ServeClient leaves its loop and disconnects; unread frames are lost.
BreakConnection(n) ==
    /\ ~conns[n].broken
    /\ conns[n].hand = None
    /\ conns' = [conns EXCEPT ![n].broken = TRUE, ![n].queue = <<>>]
    /\ UNCHANGED <<adapterVars, client, receiverVars, bridge>>

IsRetired(f) ==
    f.cap \in retired \/ (hasSource /\ f.cap = latest.cap /\ f.rev <= latest.rev)

\* ServeClient reads a frame and ContextFrameReceiver::Accept admits it.
ReadFrame(n) ==
    LET f == Head(conns[n].queue)
        left == IF hasSource /\ f.cap # latest.cap THEN {latest.cap} ELSE {}
        ended == IF f.kind = "context" THEN {} ELSE {f.cap}
    IN  /\ conns[n].hand = None
        /\ conns[n].queue # <<>>
        /\ IF IsRetired(f)
           THEN /\ conns' = [conns EXCEPT ![n].queue = Tail(@)]
                /\ UNCHANGED receiverVars
           ELSE /\ conns' = [conns EXCEPT ![n].queue = Tail(@), ![n].hand = f]
                /\ retired' = retired \cup left \cup ended
                /\ latest' = [cap |-> f.cap, rev |-> f.rev]
                /\ hasSource' = (f.kind = "context")
        /\ UNCHANGED <<adapterVars, client, bridge>>

\* Forward: text is submitted; a clear invalidates ...
ForwardFrame(n) ==
    LET f == conns[n].hand
    IN  /\ f # None
        /\ f.kind # "cleanup"
        /\ bridge' = IF f.kind = "context" THEN f ELSE None
        /\ conns' = [conns EXCEPT ![n].hand =
                        IF f.kind = "password" THEN [f EXCEPT !.kind = "cleanup"] ELSE None]
        /\ UNCHANGED <<adapterVars, client, receiverVars>>

\* ... and for a password field submits a secure cleanup after it.
ForwardCleanup(n) ==
    /\ conns[n].hand # None
    /\ conns[n].hand.kind = "cleanup"
    /\ bridge' = conns[n].hand
    /\ conns' = [conns EXCEPT ![n].hand = None]
    /\ UNCHANGED <<adapterVars, client, receiverVars>>

-----------------------------------------------------------------------------
Editor(e) ==
    \/ BeginFocus(e)
    \/ Capture(e)
    \/ ClearContext(e)
    \/ \E s \in sessions[e] : SessionDenied(e, s) \/ SessionFails(e, s) \/ SessionCaptures(e, s)
    \/ \E s \in denied[e] : ClearReserved(e, s)

Broker(n) ==
    \/ BreakConnection(n)
    \/ ReadFrame(n)
    \/ ForwardFrame(n)
    \/ ForwardCleanup(n)

Next ==
    \/ \E e \in Editors : Editor(e) \/ WriteCompletes(e)
    \/ \E n \in DOMAIN conns : Broker(n)

Spec == Init /\ [][Next]_vars

-----------------------------------------------------------------------------
(* Properties *)

Handed == [cap : Nat, rev : Nat, kind : {"context", "clear", "password", "cleanup"}]

\* A connection: frames not read yet, the frame its thread is forwarding.
Connection == [queue : Seq(Frame), hand : Handed \cup {None}, broken : BOOLEAN]

\* Type correctness of the adapters, the pipe clients and the broker.
TypeOK ==
    /\ drawn \in Nat
    /\ identity \in [Editors -> Stamp]
    /\ allowed \in [Editors -> BOOLEAN]
    /\ sessions \in [Editors -> SUBSET Stamp]
    /\ denied \in [Editors -> SUBSET Stamp]
    /\ client \in [Editors -> [conn : 0..Len(conns), inFlight : Frame \cup {None},
                               done : BOOLEAN, pending : Frame \cup {None}]]
    /\ conns \in Seq(Connection)
    /\ hasSource \in BOOLEAN
    /\ latest \in Stamp
    /\ retired \subseteq Nat
    /\ bridge \in Handed \cup {None}
    /\ proof \in [Editors -> Stamp]
    /\ captured \in [Editors -> Stamp]

\* "A previous normal-scope proof must never authorize a later capture": what
\* allows prediction is the classification made for the newest capture, never
\* that of an edit session that ran late.
PredictionProvenByNewest == \A e \in Editors : allowed[e] => proof[e] = captured[e]

One(f) == IF f = None THEN <<>> ELSE <<f>>

\* The frames of editor e on their way: unread, in flight, and pending.
InTransit(e) ==
    (IF client[e].conn = 0 THEN <<>> ELSE conns[client[e].conn].queue)
        \o (IF client[e].done THEN <<>> ELSE One(client[e].inFlight))
        \o One(client[e].pending)

Before(f, g) == f.cap < g.cap \/ (f.cap = g.cap /\ f.rev < g.rev)

\* Coalescing, completion and reconnection never let an older frame overtake
\* a newer one of the same editor on a connection.
FramesInOrder ==
    \A e \in Editors : LET frames == InTransit(e)
                       IN  \A i, j \in DOMAIN frames : i < j => Before(frames[i], frames[j])

Frames == (UNION {{InTransit(e)[i] : i \in DOMAIN InTransit(e)} : e \in Editors})
            \cup (UNION {{conns[n].queue[i] : i \in DOMAIN conns[n].queue} : n \in DOMAIN conns})

\* Once a focus was cleared, by the editor or because a field turned out to be
\* protected, nothing newer of that focus is captured or sent, however late
\* its edit sessions run.
NothingAfterClear ==
    \A f \in Frames : f.kind # "context" =>
        /\ \A g \in Frames : g.cap = f.cap => g.rev <= f.rev
        /\ \A e \in Editors : identity[e].cap # f.cap

\* context_ipc_protocol.h: retired capabilities keep an old focus from becoming
\* "a new source again" when deliveries are reordered.  Once every accepted
\* frame has been forwarded, the text the bridge was given last is the
\* receiver's current source.
BridgeHasCurrentSource ==
    (\A n \in DOMAIN conns : conns[n].hand = None) /\ bridge # None /\ bridge.kind = "context"
        => hasSource /\ bridge.cap = latest.cap
=============================================================================
