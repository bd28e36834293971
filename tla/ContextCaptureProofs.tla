------------------------ MODULE ContextCaptureProofs ------------------------
(***************************************************************************)
(* Proofs about ContextCapture: what allows prediction is the newest       *)
(* capture's own classification, a pipe client never reorders the frames   *)
(* of its editor, and a cleared focus stays cleared.                       *)
(*                                                                         *)
(* TryPush is a composition of set-valued operators on an outcome, a pipe  *)
(* client together with the connections.  Lined is what every outcome      *)
(* keeps; Moves is what one outcome may change with respect to another.    *)
(***************************************************************************)
EXTENDS ContextCapture, TLAPS

Client == [conn : Nat, inFlight : Frame \cup {None}, done : BOOLEAN,
           pending : Frame \cup {None}]
Outcome == [client : Client, conns : Seq(Connection)]

On(q) == {q[i] : i \in DOMAIN q}
Sorted(q) == \A i, j \in DOMAIN q : i < j => Before(q[i], q[j])
AllBefore(G, f) == \A g \in G : Before(g, f)

\* The frames on the client's connection, and those of the client as well.
Unread(o) == IF o.client.conn = 0 THEN {} ELSE On(o.conns[o.client.conn].queue)
Line(o) == Unread(o) \cup ({o.client.inFlight, o.client.pending} \ {None})

\* Outcomes in which everything on its way is in order.
Lined(o) ==
    /\ o \in Outcome
    /\ o.client.conn <= Len(o.conns)
    /\ o.client.conn = 0 => o.client.inFlight = None
    /\ o.client.inFlight = None => o.client.pending = None /\ ~o.client.done
    /\ \A n \in DOMAIN o.conns : Sorted(o.conns[n].queue)
    /\ o.client.inFlight # None /\ ~o.client.done => AllBefore(Unread(o), o.client.inFlight)
    /\ o.client.pending # None
         => /\ AllBefore(Unread(o), o.client.pending)
            /\ Before(o.client.inFlight, o.client.pending)

\* From outcome o to outcome p nothing is added but the frames of N, and no
\* other connection changes.
Moves(o, p, N) ==
    /\ p.client.conn \in {0, o.client.conn} \/ p.client.conn \notin DOMAIN o.conns
    /\ DOMAIN o.conns \subseteq DOMAIN p.conns
    /\ \A n \in DOMAIN o.conns : n # o.client.conn => p.conns[n] = o.conns[n]
    /\ Line(p) \subseteq Line(o) \cup N
    /\ \A n \in DOMAIN p.conns : \A g \in On(p.conns[n].queue) :
          \/ g \in Line(o) \/ g \in N
          \/ n \in DOMAIN o.conns /\ g \in On(o.conns[n].queue)

Outgoing(e) == [client |-> client[e], conns |-> conns]

\* Frames that are anywhere between the editors and the broker's hands.
Sent == (UNION {Line(Outgoing(e)) : e \in Editors})
          \cup (UNION {On(conns[n].queue) : n \in DOMAIN conns})

\* A frame is of a focus that began.  While that focus is some editor's
\* current one, the frame is text and not newer than the editor's stamp.
Known(g) ==
    /\ g.cap \in 1 .. drawn
    /\ \A e \in Editors : identity[e].cap = g.cap =>
          g.kind = "context" /\ g.rev <= identity[e].rev

\* Focuses belong to one editor, reserved stamps are not newer than the
\* current one, and a session that is current is the newest capture.
Stamped(e) ==
    /\ identity[e].cap <= drawn
    /\ \A d \in Editors : identity[d].cap = identity[e].cap /\ Active(e) => d = e
    /\ \A s \in sessions[e] :
          /\ s.cap \in 1 .. drawn
          /\ s.cap = identity[e].cap => s.rev <= identity[e].rev
          /\ s = identity[e] => captured[e] = s

\* A frame of an editor is not newer than its focus, and the session that
\* pushed it is over.
Passed(e, g) ==
    /\ Active(e) => g.cap <= identity[e].cap
    /\ g.cap = identity[e].cap => [cap |-> g.cap, rev |-> g.rev] \notin sessions[e]

OwnPipes ==
    \A d, e \in Editors : client[d].conn = client[e].conn /\ client[d].conn # 0 => d = e

\* The pipe clients and the connections.
Piped ==
    /\ client \in [Editors -> [conn : 0..Len(conns), inFlight : Frame \cup {None},
                               done : BOOLEAN, pending : Frame \cup {None}]]
    /\ conns \in Seq(Connection)
    /\ \A e \in Editors : Lined(Outgoing(e))
    /\ OwnPipes

ClearsAreLast ==
    \A f, g \in Sent : f.kind # "context" /\ g.cap = f.cap => g.rev <= f.rev

CaptureInv ==
    /\ TypeOK
    /\ PredictionProvenByNewest
    /\ Piped
    /\ \A e \in Editors : Stamped(e)
    /\ \A e \in Editors : \A g \in Line(Outgoing(e)) : Passed(e, g)
    /\ \A g \in Sent : Known(g)
    /\ ClearsAreLast

\* A step puts nothing on its way but the frames of N, on the line of editor e.
Adds(e, N) ==
    /\ \A d \in Editors :
          Line(Outgoing(d))' \subseteq Line(Outgoing(d)) \cup (IF d = e THEN N ELSE {})
    /\ Sent' \subseteq Sent \cup N

-----------------------------------------------------------------------------
(* Sequences of frames *)

\* A frame appended to a sequence.
LEMMA OnAppend ==
    ASSUME NEW q \in Seq(Frame), NEW f \in Frame
    PROVE  On(Append(q, f)) = On(q) \cup {f}
<1>1. On(Append(q, f)) \subseteq On(q) \cup {f}
  BY DEF On
<1>2. On(q) \subseteq On(Append(q, f))
  <2> SUFFICES ASSUME NEW i \in DOMAIN q PROVE q[i] \in On(Append(q, f))
    BY DEF On
  <2>1. i \in DOMAIN Append(q, f) /\ Append(q, f)[i] = q[i]
    OBVIOUS
  <2>2. QED
    BY <2>1 DEF On
<1>3. f \in On(Append(q, f))
  <2>1. Len(q) + 1 \in DOMAIN Append(q, f) /\ Append(q, f)[Len(q) + 1] = f
    OBVIOUS
  <2>2. QED
    BY <2>1 DEF On
<1>4. QED
  BY <1>1, <1>2, <1>3

\* A frame that is newer than a sorted sequence can be appended to it.
LEMMA SortedAppend ==
    ASSUME NEW q \in Seq(Frame), NEW f \in Frame, Sorted(q), AllBefore(On(q), f)
    PROVE  Sorted(Append(q, f))
<1> SUFFICES ASSUME NEW i \in DOMAIN Append(q, f), NEW j \in DOMAIN Append(q, f), i < j
             PROVE  Before(Append(q, f)[i], Append(q, f)[j])
  BY DEF Sorted
<1>1. i \in DOMAIN q /\ Append(q, f)[i] = q[i]
  OBVIOUS
<1>2. CASE j \in DOMAIN q
  BY <1>1, <1>2 DEF Sorted
<1>3. CASE j = Len(q) + 1
  BY <1>1, <1>3 DEF AllBefore, On
<1>4. QED
  BY <1>2, <1>3

\* The rest of a sorted sequence.
LEMMA SortedTail ==
    ASSUME NEW q \in Seq(Frame), q # <<>>
    PROVE  /\ Tail(q) \in Seq(Frame)
           /\ On(Tail(q)) \subseteq On(q)
           /\ Sorted(q) => Sorted(Tail(q))
<1>1. /\ Tail(q) \in Seq(Frame) /\ Len(Tail(q)) = Len(q) - 1
      /\ \A i \in DOMAIN Tail(q) : i + 1 \in DOMAIN q /\ Tail(q)[i] = q[i + 1]
  OBVIOUS
<1>2. QED
  BY <1>1 DEF On, Sorted

\* Nothing is on an empty sequence.
LEMMA EmptyQueue == <<>> \in Seq(Frame) /\ On(<<>>) = {} /\ Sorted(<<>>)
BY DEF On, Sorted

-----------------------------------------------------------------------------
(* Outcomes of the pipe client *)

\* What the types say of an outcome.
LEMMA OutcomeParts ==
    ASSUME NEW o, Lined(o)
    PROVE  /\ o.client \in Client /\ o.conns \in Seq(Connection)
           /\ o.client.conn \in Nat
           /\ o.client.inFlight \in Frame \cup {None}
           /\ o.client.pending \in Frame \cup {None}
           /\ o.client.done \in BOOLEAN
           /\ o.client.conn # 0 =>
                 /\ o.client.conn \in DOMAIN o.conns
                 /\ o.conns[o.client.conn] \in Connection
                 /\ o.conns[o.client.conn].queue \in Seq(Frame)
           /\ Line(o) \subseteq Frame
<1>1. /\ o.client \in Client /\ o.conns \in Seq(Connection)
      /\ o.client.conn <= Len(o.conns)
  BY DEF Lined, Outcome
<1>2. /\ o.client.conn \in Nat
      /\ o.client.inFlight \in Frame \cup {None}
      /\ o.client.pending \in Frame \cup {None}
      /\ o.client.done \in BOOLEAN
  BY <1>1 DEF Client
<1>3. ASSUME o.client.conn # 0
      PROVE  /\ o.client.conn \in DOMAIN o.conns
             /\ o.conns[o.client.conn] \in Connection
             /\ o.conns[o.client.conn].queue \in Seq(Frame)
             /\ On(o.conns[o.client.conn].queue) \subseteq Frame
  <2>1. o.client.conn \in DOMAIN o.conns
    BY <1>1, <1>2, <1>3
  <2>2. o.conns[o.client.conn] \in Connection
    BY <1>1, <2>1
  <2>3. o.conns[o.client.conn].queue \in Seq(Frame)
    BY <2>2 DEF Connection
  <2>4. QED
    BY <2>1, <2>2, <2>3 DEF On
<1>4. Line(o) \subseteq Frame
  BY <1>2, <1>3 DEF Line, Unread
<1>5. QED
  BY <1>1, <1>2, <1>3, <1>4

\* Nothing happens.
LEMMA MovesNothing == ASSUME NEW o PROVE Moves(o, o, {})
BY DEF Moves

\* One call of the client after another.
LEMMA MovesTwice ==
    ASSUME NEW o, NEW p, NEW q, NEW N, Moves(o, p, {}), Moves(p, q, N),
           0 \notin DOMAIN o.conns
    PROVE  Moves(o, q, N)
<1>1. q.client.conn \in {0, o.client.conn} \/ q.client.conn \notin DOMAIN o.conns
  BY DEF Moves
<1>2. DOMAIN o.conns \subseteq DOMAIN q.conns
  BY DEF Moves
<1>3. ASSUME NEW n \in DOMAIN o.conns, n # o.client.conn PROVE q.conns[n] = o.conns[n]
  <2>1. n # p.client.conn /\ n \in DOMAIN p.conns /\ p.conns[n] = o.conns[n]
    BY <1>3 DEF Moves
  <2>2. QED
    BY <2>1 DEF Moves
<1>4. Line(q) \subseteq Line(o) \cup N
  BY DEF Moves
<1>5. \A n \in DOMAIN q.conns : \A g \in On(q.conns[n].queue) :
          \/ g \in Line(o) \/ g \in N
          \/ n \in DOMAIN o.conns /\ g \in On(o.conns[n].queue)
  BY DEF Moves
<1>6. QED
  BY <1>1, <1>2, <1>3, <1>4, <1>5 DEF Moves

\* A client that changes, or gives up its pipe, without touching connections.
LEMMA ClientMoves ==
    ASSUME NEW o, Lined(o), NEW p, p.conns = o.conns, p.client.conn \in {0, o.client.conn},
           NEW N, {p.client.inFlight, p.client.pending} \ {None} \subseteq Line(o) \cup N
    PROVE  Moves(o, p, N)
<1>1. Unread(p) \subseteq Unread(o)
  BY DEF Unread
<1>2. Line(p) \subseteq Line(o) \cup N
  BY <1>1 DEF Line
<1>3. QED
  BY <1>2 DEF Moves

\* CloseLocked leaves no client.
LEMMA GivenUp ==
    ASSUME NEW o, Lined(o), NEW p \in Outcome, p.conns = o.conns, p.client = NoPipe
    PROVE  Lined(p) /\ Moves(o, p, {})
<1>1. p.client.conn = 0 /\ p.client.inFlight = None /\ p.client.pending = None
      /\ ~p.client.done
  BY DEF NoPipe
<1>2. Lined(p)
  <2>1. Len(p.conns) \in Nat
    BY DEF Outcome
  <2>2. QED
    BY <1>1, <2>1 DEF Lined
<1>3. Moves(o, p, {})
  BY <1>1, ClientMoves
<1>4. QED
  BY <1>2, <1>3

\* A newer frame is put on the client's own connection.
LEMMA Delivered ==
    ASSUME NEW o, Lined(o), o.client.conn # 0, o.client.inFlight = None,
           NEW f \in Frame, AllBefore(Line(o), f),
           NEW p \in Outcome, p.client = o.client,
           p.conns = [o.conns EXCEPT ![o.client.conn].queue = Append(@, f)]
    PROVE  Lined(p) /\ Moves(o, p, {f})
<1> DEFINE c == o.client.conn
           q == o.conns[c].queue
<1>1. /\ c \in Nat /\ c \in DOMAIN o.conns /\ o.conns[c] \in Connection
      /\ o.conns \in Seq(Connection) /\ q \in Seq(Frame)
  BY OutcomeParts
<1>2. /\ DOMAIN p.conns = DOMAIN o.conns /\ Len(p.conns) = Len(o.conns)
      /\ \A n \in DOMAIN o.conns : n # c => p.conns[n] = o.conns[n]
      /\ p.conns[c].queue = Append(q, f)
  <2>1. p.conns = [o.conns EXCEPT ![c] = [o.conns[c] EXCEPT !.queue = Append(q, f)]]
    OBVIOUS
  <2>2. [o.conns[c] EXCEPT !.queue = Append(q, f)].queue = Append(q, f)
    BY <1>1 DEF Connection
  <2>3. p.conns \in Seq(Connection)
    BY DEF Outcome
  <2>4. DOMAIN p.conns = DOMAIN o.conns
    BY <1>1, <2>1
  <2>5. Len(p.conns) = Len(o.conns)
    BY <1>1, <2>3, <2>4
  <2>6. p.conns[c] = [o.conns[c] EXCEPT !.queue = Append(q, f)]
    BY <1>1, <2>1
  <2>7. \A n \in DOMAIN o.conns : n # c => p.conns[n] = o.conns[n]
    BY <1>1, <2>1
  <2>8. QED
    BY <2>2, <2>4, <2>5, <2>6, <2>7
<1>3. On(p.conns[c].queue) = On(q) \cup {f}
  BY <1>1, <1>2, OnAppend
<1>4. Sorted(p.conns[c].queue)
  <2>1. On(q) \subseteq Line(o)
    BY DEF Line, Unread
  <2>2. Sorted(q)
    BY <1>1 DEF Lined
  <2>3. QED
    BY <1>1, <1>2, <2>1, <2>2, SortedAppend DEF AllBefore
<1>5. /\ o.client.pending = None /\ ~o.client.done
      /\ Line(p) = Line(o) \cup {f}
  BY <1>3 DEF Lined, Line, Unread
<1>6. Lined(p)
  <2>1. \A n \in DOMAIN p.conns : Sorted(p.conns[n].queue)
    BY <1>2, <1>4 DEF Lined
  <2>2. QED
    BY <1>2, <1>5, <2>1 DEF Lined
<1>7. Moves(o, p, {f})
  BY <1>2, <1>3, <1>5 DEF Moves, Line, Unread
<1>8. QED
  BY <1>6, <1>7

\* StartWriteLocked on a connected idle client, for a frame newer than the line.
LEMMA WriteStarts ==
    ASSUME NEW o, Lined(o), o.client.conn # 0, o.client.inFlight = None,
           NEW f \in Frame, AllBefore(Line(o), f), NEW p \in StartWrite(o, f)
    PROVE  Lined(p) /\ Moves(o, p, {f})
<1> DEFINE idle == [o EXCEPT !.client.inFlight = None, !.client.done = FALSE]
<1>1. /\ o \in Outcome /\ o.client \in Client
      /\ o.client.conn \in DOMAIN o.conns /\ o.conns[o.client.conn] \in Connection
      /\ o.client.pending = None /\ o.client.done = FALSE
  BY OutcomeParts DEF Lined
<1>2. idle = o
  <2>1. [o.client EXCEPT !.inFlight = None] = o.client
    BY <1>1 DEF Client
  <2>2. [o.client EXCEPT !.done = FALSE] = o.client
    BY <1>1 DEF Client
  <2>3. [o EXCEPT !.client = o.client] = o
    BY <1>1 DEF Outcome
  <2>4. QED
    BY <1>1, <2>1, <2>2, <2>3 DEF Outcome, Client
<1>3. CASE p \in Closed(idle)
  <2>1. p = [o EXCEPT !.client = NoPipe]
    BY <1>2, <1>3 DEF Closed
  <2>2. p \in Outcome /\ p.conns = o.conns /\ p.client = NoPipe
    BY <1>1, <2>1 DEF Outcome, NoPipe, Client
  <2>3. Lined(p) /\ Moves(o, p, {})
    BY <2>2, GivenUp
  <2>4. QED
    BY <2>3 DEF Moves
<1>4. CASE p = Deliver(idle, f)
  <2>1. /\ p \in Outcome /\ p.client = o.client
        /\ p.conns = [o.conns EXCEPT ![o.client.conn].queue = Append(@, f)]
    <3>1. /\ p.client = o.client
          /\ p.conns = [o.conns EXCEPT ![o.client.conn].queue = Append(@, f)]
          /\ p = [client |-> p.client, conns |-> p.conns]
      BY <1>1, <1>2, <1>4 DEF Deliver, Outcome
    <3>2. p.conns \in Seq(Connection)
      <4>1. [o.conns[o.client.conn] EXCEPT !.queue = Append(@, f)] \in Connection
        <5>1. Append(o.conns[o.client.conn].queue, f) \in Seq(Frame)
          BY OutcomeParts
        <5>2. QED
          BY <1>1, <5>1 DEF Connection
      <4>2. QED
        BY <1>1, <3>1, <4>1 DEF Outcome
    <3>3. QED
      BY <1>1, <3>1, <3>2 DEF Outcome
  <2>2. QED
    BY <2>1, Delivered
<1>5. CASE p = [idle EXCEPT !.client.inFlight = f]
  <2>1. /\ p \in Outcome /\ p.conns = o.conns /\ p.client.inFlight = f
        /\ p.client.conn = o.client.conn /\ p.client.pending = None
        /\ p.client.done = FALSE
    BY <1>1, <1>2, <1>5 DEF Outcome, Client
  <2>2. Unread(p) = Unread(o) /\ Unread(o) \subseteq Line(o)
    BY <2>1 DEF Unread, Line
  <2>3. Lined(p)
    BY <2>1, <2>2, NoneAssumption DEF Lined, AllBefore
  <2>4. Moves(o, p, {f})
    BY <2>1, ClientMoves
  <2>5. QED
    BY <2>3, <2>4
<1>6. QED
  BY <1>3, <1>4, <1>5 DEF StartWrite

\* A completed write makes room.
LEMMA Freed ==
    ASSUME NEW o, Lined(o), o.client.conn # 0,
           NEW p \in Outcome, p.conns = o.conns,
           p.client.conn = o.client.conn, p.client.inFlight = None,
           p.client.pending = None, p.client.done = FALSE
    PROVE  Lined(p) /\ Moves(o, p, {}) /\ Line(p) = Unread(o)
<1>1. Unread(p) = Unread(o)
  BY DEF Unread
<1>2. Line(p) = Unread(o)
  BY <1>1 DEF Line
<1>3. Lined(p)
  BY DEF Lined
<1>4. Moves(o, p, {})
  BY ClientMoves
<1>5. QED
  BY <1>2, <1>3, <1>4

\* ReapCompletedLocked keeps the line and adds nothing to it.
LEMMA Reaped ==
    ASSUME NEW o, Lined(o), NEW p \in ReapCompleted(o)
    PROVE  Lined(p) /\ Moves(o, p, {})
<1>1. /\ o \in Outcome /\ o.client \in Client /\ o.conns \in Seq(Connection)
  BY OutcomeParts DEF Lined
<1>2. CASE o.client.inFlight = None
  BY <1>2, MovesNothing DEF ReapCompleted
<1>3. CASE o.client.inFlight # None /\ o.client.done
  <2> DEFINE free == [o EXCEPT !.client.inFlight = None, !.client.done = FALSE]
             next == [free EXCEPT !.client.pending = None]
  <2>1. o.client.conn # 0
    BY <1>3 DEF Lined
  <2>2. /\ free \in Outcome /\ free.conns = o.conns
        /\ free.client.conn = o.client.conn /\ free.client.inFlight = None
        /\ free.client.pending = o.client.pending /\ free.client.done = FALSE
    BY <1>1 DEF Outcome, Client
  <2>3. /\ next \in Outcome /\ next.conns = o.conns
        /\ next.client.conn = o.client.conn /\ next.client.inFlight = None
        /\ next.client.pending = None /\ next.client.done = FALSE
    BY <1>1 DEF Outcome, Client
  <2>4. /\ o.client.pending = None => p = free
        /\ o.client.pending # None => p \in StartWrite(next, o.client.pending)
    BY <1>3 DEF ReapCompleted
  <2> HIDE DEF free, next
  <2>5. CASE o.client.pending = None
    BY <2>1, <2>2, <2>4, <2>5, Freed
  <2>6. CASE o.client.pending # None
    <3>1. Lined(next) /\ Moves(o, next, {}) /\ Line(next) = Unread(o)
      BY <2>1, <2>3, Freed
    <3>2. o.client.pending \in Frame /\ AllBefore(Line(next), o.client.pending)
      BY <2>6, <3>1, OutcomeParts DEF Lined
    <3>3. Lined(p) /\ Moves(next, p, {o.client.pending})
      BY <2>1, <2>3, <2>4, <2>6, <3>1, <3>2, WriteStarts
    <3>4. 0 \notin DOMAIN o.conns
      BY <1>1
    <3>5. Moves(o, p, {o.client.pending})
      BY <3>1, <3>3, <3>4, MovesTwice
    <3>6. o.client.pending \in Line(o)
      BY <2>6 DEF Line
    <3>7. QED
      BY <3>3, <3>5, <3>6 DEF Moves
  <2>7. QED
    BY <2>5, <2>6
<1>4. CASE o.client.inFlight # None /\ ~o.client.done
  <2>1. CASE o.conns[o.client.conn].broken
    <3>1. p = [o EXCEPT !.client = NoPipe]
      BY <1>4, <2>1 DEF ReapCompleted, Closed
    <3>2. p \in Outcome /\ p.conns = o.conns /\ p.client = NoPipe
      BY <1>1, <3>1 DEF Outcome, NoPipe, Client
    <3>3. QED
      BY <3>2, GivenUp
  <2>2. CASE ~o.conns[o.client.conn].broken
    BY <1>4, <2>2, MovesNothing DEF ReapCompleted
  <2>3. QED
    BY <2>1, <2>2
<1>5. QED
  BY <1>2, <1>3, <1>4

\* ConnectVerified: a new connection with nothing on it.
LEMMA ConnectsFresh ==
    ASSUME NEW o, Lined(o), o.client.conn = 0, NEW p \in Connected(o)
    PROVE  Lined(p) /\ Moves(o, p, {}) /\ p.client.conn # 0 /\ p.client.inFlight = None
<1> DEFINE new == [queue |-> <<>>, hand |-> None, broken |-> FALSE]
<1>1. /\ o \in Outcome /\ o.client \in Client /\ o.conns \in Seq(Connection)
      /\ o.client.inFlight = None /\ o.client.pending = None /\ ~o.client.done
      /\ o.client.done \in BOOLEAN
  BY OutcomeParts DEF Lined
<1>2. new \in Connection /\ new.queue = <<>>
  BY EmptyQueue DEF Connection
<1>3. p = [client |-> [o.client EXCEPT !.conn = Len(o.conns) + 1], conns |-> Append(o.conns, new)]
  BY DEF Connected
<1> HIDE DEF new
<1>4. /\ p.conns = Append(o.conns, new)
      /\ p.client = [o.client EXCEPT !.conn = Len(o.conns) + 1]
      /\ p.client \in Client
      /\ p.client.conn = Len(o.conns) + 1 /\ p.client.inFlight = None
      /\ p.client.pending = None /\ ~p.client.done
  <2>1. Len(o.conns) + 1 \in Nat
    BY <1>1
  <2>2. QED
    BY <1>1, <1>3, <2>1 DEF Client
<1>5. /\ p.conns \in Seq(Connection) /\ Len(p.conns) = Len(o.conns) + 1
      /\ DOMAIN o.conns \subseteq DOMAIN p.conns
      /\ \A n \in DOMAIN o.conns : p.conns[n] = o.conns[n]
      /\ \A n \in DOMAIN p.conns : n \in DOMAIN o.conns \/ n = Len(o.conns) + 1
      /\ p.conns[Len(o.conns) + 1] = new
      /\ Len(o.conns) + 1 \notin DOMAIN o.conns /\ Len(o.conns) + 1 # 0
  BY <1>1, <1>2, <1>4
<1>6. p \in Outcome
  BY <1>3, <1>4, <1>5 DEF Outcome
<1>7. Unread(p) = {} /\ Line(p) = {}
  BY <1>2, <1>4, <1>5, EmptyQueue DEF Unread, Line
<1>8. \A n \in DOMAIN p.conns : Sorted(p.conns[n].queue)
  BY <1>2, <1>5, EmptyQueue DEF Lined
<1>9. Lined(p)
  BY <1>4, <1>5, <1>6, <1>7, <1>8 DEF Lined
<1>10. Moves(o, p, {})
  BY <1>2, <1>4, <1>5, <1>7, EmptyQueue DEF Moves
<1>11. QED
  BY <1>4, <1>5, <1>9, <1>10

\* The rest of TryPush, for a frame newer than the line.
LEMMA FramePushed ==
    ASSUME NEW o, Lined(o), NEW f \in Frame, AllBefore(Line(o), f), NEW p \in PushFrame(o, f)
    PROVE  Lined(p) /\ Moves(o, p, {f})
<1>1. /\ o \in Outcome /\ o.client \in Client /\ o.conns \in Seq(Connection)
      /\ 0 \notin DOMAIN o.conns
  BY OutcomeParts DEF Lined
<1>2. CASE o.client.inFlight # None
  <2>1. p = [o EXCEPT !.client.pending = f]
    BY <1>2 DEF PushFrame
  <2>2. /\ p \in Outcome /\ p.conns = o.conns /\ p.client.inFlight = o.client.inFlight
        /\ p.client.conn = o.client.conn /\ p.client.pending = f
        /\ p.client.done = o.client.done
    BY <1>1, <2>1 DEF Outcome, Client
  <2>3. Unread(p) = Unread(o) /\ Unread(o) \subseteq Line(o) /\ o.client.inFlight \in Line(o)
    BY <1>2, <2>2 DEF Unread, Line
  <2>4. Lined(p)
    BY <1>2, <2>2, <2>3 DEF Lined, AllBefore
  <2>5. Moves(o, p, {f})
    BY <2>2, <2>3, ClientMoves
  <2>6. QED
    BY <2>4, <2>5
<1>3. CASE o.client.inFlight = None /\ o.client.conn # 0
  BY <1>3, WriteStarts DEF PushFrame
<1>4. CASE o.client.inFlight = None /\ o.client.conn = 0
  <2>1. \/ p = [o EXCEPT !.client.pending = None]
        \/ \E r \in Connected(o) : p \in StartWrite(r, f)
    BY <1>4 DEF PushFrame
  <2>2. CASE p = [o EXCEPT !.client.pending = None]
    <3>1. /\ p \in Outcome /\ p.conns = o.conns /\ p.client.inFlight = None
          /\ p.client.conn = 0 /\ p.client.pending = None
          /\ p.client.done = o.client.done
      BY <1>1, <1>4, <2>2 DEF Outcome, Client
    <3>2. Lined(p)
      BY <1>4, <3>1 DEF Lined
    <3>3. QED
      BY <3>1, <3>2, ClientMoves
  <2>3. ASSUME NEW r \in Connected(o), p \in StartWrite(r, f)
        PROVE  Lined(p) /\ Moves(o, p, {f})
    <3>1. Lined(r) /\ Moves(o, r, {}) /\ r.client.conn # 0 /\ r.client.inFlight = None
      BY <1>4, ConnectsFresh
    <3>2. AllBefore(Line(r), f)
      BY <3>1 DEF Moves, AllBefore
    <3>3. Lined(p) /\ Moves(r, p, {f})
      BY <2>3, <3>1, <3>2, WriteStarts
    <3>4. QED
      BY <1>1, <3>1, <3>3, MovesTwice
  <2>4. QED
    BY <2>1, <2>2, <2>3
<1>5. QED
  BY <1>2, <1>3, <1>4

-----------------------------------------------------------------------------
(* The pipes of all editors *)

\* The line of another editor stays as it was.
LEMMA OtherLine ==
    ASSUME NEW o, Lined(o), NEW p, Lined(p), NEW N, Moves(o, p, N),
           NEW x, Lined(x), x.conns = o.conns,
           x.client.conn = o.client.conn => x.client.conn = 0,
           NEW y \in Outcome, y.client = x.client, y.conns = p.conns
    PROVE  Lined(y) /\ Line(y) = Line(x)
<1>1. /\ x.client.conn \in Nat
      /\ x.client.conn # 0 => x.client.conn \in DOMAIN x.conns
  BY OutcomeParts
<1>2. x.client.conn # 0 => p.conns[x.client.conn] = x.conns[x.client.conn]
  BY <1>1 DEF Moves
<1>3. Unread(y) = Unread(x) /\ Line(y) = Line(x)
  BY <1>2 DEF Unread, Line
<1>4. x.client.conn <= Len(y.conns)
  <2>1. x.conns \in Seq(Connection) /\ y.conns \in Seq(Connection)
    BY OutcomeParts DEF Outcome
  <2>2. DOMAIN x.conns \subseteq DOMAIN y.conns
    BY DEF Moves
  <2>3. QED
    BY <1>1, <2>1, <2>2
<1>5. \A n \in DOMAIN y.conns : Sorted(y.conns[n].queue)
  BY DEF Lined
<1>6. Lined(y)
  BY <1>3, <1>4, <1>5 DEF Lined
<1>7. QED
  BY <1>3, <1>6

\* Members of unions.
LEMMA InUnions ==
    ASSUME NEW A, NEW B, NEW g
    PROVE  g \in (UNION A) \cup (UNION B) <=> (\E L \in A : g \in L) \/ (\E Q \in B : g \in Q)
OBVIOUS

\* The frames sent, one by one.
LEMMA SentParts ==
    /\ \A e \in Editors : Line(Outgoing(e)) \subseteq Sent
    /\ \A n \in DOMAIN conns : On(conns[n].queue) \subseteq Sent
    /\ \A g \in Sent : \/ \E e \in Editors : g \in Line(Outgoing(e))
                       \/ \E n \in DOMAIN conns : g \in On(conns[n].queue)
<1>1. ASSUME NEW g
      PROVE  g \in Sent <=> \/ \E e \in Editors : g \in Line(Outgoing(e))
                            \/ \E n \in DOMAIN conns : g \in On(conns[n].queue)
  <2> DEFINE Lines == {Line(Outgoing(e)) : e \in Editors}
             Queues == {On(conns[n].queue) : n \in DOMAIN conns}
  <2>1. g \in Sent <=> (\E L \in Lines : g \in L) \/ (\E Q \in Queues : g \in Q)
    BY InUnions DEF Sent
  <2>2. QED
    BY <2>1
<1>2. QED
  BY <1>1

\* What is sent are frames.
LEMMA SentFrames ==
    ASSUME Piped
    PROVE  Sent \subseteq Frame
<1>1. \A e \in Editors : Line(Outgoing(e)) \subseteq Frame
  BY OutcomeParts DEF Piped
<1>2. \A n \in DOMAIN conns : On(conns[n].queue) \subseteq Frame
  <2> SUFFICES ASSUME NEW n \in DOMAIN conns PROVE On(conns[n].queue) \subseteq Frame
    OBVIOUS
  <2>1. conns[n] \in Connection
    BY DEF Piped
  <2>2. conns[n].queue \in Seq(Frame)
    BY <2>1 DEF Connection
  <2>3. QED
    BY <2>2 DEF On
<1>3. QED
  BY <1>1, <1>2, SentParts

\* A client typed by itself is typed with the connections there are.
LEMMA ClientTyped ==
    ASSUME NEW o, Lined(o)
    PROVE  o.client \in [conn : 0..Len(o.conns), inFlight : Frame \cup {None},
                         done : BOOLEAN, pending : Frame \cup {None}]
<1>1. /\ o.client \in Client /\ o.conns \in Seq(Connection)
      /\ o.client.conn <= Len(o.conns)
  BY OutcomeParts DEF Lined
<1>2. o.client.conn \in 0 .. Len(o.conns)
  BY <1>1 DEF Client
<1>3. QED
  BY <1>1, <1>2 DEF Client

\* A step of the client of editor e.
LEMMA ClientStep ==
    ASSUME Piped, NEW e \in Editors, NEW p, NEW N \in SUBSET Frame,
           Lined(p), Moves(Outgoing(e), p, N),
           client' = [client EXCEPT ![e] = p.client], conns' = p.conns
    PROVE  Piped' /\ Adds(e, N)
<1> DEFINE After(d) == [client |-> client'[d], conns |-> conns']
<1>1. /\ Lined(Outgoing(e)) /\ Outgoing(e).conns = conns /\ Outgoing(e).client = client[e]
      /\ \A d \in Editors : /\ Lined(Outgoing(d)) /\ Outgoing(d).conns = conns
                            /\ Outgoing(d).client = client[d]
  BY DEF Piped, Outgoing
<1>2. /\ client'[e] = p.client
      /\ \A d \in Editors : d # e => client'[d] = client[d]
      /\ DOMAIN client' = Editors /\ client' = [d \in Editors |-> client'[d]]
  BY DEF Piped
<1>3. conns' \in Seq(Connection) /\ p.client \in Client
  BY OutcomeParts
<1>4. \A d \in Editors : client[d] \in Client
  BY <1>1, OutcomeParts
<1>5. Lined(After(e)) /\ Line(After(e)) \subseteq Line(Outgoing(e)) \cup N
  <2>1. /\ After(e) \in Outcome /\ After(e).client = p.client /\ After(e).conns = p.conns
    BY <1>2, <1>3 DEF Outcome
  <2>2. Unread(After(e)) = Unread(p) /\ Line(After(e)) = Line(p)
    BY <2>1 DEF Unread, Line
  <2>3. QED
    BY <2>1, <2>2 DEF Lined, Moves
<1>6. ASSUME NEW d \in Editors, d # e
      PROVE  Lined(After(d)) /\ Line(After(d)) = Line(Outgoing(d))
  <2>1. After(d) \in Outcome /\ After(d).client = client[d] /\ After(d).conns = p.conns
    BY <1>2, <1>3, <1>4, <1>6 DEF Outcome
  <2>2. client[d].conn = client[e].conn => client[d].conn = 0
    BY <1>6 DEF Piped, OwnPipes
  <2> HIDE DEF After
  <2>3. QED
    BY <1>1, <2>1, <2>2, OtherLine
<1>7. \A d \in Editors : Outgoing(d)' = After(d)
  BY DEF Outgoing
<1> HIDE DEF After
<1>8. \A d \in Editors : Lined(Outgoing(d))'
  BY <1>5, <1>6, <1>7
<1>9. client' \in [Editors -> [conn : 0..Len(conns'), inFlight : Frame \cup {None},
                               done : BOOLEAN, pending : Frame \cup {None}]]
  <2>1. \A d \in Editors : client'[d] \in [conn : 0..Len(conns'), inFlight : Frame \cup {None},
                                           done : BOOLEAN, pending : Frame \cup {None}]
    <3> SUFFICES ASSUME NEW d \in Editors
                 PROVE  client'[d] \in [conn : 0..Len(conns'), inFlight : Frame \cup {None},
                                        done : BOOLEAN, pending : Frame \cup {None}]
      OBVIOUS
    <3>1. After(d).client = client'[d] /\ After(d).conns = conns'
      BY DEF After
    <3>2. Lined(After(d))
      BY <1>5, <1>6
    <3>3. QED
      BY <3>1, <3>2, ClientTyped
  <2>2. QED
    BY <1>2, <2>1
<1>10. OwnPipes'
  <2>1. \A d \in Editors : client[d].conn \in Nat /\ client[d].conn <= Len(conns)
    BY <1>1, OutcomeParts DEF Lined
  <2>2. ASSUME NEW d \in Editors, d # e, client'[d].conn = client'[e].conn, client'[d].conn # 0
        PROVE  FALSE
    <3>1. client'[d].conn = client[d].conn
      BY <1>2, <2>2
    <3>2. client[d].conn \in DOMAIN conns
      BY <1>1, <2>2, <3>1, OutcomeParts
    <3>3. client[d].conn # client[e].conn
      BY <2>2, <3>1 DEF Piped, OwnPipes
    <3>4. QED
      BY <1>1, <1>2, <2>2, <3>1, <3>2, <3>3 DEF Moves
  <2>3. \A c, d \in Editors : c # e /\ d # e /\ client'[c].conn = client'[d].conn
                                /\ client'[c].conn # 0 => c = d
    BY <1>2 DEF Piped, OwnPipes
  <2>4. QED
    BY <2>2, <2>3 DEF OwnPipes
<1>11. Piped'
  BY <1>3, <1>8, <1>9, <1>10 DEF Piped
<1>12. \A d \in Editors :
          Line(Outgoing(d))' \subseteq Line(Outgoing(d)) \cup (IF d = e THEN N ELSE {})
  BY <1>5, <1>6, <1>7
<1>13. Sent' \subseteq Sent \cup N
  <2> SUFFICES ASSUME NEW g \in Sent' PROVE g \in Sent \cup N
    OBVIOUS
  <2>1. \/ \E d \in Editors : g \in Line(Outgoing(d))'
        \/ \E n \in DOMAIN conns' : g \in On(conns'[n].queue)
    <3> DEFINE Lines == {Line(Outgoing(d))' : d \in Editors}
               Queues == {On(conns'[n].queue) : n \in DOMAIN conns'}
    <3>1. g \in (UNION Lines) \cup (UNION Queues)
      BY DEF Sent
    <3>2. (\E L \in Lines : g \in L) \/ (\E Q \in Queues : g \in Q)
      BY <3>1, InUnions
    <3>3. QED
      BY <3>2
  <2>2. CASE \E d \in Editors : g \in Line(Outgoing(d))'
    BY <1>12, <2>2, SentParts
  <2>3. CASE \E n \in DOMAIN conns' : g \in On(conns'[n].queue)
    BY <1>1, <2>3, SentParts DEF Moves
  <2>4. QED
    BY <2>1, <2>2, <2>3
<1>14. QED
  BY <1>11, <1>12, <1>13 DEF Adds

\* TryPush of a frame newer than everything on the editor's line.
LEMMA Pushing ==
    ASSUME Piped, NEW e \in Editors, NEW f \in Frame, AllBefore(Line(Outgoing(e)), f),
           TryPush(e, f)
    PROVE  Piped' /\ Adds(e, {f})
<1>1. Lined(Outgoing(e))
  BY DEF Piped
<1>2. PICK r \in ReapCompleted(Outgoing(e)) : \E p \in PushFrame(r, f) :
         client' = [client EXCEPT ![e] = p.client] /\ conns' = p.conns
  BY DEF TryPush, Outgoing
<1>3. PICK p \in PushFrame(r, f) :
         client' = [client EXCEPT ![e] = p.client] /\ conns' = p.conns
  BY <1>2
<1>4. Lined(r) /\ Moves(Outgoing(e), r, {})
  BY <1>1, Reaped
<1>5. AllBefore(Line(r), f)
  BY <1>4 DEF Moves, AllBefore
<1>6. Lined(p) /\ Moves(r, p, {f})
  BY <1>4, <1>5, FramePushed
<1>7. 0 \notin DOMAIN Outgoing(e).conns
  <2>1. Outgoing(e).conns \in Seq(Connection)
    BY <1>1, OutcomeParts
  <2>2. QED
    BY <2>1
<1>8. Moves(Outgoing(e), p, {f})
  BY <1>4, <1>6, <1>7, MovesTwice
<1>9. QED
  BY <1>3, <1>6, <1>8, ClientStep

\* Nothing is pushed.
LEMMA NotPushing ==
    ASSUME Piped, UNCHANGED <<client, conns>>, NEW e
    PROVE  Piped' /\ Adds(e, {})
<1>1. Sent' = Sent
  BY DEF Sent, Outgoing, Line, Unread
<1>2. \A d \in Editors : Outgoing(d)' = Outgoing(d)
  BY DEF Outgoing
<1>3. Piped'
  BY <1>2 DEF Piped, OwnPipes
<1>4. QED
  BY <1>1, <1>2, <1>3 DEF Adds

\* A write in flight completes: its frame moves to the end of the queue.
LEMMA WriteCompleted ==
    ASSUME Piped, NEW e \in Editors, WriteCompletes(e)
    PROVE  Piped' /\ Adds(e, {})
<1> DEFINE o == Outgoing(e)
           c == client[e].conn
           f == client[e].inFlight
           x == [conns[c] EXCEPT !.queue = Append(@, f)]
           p == [client |-> [client[e] EXCEPT !.done = TRUE], conns |-> [conns EXCEPT ![c] = x]]
<1>1. Lined(o) /\ o.client = client[e] /\ o.conns = conns
  BY DEF Piped, Outgoing
<1>2. /\ client[e] \in Client /\ conns \in Seq(Connection)
      /\ f \in Frame /\ ~client[e].done /\ c # 0 /\ c \in Nat
      /\ c \in DOMAIN conns /\ conns[c] \in Connection /\ conns[c].queue \in Seq(Frame)
      /\ f # None
  <2>1. f # None /\ ~client[e].done
    BY DEF WriteCompletes
  <2>2. c # 0
    BY <1>1, <2>1 DEF Lined
  <2>3. QED
    BY <1>1, <2>1, <2>2, OutcomeParts
<1>3. /\ client' = [client EXCEPT ![e] = p.client] /\ conns' = p.conns
  BY DEF WriteCompletes
<1>4. x \in Connection /\ x.queue = Append(conns[c].queue, f)
  <2>1. Append(conns[c].queue, f) \in Seq(Frame)
    BY <1>2
  <2>2. QED
    BY <1>2, <2>1 DEF Connection
<1>5. /\ p.client \in Client /\ p.client.conn = c /\ p.client.inFlight = f
      /\ p.client.pending = client[e].pending /\ p.client.done = TRUE
  BY <1>2 DEF Client
<1> HIDE DEF x
<1>6. /\ p.conns \in Seq(Connection) /\ Len(p.conns) = Len(conns)
      /\ DOMAIN p.conns = DOMAIN conns
      /\ p.conns[c] = x
      /\ \A n \in DOMAIN conns : n # c => p.conns[n] = conns[n]
  <2>1. p.conns = [conns EXCEPT ![c] = x]
    OBVIOUS
  <2>2. p.conns \in Seq(Connection) /\ DOMAIN p.conns = DOMAIN conns
    BY <1>2, <1>4, <2>1
  <2>3. Len(p.conns) = Len(conns)
    BY <1>2, <2>2
  <2>4. QED
    BY <1>2, <2>1, <2>2, <2>3
<1>7. p \in Outcome
  BY <1>5, <1>6 DEF Outcome
<1> HIDE DEF p
<1>8. On(x.queue) = On(conns[c].queue) \cup {f} /\ Unread(o) = On(conns[c].queue)
  BY <1>1, <1>2, <1>4, OnAppend DEF Unread
<1>9. Sorted(x.queue)
  <2>1. AllBefore(On(conns[c].queue), f)
    BY <1>1, <1>2, <1>8 DEF Lined
  <2>2. Sorted(conns[c].queue)
    BY <1>1, <1>2 DEF Lined
  <2>3. QED
    BY <1>2, <1>4, <2>1, <2>2, SortedAppend
<1>10. Unread(p) = Unread(o) \cup {f} /\ Line(p) = Line(o)
  BY <1>1, <1>2, <1>5, <1>6, <1>8 DEF Unread, Line
<1>11. Lined(p)
  <2>1. \A n \in DOMAIN p.conns : Sorted(p.conns[n].queue)
    BY <1>1, <1>6, <1>9 DEF Lined
  <2>2. p.client.pending # None =>
           AllBefore(Unread(p), p.client.pending) /\ Before(p.client.inFlight, p.client.pending)
    BY <1>1, <1>5, <1>10 DEF Lined, AllBefore
  <2>3. p.client.conn <= Len(p.conns)
    BY <1>1, <1>5, <1>6 DEF Lined
  <2>4. QED
    BY <1>2, <1>5, <1>7, <2>1, <2>2, <2>3 DEF Lined
<1>12. Moves(o, p, {})
  <2>1. \A n \in DOMAIN p.conns : \A g \in On(p.conns[n].queue) :
           g \in Line(o) \/ (n \in DOMAIN o.conns /\ g \in On(o.conns[n].queue))
    BY <1>1, <1>2, <1>6, <1>8 DEF Line
  <2>2. QED
    BY <1>1, <1>5, <1>6, <1>10, <2>1 DEF Moves
<1>13. QED
  BY <1>3, <1>11, <1>12, ClientStep

\* A broker thread takes frames from its connection, and adds none.
LEMMA BrokerStep ==
    ASSUME Piped, NEW n \in DOMAIN conns, NEW x \in Connection,
           On(x.queue) \subseteq On(conns[n].queue), Sorted(conns[n].queue) => Sorted(x.queue),
           client' = client, conns' = [conns EXCEPT ![n] = x]
    PROVE  Piped' /\ Adds(None, {})
<1> DEFINE After(d) == [client |-> client[d], conns |-> conns']
<1>1. /\ conns \in Seq(Connection) /\ conns' \in Seq(Connection)
      /\ DOMAIN conns' = DOMAIN conns /\ Len(conns') = Len(conns)
      /\ conns'[n] = x /\ \A m \in DOMAIN conns : m # n => conns'[m] = conns[m]
  <2>1. conns \in Seq(Connection)
    BY DEF Piped
  <2>2. conns' \in Seq(Connection) /\ DOMAIN conns' = DOMAIN conns
    BY <2>1
  <2>3. Len(conns') = Len(conns)
    BY <2>1, <2>2
  <2>4. QED
    BY <2>1, <2>2, <2>3
<1>2. \A m \in DOMAIN conns : On(conns'[m].queue) \subseteq On(conns[m].queue)
  BY <1>1
<1>3. ASSUME NEW d \in Editors
      PROVE  Lined(After(d)) /\ Line(After(d)) \subseteq Line(Outgoing(d))
  <2>1. Lined(Outgoing(d)) /\ Outgoing(d).client = client[d] /\ Outgoing(d).conns = conns
    BY DEF Piped, Outgoing
  <2>2. /\ client[d] \in Client /\ client[d].conn \in Nat
        /\ client[d].conn # 0 => client[d].conn \in DOMAIN conns
    BY <2>1, OutcomeParts
  <2>3. After(d) \in Outcome /\ After(d).client = client[d] /\ After(d).conns = conns'
    BY <1>1, <2>2 DEF Outcome
  <2> HIDE DEF After
  <2>4. Unread(After(d)) \subseteq Unread(Outgoing(d))
    BY <1>2, <2>1, <2>2, <2>3 DEF Unread
  <2>5. Line(After(d)) \subseteq Line(Outgoing(d))
    BY <2>1, <2>3, <2>4 DEF Line
  <2>6. \A m \in DOMAIN conns' : Sorted(conns'[m].queue)
    BY <1>1, <2>1 DEF Lined
  <2>7. Lined(After(d))
    BY <1>1, <2>1, <2>3, <2>4, <2>6 DEF Lined, AllBefore
  <2>8. QED
    BY <2>5, <2>7
<1>4. \A d \in Editors : Outgoing(d)' = After(d)
  BY DEF Outgoing
<1> HIDE DEF After
<1>5. Piped'
  <2>1. \A d \in Editors : Lined(Outgoing(d))'
    BY <1>3, <1>4
  <2>2. client' \in [Editors -> [conn : 0..Len(conns'), inFlight : Frame \cup {None},
                                 done : BOOLEAN, pending : Frame \cup {None}]]
    BY <1>1 DEF Piped
  <2>3. OwnPipes'
    BY DEF Piped, OwnPipes
  <2>4. QED
    BY <1>1, <2>1, <2>2, <2>3 DEF Piped
<1>6. \A d \in Editors : Line(Outgoing(d))' \subseteq Line(Outgoing(d))
  BY <1>3, <1>4
<1>7. Sent' \subseteq Sent
  <2> SUFFICES ASSUME NEW g \in Sent' PROVE g \in Sent
    OBVIOUS
  <2> DEFINE Lines == {Line(Outgoing(d))' : d \in Editors}
             Queues == {On(conns'[m].queue) : m \in DOMAIN conns'}
  <2>1. g \in (UNION Lines) \cup (UNION Queues)
    BY DEF Sent
  <2>2. (\E L \in Lines : g \in L) \/ (\E Q \in Queues : g \in Q)
    BY <2>1, InUnions
  <2>3. \/ \E d \in Editors : g \in Line(Outgoing(d))'
        \/ \E m \in DOMAIN conns' : g \in On(conns'[m].queue)
    BY <2>2
  <2>4. QED
    BY <1>1, <1>2, <1>6, <2>3, SentParts
<1>8. QED
  BY <1>5, <1>6, <1>7 DEF Adds

-----------------------------------------------------------------------------
(* The adapters *)

\* What a step of editor e does to focuses and sessions: a capture reserves the
\* next stamp i, anything else leaves the reserved ones or drops some.
LEMMA FocusStep ==
    ASSUME CaptureInv, NEW e \in Editors, NEW i \in Stamp,
           identity' = [identity EXCEPT ![e] = i],
           \/ i.cap \in {0, identity[e].cap} /\ drawn' = drawn
           \/ i.cap = drawn + 1 /\ drawn' = drawn + 1,
           \/ i = identity[e] \/ i.cap = 0
           \/ i.cap = identity[e].cap => i.rev > identity[e].rev,
           \A d \in Editors \ {e} : sessions'[d] = sessions[d] /\ captured'[d] = captured[d],
           \/ sessions'[e] \subseteq sessions[e] /\ captured'[e] = captured[e]
           \/ /\ i.cap # 0 /\ i # identity[e]
              /\ sessions'[e] = sessions[e] \cup {i} /\ captured'[e] = i
    PROVE  /\ \A d \in Editors : Stamped(d)'
           /\ \A d \in Editors : \A g \in Line(Outgoing(d)) : Passed(d, g)'
           /\ \A g \in Sent : g.cap # 0 /\ Known(g)'
<1>1. /\ drawn \in Nat /\ identity \in [Editors -> Stamp]
      /\ \A d \in Editors : sessions[d] \subseteq Stamp
      /\ \A d \in Editors : Stamped(d)
      /\ \A g \in Sent : g \in Frame /\ Known(g)
      /\ \A d \in Editors : Line(Outgoing(d)) \subseteq Sent
      /\ \A d \in Editors : \A g \in Line(Outgoing(d)) : Passed(d, g)
  BY SentFrames, SentParts DEF CaptureInv, TypeOK
<1>2. /\ identity'[e] = i /\ \A d \in Editors : d # e => identity'[d] = identity[d]
      /\ drawn' \in Nat /\ drawn <= drawn'
      /\ i.cap \in Nat /\ i.rev \in Nat
      /\ \A d \in Editors : identity[d].cap \in Nat /\ identity[d].rev \in Nat
      /\ \A d \in Editors : \A s \in sessions[d] : s.cap \in Nat /\ s.rev \in Nat
      /\ \A g \in Sent : g.cap \in Nat /\ g.rev \in Nat
  BY <1>1 DEF Stamp, Frame
<1>3. ASSUME NEW d \in Editors PROVE Stamped(d)'
  <2>1. identity'[d].cap <= drawn'
    BY <1>1, <1>2 DEF Stamped
  <2>2. \A b \in Editors : identity'[b].cap = identity'[d].cap /\ identity'[d].cap # 0 => b = d
    BY <1>1, <1>2 DEF Stamped, Active
  <2>3. ASSUME NEW s \in sessions'[d]
        PROVE  /\ s.cap \in 1 .. drawn'
               /\ s.cap = identity'[d].cap => s.rev <= identity'[d].rev
               /\ s = identity'[d] => captured'[d] = s
    <3>1. CASE d # e
      BY <1>1, <1>2, <2>3, <3>1 DEF Stamped
    <3>2. CASE d = e /\ s = i /\ captured'[e] = i
      BY <1>1, <1>2, <2>1, <2>3, <3>2 DEF Stamped
    <3>3. CASE d = e /\ s \in sessions[e] /\ (s # i \/ captured'[e] # i)
      <4>1. /\ s.cap \in 1 .. drawn
            /\ s.cap = identity[e].cap => s.rev <= identity[e].rev
            /\ s = identity[e] => captured[e] = s
        BY <1>1, <3>3 DEF Stamped
      <4>2. s.cap = i.cap => i.cap = identity[e].cap /\ s.rev <= i.rev
        BY <1>1, <1>2, <3>3, <4>1
      <4>3. s = i => i = identity[e]
        BY <1>1, <1>2, <3>3, <4>1, <4>2
      <4>4. QED
        BY <1>1, <1>2, <3>3, <4>1, <4>2, <4>3
    <3>4. QED
      BY <2>3, <3>1, <3>2, <3>3
  <2>4. QED
    BY <2>1, <2>2, <2>3 DEF Stamped, Active
<1>4. ASSUME NEW d \in Editors, NEW g \in Line(Outgoing(d)) PROVE Passed(d, g)'
  <2>1. /\ g \in Sent /\ g.cap \in 1 .. drawn
        /\ identity[d].cap = g.cap => g.rev <= identity[d].rev
        /\ identity[d].cap # 0 => g.cap <= identity[d].cap
        /\ g.cap = identity[d].cap => [cap |-> g.cap, rev |-> g.rev] \notin sessions[d]
    BY <1>1 DEF Known, Passed, Active
  <2>2. CASE d # e
    BY <1>1, <1>2, <2>1, <2>2 DEF Passed, Active
  <2>3. CASE d = e
    <3>1. i.cap # 0 => g.cap <= i.cap
      BY <1>1, <1>2, <2>1, <2>3
    <3>2. ASSUME g.cap = i.cap PROVE [cap |-> g.cap, rev |-> g.rev] \notin sessions'[e]
      <4>1. g.cap = identity[e].cap
        BY <1>1, <1>2, <2>1, <2>3, <3>2
      <4>2. [cap |-> g.cap, rev |-> g.rev] \notin sessions[e] /\ g.rev <= identity[e].rev
        BY <2>1, <2>3, <4>1
      <4>3. i # identity[e] => [cap |-> g.cap, rev |-> g.rev] # i
        BY <1>2, <2>1, <3>2, <4>1, <4>2
      <4>4. QED
        BY <4>2, <4>3
    <3>3. QED
      BY <1>2, <2>3, <3>1, <3>2 DEF Passed, Active
  <2>4. QED
    BY <2>2, <2>3
<1>5. ASSUME NEW g \in Sent PROVE g.cap # 0 /\ Known(g)'
  <2>1. g.cap \in 1 .. drawn
    BY <1>1 DEF Known
  <2>2. ASSUME NEW d \in Editors, identity'[d].cap = g.cap
        PROVE  g.kind = "context" /\ g.rev <= identity'[d].rev
    BY <1>1, <1>2, <2>1, <2>2 DEF Known
  <2>3. QED
    BY <1>1, <1>2, <2>1, <2>2 DEF Known
<1>6. QED
  BY <1>3, <1>4, <1>5

\* The invariant after a step that puts at most one frame on the line of e.
LEMMA StepTogether ==
    ASSUME CaptureInv, TypeOK', PredictionProvenByNewest', Piped',
           NEW e, NEW N \in SUBSET Frame, \A f, g \in N : f = g, Adds(e, N),
           \A d \in Editors : Stamped(d)',
           \A d \in Editors : \A g \in Line(Outgoing(d)) : Passed(d, g)',
           \A g \in Sent : Known(g)',
           \A f \in N : Known(f)' /\ (e \in Editors => Passed(e, f)'),
           \A f \in N : \A g \in Sent : g.cap = f.cap =>
              g.kind = "context" /\ (f.kind # "context" => g.rev <= f.rev)
    PROVE  CaptureInv'
<1>1. \A d \in Editors : \A g \in Line(Outgoing(d))' : Passed(d, g)'
  BY DEF Adds
<1>2. \A g \in Sent' : Known(g)'
  BY DEF Adds
<1>3. ClearsAreLast'
  <2> SUFFICES ASSUME NEW f \in Sent', NEW g \in Sent', f.kind # "context", g.cap = f.cap
               PROVE  g.rev <= f.rev
    BY DEF ClearsAreLast
  <2>1. f \in Sent \cup N /\ g \in Sent \cup N
    BY DEF Adds
  <2>2. CASE f \in Sent /\ g \in Sent
    BY <2>2 DEF CaptureInv, ClearsAreLast
  <2>3. CASE f \in N /\ g \in Sent
    BY <2>3
  <2>4. CASE f \in Sent /\ g \in N
    BY <2>4
  <2>5. CASE f \in N /\ g \in N
    <3>1. f = g /\ f.rev \in Nat
      BY <2>5 DEF Frame
    <3>2. QED
      BY <3>1
  <2>6. QED
    BY <2>1, <2>2, <2>3, <2>4, <2>5
<1>4. QED
  BY <1>1, <1>2, <1>3 DEF CaptureInv

\* A step that leaves the adapters alone and adds no frame.
LEMMA PipeStep ==
    ASSUME CaptureInv, UNCHANGED adapterVars, Piped', NEW e, Adds(e, {}),
           hasSource' \in BOOLEAN, latest' \in Stamp, retired' \subseteq Nat,
           bridge' \in Handed \cup {None}
    PROVE  CaptureInv'
<1>1. TypeOK' /\ PredictionProvenByNewest'
  BY DEF CaptureInv, TypeOK, PredictionProvenByNewest, adapterVars, Piped
<1>2. /\ \A d \in Editors : Stamped(d)'
      /\ \A d \in Editors : \A g \in Line(Outgoing(d)) : Passed(d, g)'
      /\ \A g \in Sent : Known(g)'
  <2>1. /\ \A d \in Editors : Stamped(d)
        /\ \A d \in Editors : \A g \in Line(Outgoing(d)) : Passed(d, g)
        /\ \A g \in Sent : Known(g)
    BY DEF CaptureInv
  <2>2. \A d \in Editors : Stamped(d)'
    BY <2>1 DEF Stamped, Active, adapterVars
  <2>3. \A d \in Editors : \A g \in Line(Outgoing(d)) : Passed(d, g)'
    BY <2>1 DEF Passed, Active, adapterVars
  <2>4. \A g \in Sent : Known(g)'
    BY <2>1 DEF Known, adapterVars
  <2>5. QED
    BY <2>2, <2>3, <2>4
<1>3. QED
  BY <1>1, <1>2, StepTogether

\* BeginWeaselContextFocus
LEMMA BeginFocusKeeps ==
    ASSUME CaptureInv, NEW e \in Editors, BeginFocus(e)
    PROVE  CaptureInv'
<1>1. /\ UNCHANGED <<sessions, denied, proof, captured, client, conns, hasSource, latest,
                     retired, bridge>>
      /\ allowed' = [allowed EXCEPT ![e] = FALSE]
  BY DEF BeginFocus, receiverVars
<1>2. drawn \in Nat /\ NoFocus \in Stamp /\ [cap |-> drawn + 1, rev |-> 0] \in Stamp
  BY DEF CaptureInv, TypeOK, NoFocus, Stamp
<1>3. PICK i \in Stamp :
         /\ identity' = [identity EXCEPT ![e] = i]
         /\ \/ i.cap = 0 /\ i = NoFocus /\ drawn' = drawn
            \/ i.cap = drawn + 1 /\ drawn' = drawn + 1
  BY <1>2 DEF BeginFocus, FreshFocus, NoFocus
<1>4. TypeOK' /\ PredictionProvenByNewest'
  <2>1. TypeOK'
    BY <1>1, <1>2, <1>3 DEF CaptureInv, TypeOK
  <2>2. PredictionProvenByNewest'
    BY <1>1 DEF CaptureInv, TypeOK, PredictionProvenByNewest
  <2>3. QED
    BY <2>1, <2>2
<1>5. i.cap = 0 \/ i.cap # identity[e].cap
  <2>1. identity[e] \in Stamp /\ identity[e].cap <= drawn
    BY DEF CaptureInv, TypeOK, Stamped
  <2>2. QED
    BY <1>2, <1>3, <2>1 DEF Stamp
<1>6. /\ \A d \in Editors : Stamped(d)'
      /\ \A d \in Editors : \A g \in Line(Outgoing(d)) : Passed(d, g)'
      /\ \A g \in Sent : Known(g)'
  BY <1>1, <1>3, <1>5, FocusStep
<1>7. Piped' /\ Adds(e, {})
  BY <1>1, NotPushing DEF CaptureInv
<1>8. QED
  BY <1>4, <1>6, <1>7, StepTogether

\* SourceContextIdentity::Capture draws the next revision of the same focus.
LEMMA NextStamp ==
    ASSUME NEW i \in Stamp
    PROVE  Bumped(i) \in Stamp /\ Bumped(i).cap = i.cap /\ Bumped(i).rev = i.rev + 1
BY DEF Bumped, Stamp

\* CaptureWeaselContext
LEMMA CaptureKeeps ==
    ASSUME CaptureInv, NEW e \in Editors, Capture(e)
    PROVE  CaptureInv'
<1>1. /\ UNCHANGED <<denied, proof, client, conns, hasSource, latest, retired, bridge>>
      /\ allowed' = [allowed EXCEPT ![e] = FALSE]
  BY DEF Capture, receiverVars
<1>2. /\ drawn \in Nat /\ identity[e] \in Stamp /\ identity[e].cap \in Nat
      /\ identity[e].rev \in Nat /\ identity[e].cap <= drawn
      /\ Bumped(identity[e]) \in Stamp
      /\ Bumped(identity[e]).cap = identity[e].cap
      /\ Bumped(identity[e]).rev = identity[e].rev + 1
      /\ Bumped([cap |-> drawn + 1, rev |-> 0]) \in Stamp
      /\ Bumped([cap |-> drawn + 1, rev |-> 0]).cap = drawn + 1
      /\ identity \in [Editors -> Stamp] /\ sessions \in [Editors -> SUBSET Stamp]
      /\ captured \in [Editors -> Stamp]
  <2>1. /\ drawn \in Nat /\ identity \in [Editors -> Stamp]
        /\ sessions \in [Editors -> SUBSET Stamp] /\ captured \in [Editors -> Stamp]
        /\ identity[e].cap <= drawn
    BY DEF CaptureInv, TypeOK, Stamped
  <2>2. identity[e] \in Stamp /\ identity[e].cap \in Nat /\ identity[e].rev \in Nat
    BY <2>1 DEF Stamp
  <2>3. [cap |-> drawn + 1, rev |-> 0] \in Stamp
    BY <2>1 DEF Stamp
  <2>4. QED
    BY <2>1, <2>2, <2>3, NextStamp
<1>3. Piped' /\ Adds(e, {})
  BY <1>1, NotPushing DEF CaptureInv
<1>4. CASE UNCHANGED <<drawn, identity, sessions, captured>>
  <2>1. TypeOK' /\ PredictionProvenByNewest'
    BY <1>1, <1>4 DEF CaptureInv, TypeOK, PredictionProvenByNewest
  <2>2. identity' = [identity EXCEPT ![e] = identity[e]]
    BY <1>2, <1>4
  <2>3. /\ \A d \in Editors : Stamped(d)'
        /\ \A d \in Editors : \A g \in Line(Outgoing(d)) : Passed(d, g)'
        /\ \A g \in Sent : Known(g)'
    BY <1>2, <1>4, <2>2, FocusStep
  <2>4. QED
    BY <1>3, <2>1, <2>3, StepTogether
<1>5. CASE ~UNCHANGED <<drawn, identity, sessions, captured>>
  <2>1. PICK i \in Stamp :
           /\ identity' = [identity EXCEPT ![e] = i]
           /\ sessions' = [sessions EXCEPT ![e] = @ \cup {i}]
           /\ captured' = [captured EXCEPT ![e] = i]
           /\ \/ i.cap = identity[e].cap /\ i.rev > identity[e].rev /\ i.cap # 0
                 /\ drawn' = drawn
              \/ i.cap = drawn + 1 /\ drawn' = drawn + 1
    BY <1>2, <1>5 DEF Capture, Reserve, FreshFocus, Active
  <2>2. drawn' \in Nat
    BY <1>2, <2>1
  <2>3. TypeOK'
    BY <1>1, <2>1, <2>2 DEF CaptureInv, TypeOK
  <2>4. PredictionProvenByNewest'
    BY <1>1, <2>1 DEF CaptureInv, TypeOK, PredictionProvenByNewest
  <2>5. i.cap # 0 /\ i # identity[e] /\ (i.cap = identity[e].cap => i.rev > identity[e].rev)
    BY <1>2, <2>1
  <2>6. /\ \A d \in Editors \ {e} : sessions'[d] = sessions[d] /\ captured'[d] = captured[d]
        /\ sessions'[e] = sessions[e] \cup {i} /\ captured'[e] = i
    BY <1>2, <2>1
  <2>7. /\ \A d \in Editors : Stamped(d)'
        /\ \A d \in Editors : \A g \in Line(Outgoing(d)) : Passed(d, g)'
        /\ \A g \in Sent : Known(g)'
    BY <2>1, <2>5, <2>6, FocusStep
  <2>8. QED
    BY <1>3, <2>3, <2>4, <2>7, StepTogether
<1>6. QED
  BY <1>4, <1>5

\* A focus is cleared and its clear frame pushed.
LEMMA ClearStep ==
    ASSUME CaptureInv, NEW e \in Editors, Active(e), NEW k \in {"clear", "password"},
           identity' = [identity EXCEPT ![e] = NoFocus],
           TryPush(e, [cap |-> identity[e].cap, rev |-> identity[e].rev + 1, kind |-> k]),
           allowed' \in [Editors -> BOOLEAN], denied' \in [Editors -> SUBSET Stamp],
           UNCHANGED <<drawn, sessions, proof, captured, hasSource, latest, retired, bridge>>,
           PredictionProvenByNewest'
    PROVE  CaptureInv'
<1>0. PICK f : f = [cap |-> identity[e].cap, rev |-> identity[e].rev + 1, kind |-> k]
  OBVIOUS
<1>1. /\ drawn \in Nat /\ identity \in [Editors -> Stamp]
      /\ identity[e].cap \in Nat /\ identity[e].rev \in Nat
      /\ identity[e].cap <= drawn /\ identity[e].cap # 0 /\ identity[e].cap \in 1 .. drawn
      /\ NoFocus \in Stamp /\ NoFocus.cap = 0
  BY DEF CaptureInv, TypeOK, Stamped, Stamp, Active, NoFocus
<1>2. f \in Frame /\ f.cap = identity[e].cap /\ f.rev = identity[e].rev + 1 /\ f.kind = k
  BY <1>0, <1>1 DEF Frame
<1>3. \A g \in Sent : /\ g \in Frame /\ g.cap \in Nat /\ g.rev \in Nat
                      /\ g.cap = f.cap => g.kind = "context" /\ g.rev <= identity[e].rev
  BY <1>2, SentFrames DEF CaptureInv, Known, Frame
<1>4. AllBefore(Line(Outgoing(e)), f)
  <2> SUFFICES ASSUME NEW g \in Line(Outgoing(e)) PROVE Before(g, f)
    BY DEF AllBefore
  <2>1. g \in Sent /\ g.cap <= identity[e].cap
    BY SentParts DEF CaptureInv, Passed
  <2>2. QED
    BY <1>1, <1>2, <1>3, <2>1 DEF Before
<1>5. Piped' /\ Adds(e, {f})
  BY <1>0, <1>2, <1>4, Pushing DEF CaptureInv
<1>6. TypeOK'
  BY <1>1, <1>5 DEF CaptureInv, TypeOK, Piped
<1>7. /\ \A d \in Editors : Stamped(d)'
      /\ \A d \in Editors : \A g \in Line(Outgoing(d)) : Passed(d, g)'
      /\ \A g \in Sent : Known(g)'
  BY <1>1, FocusStep
<1>8. identity'[e] = NoFocus /\ \A d \in Editors : d # e => identity'[d] = identity[d]
  BY <1>1
<1>9. Known(f)'
  <2>1. \A d \in Editors : identity'[d].cap # f.cap
    BY <1>1, <1>2, <1>8 DEF CaptureInv, Stamped
  <2>2. QED
    BY <1>1, <1>2, <2>1 DEF Known
<1>10. Passed(e, f)'
  BY <1>1, <1>2, <1>8 DEF Passed, Active
<1>11. \A g \in Sent : g.cap = f.cap =>
          g.kind = "context" /\ (f.kind # "context" => g.rev <= f.rev)
  BY <1>1, <1>2, <1>3
<1>12. QED
  BY <1>2, <1>5, <1>6, <1>7, <1>9, <1>10, <1>11, StepTogether

\* ClearWeaselContext
LEMMA ClearContextKeeps ==
    ASSUME CaptureInv, NEW e \in Editors, ClearContext(e)
    PROVE  CaptureInv'
<1>1. /\ UNCHANGED <<drawn, sessions, denied, proof, captured, hasSource, latest, retired, bridge>>
      /\ allowed' = [allowed EXCEPT ![e] = FALSE]
  BY DEF ClearContext, receiverVars
<1>2. /\ allowed' \in [Editors -> BOOLEAN] /\ denied' \in [Editors -> SUBSET Stamp]
      /\ PredictionProvenByNewest'
  BY <1>1 DEF CaptureInv, TypeOK, PredictionProvenByNewest
<1>3. CASE Active(e)
  <2>1. identity' = [identity EXCEPT ![e] = NoFocus]
    BY <1>3 DEF ClearContext
  <2>2. TryPush(e, [cap |-> identity[e].cap, rev |-> identity[e].rev + 1, kind |-> "clear"])
    BY <1>3 DEF ClearContext
  <2>3. QED
    BY <1>1, <1>2, <1>3, <2>1, <2>2, ClearStep
<1>4. CASE ~Active(e)
  <2>1. UNCHANGED <<identity, client, conns>>
    BY <1>4 DEF ClearContext
  <2>2. TypeOK'
    BY <1>1, <1>2, <2>1 DEF CaptureInv, TypeOK
  <2>3. identity' = [identity EXCEPT ![e] = identity[e]] /\ identity[e] \in Stamp
    BY <2>1 DEF CaptureInv, TypeOK
  <2>4. /\ \A d \in Editors : Stamped(d)'
        /\ \A d \in Editors : \A g \in Line(Outgoing(d)) : Passed(d, g)'
        /\ \A g \in Sent : Known(g)'
    BY <1>1, <2>3, FocusStep
  <2>5. Piped' /\ Adds(e, {})
    BY <2>1, NotPushing DEF CaptureInv
  <2>6. QED
    BY <1>2, <2>2, <2>4, <2>5, StepTogether
<1>5. QED
  BY <1>3, <1>4

\* A step of an edit session that pushes nothing: at most the revision moves on.
LEMMA SessionStep ==
    ASSUME CaptureInv, NEW e \in Editors, NEW i \in Stamp,
           identity' = [identity EXCEPT ![e] = i],
           i = identity[e] \/ i = Bumped(identity[e]),
           sessions' \in [Editors -> SUBSET Stamp], denied' \in [Editors -> SUBSET Stamp],
           allowed' \in [Editors -> BOOLEAN],
           \A d \in Editors : sessions'[d] \subseteq sessions[d],
           \A d \in Editors \ {e} : sessions'[d] = sessions[d],
           \A d \in Editors : allowed'[d] => allowed[d],
           UNCHANGED <<drawn, proof, captured, client, conns, hasSource, latest, retired, bridge>>
    PROVE  CaptureInv'
<1>1. /\ identity[e] \in Stamp /\ i.cap = identity[e].cap
      /\ i = identity[e] \/ i.rev > identity[e].rev
  BY DEF CaptureInv, TypeOK, Stamp, Bumped
<1>2. TypeOK' /\ PredictionProvenByNewest'
  BY DEF CaptureInv, TypeOK, PredictionProvenByNewest
<1>3. /\ \A d \in Editors : Stamped(d)'
      /\ \A d \in Editors : \A g \in Line(Outgoing(d)) : Passed(d, g)'
      /\ \A g \in Sent : Known(g)'
  BY <1>1, FocusStep
<1>4. Piped' /\ Adds(e, {})
  BY NotPushing DEF CaptureInv
<1>5. QED
  BY <1>2, <1>3, <1>4, StepTogether

\* DoEditSession in a protected field, and when the text cannot be read.
LEMMA SessionEndsKeeps ==
    ASSUME CaptureInv, NEW e \in Editors, NEW s \in sessions[e],
           SessionDenied(e, s) \/ SessionFails(e, s)
    PROVE  CaptureInv'
<1>1. /\ UNCHANGED <<drawn, identity, proof, captured, client, conns, hasSource, latest,
                     retired, bridge>>
      /\ allowed' = [allowed EXCEPT ![e] = FALSE]
      /\ sessions' = [sessions EXCEPT ![e] = @ \ {s}]
      /\ denied' = denied \/ denied' = [denied EXCEPT ![e] = @ \cup {s}]
  BY DEF SessionDenied, SessionFails, receiverVars
<1>2. /\ identity \in [Editors -> Stamp] /\ sessions \in [Editors -> SUBSET Stamp]
      /\ denied \in [Editors -> SUBSET Stamp] /\ allowed \in [Editors -> BOOLEAN]
      /\ s \in Stamp
  BY DEF CaptureInv, TypeOK
<1>3. identity' = [identity EXCEPT ![e] = identity[e]] /\ identity[e] \in Stamp
  BY <1>1, <1>2
<1>4. /\ sessions' \in [Editors -> SUBSET Stamp]
      /\ \A d \in Editors : sessions'[d] \subseteq sessions[d]
      /\ \A d \in Editors \ {e} : sessions'[d] = sessions[d]
  BY <1>1, <1>2
<1>5. denied' \in [Editors -> SUBSET Stamp]
  BY <1>1, <1>2
<1>6. allowed' \in [Editors -> BOOLEAN] /\ \A d \in Editors : allowed'[d] => allowed[d]
  BY <1>1, <1>2
<1>7. QED
  BY <1>1, <1>3, <1>4, <1>5, <1>6, SessionStep

\* ClearReservedCapability
LEMMA ClearReservedKeeps ==
    ASSUME CaptureInv, NEW e \in Editors, NEW s \in denied[e], ClearReserved(e, s)
    PROVE  CaptureInv'
<1>1. /\ UNCHANGED <<drawn, allowed, sessions, proof, captured, hasSource, latest, retired, bridge>>
      /\ denied' = [denied EXCEPT ![e] = @ \ {s}]
  BY DEF ClearReserved, receiverVars
<1>2. /\ identity \in [Editors -> Stamp] /\ sessions \in [Editors -> SUBSET Stamp]
      /\ denied \in [Editors -> SUBSET Stamp] /\ allowed \in [Editors -> BOOLEAN]
      /\ identity[e] \in Stamp /\ Bumped(identity[e]) \in Stamp
  BY NextStamp DEF CaptureInv, TypeOK
<1>3. denied' \in [Editors -> SUBSET Stamp]
  BY <1>1, <1>2
<1>4. PredictionProvenByNewest'
  BY <1>1 DEF CaptureInv, PredictionProvenByNewest
<1>5. CASE ~Active(e)
  <2>1. UNCHANGED <<identity, client, conns>>
    BY <1>5 DEF ClearReserved
  <2>2. identity' = [identity EXCEPT ![e] = identity[e]]
    BY <1>2, <2>1
  <2>3. QED
    BY <1>1, <1>2, <1>3, <2>1, <2>2, SessionStep
<1>6. CASE Active(e) /\ identity[e].cap # s.cap
  <2>1. identity' = [identity EXCEPT ![e] = Bumped(@)] /\ UNCHANGED <<client, conns>>
    BY <1>6 DEF ClearReserved
  <2>2. identity' = [identity EXCEPT ![e] = Bumped(identity[e])]
    BY <1>2, <2>1
  <2>3. QED
    BY <1>1, <1>2, <1>3, <2>1, <2>2, SessionStep
<1>7. CASE Active(e) /\ identity[e].cap = s.cap
  <2>1. /\ identity' = [identity EXCEPT ![e] = NoFocus]
        /\ TryPush(e, [cap |-> s.cap, rev |-> identity[e].rev + 1, kind |-> "password"])
    BY <1>7 DEF ClearReserved
  <2>2. TryPush(e, [cap |-> identity[e].cap, rev |-> identity[e].rev + 1,
                    kind |-> "password"])
    BY <1>7, <2>1
  <2>3. QED
    BY <1>1, <1>2, <1>3, <1>4, <1>7, <2>1, <2>2, ClearStep
<1>8. QED
  BY <1>5, <1>6, <1>7

\* The text of an edit session was read.
LEMMA SessionCapturesKeeps ==
    ASSUME CaptureInv, NEW e \in Editors, NEW s \in sessions[e], SessionCaptures(e, s)
    PROVE  CaptureInv'
<1>1. /\ UNCHANGED <<drawn, identity, denied, captured, hasSource, latest, retired, bridge>>
      /\ sessions' = [sessions EXCEPT ![e] = @ \ {s}]
  BY DEF SessionCaptures, receiverVars
<1>2. /\ drawn \in Nat /\ identity \in [Editors -> Stamp]
      /\ sessions \in [Editors -> SUBSET Stamp]
      /\ denied \in [Editors -> SUBSET Stamp] /\ allowed \in [Editors -> BOOLEAN]
      /\ proof \in [Editors -> Stamp]
      /\ identity[e] \in Stamp /\ s \in Stamp /\ s.cap \in Nat /\ s.rev \in Nat
      /\ s.cap \in 1 .. drawn
      /\ s = [cap |-> s.cap, rev |-> s.rev]
  BY DEF CaptureInv, TypeOK, Stamp, Stamped
<1>3. /\ identity' = [identity EXCEPT ![e] = identity[e]]
      /\ sessions' \in [Editors -> SUBSET Stamp]
      /\ sessions'[e] = sessions[e] \ {s}
      /\ \A d \in Editors \ {e} : sessions'[d] = sessions[d]
  BY <1>1, <1>2
<1>4. CASE ~IsCurrent(e, s)
  <2>1. UNCHANGED <<allowed, proof, client, conns>>
    BY <1>4 DEF SessionCaptures
  <2>2. QED
    BY <1>1, <1>2, <1>3, <2>1, SessionStep
<1>5. CASE IsCurrent(e, s)
  <2> DEFINE f == [cap |-> s.cap, rev |-> s.rev, kind |-> "context"]
  <2>1. /\ allowed' = [allowed EXCEPT ![e] = TRUE]
        /\ proof' = [proof EXCEPT ![e] = s]
        /\ TryPush(e, f) \/ UNCHANGED <<client, conns>>
    BY <1>5 DEF SessionCaptures
  <2>2. identity[e] = s /\ Active(e) /\ captured[e] = s
    BY <1>5 DEF IsCurrent, CaptureInv, Stamped
  <2>3. /\ allowed' \in [Editors -> BOOLEAN] /\ proof' \in [Editors -> Stamp]
        /\ PredictionProvenByNewest'
    BY <1>1, <1>2, <2>1, <2>2 DEF CaptureInv, PredictionProvenByNewest
  <2>4. f \in Frame /\ f.cap = s.cap /\ f.rev = s.rev /\ f.kind = "context"
    BY <1>2 DEF Frame
  <2>5. \A g \in Sent : /\ g \in Frame /\ g.cap \in Nat /\ g.rev \in Nat
                        /\ g.cap = s.cap => g.kind = "context" /\ g.rev <= s.rev
    BY <2>2, SentFrames DEF CaptureInv, Known, Frame
  <2> HIDE DEF f
  <2>6. AllBefore(Line(Outgoing(e)), f)
    <3> SUFFICES ASSUME NEW g \in Line(Outgoing(e)) PROVE Before(g, f)
      BY DEF AllBefore
    <3>1. g \in Sent /\ g.cap <= s.cap
      BY <2>2, SentParts DEF CaptureInv, Passed
    <3>2. g.cap = s.cap => [cap |-> g.cap, rev |-> g.rev] # s
      BY <2>2 DEF CaptureInv, Passed
    <3>3. g.cap = s.cap => g.rev # s.rev
      BY <1>2, <3>2
    <3>4. QED
      BY <1>2, <2>4, <2>5, <3>1, <3>3 DEF Before
  <2>7. /\ \A d \in Editors : Stamped(d)'
        /\ \A d \in Editors : \A g \in Line(Outgoing(d)) : Passed(d, g)'
        /\ \A g \in Sent : Known(g)'
    BY <1>1, <1>2, <1>3, FocusStep
  <2>8. CASE UNCHANGED <<client, conns>>
    <3>1. Piped' /\ Adds(e, {})
      BY <2>8, NotPushing DEF CaptureInv
    <3>2. TypeOK'
      BY <1>1, <1>3, <2>3, <2>8 DEF CaptureInv, TypeOK
    <3>3. QED
      BY <2>3, <2>7, <3>1, <3>2, StepTogether
  <2>9. CASE TryPush(e, f)
    <3>1. Piped' /\ Adds(e, {f})
      BY <2>4, <2>6, <2>9, Pushing DEF CaptureInv
    <3>2. TypeOK'
      BY <1>1, <1>3, <2>3, <3>1 DEF CaptureInv, TypeOK, Piped
    <3>3. Known(f)'
      <4>1. \A d \in Editors : identity[d].cap = s.cap => d = e
        BY <2>2 DEF CaptureInv, Stamped
      <4>2. QED
        BY <1>1, <1>2, <2>2, <2>4, <4>1 DEF Known
    <3>4. Passed(e, f)'
      BY <1>1, <1>2, <1>3, <2>2, <2>4 DEF Passed, Active
    <3>5. \A g \in Sent : g.cap = f.cap =>
             g.kind = "context" /\ (f.kind # "context" => g.rev <= f.rev)
      BY <2>4, <2>5
    <3>6. QED
      BY <2>3, <2>4, <2>7, <3>1, <3>2, <3>3, <3>4, <3>5, StepTogether
  <2>10. QED
    BY <2>1, <2>8, <2>9
<1>6. QED
  BY <1>4, <1>5

-----------------------------------------------------------------------------
(* The pipe and the broker *)

\* What the invariant says of a connection.
LEMMA ConnectionParts ==
    ASSUME CaptureInv, NEW n \in DOMAIN conns
    PROVE  /\ conns \in Seq(Connection) /\ conns[n] \in Connection
           /\ conns[n].queue \in Seq(Frame) /\ conns[n].hand \in Handed \cup {None}
           /\ hasSource \in BOOLEAN /\ latest \in Stamp /\ retired \subseteq Nat
           /\ bridge \in Handed \cup {None}
<1>1. conns \in Seq(Connection) /\ conns[n] \in Connection
  BY DEF CaptureInv, TypeOK
<1>2. conns[n].queue \in Seq(Frame) /\ conns[n].hand \in Handed \cup {None}
  BY <1>1 DEF Connection
<1>3. QED
  BY <1>1, <1>2 DEF CaptureInv, TypeOK

\* ServeClient leaves its loop.
LEMMA BreakConnectionKeeps ==
    ASSUME CaptureInv, NEW n \in DOMAIN conns, BreakConnection(n)
    PROVE  CaptureInv'
<1>1. UNCHANGED <<adapterVars, client, hasSource, latest, retired, bridge>>
  BY DEF BreakConnection, receiverVars
<1>2. PICK x : x = [conns[n] EXCEPT !.broken = TRUE, !.queue = <<>>]
  OBVIOUS
<1>3. x \in Connection /\ x.queue = <<>>
  BY <1>2, ConnectionParts, EmptyQueue DEF Connection
<1>4. conns' = [conns EXCEPT ![n] = x]
  BY <1>2, ConnectionParts DEF BreakConnection, Connection
<1>5. On(x.queue) \subseteq On(conns[n].queue) /\ Sorted(x.queue)
  BY <1>3, EmptyQueue
<1>6. Piped' /\ Adds(None, {})
  BY <1>1, <1>3, <1>4, <1>5, BrokerStep DEF CaptureInv
<1>7. QED
  BY <1>1, <1>6, ConnectionParts, PipeStep

\* ContextFrameReceiver::Accept
LEMMA ReadFrameKeeps ==
    ASSUME CaptureInv, NEW n \in DOMAIN conns, ReadFrame(n)
    PROVE  CaptureInv'
<1>1. PICK f : f = Head(conns[n].queue)
  OBVIOUS
<1>2. UNCHANGED <<adapterVars, client, bridge>> /\ conns[n].queue # <<>>
  BY DEF ReadFrame
<1>3. f \in Frame /\ f \in Handed /\ f.cap \in Nat /\ f.rev \in Nat
  <2>1. f \in Frame
    BY <1>1, <1>2, ConnectionParts
  <2>2. QED
    BY <2>1 DEF Frame, Handed
<1>4. /\ Tail(conns[n].queue) \in Seq(Frame)
      /\ On(Tail(conns[n].queue)) \subseteq On(conns[n].queue)
      /\ Sorted(conns[n].queue) => Sorted(Tail(conns[n].queue))
  BY <1>2, ConnectionParts, SortedTail
<1>5. PICK x \in Connection : /\ x.queue = Tail(conns[n].queue)
                              /\ conns' = [conns EXCEPT ![n] = x]
  <2>1. CASE IsRetired(f)
    <3>1. conns' = [conns EXCEPT ![n] = [conns[n] EXCEPT !.queue = Tail(@)]]
      BY <1>1, <2>1 DEF ReadFrame
    <3>2. [conns[n] EXCEPT !.queue = Tail(@)] \in Connection
      BY <1>4, ConnectionParts DEF Connection
    <3>3. [conns[n] EXCEPT !.queue = Tail(@)].queue = Tail(conns[n].queue)
      BY ConnectionParts DEF Connection
    <3>4. QED
      BY <3>1, <3>2, <3>3
  <2>2. CASE ~IsRetired(f)
    <3>1. conns' = [conns EXCEPT ![n] = [conns[n] EXCEPT !.queue = Tail(@), !.hand = f]]
      <4>1. conns' = [conns EXCEPT ![n].queue = Tail(@), ![n].hand = f]
        BY <1>1, <2>2 DEF ReadFrame
      <4>2. QED
        BY <4>1, ConnectionParts DEF Connection
    <3>2. [conns[n] EXCEPT !.queue = Tail(@), !.hand = f] \in Connection
      BY <1>3, <1>4, ConnectionParts DEF Connection
    <3>3. [conns[n] EXCEPT !.queue = Tail(@), !.hand = f].queue = Tail(conns[n].queue)
      BY ConnectionParts DEF Connection
    <3>4. QED
      BY <3>1, <3>2, <3>3
  <2>3. QED
    BY <2>1, <2>2
<1>6. Piped' /\ Adds(None, {})
  BY <1>2, <1>4, <1>5, BrokerStep DEF CaptureInv
<1>7. hasSource' \in BOOLEAN /\ latest' \in Stamp /\ retired' \subseteq Nat
  <2>1. latest.cap \in Nat
    BY ConnectionParts DEF Stamp
  <2>2. CASE IsRetired(f)
    BY <1>1, <2>2, ConnectionParts DEF ReadFrame, receiverVars
  <2>3. CASE ~IsRetired(f)
    <3>1. /\ latest' = [cap |-> f.cap, rev |-> f.rev]
          /\ hasSource' = (f.kind = "context")
          /\ retired' \subseteq retired \cup {latest.cap, f.cap}
      BY <1>1, <2>3 DEF ReadFrame
    <3>2. QED
      BY <1>3, <2>1, <3>1, ConnectionParts DEF Stamp
  <2>4. QED
    BY <2>2, <2>3
<1>8. QED
  BY <1>2, <1>6, <1>7, ConnectionParts, PipeStep

\* Forward
LEMMA ForwardKeeps ==
    ASSUME CaptureInv, NEW n \in DOMAIN conns, ForwardFrame(n) \/ ForwardCleanup(n)
    PROVE  CaptureInv'
<1>1. UNCHANGED <<adapterVars, client, hasSource, latest, retired>>
  BY DEF ForwardFrame, ForwardCleanup, receiverVars
<1>2. conns[n].hand # None /\ conns[n].hand \in Handed
  BY ConnectionParts DEF ForwardFrame, ForwardCleanup
<1>3. PICK h \in Handed \cup {None} : conns' = [conns EXCEPT ![n].hand = h]
  <2>1. [conns[n].hand EXCEPT !.kind = "cleanup"] \in Handed
    BY <1>2 DEF Handed
  <2>2. QED
    BY <1>2, <2>1 DEF ForwardFrame, ForwardCleanup
<1>4. PICK x : x = [conns[n] EXCEPT !.hand = h]
  OBVIOUS
<1>5. x \in Connection /\ x.queue = conns[n].queue /\ conns' = [conns EXCEPT ![n] = x]
  BY <1>3, <1>4, ConnectionParts DEF Connection
<1>6. Piped' /\ Adds(None, {})
  BY <1>1, <1>5, BrokerStep DEF CaptureInv
<1>7. bridge' \in Handed \cup {None}
  BY <1>2 DEF ForwardFrame, ForwardCleanup
<1>8. QED
  BY <1>1, <1>6, <1>7, ConnectionParts, PipeStep

-----------------------------------------------------------------------------
(* Theorems *)

\* Initially nothing is captured and nothing is on its way.
LEMMA InitInv == Init => CaptureInv
<1> SUFFICES ASSUME Init PROVE CaptureInv
  OBVIOUS
<1>1. /\ NoFocus \in Stamp /\ NoFocus.cap = 0 /\ NoPipe \in Client
      /\ NoPipe.conn = 0 /\ NoPipe.inFlight = None /\ NoPipe.pending = None
      /\ NoPipe.done = FALSE
  BY DEF NoFocus, NoPipe, Stamp, Client
<1>2. /\ conns = <<>> /\ conns \in Seq(Connection) /\ Len(conns) = 0 /\ DOMAIN conns = {}
      /\ \A e \in Editors : client[e] = NoPipe
  BY DEF Init
<1>3. ASSUME NEW e \in Editors PROVE Lined(Outgoing(e)) /\ Line(Outgoing(e)) = {}
  <2>1. /\ Outgoing(e) \in Outcome /\ Outgoing(e).client = NoPipe /\ Outgoing(e).conns = <<>>
    BY <1>1, <1>2 DEF Outgoing, Outcome
  <2>2. Line(Outgoing(e)) = {}
    BY <1>1, <2>1 DEF Line, Unread
  <2>3. QED
    BY <1>1, <1>2, <2>1, <2>2 DEF Lined
<1>4. Sent = {}
  BY <1>2, <1>3, SentParts
<1>5. Piped
  <2>1. client \in [Editors -> [conn : 0..Len(conns), inFlight : Frame \cup {None},
                                done : BOOLEAN, pending : Frame \cup {None}]]
    BY <1>2 DEF Init, NoPipe
  <2>2. OwnPipes
    BY <1>1, <1>2 DEF OwnPipes
  <2>3. QED
    BY <1>2, <1>3, <2>1, <2>2 DEF Piped
<1>6. TypeOK
  BY <1>1, <1>5 DEF Init, TypeOK, Piped
<1>7. PredictionProvenByNewest
  BY DEF Init, PredictionProvenByNewest
<1>8. \A e \in Editors : Stamped(e)
  BY <1>1 DEF Init, Stamped, Active
<1>9. QED
  BY <1>3, <1>4, <1>5, <1>6, <1>7, <1>8 DEF CaptureInv, ClearsAreLast

\* Every step keeps the invariant.
LEMMA NextPreserves ==
    ASSUME CaptureInv, [Next]_vars
    PROVE  CaptureInv'
<1>1. ASSUME NEW e \in Editors, Editor(e) PROVE CaptureInv'
  BY <1>1, BeginFocusKeeps, CaptureKeeps, ClearContextKeeps, SessionEndsKeeps,
     SessionCapturesKeeps, ClearReservedKeeps DEF Editor
<1>2. ASSUME NEW e \in Editors, WriteCompletes(e) PROVE CaptureInv'
  <2>1. Piped' /\ Adds(e, {})
    BY <1>2, WriteCompleted DEF CaptureInv
  <2>2. UNCHANGED <<adapterVars, hasSource, latest, retired, bridge>>
    BY <1>2 DEF WriteCompletes, receiverVars
  <2>3. QED
    BY <2>1, <2>2, PipeStep DEF CaptureInv, TypeOK
<1>3. ASSUME NEW n \in DOMAIN conns, Broker(n) PROVE CaptureInv'
  BY <1>3, BreakConnectionKeeps, ReadFrameKeeps, ForwardKeeps DEF Broker
<1>4. CASE UNCHANGED vars
  <2>1. UNCHANGED <<adapterVars, client, conns, hasSource, latest, retired, bridge>>
    BY <1>4 DEF vars, receiverVars
  <2>2. Piped' /\ Adds(None, {})
    BY <2>1, NotPushing DEF CaptureInv
  <2>3. QED
    BY <2>1, <2>2, PipeStep DEF CaptureInv, TypeOK
<1>5. QED
  BY <1>1, <1>2, <1>3, <1>4 DEF Next

\* The inductive invariant holds in every reachable state.
THEOREM Invariance == Spec => []CaptureInv
<1>1. CaptureInv /\ [Next]_vars => CaptureInv'
  BY NextPreserves
<1>2. QED
  BY <1>1, InitInv, PTL DEF Spec

\* Type correctness of weasel_context_adapter.cc, context_capture_client.cc and
\* the capture broker.
THEOREM TypeCorrect == Spec => []TypeOK
<1>1. CaptureInv => TypeOK
  BY DEF CaptureInv
<1>2. QED
  BY <1>1, Invariance, PTL

\* prediction_allowed is set only by the classification made for the newest
\* capture, however late edit sessions run and however focuses come and go.
THEOREM NewestProof == Spec => []PredictionProvenByNewest
<1>1. CaptureInv => PredictionProvenByNewest
  BY DEF CaptureInv
<1>2. QED
  BY <1>1, Invariance, PTL

\* What is still to be delivered comes after what is in the queue.
LEMMA OneFrame ==
    ASSUME NEW f \in Frame \cup {None}
    PROVE  /\ One(f) \in Seq(Frame)
           /\ f = None => One(f) = <<>> /\ Len(One(f)) = 0
           /\ f # None => One(f) = <<f>> /\ Len(One(f)) = 1 /\ One(f)[1] = f
BY DEF One

\* Sorted parts, each older than the next, are sorted together.
LEMMA SortedTogether ==
    ASSUME NEW q \in Seq(Frame), NEW r \in Seq(Frame), Sorted(q), Sorted(r),
           \A g \in On(q), h \in On(r) : Before(g, h)
    PROVE  /\ q \o r \in Seq(Frame)
           /\ Sorted(q \o r)
           /\ On(q \o r) \subseteq On(q) \cup On(r)
<1>1. /\ q \o r \in Seq(Frame) /\ Len(q \o r) = Len(q) + Len(r)
      /\ \A i \in 1 .. Len(q) : (q \o r)[i] = q[i]
      /\ \A i \in Len(q) + 1 .. Len(q) + Len(r) :
            i - Len(q) \in DOMAIN r /\ (q \o r)[i] = r[i - Len(q)]
  OBVIOUS
<1>2. \A i \in DOMAIN (q \o r) : i \in 1 .. Len(q) \/ i \in Len(q) + 1 .. Len(q) + Len(r)
  BY <1>1
<1>3. On(q \o r) \subseteq On(q) \cup On(r)
  BY <1>1, <1>2 DEF On
<1>4. ASSUME NEW i \in DOMAIN (q \o r), NEW j \in DOMAIN (q \o r), i < j
      PROVE  Before((q \o r)[i], (q \o r)[j])
  <2>1. CASE i \in 1 .. Len(q) /\ j \in 1 .. Len(q)
    BY <1>1, <1>4, <2>1 DEF Sorted
  <2>2. CASE i \in 1 .. Len(q) /\ j \in Len(q) + 1 .. Len(q) + Len(r)
    <3>1. q[i] \in On(q) /\ r[j - Len(q)] \in On(r)
      BY <1>1, <2>2 DEF On
    <3>2. QED
      BY <1>1, <2>2, <3>1
  <2>3. CASE i \in Len(q) + 1 .. Len(q) + Len(r) /\ j \in Len(q) + 1 .. Len(q) + Len(r)
    <3>1. i - Len(q) \in DOMAIN r /\ j - Len(q) \in DOMAIN r /\ i - Len(q) < j - Len(q)
      BY <1>1, <1>4, <2>3
    <3>2. QED
      BY <1>1, <2>3, <3>1 DEF Sorted
  <2>4. QED
    BY <1>2, <1>4, <2>1, <2>2, <2>3
<1>5. QED
  BY <1>1, <1>3, <1>4 DEF Sorted

\* InTransit is sorted, and holds frames of the editor's line only.
LEMMA TransitSorted ==
    ASSUME CaptureInv, NEW e \in Editors
    PROVE  /\ Sorted(InTransit(e))
           /\ On(InTransit(e)) \subseteq Line(Outgoing(e))
<1>1. Lined(Outgoing(e)) /\ Outgoing(e).client = client[e] /\ Outgoing(e).conns = conns
  BY DEF CaptureInv, Piped, Outgoing
<1> DEFINE q == IF client[e].conn = 0 THEN <<>> ELSE conns[client[e].conn].queue
           a == IF client[e].done THEN <<>> ELSE One(client[e].inFlight)
           b == One(client[e].pending)
<1>2. /\ client[e].inFlight \in Frame \cup {None} /\ client[e].pending \in Frame \cup {None}
      /\ q \in Seq(Frame) /\ Sorted(q) /\ On(q) = Unread(Outgoing(e))
      /\ client[e].conn = 0 => client[e].inFlight = None
      /\ client[e].inFlight = None => client[e].pending = None
  <2>1. q \in Seq(Frame) /\ On(q) = Unread(Outgoing(e))
    BY <1>1, OutcomeParts, EmptyQueue DEF Unread
  <2>2. Sorted(q)
    BY <1>1, OutcomeParts, EmptyQueue DEF Lined
  <2>3. QED
    BY <1>1, <2>1, <2>2, OutcomeParts DEF Lined
<1>3. /\ a \in Seq(Frame) /\ Sorted(a)
      /\ \A g \in On(a) : g = client[e].inFlight /\ g # None /\ ~client[e].done
  BY <1>2, OneFrame, EmptyQueue DEF On, Sorted
<1>4. /\ b \in Seq(Frame) /\ Sorted(b)
      /\ \A g \in On(b) : g = client[e].pending /\ g # None
  BY <1>2, OneFrame, EmptyQueue DEF On, Sorted
<1>5. InTransit(e) = (q \o a) \o b
  BY DEF InTransit
<1> HIDE DEF q, a, b
<1>6. /\ q \o a \in Seq(Frame) /\ Sorted(q \o a) /\ On(q \o a) \subseteq On(q) \cup On(a)
  <2>1. \A g \in On(q), h \in On(a) : Before(g, h)
    BY <1>1, <1>2, <1>3 DEF Lined, AllBefore
  <2>2. QED
    BY <1>2, <1>3, <2>1, SortedTogether
<1>7. /\ Sorted((q \o a) \o b) /\ On((q \o a) \o b) \subseteq On(q) \cup On(a) \cup On(b)
  <2>1. \A g \in On(q \o a), h \in On(b) : Before(g, h)
    BY <1>1, <1>2, <1>3, <1>4, <1>6 DEF Lined, AllBefore
  <2>2. Sorted((q \o a) \o b) /\ On((q \o a) \o b) \subseteq On(q \o a) \cup On(b)
    BY <1>4, <1>6, <2>1, SortedTogether
  <2>3. QED
    BY <1>6, <2>2
<1>8. QED
  BY <1>1, <1>2, <1>3, <1>4, <1>5, <1>7 DEF Line

\* ReapCompletedLocked, the latest-wins pending frame and reconnection keep an
\* editor's frames in the order of their stamps.
THEOREM FramesOrdered == Spec => []FramesInOrder
<1>1. CaptureInv => FramesInOrder
  BY TransitSorted DEF FramesInOrder, Sorted
<1>2. QED
  BY <1>1, Invariance, PTL

\* A cleared focus stays cleared: no session that runs late captures or sends
\* anything of it, for any number of editors, connections and losses.
THEOREM ClearedForGood == Spec => []NothingAfterClear
<1>1. CaptureInv => NothingAfterClear
  <2> SUFFICES ASSUME CaptureInv PROVE NothingAfterClear
    OBVIOUS
  <2>1. Frames \subseteq Sent
    <3> SUFFICES ASSUME NEW g \in Frames PROVE g \in Sent
      OBVIOUS
    <3> DEFINE A == {{InTransit(e)[i] : i \in DOMAIN InTransit(e)} : e \in Editors}
               B == {{conns[n].queue[i] : i \in DOMAIN conns[n].queue} : n \in DOMAIN conns}
    <3>1. (\E L \in A : g \in L) \/ (\E Q \in B : g \in Q)
      BY InUnions DEF Frames
    <3>2. \/ \E e \in Editors : g \in On(InTransit(e))
          \/ \E n \in DOMAIN conns : g \in On(conns[n].queue)
      BY <3>1 DEF On
    <3>3. QED
      BY <3>2, TransitSorted, SentParts
  <2>2. QED
    BY <2>1 DEF CaptureInv, ClearsAreLast, Known, NothingAfterClear
<1>2. QED
  BY <1>1, Invariance, PTL
=============================================================================
