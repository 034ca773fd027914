-------------------------- MODULE Connection_proof --------------------------
(***************************************************************************)
(* Connection, for every number of sockets, limit of reconnects and number *)
(* of calls.  The types hold whatever application and network do.  That    *)
(* sockets are used one after the other, that the timers run that should   *)
(* and that attempts are limited needs that no socket reports an error     *)
(* after it was replaced ("late" is no liberty); none of the three is      *)
(* inductive alone, Steady is: where a socket is not up, no timer runs and *)
(* the peer's end is closed, or its loss did not count.                    *)
(*                                                                         *)
(* An event is a chain of functions of the connection (the handler, what   *)
(* input sets at its end, _process, output).  What each of them does to    *)
(* each field is a lemma of its own, and the actions are proved from these.*)
(***************************************************************************)
EXTENDS Connection, Induction_proof, SequenceTheorems

\* The frames that a connection may have to write.
EndFrames == [end : Ends, open : BOOLEAN]

\* What the peer has got, and whether it must refuse some of it.
Gotten == [wrote : SUBSET Ends, refusable : BOOLEAN]

Got(conn) == [wrote |-> conn.wrote, refusable |-> conn.refusable]

LEMMA AfterFrameType ==
    ASSUME NEW before \in Gotten, NEW f \in EndFrames
    PROVE  AfterFrame(before, f) \in Gotten
BY DEF AfterFrame, Gotten, EndFrames

\* The function in Written is what its recursion says.
LEMMA WrittenUnfolds ==
    ASSUME NEW conn, Got(conn) \in Gotten, NEW frames \in Seq(EndFrames)
    PROVE  \E after \in [0..Len(frames) -> Gotten] :
               /\ after[0] = Got(conn)
               /\ \A k \in 1..Len(frames) : after[k] = AfterFrame(after[k - 1], frames[k])
               /\ Written(conn, frames) = after[Len(frames)]
<1> DEFINE n == Len(frames)
           Body(g) == [k \in 0..n |-> IF k = 0 THEN Got(conn)
                                      ELSE AfterFrame(g[k - 1], frames[k])]
           step == [p \in (1..n) \X Gotten |-> AfterFrame(p[2], frames[p[1]])]
           after == CHOOSE g : g = Body(g)
<1>1. n \in Nat /\ \A k \in 1..n : frames[k] \in EndFrames
    OBVIOUS
<1>2. step \in [(1..n) \X Gotten -> Gotten]
  <2>1. \A p \in (1..n) \X Gotten : AfterFrame(p[2], frames[p[1]]) \in Gotten
    BY <1>1, AfterFrameType
  <2> QED BY <2>1
<1>3. PICK f \in [0..n -> Gotten] : Recurs(f, n, Got(conn), step)
  <2> HIDE DEF step, n
  <2> QED BY <1>1, <1>2, Recursion
<1>4. f = Body(f)
  <2>1. \A k \in 1..n : f[k] = AfterFrame(f[k - 1], frames[k])
    <3>1. SUFFICES ASSUME NEW k \in 1..n
                   PROVE  f[k] = AfterFrame(f[k - 1], frames[k])
        OBVIOUS
    <3>2. k - 1 \in 0..n
        BY <1>1
    <3>3. <<k, f[k - 1]>> \in (1..n) \X Gotten
        BY <3>2, <1>3
    <3> QED BY <3>3, <1>3 DEF Recurs
  <2>2. \A k \in 0..n : f[k] = Body(f)[k]
    BY <1>1, <1>3, <2>1 DEF Recurs
  <2>3. DOMAIN f = 0..n /\ f = [k \in 0..n |-> f[k]]
    BY <1>3
  <2> HIDE DEF n
  <2> QED BY <2>2, <2>3
<1>5. after = Body(after)
  <2> HIDE DEF Body
  <2> QED BY <1>4
<1>6. Written(conn, frames) = after[n]
    BY DEF Written, Got
<1>7. after[0] = Got(conn) /\ \A k \in 1..n : after[k] = AfterFrame(after[k - 1], frames[k])
  <2> HIDE DEF after
  <2>1. \A k \in 0..n : after[k] = IF k = 0 THEN Got(conn)
                                   ELSE AfterFrame(after[k - 1], frames[k])
    BY <1>5
  <2> QED BY <1>1, <2>1
<1>8. \A k \in 0..n : after[k] \in Gotten
  <2> DEFINE Odd == {k \in 0..n : after[k] \notin Gotten}
  <2>1. SUFFICES ASSUME Odd # {}
                 PROVE  FALSE
    OBVIOUS
  <2>2. PICK k \in Odd : \A y \in Odd : k <= y
    <3>1. Odd \in SUBSET Nat
        OBVIOUS
    <3> HIDE DEF Odd
    <3> QED BY <2>1, <3>1, LeastExists
  <2>3. k \in 1..n /\ k - 1 \in 0..n /\ k - 1 \notin Odd
    BY <1>1, <1>7, <2>2
  <2>4. after[k - 1] \in Gotten
    BY <2>3
  <2>5. after[k] \in Gotten
    BY <1>1, <1>7, <2>3, <2>4, AfterFrameType
  <2> QED BY <2>2, <2>5
<1>9. after \in [0..n -> Gotten]
  <2>1. DOMAIN after = 0..n /\ after = [k \in 0..n |-> after[k]]
    <3> HIDE DEF after
    <3>1. \A g : DOMAIN Body(g) = 0..n /\ Body(g) = [k \in 0..n |-> Body(g)[k]]
        OBVIOUS
    <3> HIDE DEF Body
    <3> QED BY <1>5, <3>1
  <2> HIDE DEF after
  <2> QED BY <1>8, <2>1
<1> HIDE DEF after, n
<1> QED BY <1>6, <1>7, <1>9 DEF n

\* And it is the only one.
LEMMA WrittenIs ==
    ASSUME NEW conn, Got(conn) \in Gotten, NEW frames \in Seq(EndFrames), NEW g,
           g[0] = Got(conn),
           \A k \in 1..Len(frames) : g[k] = AfterFrame(g[k - 1], frames[k])
    PROVE  Written(conn, frames) = g[Len(frames)]
<1>1. Len(frames) \in Nat
    OBVIOUS
<1>2. PICK after \in [0..Len(frames) -> Gotten] :
          /\ after[0] = Got(conn)
          /\ \A k \in 1..Len(frames) : after[k] = AfterFrame(after[k - 1], frames[k])
          /\ Written(conn, frames) = after[Len(frames)]
    BY WrittenUnfolds
<1> DEFINE Differ == {k \in 0..Len(frames) : after[k] # g[k]}
<1>3. SUFFICES ASSUME Differ # {}
               PROVE  FALSE
    BY <1>1, <1>2
<1>4. PICK k \in Differ : \A y \in Differ : k <= y
  <2>1. Differ \in SUBSET Nat
    OBVIOUS
  <2> HIDE DEF Differ
  <2> QED BY <1>3, <2>1, LeastExists
<1>5. k \in 1..Len(frames) /\ k - 1 \in 0..Len(frames) /\ k - 1 \notin Differ
    BY <1>1, <1>2, <1>4
<1>6. after[k] = g[k]
    BY <1>2, <1>5
<1> QED BY <1>4, <1>6

LEMMA WrittenType ==
    ASSUME NEW conn, Got(conn) \in Gotten, NEW frames \in Seq(EndFrames)
    PROVE  Written(conn, frames) \in Gotten
<1>1. Len(frames) \in Nat
    OBVIOUS
<1> QED BY <1>1, WrittenUnfolds

\* What the peer has of one frame more.
LEMMA WrittenNothing ==
    ASSUME NEW conn, Got(conn) \in Gotten
    PROVE  Written(conn, << >>) = Got(conn)
<1> DEFINE none == << >>
<1>1. none \in Seq(EndFrames) /\ Len(none) = 0
    OBVIOUS
<1> HIDE DEF none
<1>2. PICK after \in [0..Len(none) -> Gotten] :
          /\ after[0] = Got(conn)
          /\ \A k \in 1..Len(none) : after[k] = AfterFrame(after[k - 1], none[k])
          /\ Written(conn, none) = after[Len(none)]
    BY <1>1, WrittenUnfolds
<1>3. Written(conn, none) = Got(conn)
    BY <1>1, <1>2
<1> QED BY <1>3 DEF none

LEMMA WrittenAppend ==
    ASSUME NEW conn, Got(conn) \in Gotten, NEW frames \in Seq(EndFrames), NEW f \in EndFrames
    PROVE  Written(conn, Append(frames, f)) = AfterFrame(Written(conn, frames), f)
<1> DEFINE more == Append(frames, f)
           n == Len(frames)
<1>1. /\ more \in Seq(EndFrames) /\ Len(more) = n + 1 /\ n \in Nat
      /\ more[n + 1] = f /\ \A k \in 1..n : more[k] = frames[k]
    OBVIOUS
<1> HIDE DEF more
<1>2. PICK after \in [0..Len(more) -> Gotten] :
          /\ after[0] = Got(conn)
          /\ \A k \in 1..Len(more) : after[k] = AfterFrame(after[k - 1], more[k])
          /\ Written(conn, more) = after[Len(more)]
    BY <1>1, WrittenUnfolds
<1>3. \A k \in 1..n : after[k] = AfterFrame(after[k - 1], frames[k])
    BY <1>1, <1>2
<1>4. Written(conn, frames) = after[n]
    BY <1>2, <1>3, WrittenIs
<1>5. after[n + 1] = AfterFrame(after[n], more[n + 1])
    BY <1>1, <1>2
<1> QED BY <1>1, <1>2, <1>4, <1>5 DEF more

\* Only what the peer already has matters of a connection.
LEMMA WrittenFrom ==
    ASSUME NEW conn, NEW other, Got(conn) \in Gotten, Got(other) = Got(conn),
           NEW frames \in Seq(EndFrames)
    PROVE  Written(other, frames) = Written(conn, frames)
<1>1. PICK after \in [0..Len(frames) -> Gotten] :
          /\ after[0] = Got(conn)
          /\ \A k \in 1..Len(frames) : after[k] = AfterFrame(after[k - 1], frames[k])
          /\ Written(conn, frames) = after[Len(frames)]
    BY WrittenUnfolds
<1> QED BY <1>1, WrittenIs

-----------------------------------------------------------------------------
(* Types.                                                                   *)

Reconnecting == {"unknown", "yes", "no"}

Conns ==
    [state : [Ends -> EndpointStates], mapped : BOOLEAN, ssn : BOOLEAN, attached : BOOLEAN,
     unsent : Seq(EndFrames), wrote : SUBSET Ends, refusable : BOOLEAN,
     socket : Sockets, socket_ready : BOOLEAN, ended : BOOLEAN,
     heartbeat_in : Timers, heartbeat_out : Timers, abort_idle : BOOLEAN,
     scheduled_reconnect : 0 .. 1, closed_with_non_fatal_error : BOOLEAN,
     transport_error : BOOLEAN, frame_size : 0 .. MaxSockets, established : Nat,
     reset : Int, current : Int, reconnecting : Reconnecting]

Nets == [Sockets -> {"unused", "connecting", "up", "ended", "gone"}]

Typed ==
    /\ c \in Conns
    /\ net \in Nets
    /\ calls \in 0 .. MaxCalls
    /\ closed \in BOOLEAN /\ wanted \in BOOLEAN
    /\ attempts \in Nat

LEMMA TypedGivesTypes == Typed => TypeOK
BY DEF Typed, TypeOK, Conns, Nets, EndFrames, Reconnecting, Ends

\* The flags of an end, and whether its requests are all taken.
LEMMA EndpointOpen ==
    ASSUME NEW e \in EndpointStates
    PROVE  /\ Open(e) \in EndpointStates
           /\ Open(e).local_open /\ Open(e).remote_open = e.remote_open
           /\ Open(e).was_open = e.was_open
           /\ Open(e).close_requests = e.close_requests
           /\ e.local_open => Open(e).open_requests = e.open_requests
           /\ ~ e.local_open => Open(e).open_requests = e.open_requests + 1
<1> DEFINE n == IF e.local_open THEN e.open_requests ELSE e.open_requests + 1
<1>1. n \in Nat
    BY DEF EndpointStates
<1>2. Open(e) = [e EXCEPT !.marker = 0, !.local_open = TRUE, !.open_requests = n]
    BY DEF Open
<1>3. (e.local_open => n = e.open_requests) /\ (~ e.local_open => n = e.open_requests + 1)
    OBVIOUS
<1> HIDE DEF n
<1> DEFINE f == Open(e)
<1>4. f = [e EXCEPT !.marker = 0, !.local_open = TRUE, !.open_requests = n]
    BY <1>2
<1> HIDE DEF f
<1>5. f \in EndpointStates /\ f.open_requests = n /\ f.close_requests = e.close_requests
    BY <1>1, <1>4 DEF EndpointStates, Marker
<1>6. f.local_open = TRUE /\ f.remote_open = e.remote_open /\ f.was_open = e.was_open
    BY <1>1, <1>4 DEF EndpointStates, Marker
<1> QED BY <1>3, <1>5, <1>6 DEF f

LEMMA EndpointClose ==
    ASSUME NEW e \in EndpointStates
    PROVE  /\ Close(e) \in EndpointStates
           /\ ~ Close(e).local_open /\ Close(e).remote_open = e.remote_open
           /\ Close(e).was_open = e.was_open
           /\ Close(e).open_requests = e.open_requests
           /\ e.local_open => Close(e).close_requests = e.close_requests + 1
           /\ ~ e.local_open => Close(e).close_requests = e.close_requests
<1> DEFINE n == IF e.local_open THEN e.close_requests + 1 ELSE e.close_requests
<1>1. n \in Nat
    BY DEF EndpointStates
<1>2. Close(e) = [e EXCEPT !.marker = 0, !.local_open = FALSE, !.close_requests = n]
    BY DEF Close
<1>3. (e.local_open => n = e.close_requests + 1) /\ (~ e.local_open => n = e.close_requests)
    OBVIOUS
<1> HIDE DEF n
<1> DEFINE f == Close(e)
<1>4. f = [e EXCEPT !.marker = 0, !.local_open = FALSE, !.close_requests = n]
    BY <1>2
<1> HIDE DEF f
<1>5. f \in EndpointStates /\ f.open_requests = e.open_requests /\ f.close_requests = n
    BY <1>1, <1>4 DEF EndpointStates, Marker
<1>6. f.local_open = FALSE /\ f.remote_open = e.remote_open /\ f.was_open = e.was_open
    BY <1>1, <1>4 DEF EndpointStates, Marker
<1> QED BY <1>3, <1>5, <1>6 DEF f

LEMMA EndpointRemote ==
    ASSUME NEW e \in EndpointStates
    PROVE  /\ RemoteOpened(e) \in EndpointStates /\ RemoteClosed(e) \in EndpointStates
           /\ RemoteOpened(e) = [e EXCEPT !.remote_open = TRUE]
           /\ RemoteClosed(e) = [e EXCEPT !.remote_open = FALSE]
BY DEF EndpointStates, RemoteOpened, RemoteClosed

LEMMA EndpointSettled ==
    ASSUME NEW e \in EndpointStates
    PROVE  /\ Settled(e) \in EndpointStates /\ HasSettled(Settled(e))
           /\ Settled(e).local_open = e.local_open /\ Settled(e).remote_open = e.remote_open
           /\ Settled(e).was_open = e.was_open
BY DEF EndpointStates, Settled, HasSettled

LEMMA EndpointFresh ==
    /\ Fresh \in EndpointStates /\ HasSettled(Fresh)
    /\ ~ Fresh.local_open /\ ~ Fresh.remote_open /\ ~ Fresh.was_open
BY DEF EndpointStates, Fresh, HasSettled, Marker

LEMMA EndpointDisconnected ==
    ASSUME NEW e \in EndpointStates
    PROVE  /\ Disconnected(e) \in EndpointStates /\ HasSettled(Disconnected(e))
           /\ ~ Disconnected(e).local_open /\ ~ Disconnected(e).remote_open
           /\ Disconnected(e).was_open = e.local_open
BY EndpointFresh DEF EndpointStates, Disconnected, Fresh, HasSettled

LEMMA EndpointReconnected ==
    ASSUME NEW e \in EndpointStates
    PROVE  /\ Reconnected(e) \in EndpointStates /\ ~ Reconnected(e).was_open
           /\ Reconnected(e).remote_open = e.remote_open
           /\ Reconnected(e).close_requests = e.close_requests
           /\ e.was_open => Reconnected(e).local_open
           /\ ~ e.was_open => Reconnected(e) = e
           /\ e.was_open /\ ~ e.local_open => Reconnected(e).open_requests = e.open_requests + 1
           /\ e.local_open => Reconnected(e).open_requests = e.open_requests
<1>1. CASE e.was_open
  <2> DEFINE o == Open(e)
             f == [o EXCEPT !.was_open = FALSE]
  <2>1. Reconnected(e) = f
    BY <1>1 DEF Reconnected
  <2>2. o \in EndpointStates
    BY EndpointOpen
  <2>3. f \in EndpointStates
    <3> HIDE DEF o
    <3> QED BY <2>2 DEF EndpointStates
  <2>4. /\ f.open_requests = o.open_requests /\ f.close_requests = o.close_requests
        /\ f.local_open = o.local_open /\ f.remote_open = o.remote_open
        /\ f.was_open = FALSE
    <3> HIDE DEF o
    <3> QED BY <2>2 DEF EndpointStates
  <2> HIDE DEF f
  <2> QED BY <1>1, <2>1, <2>3, <2>4, EndpointOpen
<1>2. CASE ~ e.was_open
    BY <1>2 DEF EndpointStates, Reconnected
<1> QED BY <1>1, <1>2

\* The frames of a _process.
LEMMA PartsType ==
    ASSUME NEW conn \in Conns, NEW e \in Ends
    PROVE  /\ OpenFrame(conn, e) \in Seq(EndFrames) /\ CloseFrame(conn, e) \in Seq(EndFrames)
           /\ << >> \in Seq(EndFrames)
<1>1. \A f \in EndFrames : <<f>> \in Seq(EndFrames)
    OBVIOUS
<1>2. \A b \in BOOLEAN : [end |-> e, open |-> b] \in EndFrames
    BY DEF EndFrames
<1>3. \A b \in BOOLEAN : <<[end |-> e, open |-> b]>> \in Seq(EndFrames)
    BY <1>1, <1>2
<1>4. << >> \in Seq(EndFrames)
    OBVIOUS
<1>5. /\ OpenFrame(conn, e) \in {<< >>, <<[end |-> e, open |-> TRUE]>>}
      /\ CloseFrame(conn, e) \in {<< >>, <<[end |-> e, open |-> FALSE]>>}
    BY DEF OpenFrame, CloseFrame
<1> QED BY <1>3, <1>4, <1>5

LEMMA FramesType ==
    ASSUME NEW conn \in Conns
    PROVE  Frames(conn) \in Seq(EndFrames)
<1>1. "connection" \in Ends /\ "session" \in Ends /\ "link" \in Ends
    BY DEF Ends
<1>2. \A e \in Ends : /\ OpenFrame(conn, e) \in Seq(EndFrames)
                     /\ CloseFrame(conn, e) \in Seq(EndFrames)
    BY PartsType
<1>3. << >> \in Seq(EndFrames)
    OBVIOUS
<1> QED BY <1>1, <1>2, <1>3 DEF Frames

-----------------------------------------------------------------------------
(* What output and a turn do to each field.                                 *)

\* The fields that only an event of its own changes.
SameApart(a, b) ==
    /\ b.mapped = a.mapped /\ b.ssn = a.ssn /\ b.attached = a.attached
    /\ b.socket = a.socket /\ b.socket_ready = a.socket_ready
    /\ b.abort_idle = a.abort_idle /\ b.scheduled_reconnect = a.scheduled_reconnect
    /\ b.closed_with_non_fatal_error = a.closed_with_non_fatal_error
    /\ b.transport_error = a.transport_error /\ b.frame_size = a.frame_size
    /\ b.established = a.established /\ b.reset = a.reset /\ b.current = a.current
    /\ b.reconnecting = a.reconnecting

\* What output leaves of a connection whose socket is ready.
Flushed(conn, gotten) ==
    [conn EXCEPT !.wrote = gotten.wrote, !.refusable = gotten.refusable, !.unsent = <<>>,
                 !.ended = @ \/ MustEnd(conn),
                 !.heartbeat_out = Rearmed(conn),
                 !.heartbeat_in = IF @ = "undefined" THEN "running" ELSE @]

\* New values of the right kind make a connection again.
LEMMA UpdatedType ==
    ASSUME NEW conn \in Conns, NEW wrote \in SUBSET Ends, NEW refusable \in BOOLEAN,
           NEW unsent \in Seq(EndFrames), NEW ended \in BOOLEAN,
           NEW out \in Timers, NEW in \in Timers
    PROVE  \A updated :
               updated = [conn EXCEPT !.wrote = wrote, !.refusable = refusable, !.unsent = unsent,
                                      !.ended = ended, !.heartbeat_out = out, !.heartbeat_in = in]
                 => updated \in Conns
<1>1. PICK c1 : c1 = [conn EXCEPT !.wrote = wrote]
    OBVIOUS
<1>2. PICK c2 : c2 = [c1 EXCEPT !.refusable = refusable]
    OBVIOUS
<1>3. PICK c3 : c3 = [c2 EXCEPT !.unsent = unsent]
    OBVIOUS
<1>4. PICK c4 : c4 = [c3 EXCEPT !.ended = ended]
    OBVIOUS
<1>5. PICK c5 : c5 = [c4 EXCEPT !.heartbeat_out = out]
    OBVIOUS
<1>6. PICK c6 : c6 = [c5 EXCEPT !.heartbeat_in = in]
    OBVIOUS
<1>7. c1 \in Conns
    BY <1>1 DEF Conns
<1>8. c2 \in Conns
    BY <1>2, <1>7 DEF Conns
<1>9. c3 \in Conns
    BY <1>3, <1>8 DEF Conns
<1>10. c4 \in Conns
    BY <1>4, <1>9 DEF Conns
<1>11. c5 \in Conns
    BY <1>5, <1>10 DEF Conns
<1>12. c6 \in Conns
    BY <1>6, <1>11 DEF Conns
<1>13. c6 = [conn EXCEPT !.wrote = wrote, !.refusable = refusable, !.unsent = unsent,
                         !.ended = ended, !.heartbeat_out = out, !.heartbeat_in = in]
    BY <1>1, <1>2, <1>3, <1>4, <1>5, <1>6
<1> QED BY Zenon, <1>12, <1>13

Gets(conn) == IF conn.ended THEN Got(conn) ELSE Written(conn, conn.unsent)

LEMMA GetsType ==
    ASSUME NEW conn \in Conns
    PROVE  Got(conn) \in Gotten /\ Written(conn, conn.unsent) \in Gotten /\ Gets(conn) \in Gotten
<1>1. Got(conn) \in Gotten /\ conn.unsent \in Seq(EndFrames)
    BY DEF Conns, Got, Gotten
<1> QED BY <1>1, WrittenType DEF Gets

LEMMA OutputFields ==
    ASSUME NEW conn \in Conns
    PROVE  /\ Output(conn) \in Conns
           /\ ~ conn.socket_ready => Output(conn) = conn
           /\ SameApart(conn, Output(conn))
           /\ Output(conn).state = conn.state
           /\ conn.socket_ready =>
                /\ Output(conn).unsent = << >>
                /\ Got(Output(conn)) = Gets(conn)
                /\ Output(conn).ended = (conn.ended \/ MustEnd(conn))
                /\ Output(conn).heartbeat_out = Rearmed(conn)
                /\ Output(conn).heartbeat_in =
                      IF conn.heartbeat_in = "undefined" THEN "running" ELSE conn.heartbeat_in
<1>1. CASE ~ conn.socket_ready
    BY <1>1 DEF Output, SameApart
<1>2. CASE conn.socket_ready
  <2> DEFINE w == Gets(conn)
  <2>1. w \in Gotten /\ w.wrote \in SUBSET Ends /\ w.refusable \in BOOLEAN
           /\ w = [wrote |-> w.wrote, refusable |-> w.refusable]
    BY GetsType DEF Gotten
  <2>2. Output(conn) = Flushed(conn, w)
    BY <1>2 DEF Output, Flushed, Gets, Got
  <2> HIDE DEF w
  <2>3. MustEnd(conn) \in BOOLEAN
    BY DEF MustEnd, IsClosed, HasSettled, Conns
  <2>4. Rearmed(conn) \in Timers
    BY DEF Rearmed, Clear, Conns, Timers
  <2>5. "running" \in Timers /\ << >> \in Seq(EndFrames)
    BY DEF Timers
  <2>6. Flushed(conn, w) \in Conns
    <3>1. conn.ended \in BOOLEAN /\ conn.heartbeat_in \in Timers
        BY DEF Conns
    <3>2. PICK ended \in BOOLEAN : ended = (conn.ended \/ MustEnd(conn))
      <4>1. (conn.ended \/ MustEnd(conn)) \in BOOLEAN
        OBVIOUS
      <4> QED BY Zenon, <4>1
    <3>3. PICK out \in Timers : out = Rearmed(conn)
        BY <2>4
    <3>4. PICK in \in Timers :
              in = IF conn.heartbeat_in = "undefined" THEN "running" ELSE conn.heartbeat_in
        BY <2>5, <3>1
    <3>5. PICK wrote \in SUBSET Ends : wrote = w.wrote
        BY <2>1
    <3>6. PICK refusable \in BOOLEAN : refusable = w.refusable
        BY <2>1
    <3>7. PICK unsent \in Seq(EndFrames) : unsent = << >>
        BY <2>5
    <3>8. PICK updated : updated = Flushed(conn, w)
        OBVIOUS
    <3>9. updated = [conn EXCEPT !.wrote = wrote, !.refusable = refusable, !.unsent = unsent,
                                 !.ended = ended, !.heartbeat_out = out, !.heartbeat_in = in]
        BY <3>2, <3>3, <3>4, <3>5, <3>6, <3>7, <3>8 DEF Flushed
    <3>10. updated \in Conns
        BY ZenonT(30), <3>9, UpdatedType
    <3> QED BY <3>8, <3>10
  <2>7. /\ Flushed(conn, w).unsent = << >>
        /\ Flushed(conn, w).wrote = w.wrote /\ Flushed(conn, w).refusable = w.refusable
        /\ Flushed(conn, w).ended = (conn.ended \/ MustEnd(conn))
        /\ Flushed(conn, w).heartbeat_out = Rearmed(conn)
        /\ Flushed(conn, w).heartbeat_in =
              IF conn.heartbeat_in = "undefined" THEN "running" ELSE conn.heartbeat_in
        /\ Flushed(conn, w).state = conn.state
        /\ SameApart(conn, Flushed(conn, w))
    BY <2>3, <2>4 DEF Conns, Flushed, SameApart
  <2>8. Got(Flushed(conn, w)) = w
    BY <2>1, <2>7 DEF Got
  <2> QED BY <1>2, <2>2, <2>6, <2>7, <2>8 DEF w
<1> QED BY <1>1, <1>2 DEF Conns

\* The connection before the output of a turn: all requests are taken.
Taken(conn) ==
    [conn EXCEPT
       !.unsent = @ \o Frames(conn),
       !.state = [e \in Ends |-> IF e \in Reached(conn) THEN Settled(@[e]) ELSE @[e]]]

LEMMA TakenFields ==
    ASSUME NEW conn \in Conns
    PROVE  /\ Taken(conn) \in Conns
           /\ SameApart(conn, Taken(conn))
           /\ Taken(conn).unsent = conn.unsent \o Frames(conn)
           /\ Taken(conn).state = [e \in Ends |-> IF e \in Reached(conn) THEN Settled(conn.state[e])
                                                ELSE conn.state[e]]
           /\ Got(Taken(conn)) = Got(conn)
           /\ Taken(conn).ended = conn.ended
           /\ Taken(conn).heartbeat_in = conn.heartbeat_in
           /\ Taken(conn).heartbeat_out = conn.heartbeat_out
<1> DEFINE unsent == conn.unsent \o Frames(conn)
           state == [e \in Ends |-> IF e \in Reached(conn) THEN Settled(conn.state[e])
                                   ELSE conn.state[e]]
<1>1. unsent \in Seq(EndFrames)
    BY FramesType DEF Conns
<1>2. state \in [Ends -> EndpointStates]
    BY EndpointSettled DEF Conns
<1>3. Taken(conn) = [conn EXCEPT !.unsent = unsent, !.state = state]
    BY DEF Taken
<1> HIDE DEF unsent, state
<1>4. Taken(conn) \in Conns
    BY <1>1, <1>2, <1>3 DEF Conns
<1>5. /\ SameApart(conn, Taken(conn)) /\ Got(Taken(conn)) = Got(conn)
      /\ Taken(conn).unsent = unsent /\ Taken(conn).state = state
      /\ Taken(conn).ended = conn.ended
      /\ Taken(conn).heartbeat_in = conn.heartbeat_in
      /\ Taken(conn).heartbeat_out = conn.heartbeat_out
    BY <1>3 DEF Conns, SameApart, Got
<1> QED BY <1>4, <1>5 DEF unsent, state

\* There is nothing to be written if no part is.
LEMMA ConcatEmpty ==
    ASSUME NEW s \in Seq(EndFrames), NEW t \in Seq(EndFrames), s \o t = << >>
    PROVE  s = << >> /\ t = << >>
<1>1. Len(s \o t) = Len(s) + Len(t) /\ Len(s) \in Nat /\ Len(t) \in Nat
    OBVIOUS
<1>2. Len(s) = 0 /\ Len(t) = 0
    BY <1>1
<1> QED BY <1>2

LEMMA FramesEmpty ==
    ASSUME NEW conn \in Conns, Frames(conn) = << >>
    PROVE  /\ OpenFrame(conn, "connection") = << >> /\ CloseFrame(conn, "connection") = << >>
           /\ "session" \in Reached(conn) =>
                  OpenFrame(conn, "session") = << >> /\ CloseFrame(conn, "session") = << >>
           /\ "link" \in Reached(conn) => OpenFrame(conn, "link") = << >>
<1> DEFINE Part(e, frames) == IF e \in Reached(conn) THEN frames ELSE << >>
           a == OpenFrame(conn, "connection")
           b == Part("session", OpenFrame(conn, "session"))
           d == Part("link", OpenFrame(conn, "link"))
           f == Part("session", CloseFrame(conn, "session"))
           g == CloseFrame(conn, "connection")
<1>1. a \in Seq(EndFrames) /\ b \in Seq(EndFrames) /\ d \in Seq(EndFrames)
         /\ f \in Seq(EndFrames) /\ g \in Seq(EndFrames)
    BY PartsType DEF Ends
<1>2. Frames(conn) = a \o b \o d \o f \o g
    BY DEF Frames
<1>3. a = << >> /\ b = << >> /\ d = << >> /\ f = << >> /\ g = << >>
  <2> HIDE DEF a, b, d, f, g
  <2>1. a \o b \in Seq(EndFrames) /\ a \o b \o d \in Seq(EndFrames)
           /\ a \o b \o d \o f \in Seq(EndFrames)
    BY <1>1
  <2>2. a \o b \o d \o f = << >> /\ g = << >>
    BY <1>1, <1>2, <2>1, ConcatEmpty
  <2>3. a \o b \o d = << >> /\ f = << >>
    BY <1>1, <2>1, <2>2, ConcatEmpty
  <2>4. a \o b = << >> /\ d = << >>
    BY <1>1, <2>1, <2>3, ConcatEmpty
  <2> QED BY <1>1, <2>2, <2>3, <2>4, ConcatEmpty
<1> QED BY <1>3

\* A turn writes, or nothing is registered.
Writes(conn) == conn.socket_ready /\ Frames(conn) # << >>

\* MustEnd, of what is settled.
Over(conn) == IsClosed(conn.state["connection"]) \/ conn.abort_idle \/ conn.transport_error

LEMMA TurnFields ==
    ASSUME NEW conn \in Conns
    PROVE  /\ Turn(conn) \in Conns
           /\ SameApart(conn, Turn(conn))
           /\ \A e \in Ends :
                 /\ Turn(conn).state[e].local_open = conn.state[e].local_open
                 /\ Turn(conn).state[e].remote_open = conn.state[e].remote_open
                 /\ Turn(conn).state[e].was_open = conn.state[e].was_open
           /\ HasSettled(Turn(conn).state["connection"])
           /\ Turn(conn).ended = (conn.ended \/ (Writes(conn) /\ Over(conn)))
           /\ Turn(conn).heartbeat_in =
                 IF Writes(conn) /\ conn.heartbeat_in = "undefined" THEN "running"
                 ELSE conn.heartbeat_in
           /\ Turn(conn).heartbeat_out =
                 IF ~ Writes(conn) THEN conn.heartbeat_out
                 ELSE IF IsOpen(conn.state["connection"]) /\ ~ Over(conn) THEN "running"
                 ELSE Clear(conn.heartbeat_out)
           /\ ~ HasSettled(conn.state["connection"]) => Frames(conn) # << >>
<1> DEFINE taken == Taken(conn)
           out == Output(taken)
<1>1. /\ taken \in Conns /\ SameApart(conn, taken)
      /\ taken.ended = conn.ended
      /\ taken.heartbeat_in = conn.heartbeat_in
      /\ taken.heartbeat_out = conn.heartbeat_out
      /\ taken.state = [e \in Ends |-> IF e \in Reached(conn) THEN Settled(conn.state[e])
                                      ELSE conn.state[e]]
    BY TakenFields
<1>2. \A e \in Ends :
          /\ conn.state[e] \in EndpointStates
          /\ taken.state[e].local_open = conn.state[e].local_open
          /\ taken.state[e].remote_open = conn.state[e].remote_open
          /\ taken.state[e].was_open = conn.state[e].was_open
  <2> HIDE DEF taken
  <2>1. \A e \in Ends : conn.state[e] \in EndpointStates
    BY DEF Conns
  <2>2. \A e \in Ends : taken.state[e] = Settled(conn.state[e]) \/ taken.state[e] = conn.state[e]
    BY <1>1
  <2> QED BY <2>1, <2>2, EndpointSettled
<1>3. "connection" \in Ends /\ "connection" \in Reached(conn)
    BY DEF Ends, Reached
<1>4. HasSettled(taken.state["connection"])
  <2> HIDE DEF taken
  <2> QED BY <1>1, <1>2, <1>3, EndpointSettled
<1>5. /\ MustEnd(taken) = Over(conn)
      /\ Rearmed(taken) = IF IsOpen(conn.state["connection"]) /\ ~ Over(conn) THEN "running"
                          ELSE Clear(conn.heartbeat_out)
  <2> HIDE DEF taken
  <2>1. /\ IsClosed(taken.state["connection"]) = IsClosed(conn.state["connection"])
        /\ IsOpen(taken.state["connection"]) = IsOpen(conn.state["connection"])
    BY <1>2, <1>3 DEF IsClosed, IsOpen
  <2>2. taken.abort_idle = conn.abort_idle /\ taken.transport_error = conn.transport_error
    BY <1>1 DEF SameApart
  <2>3. MustEnd(taken) = Over(conn)
    BY <1>4, <2>1, <2>2 DEF MustEnd, Over
  <2> QED BY <1>1, <2>1, <2>3 DEF Rearmed
<1>6. /\ out \in Conns /\ SameApart(taken, out) /\ out.state = taken.state
      /\ ~ taken.socket_ready => out = taken
      /\ taken.socket_ready =>
            /\ out.ended = (taken.ended \/ MustEnd(taken))
            /\ out.heartbeat_out = Rearmed(taken)
            /\ out.heartbeat_in =
                  IF taken.heartbeat_in = "undefined" THEN "running" ELSE taken.heartbeat_in
  <2> HIDE DEF taken
  <2> QED BY <1>1, OutputFields
<1>7. SameApart(conn, out) /\ taken.socket_ready = conn.socket_ready
  <2> HIDE DEF taken, out
  <2> QED BY <1>1, <1>6 DEF SameApart
<1>8. ~ HasSettled(conn.state["connection"]) => Frames(conn) # << >>
  <2>1. SUFFICES ASSUME ~ HasSettled(conn.state["connection"])
                 PROVE  Frames(conn) # << >>
    OBVIOUS
  <2> DEFINE k == conn.state["connection"]
  <2>2. k.open_requests > 0 \/ k.close_requests > 0
    BY <1>2, <1>3, <2>1 DEF HasSettled, EndpointStates
  <2>3. OpenFrame(conn, "connection") # << >> \/ CloseFrame(conn, "connection") # << >>
    BY <2>2 DEF OpenFrame, CloseFrame
  <2> QED BY <2>3, FramesEmpty
<1>9. Turn(conn) = IF Frames(conn) = << >> THEN conn ELSE out
    BY DEF Turn, Taken
<1>10. CASE Frames(conn) = << >>
  <2>1. Turn(conn) = conn /\ ~ Writes(conn) /\ HasSettled(conn.state["connection"])
    BY <1>8, <1>9, <1>10 DEF Writes
  <2>2. SameApart(conn, conn) /\ conn.ended \in BOOLEAN
    BY DEF SameApart, Conns
  <2> QED BY <1>10, <2>1, <2>2
<1>11. CASE Frames(conn) # << >>
  <2>1. Turn(conn) = out /\ (Writes(conn) <=> conn.socket_ready)
    BY <1>9, <1>11 DEF Writes
  <2>2. /\ \A e \in Ends :
              /\ out.state[e].local_open = conn.state[e].local_open
              /\ out.state[e].remote_open = conn.state[e].remote_open
              /\ out.state[e].was_open = conn.state[e].was_open
        /\ HasSettled(out.state["connection"])
    <3> HIDE DEF taken, out
    <3> QED BY <1>2, <1>4, <1>6
  <2>3. out.ended = (conn.ended \/ (conn.socket_ready /\ Over(conn)))
    <3> HIDE DEF taken, out
    <3>1. conn.ended \in BOOLEAN /\ conn.socket_ready \in BOOLEAN
        BY DEF Conns
    <3> QED BY <1>1, <1>5, <1>6, <1>7, <3>1
  <2>4. /\ out.heartbeat_in = IF conn.socket_ready /\ conn.heartbeat_in = "undefined" THEN "running"
                              ELSE conn.heartbeat_in
        /\ out.heartbeat_out = IF ~ conn.socket_ready THEN conn.heartbeat_out
                 ELSE IF IsOpen(conn.state["connection"]) /\ ~ Over(conn) THEN "running"
                 ELSE Clear(conn.heartbeat_out)
    <3> HIDE DEF taken, out
    <3> QED BY <1>1, <1>5, <1>6, <1>7
  <2> HIDE DEF taken, out
  <2> QED BY <1>6, <1>7, <1>11, <2>1, <2>2, <2>3, <2>4
<1> QED BY <1>10, <1>11

-----------------------------------------------------------------------------
(* What the loss of a socket does to each field.                            *)

\* What neither a loss of the socket nor a reconnect touches.
SameBelow(a, b) ==
    /\ b.ssn = a.ssn /\ b.transport_error = a.transport_error
    /\ b.frame_size = a.frame_size /\ b.established = a.established

\* What is written, and the socket.
SameSocket(a, b) ==
    /\ b.unsent = a.unsent /\ Got(b) = Got(a)
    /\ b.socket = a.socket /\ b.ended = a.ended

SameReconnect(a, b) ==
    /\ b.scheduled_reconnect = a.scheduled_reconnect
    /\ b.reset = a.reset /\ b.current = a.current /\ b.reconnecting = a.reconnecting

SameTimers(a, b) ==
    /\ b.heartbeat_in = a.heartbeat_in /\ b.heartbeat_out = a.heartbeat_out
    /\ b.abort_idle = a.abort_idle
    /\ b.closed_with_non_fatal_error = a.closed_with_non_fatal_error

NoTimers(a) ==
    /\ a.heartbeat_in = "undefined" /\ a.heartbeat_out = "undefined"
    /\ ~ a.abort_idle /\ ~ a.closed_with_non_fatal_error

SameEnds(a, b) == b.mapped = a.mapped /\ b.attached = a.attached /\ b.state = a.state

\* The session and the link, after their _disconnect.
DisconnectedInside(a, b) ==
    /\ ~ a.mapped =>
         /\ b.mapped = a.mapped /\ b.attached = a.attached
         /\ b.state["session"] = a.state["session"] /\ b.state["link"] = a.state["link"]
    /\ a.mapped /\ ~ a.state["session"].local_open =>
         /\ ~ b.mapped /\ ~ b.attached
         /\ b.state["session"] = Fresh /\ b.state["link"] = Fresh
    /\ a.mapped /\ a.state["session"].local_open =>
         /\ b.mapped /\ b.attached = (a.attached /\ a.state["link"].local_open)
         /\ b.state["session"] = Disconnected(a.state["session"])
         /\ b.state["link"] = Disconnected(a.state["link"])

LEMMA EndsAre == Ends = {"connection", "session", "link"}
BY DEF Ends

LEMMA EndsDisconnectedFields ==
    ASSUME NEW conn \in Conns
    PROVE  LET lost == EndsDisconnected(conn)
           IN  /\ lost \in Conns
               /\ SameBelow(conn, lost) /\ SameSocket(conn, lost)
               /\ SameReconnect(conn, lost) /\ SameTimers(conn, lost)
               /\ ~ lost.socket_ready
               /\ lost.state["connection"] = Disconnected(conn.state["connection"])
               /\ DisconnectedInside(conn, lost)
<1> DEFINE first == [conn EXCEPT !.socket_ready = FALSE,
                                 !.state["connection"] = Disconnected(@)]
           gone == [first EXCEPT !.mapped = FALSE, !.attached = FALSE,
                                 !.state["session"] = Fresh, !.state["link"] = Fresh]
           left == [first EXCEPT !.state["session"] = Disconnected(@),
                                 !.state["link"] = Disconnected(@),
                                 !.attached = @ /\ conn.state["link"].local_open]
<1>1. /\ conn.state \in [Ends -> EndpointStates]
      /\ conn.mapped \in BOOLEAN /\ conn.attached \in BOOLEAN
      /\ \A e \in Ends : conn.state[e].local_open \in BOOLEAN
    BY DEF Conns, EndpointStates
<1>2. /\ \A e \in Ends : conn.state[e] \in EndpointStates /\ Disconnected(conn.state[e]) \in EndpointStates
      /\ Fresh \in EndpointStates
    BY <1>1, EndpointDisconnected, EndpointFresh
<1>3. /\ first \in Conns /\ ~ first.socket_ready
      /\ first.state = [conn.state EXCEPT !["connection"] = Disconnected(@)]
      /\ first.mapped = conn.mapped /\ first.attached = conn.attached
      /\ SameBelow(conn, first) /\ SameSocket(conn, first)
      /\ SameReconnect(conn, first) /\ SameTimers(conn, first)
    BY <1>1, <1>2, EndsAre
       DEF Conns, SameBelow, SameSocket, SameReconnect, SameTimers, Got
<1>4. /\ first.state["connection"] = Disconnected(conn.state["connection"])
      /\ first.state["session"] = conn.state["session"]
      /\ first.state["link"] = conn.state["link"]
  <2> HIDE DEF first
  <2> QED BY <1>1, <1>3, EndsAre
<1>5. EndsDisconnected(conn) = IF ~ conn.mapped THEN first
                               ELSE IF ~ conn.state["session"].local_open THEN gone ELSE left
    BY DEF EndsDisconnected, Forget
<1>6. CASE ~ conn.mapped
  <2> HIDE DEF first
  <2> QED BY <1>3, <1>4, <1>5, <1>6 DEF DisconnectedInside
<1>7. CASE conn.mapped /\ ~ conn.state["session"].local_open
  <2>1. EndsDisconnected(conn) = gone
    BY <1>5, <1>7
  <2>2. /\ gone \in Conns /\ ~ gone.socket_ready /\ ~ gone.mapped /\ ~ gone.attached
        /\ gone.state = [first.state EXCEPT !["session"] = Fresh, !["link"] = Fresh]
        /\ SameBelow(first, gone) /\ SameSocket(first, gone)
        /\ SameReconnect(first, gone) /\ SameTimers(first, gone)
    <3> HIDE DEF first
    <3> QED BY ZenonT(40), <1>2, <1>3, EndsAre
            DEF Conns, SameBelow, SameSocket, SameReconnect, SameTimers, Got
  <2>3. first.state \in [Ends -> EndpointStates]
    <3> HIDE DEF first
    <3> QED BY <1>3 DEF Conns
  <2> HIDE DEF first, gone
  <2>4. /\ gone.state["connection"] = first.state["connection"]
        /\ gone.state["session"] = Fresh /\ gone.state["link"] = Fresh
    BY <2>2, <2>3, EndsAre
  <2>5. /\ SameBelow(conn, gone) /\ SameSocket(conn, gone)
        /\ SameReconnect(conn, gone) /\ SameTimers(conn, gone)
    BY <1>3, <2>2 DEF SameBelow, SameSocket, SameReconnect, SameTimers
  <2>6. DisconnectedInside(conn, gone)
    BY <1>7, <2>2, <2>4 DEF DisconnectedInside
  <2> QED BY <1>4, <2>1, <2>2, <2>4, <2>5, <2>6
<1>8. CASE conn.mapped /\ conn.state["session"].local_open
  <2>1. EndsDisconnected(conn) = left
    BY <1>5, <1>8
  <2> DEFINE attached == first.attached /\ conn.state["link"].local_open
  <2>2. attached \in BOOLEAN
    OBVIOUS
  <2>3. left = [first EXCEPT !.state["session"] = Disconnected(conn.state["session"]),
                             !.state["link"] = Disconnected(conn.state["link"]),
                             !.attached = attached]
    <3> HIDE DEF first
    <3> QED BY <1>4
  <2> HIDE DEF first, attached
  <2>4. /\ left \in Conns /\ ~ left.socket_ready /\ left.mapped = first.mapped
        /\ left.attached = attached
        /\ left.state = [first.state EXCEPT !["session"] = Disconnected(conn.state["session"]),
                                           !["link"] = Disconnected(conn.state["link"])]
        /\ SameBelow(first, left) /\ SameSocket(first, left)
        /\ SameReconnect(first, left) /\ SameTimers(first, left)
    BY ZenonT(40), <1>2, <1>3, <1>4, <2>2, <2>3, EndsAre
       DEF Conns, SameBelow, SameSocket, SameReconnect, SameTimers, Got
  <2>5. first.state \in [Ends -> EndpointStates]
    BY <1>3 DEF Conns
  <2> HIDE DEF left
  <2>6. /\ left.state["connection"] = first.state["connection"]
        /\ left.state["session"] = Disconnected(conn.state["session"])
        /\ left.state["link"] = Disconnected(conn.state["link"])
    BY <2>4, <2>5, EndsAre
  <2>7. /\ SameBelow(conn, left) /\ SameSocket(conn, left)
        /\ SameReconnect(conn, left) /\ SameTimers(conn, left)
    BY <1>3, <2>4 DEF SameBelow, SameSocket, SameReconnect, SameTimers
  <2>8. DisconnectedInside(conn, left)
    BY <1>3, <1>8, <2>4, <2>6 DEF DisconnectedInside, attached
  <2> QED BY <1>4, <2>1, <2>4, <2>6, <2>7, <2>8
<1> QED BY <1>1, <1>6, <1>7, <1>8

\* The end of the connection that _disconnected looks at.
Judged(conn) ==
    IF conn.closed_with_non_fatal_error THEN Open(conn.state["connection"])
    ELSE conn.state["connection"]

\* The loss counts: the connection is disconnected, and reconnects or is refused.
Counts(conn) == ~ IsClosed(Judged(conn)) /\ conn.scheduled_reconnect = 0

StoppedState(conn) == [conn.state EXCEPT !["connection"] = Judged(conn)]

\* Whether the reconnection is allowed, and what is remembered of it.
Scheduled(a, b) ==
    /\ b.scheduled_reconnect = 1 /\ b.reconnecting = "yes"
    /\ b.current = Current(a) - 1 /\ b.reset = a.established

Refused(a, b) ==
    /\ b.scheduled_reconnect = 0 /\ b.reconnecting = "no"
    /\ b.current = Current(a) - 1 /\ b.reset = a.established

Forbidden(a, b) ==
    /\ b.scheduled_reconnect = 0 /\ b.reconnecting = "unknown"
    /\ b.current = a.current /\ b.reset = a.reset

LEMMA SocketLostFields ==
    ASSUME NEW conn \in Conns
    PROVE  LET lost == SocketLost(conn)
           IN  /\ lost \in Conns
               /\ SameBelow(conn, lost) /\ SameSocket(conn, lost) /\ NoTimers(lost)
               /\ ~ Counts(conn) =>
                    /\ SameReconnect(conn, lost) /\ lost.socket_ready = conn.socket_ready
                    /\ lost.mapped = conn.mapped /\ lost.attached = conn.attached
                    /\ lost.state = StoppedState(conn)
               /\ Counts(conn) =>
                    /\ ~ lost.socket_ready
                    /\ lost.state["connection"] = Disconnected(Judged(conn))
                    /\ DisconnectedInside(conn, lost)
                    /\ ReconnectsAfter(conn) => Scheduled(conn, lost)
                    /\ conn.transport_error => Forbidden(conn, lost)
                    /\ ~ conn.transport_error /\ ~ Allowed(conn) => Refused(conn, lost)
<1> DEFINE stopped == [TimersStopped(conn) EXCEPT
                      !.closed_with_non_fatal_error = FALSE,
                      !.state["connection"] = IF conn.closed_with_non_fatal_error THEN Open(@) ELSE @]
           inner == EndsDisconnected(stopped)
           refused == [inner EXCEPT
                 !.reconnecting = IF conn.transport_error THEN "unknown" ELSE "no",
                 !.current = IF conn.transport_error THEN @ ELSE Current(conn) - 1,
                 !.reset = IF conn.transport_error THEN @ ELSE conn.established]
           again == [inner EXCEPT !.reconnecting = "yes", !.scheduled_reconnect = @ + 1,
                          !.current = Current(conn) - 1, !.reset = conn.established]
<1>1. /\ conn.state \in [Ends -> EndpointStates] /\ conn.state["connection"] \in EndpointStates
      /\ conn.established \in Nat /\ conn.reset \in Int /\ conn.current \in Int
      /\ conn.transport_error \in BOOLEAN /\ conn.scheduled_reconnect \in 0..1
    BY EndsAre DEF Conns
<1>2. Judged(conn) \in EndpointStates /\ Current(conn) \in Int
    BY <1>1, EndpointOpen, LimitIsNat DEF Judged, Current
<1>3. stopped = [conn EXCEPT !.heartbeat_in = "undefined", !.heartbeat_out = "undefined",
                             !.abort_idle = FALSE, !.closed_with_non_fatal_error = FALSE,
                             !.state = StoppedState(conn)]
    BY DEF TimersStopped, StoppedState, Judged, Conns
<1>4. StoppedState(conn) \in [Ends -> EndpointStates]
    BY <1>1, <1>2 DEF StoppedState
<1> HIDE DEF stopped
<1>5. /\ stopped \in Conns /\ NoTimers(stopped) /\ stopped.state = StoppedState(conn)
      /\ stopped.mapped = conn.mapped /\ stopped.attached = conn.attached
      /\ stopped.socket_ready = conn.socket_ready
      /\ SameBelow(conn, stopped) /\ SameSocket(conn, stopped) /\ SameReconnect(conn, stopped)
    BY <1>3, <1>4 DEF Conns, Timers, NoTimers, SameBelow, SameSocket, SameReconnect, Got
<1>6. /\ stopped.state["connection"] = Judged(conn)
      /\ stopped.state["session"] = conn.state["session"]
      /\ stopped.state["link"] = conn.state["link"]
    BY <1>1, <1>2, <1>5, EndsAre DEF StoppedState
<1>7. LossCounts(stopped, conn.closed_with_non_fatal_error) <=> Counts(conn)
  <2>1. conn.closed_with_non_fatal_error => ~ IsClosed(Judged(conn))
    BY <1>1, EndpointOpen DEF Judged, IsClosed
  <2> QED BY <1>5, <1>6, <2>1 DEF LossCounts, Counts, SameReconnect
<1>8. /\ inner \in Conns
      /\ SameBelow(stopped, inner) /\ SameSocket(stopped, inner)
      /\ SameReconnect(stopped, inner) /\ SameTimers(stopped, inner)
      /\ ~ inner.socket_ready
      /\ inner.state["connection"] = Disconnected(stopped.state["connection"])
      /\ DisconnectedInside(stopped, inner)
    BY <1>5, EndsDisconnectedFields
<1> HIDE DEF inner
<1>9. /\ SameBelow(conn, inner) /\ SameSocket(conn, inner)
      /\ SameReconnect(conn, inner) /\ NoTimers(inner)
      /\ inner.state["connection"] = Disconnected(Judged(conn))
      /\ DisconnectedInside(conn, inner)
    BY <1>5, <1>6, <1>8
       DEF SameBelow, SameSocket, SameReconnect, SameTimers, NoTimers, DisconnectedInside
<1>10. SocketLost(conn) = IF ~ LossCounts(stopped, conn.closed_with_non_fatal_error) THEN stopped
                          ELSE IF ~ ReconnectsAfter(conn) THEN refused ELSE again
    BY DEF SocketLost, stopped, inner
<1>11. CASE ~ Counts(conn)
    BY <1>5, <1>7, <1>10, <1>11
<1>12. CASE Counts(conn) /\ ReconnectsAfter(conn)
  <2>1. SocketLost(conn) = again
    BY <1>7, <1>10, <1>12
  <2>2. inner.scheduled_reconnect = 0
    BY <1>9, <1>12 DEF Counts, SameReconnect
  <2>3. again = [inner EXCEPT !.reconnecting = "yes", !.scheduled_reconnect = 1,
                          !.current = Current(conn) - 1, !.reset = conn.established]
    BY <2>2
  <2> DEFINE current == Current(conn) - 1
             reset == conn.established
             one == 1
  <2>0. current \in Int /\ reset \in Int /\ "yes" \in Reconnecting /\ one \in 0..1
    BY <1>1, <1>2 DEF Reconnecting
  <2> HIDE DEF again, current, reset, one
  <2>7. again = [inner EXCEPT !.reconnecting = "yes", !.scheduled_reconnect = one,
                          !.current = current, !.reset = reset]
    BY <2>3 DEF current, reset, one
  <2>8. again \in Conns
    BY <1>8, <2>0, <2>7 DEF Conns
  <2>4. /\ again.state = inner.state /\ ~ again.socket_ready
        /\ again.mapped = inner.mapped /\ again.attached = inner.attached
        /\ SameBelow(inner, again) /\ SameSocket(inner, again) /\ NoTimers(again)
        /\ Scheduled(conn, again)
    BY <1>8, <1>9, <2>0, <2>7
       DEF Conns, SameBelow, SameSocket, NoTimers, Scheduled, Got, current, reset, one
  <2>5. /\ SameBelow(conn, again) /\ SameSocket(conn, again)
        /\ DisconnectedInside(conn, again)
    BY <1>9, <2>4 DEF SameBelow, SameSocket, DisconnectedInside
  <2>6. ~ conn.transport_error /\ Allowed(conn)
    BY <1>12 DEF ReconnectsAfter
  <2> QED BY <1>9, <1>12, <2>1, <2>4, <2>5, <2>6, <2>8
<1>13. CASE Counts(conn) /\ ~ ReconnectsAfter(conn)
  <2>1. SocketLost(conn) = refused
    BY <1>7, <1>10, <1>13
  <2> DEFINE told == IF conn.transport_error THEN "unknown" ELSE "no"
             current == IF conn.transport_error THEN conn.current ELSE Current(conn) - 1
             reset == IF conn.transport_error THEN conn.reset ELSE conn.established
  <2>2. told \in Reconnecting /\ current \in Int /\ reset \in Int
    BY <1>1, <1>2 DEF Reconnecting
  <2>3. refused = [inner EXCEPT !.reconnecting = told, !.current = current, !.reset = reset]
    BY <1>9 DEF SameReconnect
  <2>4. /\ conn.transport_error => told = "unknown" /\ current = conn.current /\ reset = conn.reset
        /\ ~ conn.transport_error => told = "no" /\ current = Current(conn) - 1
                                         /\ reset = conn.established
    OBVIOUS
  <2> HIDE DEF refused, told, current, reset
  <2>5. /\ refused \in Conns /\ refused.state = inner.state /\ ~ refused.socket_ready
        /\ refused.mapped = inner.mapped /\ refused.attached = inner.attached
        /\ SameBelow(inner, refused) /\ SameSocket(inner, refused) /\ NoTimers(refused)
        /\ refused.scheduled_reconnect = inner.scheduled_reconnect
        /\ refused.reconnecting = told /\ refused.current = current /\ refused.reset = reset
    BY <1>8, <1>9, <2>2, <2>3
       DEF Conns, SameBelow, SameSocket, NoTimers, Got
  <2>6. /\ SameBelow(conn, refused) /\ SameSocket(conn, refused)
        /\ DisconnectedInside(conn, refused)
    BY <1>9, <2>5 DEF SameBelow, SameSocket, DisconnectedInside
  <2>7. refused.scheduled_reconnect = 0
    BY <1>9, <1>13, <2>5 DEF Counts, SameReconnect
  <2>8. /\ conn.transport_error => Forbidden(conn, refused)
        /\ ~ conn.transport_error => Refused(conn, refused)
    BY <2>4, <2>5, <2>7 DEF Forbidden, Refused
  <2> QED BY <1>9, <1>13, <2>1, <2>5, <2>6, <2>8
<1> QED BY <1>11, <1>12, <1>13

-----------------------------------------------------------------------------
(* What each event does to the connection before the ticks: a name for the  *)
(* value that Turn or Output is applied to, and its fields.                 *)

LEMMA InputFields ==
    ASSUME NEW conn \in Conns
    PROVE  LET k == conn.state["connection"]
           IN  /\ Input(conn) \in Conns
               /\ SameEnds(conn, Input(conn)) /\ SameReconnect(conn, Input(conn))
               /\ Input(conn).ssn = conn.ssn
               /\ Input(conn).transport_error = conn.transport_error
               /\ Input(conn).established = conn.established
               /\ Input(conn).unsent = conn.unsent /\ Got(Input(conn)) = Got(conn)
               /\ Input(conn).socket = conn.socket
               /\ Input(conn).socket_ready = conn.socket_ready
               /\ Input(conn).abort_idle = conn.abort_idle
               /\ Input(conn).closed_with_non_fatal_error = conn.closed_with_non_fatal_error
               /\ Input(conn).frame_size = 0 /\ Input(conn).heartbeat_in = "running"
               /\ Input(conn).ended = (conn.ended \/ (IsClosed(k) /\ HasSettled(k)))
               /\ Input(conn).heartbeat_out =
                     IF IsOpen(k) /\ conn.heartbeat_out = "undefined" THEN "running"
                     ELSE conn.heartbeat_out
<1> DEFINE k == conn.state["connection"]
           ended == conn.ended \/ (IsClosed(k) /\ HasSettled(k))
           out == IF IsOpen(k) /\ conn.heartbeat_out = "undefined" THEN "running"
                  ELSE conn.heartbeat_out
           none == 0
           input == Input(conn)
<1>1. ended \in BOOLEAN /\ out \in Timers /\ none \in 0..MaxSockets /\ "running" \in Timers
    BY SocketBound DEF Conns, Timers
<1>2. input = [conn EXCEPT !.frame_size = none, !.heartbeat_in = "running",
                           !.ended = ended, !.heartbeat_out = out]
    BY DEF Input, Listening, Conns
<1>3. none = 0
    OBVIOUS
<1> HIDE DEF k, ended, out, none, input
<1>4. input \in Conns
    BY <1>1, <1>2 DEF Conns
<1>5. /\ SameEnds(conn, input) /\ SameReconnect(conn, input)
      /\ input.ssn = conn.ssn /\ input.transport_error = conn.transport_error
      /\ input.established = conn.established
      /\ input.unsent = conn.unsent /\ Got(input) = Got(conn)
      /\ input.socket = conn.socket /\ input.socket_ready = conn.socket_ready
      /\ input.abort_idle = conn.abort_idle
      /\ input.closed_with_non_fatal_error = conn.closed_with_non_fatal_error
    BY <1>1, <1>2 DEF Conns, SameEnds, SameReconnect, Got
<1>6. /\ input.frame_size = none /\ input.heartbeat_in = "running"
      /\ input.ended = ended /\ input.heartbeat_out = out
    BY <1>1, <1>2 DEF Conns
<1> QED BY <1>3, <1>4, <1>5, <1>6 DEF input, ended, out, k

\* All but the ends.
SameButEnds(a, b) ==
    /\ SameBelow(a, b) /\ SameSocket(a, b) /\ SameReconnect(a, b) /\ SameTimers(a, b)
    /\ b.socket_ready = a.socket_ready

Replaced(conn, end, e) == [conn EXCEPT !.state[end] = e]

LEMMA ReplacedFields ==
    ASSUME NEW conn \in Conns, NEW end \in Ends, NEW e \in EndpointStates
    PROVE  /\ Replaced(conn, end, e) \in Conns
           /\ SameButEnds(conn, Replaced(conn, end, e))
           /\ Replaced(conn, end, e).mapped = conn.mapped
           /\ Replaced(conn, end, e).attached = conn.attached
           /\ Replaced(conn, end, e).state[end] = e
           /\ \A o \in Ends : o # end => Replaced(conn, end, e).state[o] = conn.state[o]
<1> DEFINE state == [conn.state EXCEPT ![end] = e]
           now == Replaced(conn, end, e)
<1>1. /\ state \in [Ends -> EndpointStates] /\ state[end] = e
      /\ \A o \in Ends : o # end => state[o] = conn.state[o]
    BY DEF Conns
<1>2. now = [conn EXCEPT !.state = state]
    BY DEF Replaced
<1> HIDE DEF state, now
<1>3. now \in Conns
    BY <1>1, <1>2 DEF Conns
<1>4. /\ SameButEnds(conn, now)
      /\ now.mapped = conn.mapped /\ now.attached = conn.attached /\ now.state = state
    BY <1>2 DEF Conns, SameButEnds, SameBelow, SameSocket, SameReconnect, SameTimers, Got
<1> QED BY <1>1, <1>3, <1>4 DEF now

LEMMA ForgetFields ==
    ASSUME NEW conn \in Conns
    PROVE  /\ Forget(conn) \in Conns
           /\ SameButEnds(conn, Forget(conn))
           /\ ~ Forget(conn).mapped /\ ~ Forget(conn).attached
           /\ Forget(conn).state["connection"] = conn.state["connection"]
           /\ Forget(conn).state["session"] = Fresh /\ Forget(conn).state["link"] = Fresh
<1> DEFINE state == [conn.state EXCEPT !["session"] = Fresh, !["link"] = Fresh]
           now == Forget(conn)
<1>1. /\ state \in [Ends -> EndpointStates]
      /\ state["connection"] = conn.state["connection"]
      /\ state["session"] = Fresh /\ state["link"] = Fresh
    BY EndpointFresh, EndsAre DEF Conns
<1>2. now = [conn EXCEPT !.mapped = FALSE, !.attached = FALSE, !.state = state]
    BY DEF Forget
<1> HIDE DEF state, now
<1>3. now \in Conns
    BY <1>1, <1>2 DEF Conns
<1>4. /\ SameButEnds(conn, now) /\ ~ now.mapped /\ ~ now.attached /\ now.state = state
    BY <1>2 DEF Conns, SameButEnds, SameBelow, SameSocket, SameReconnect, SameTimers, Got
<1> QED BY <1>1, <1>3, <1>4 DEF now

\* Reconnect.
Restarted(conn) ==
    [TransportReset(conn) EXCEPT !.scheduled_reconnect = @ - 1,
                                 !.state = EndsReconnected(conn),
                                 !.socket = @ + 1]

LEMMA RestartedFields ==
    ASSUME NEW conn \in Conns, conn.scheduled_reconnect > 0, conn.socket < MaxSockets
    PROVE  /\ Restarted(conn) \in Conns
           /\ SameBelow(conn, Restarted(conn)) /\ SameTimers(conn, Restarted(conn))
           /\ Restarted(conn).mapped = conn.mapped /\ Restarted(conn).attached = conn.attached
           /\ \A e \in Ends : Restarted(conn).state[e] =
                 IF e \in Reached(conn) THEN Reconnected(conn.state[e]) ELSE conn.state[e]
           /\ Restarted(conn).socket_ready = conn.socket_ready
           /\ Restarted(conn).socket = conn.socket + 1 /\ ~ Restarted(conn).ended
           /\ Restarted(conn).unsent = << >> /\ Restarted(conn).wrote = {}
           /\ Restarted(conn).refusable = conn.refusable
           /\ Restarted(conn).scheduled_reconnect = 0
           /\ Restarted(conn).reset = conn.reset /\ Restarted(conn).current = conn.current
           /\ Restarted(conn).reconnecting = conn.reconnecting
<1> DEFINE state == EndsReconnected(conn)
           socket == conn.socket + 1
           none == 0
           now == Restarted(conn)
<1>1. /\ conn.state \in [Ends -> EndpointStates]
      /\ conn.scheduled_reconnect \in 0..1 /\ conn.socket \in Sockets
    BY DEF Conns
<1>2. state \in [Ends -> EndpointStates]
    BY <1>1, EndpointReconnected DEF EndsReconnected
<1>3. \A e \in Ends : state[e] = IF e \in Reached(conn) THEN Reconnected(conn.state[e])
                                  ELSE conn.state[e]
    BY DEF EndsReconnected
<1>4. socket \in Sockets /\ none \in 0..1 /\ conn.scheduled_reconnect - 1 = none
    BY <1>1, SocketBound DEF Sockets
<1>5. now = [conn EXCEPT !.unsent = << >>, !.wrote = {}, !.ended = FALSE,
                         !.scheduled_reconnect = none, !.state = state, !.socket = socket]
    BY <1>4 DEF Restarted, TransportReset, Conns
<1>6. << >> \in Seq(EndFrames) /\ {} \in SUBSET Ends /\ none = 0
    OBVIOUS
<1> HIDE DEF state, socket, none, now
<1>7. now \in Conns
    BY <1>2, <1>4, <1>5, <1>6 DEF Conns
<1>8. /\ SameBelow(conn, now) /\ SameTimers(conn, now)
      /\ now.mapped = conn.mapped /\ now.attached = conn.attached
      /\ now.state = state /\ now.socket_ready = conn.socket_ready
      /\ now.socket = socket /\ ~ now.ended
    BY <1>5 DEF Conns, SameBelow, SameTimers
<1>9. /\ now.unsent = << >> /\ now.wrote = {} /\ now.refusable = conn.refusable
      /\ now.scheduled_reconnect = none
      /\ now.reset = conn.reset /\ now.current = conn.current
      /\ now.reconnecting = conn.reconnecting
    BY <1>5 DEF Conns
<1> QED BY <1>3, <1>6, <1>7, <1>8, <1>9 DEF now, socket

\* The callback of connect.
Connected(conn) == [conn EXCEPT !.socket_ready = TRUE, !.established = @ + 1]

LEMMA ConnectedFields ==
    ASSUME NEW conn \in Conns
    PROVE  /\ Connected(conn) \in Conns
           /\ SameEnds(conn, Connected(conn)) /\ SameSocket(conn, Connected(conn))
           /\ SameReconnect(conn, Connected(conn)) /\ SameTimers(conn, Connected(conn))
           /\ Connected(conn).ssn = conn.ssn /\ Connected(conn).frame_size = conn.frame_size
           /\ Connected(conn).transport_error = conn.transport_error
           /\ Connected(conn).socket_ready
           /\ Connected(conn).established = conn.established + 1
<1> DEFINE n == conn.established + 1
           now == Connected(conn)
<1>1. n \in Nat
    BY DEF Conns
<1>2. now = [conn EXCEPT !.socket_ready = TRUE, !.established = n]
    BY DEF Connected
<1> HIDE DEF n, now
<1>3. now \in Conns
    BY <1>1, <1>2 DEF Conns
<1>4. /\ SameEnds(conn, now) /\ SameSocket(conn, now)
      /\ SameReconnect(conn, now) /\ SameTimers(conn, now)
      /\ now.ssn = conn.ssn /\ now.frame_size = conn.frame_size
      /\ now.transport_error = conn.transport_error
      /\ now.socket_ready /\ now.established = n
    BY <1>2 DEF Conns, SameEnds, SameSocket, SameReconnect, SameTimers, Got
<1> QED BY <1>3, <1>4 DEF now, n

\* A frame that opens an end.
Answered(conn, e) == Input(Replaced(conn, e, Open(RemoteOpened(conn.state[e]))))

\* What input sets, when it is done with the frames: the connection it judges by is k.
Heard(a, b, k) ==
    /\ SameReconnect(a, b) /\ b.mapped = a.mapped /\ b.attached = a.attached
    /\ b.transport_error = a.transport_error /\ b.established = a.established
    /\ b.unsent = a.unsent /\ Got(b) = Got(a)
    /\ b.socket = a.socket /\ b.socket_ready = a.socket_ready
    /\ b.abort_idle = a.abort_idle
    /\ b.frame_size = 0 /\ b.heartbeat_in = "running"
    /\ b.ended = (a.ended \/ (IsClosed(k) /\ HasSettled(k)))

LEMMA AnsweredFields ==
    ASSUME NEW conn \in Conns, NEW e \in Ends
    PROVE  LET b == Answered(conn, e)
               k == b.state["connection"]
           IN  /\ b \in Conns /\ Heard(conn, b, k) /\ b.ssn = conn.ssn
               /\ b.closed_with_non_fatal_error = conn.closed_with_non_fatal_error
               /\ b.heartbeat_out = IF IsOpen(k) /\ conn.heartbeat_out = "undefined" THEN "running"
                                    ELSE conn.heartbeat_out
               /\ b.state[e] = Open(RemoteOpened(conn.state[e]))
               /\ \A o \in Ends : o # e => b.state[o] = conn.state[o]
<1> DEFINE new == Open(RemoteOpened(conn.state[e]))
           a == Replaced(conn, e, new)
           b == Input(a)
<1>1. new \in EndpointStates
    BY EndpointRemote, EndpointOpen DEF Conns
<1> HIDE DEF new
<1>2. /\ a \in Conns /\ SameButEnds(conn, a) /\ a.mapped = conn.mapped
      /\ a.attached = conn.attached /\ a.state[e] = new
      /\ \A o \in Ends : o # e => a.state[o] = conn.state[o]
    BY <1>1, ReplacedFields
<1> HIDE DEF a
<1>3. LET k == a.state["connection"]
      IN  /\ b \in Conns /\ SameEnds(a, b) /\ Heard(a, b, k) /\ b.ssn = a.ssn
          /\ b.closed_with_non_fatal_error = a.closed_with_non_fatal_error
          /\ b.heartbeat_out = IF IsOpen(k) /\ a.heartbeat_out = "undefined" THEN "running"
                               ELSE a.heartbeat_out
    BY <1>2, InputFields DEF Heard, SameEnds
<1> HIDE DEF b
<1>4. b.state = a.state
    BY <1>3 DEF SameEnds
<1>5. Heard(conn, b, b.state["connection"]) /\ b.ssn = conn.ssn
         /\ b.closed_with_non_fatal_error = conn.closed_with_non_fatal_error
         /\ a.heartbeat_out = conn.heartbeat_out
    BY <1>2, <1>3, <1>4
       DEF Heard, SameButEnds, SameBelow, SameSocket, SameReconnect, SameTimers
<1> QED BY <1>2, <1>3, <1>4, <1>5 DEF Answered, a, b, new

\* A frame that ends the session, and the close that it leaves to a tick.
LetGo(conn) ==
    [conn EXCEPT !.state["session"] = RemoteClosed(@), !.ssn = FALSE]

SessionEnded(conn) == [Input(LetGo(conn)) EXCEPT !.state["session"] = Close(@)]

LEMMA SessionEndedFields ==
    ASSUME NEW conn \in Conns
    PROVE  LET b == SessionEnded(conn)
               k == b.state["connection"]
           IN  /\ b \in Conns /\ Heard(conn, b, k) /\ ~ b.ssn
               /\ b.closed_with_non_fatal_error = conn.closed_with_non_fatal_error
               /\ b.heartbeat_out = IF IsOpen(k) /\ conn.heartbeat_out = "undefined" THEN "running"
                                    ELSE conn.heartbeat_out
               /\ k = conn.state["connection"]
               /\ b.state["session"] = Close(RemoteClosed(conn.state["session"]))
               /\ b.state["link"] = conn.state["link"]
<1> DEFINE new == RemoteClosed(conn.state["session"])
           first == Replaced(conn, "session", new)
           a == LetGo(conn)
           i == Input(a)
           shut == Close(i.state["session"])
           b == Replaced(i, "session", shut)
<1>1. conn.state \in [Ends -> EndpointStates] /\ conn.state["session"] \in EndpointStates
    BY EndsAre DEF Conns
<1>2. new \in EndpointStates /\ Close(new) \in EndpointStates
    BY <1>1, EndpointRemote, EndpointClose
<1>3. a = [first EXCEPT !.ssn = FALSE]
    BY DEF LetGo, Replaced, Conns
<1>4. /\ first \in Conns /\ SameButEnds(conn, first) /\ first.mapped = conn.mapped
      /\ first.attached = conn.attached /\ first.state["session"] = new
      /\ first.state["connection"] = conn.state["connection"]
      /\ first.state["link"] = conn.state["link"]
  <2> HIDE DEF new
  <2> QED BY <1>2, ReplacedFields, EndsAre
<1> HIDE DEF new, first, a
<1>5. /\ a \in Conns /\ ~ a.ssn /\ a.state = first.state
      /\ a.mapped = first.mapped /\ a.attached = first.attached
      /\ a.socket_ready = first.socket_ready /\ SameSocket(first, a)
      /\ SameReconnect(first, a) /\ SameTimers(first, a)
      /\ a.transport_error = first.transport_error /\ a.frame_size = first.frame_size
      /\ a.established = first.established
    BY <1>3, <1>4 DEF Conns, SameSocket, SameReconnect, SameTimers, Got
<1>6. LET k == a.state["connection"]
      IN  /\ i \in Conns /\ SameEnds(a, i) /\ Heard(a, i, k) /\ i.ssn = a.ssn
          /\ i.closed_with_non_fatal_error = a.closed_with_non_fatal_error
          /\ i.heartbeat_out = IF IsOpen(k) /\ a.heartbeat_out = "undefined" THEN "running"
                               ELSE a.heartbeat_out
    BY <1>5, InputFields DEF Heard, SameEnds
<1> HIDE DEF i
<1>7. i.state = a.state /\ i.state["session"] = new
    BY <1>4, <1>5, <1>6 DEF SameEnds
<1>8. /\ b \in Conns /\ SameButEnds(i, b) /\ b.mapped = i.mapped
      /\ b.attached = i.attached /\ b.state["session"] = Close(new)
      /\ b.state["connection"] = i.state["connection"]
      /\ b.state["link"] = i.state["link"]
  <2>1. shut = Close(new) /\ shut \in EndpointStates
    BY <1>2, <1>7
  <2> HIDE DEF shut
  <2>2. b = Replaced(i, "session", shut)
    BY DEF b
  <2> HIDE DEF b
  <2>3. i \in Conns /\ \A o \in Ends : o # "session" => b.state[o] = i.state[o]
    BY <1>6, <2>1, <2>2, ReplacedFields, EndsAre
  <2> QED BY <2>1, <2>2, <2>3, ReplacedFields, EndsAre
<1>9. SessionEnded(conn) = b
    BY DEF SessionEnded, Replaced, a, i, shut
<1> HIDE DEF b
<1>10. /\ b.state["connection"] = conn.state["connection"]
       /\ b.state["link"] = conn.state["link"]
    BY <1>4, <1>5, <1>7, <1>8
<1>11. /\ Heard(conn, b, b.state["connection"]) /\ ~ b.ssn
       /\ b.closed_with_non_fatal_error = conn.closed_with_non_fatal_error
       /\ a.heartbeat_out = conn.heartbeat_out /\ b.heartbeat_out = i.heartbeat_out
       /\ a.state["connection"] = b.state["connection"]
    BY <1>4, <1>5, <1>6, <1>7, <1>8
       DEF Heard, SameButEnds, SameBelow, SameSocket, SameReconnect, SameTimers
<1> QED BY <1>6, <1>8, <1>9, <1>10, <1>11 DEF new

\* A frame that closes the connection, and the close that it leaves to a tick.
ToldClosed(conn, fatal) ==
    [conn EXCEPT
       !.state["connection"] = RemoteClosed(@),
       !.closed_with_non_fatal_error = @ \/ (~ fatal /\ conn.state["connection"].local_open),
       !.heartbeat_out = Clear(@)]

ConnectionClosed(conn, fatal) ==
    [Input(ToldClosed(conn, fatal)) EXCEPT !.state["connection"] = Close(@)]

LEMMA ConnectionClosedFields ==
    ASSUME NEW conn \in Conns, NEW fatal \in BOOLEAN
    PROVE  LET b == ConnectionClosed(conn, fatal)
               k == conn.state["connection"]
           IN  /\ b \in Conns /\ Heard(conn, b, RemoteClosed(k)) /\ b.ssn = conn.ssn
               /\ b.closed_with_non_fatal_error =
                     (conn.closed_with_non_fatal_error \/ (~ fatal /\ k.local_open))
               /\ b.heartbeat_out = Clear(conn.heartbeat_out)
               /\ b.state["connection"] = Close(RemoteClosed(k))
               /\ b.state["session"] = conn.state["session"]
               /\ b.state["link"] = conn.state["link"]
<1> DEFINE k == conn.state["connection"]
           new == RemoteClosed(k)
           first == Replaced(conn, "connection", new)
           nonfatal == conn.closed_with_non_fatal_error \/ (~ fatal /\ k.local_open)
           out == Clear(conn.heartbeat_out)
           a == ToldClosed(conn, fatal)
           i == Input(a)
           shut == Close(i.state["connection"])
           b == Replaced(i, "connection", shut)
<1>1. conn.state \in [Ends -> EndpointStates] /\ k \in EndpointStates
    BY EndsAre DEF Conns
<1>2. new \in EndpointStates /\ Close(new) \in EndpointStates /\ ~ new.remote_open
  <2>1. new \in EndpointStates /\ new = [k EXCEPT !.remote_open = FALSE]
    BY <1>1, EndpointRemote
  <2>2. ~ new.remote_open
    BY <1>1, <2>1 DEF EndpointStates
  <2> HIDE DEF new
  <2> QED BY <2>1, <2>2, EndpointClose
<1>3. nonfatal \in BOOLEAN /\ out \in Timers
    BY DEF Conns, Clear, Timers
<1>4. a = [first EXCEPT !.closed_with_non_fatal_error = nonfatal, !.heartbeat_out = out]
    BY DEF ToldClosed, Replaced, Conns
<1>5. /\ first \in Conns /\ SameButEnds(conn, first) /\ first.mapped = conn.mapped
      /\ first.attached = conn.attached /\ first.state["connection"] = new
      /\ first.state["session"] = conn.state["session"]
      /\ first.state["link"] = conn.state["link"]
  <2> HIDE DEF new
  <2> QED BY <1>2, ReplacedFields, EndsAre
<1>6. ~ IsOpen(new)
    BY <1>2 DEF IsOpen
<1> HIDE DEF k, new, first, nonfatal, out, a
<1>7. /\ a \in Conns /\ a.ssn = first.ssn /\ a.state = first.state
      /\ a.mapped = first.mapped /\ a.attached = first.attached
      /\ a.socket_ready = first.socket_ready /\ SameSocket(first, a)
      /\ SameReconnect(first, a) /\ a.abort_idle = first.abort_idle
      /\ a.transport_error = first.transport_error /\ a.frame_size = first.frame_size
      /\ a.established = first.established
      /\ a.closed_with_non_fatal_error = nonfatal /\ a.heartbeat_out = out
    BY <1>3, <1>4, <1>5 DEF Conns, SameSocket, SameReconnect, Got
<1>8. /\ i \in Conns /\ SameEnds(a, i) /\ Heard(a, i, new) /\ i.ssn = a.ssn
      /\ i.closed_with_non_fatal_error = nonfatal /\ i.heartbeat_out = out
    BY <1>5, <1>6, <1>7, InputFields DEF Heard, SameEnds
<1> HIDE DEF i
<1>9. i.state = a.state /\ i.state["connection"] = new
    BY <1>5, <1>7, <1>8 DEF SameEnds
<1>10. /\ b \in Conns /\ SameButEnds(i, b) /\ b.mapped = i.mapped
      /\ b.attached = i.attached /\ b.state["connection"] = Close(new)
      /\ b.state["session"] = i.state["session"]
      /\ b.state["link"] = i.state["link"]
  <2>1. shut = Close(new) /\ shut \in EndpointStates
    BY <1>2, <1>9
  <2> HIDE DEF shut
  <2>2. b = Replaced(i, "connection", shut)
    BY DEF b
  <2> HIDE DEF b
  <2>3. i \in Conns /\ \A o \in Ends : o # "connection" => b.state[o] = i.state[o]
    BY <1>8, <2>1, <2>2, ReplacedFields, EndsAre
  <2> QED BY <2>1, <2>2, <2>3, ReplacedFields, EndsAre
<1>11. ConnectionClosed(conn, fatal) = b
    BY DEF ConnectionClosed, Replaced, a, i, shut
<1> HIDE DEF b
<1>12. /\ b.state["session"] = conn.state["session"]
       /\ b.state["link"] = conn.state["link"]
    BY <1>5, <1>7, <1>9, <1>10
<1>13. /\ Heard(conn, b, new) /\ b.ssn = conn.ssn
       /\ b.closed_with_non_fatal_error = nonfatal /\ b.heartbeat_out = out
    BY <1>5, <1>7, <1>8, <1>9, <1>10
       DEF Heard, SameButEnds, SameBelow, SameSocket, SameReconnect, SameTimers
<1> QED BY <1>10, <1>11, <1>12, <1>13 DEF new, k, nonfatal, out

\* The timer of a silent peer.
Silenced(conn) ==
    [conn EXCEPT !.heartbeat_in = "spent", !.abort_idle = TRUE,
                 !.closed_with_non_fatal_error = TRUE,
                 !.state["connection"] = Close(@)]

LEMMA SilencedFields ==
    ASSUME NEW conn \in Conns
    PROVE  LET b == Silenced(conn)
           IN  /\ b \in Conns /\ SameBelow(conn, b) /\ SameSocket(conn, b)
               /\ SameReconnect(conn, b) /\ b.socket_ready = conn.socket_ready
               /\ b.heartbeat_in = "spent" /\ b.heartbeat_out = conn.heartbeat_out
               /\ b.abort_idle /\ b.closed_with_non_fatal_error
               /\ b.mapped = conn.mapped /\ b.attached = conn.attached
               /\ b.state["connection"] = Close(conn.state["connection"])
               /\ b.state["session"] = conn.state["session"]
               /\ b.state["link"] = conn.state["link"]
<1> DEFINE new == Close(conn.state["connection"])
           first == Replaced(conn, "connection", new)
           b == Silenced(conn)
<1>1. new \in EndpointStates
    BY EndsAre, EndpointClose DEF Conns
<1>2. b = [first EXCEPT !.heartbeat_in = "spent", !.abort_idle = TRUE,
                        !.closed_with_non_fatal_error = TRUE]
    BY DEF Silenced, Replaced, Conns
<1> HIDE DEF new
<1>3. /\ first \in Conns /\ SameButEnds(conn, first) /\ first.mapped = conn.mapped
      /\ first.attached = conn.attached /\ first.state["connection"] = new
      /\ first.state["session"] = conn.state["session"]
      /\ first.state["link"] = conn.state["link"]
    BY <1>1, ReplacedFields, EndsAre
<1> HIDE DEF first, b
<1>4. /\ b \in Conns /\ SameBelow(first, b) /\ SameSocket(first, b)
      /\ SameReconnect(first, b) /\ b.socket_ready = first.socket_ready
      /\ b.heartbeat_in = "spent" /\ b.heartbeat_out = first.heartbeat_out
      /\ b.abort_idle /\ b.closed_with_non_fatal_error
      /\ SameEnds(first, b)
    BY <1>2, <1>3 DEF Conns, Timers, SameBelow, SameSocket, SameReconnect, SameEnds, Got
<1>5. /\ SameBelow(conn, b) /\ SameSocket(conn, b) /\ SameReconnect(conn, b)
      /\ b.socket_ready = conn.socket_ready /\ b.heartbeat_out = conn.heartbeat_out
      /\ b.mapped = conn.mapped /\ b.attached = conn.attached /\ b.state = first.state
    BY <1>3, <1>4
       DEF SameBelow, SameSocket, SameReconnect, SameTimers, SameEnds, SameButEnds
<1> QED BY <1>3, <1>4, <1>5 DEF b, new

\* open_sender and open_receiver.
Begun(conn) ==
    IF conn.ssn THEN conn
    ELSE [conn EXCEPT !.ssn = TRUE, !.mapped = TRUE, !.state["session"] = Open(Fresh)]

Linked(conn) == [Begun(conn) EXCEPT !.attached = TRUE, !.state["link"] = Open(Fresh)]

LEMMA LinkedFields ==
    ASSUME NEW conn \in Conns
    PROVE  LET b == Linked(conn)
           IN  /\ b \in Conns /\ SameSocket(conn, b) /\ SameReconnect(conn, b)
               /\ SameTimers(conn, b) /\ b.socket_ready = conn.socket_ready
               /\ b.transport_error = conn.transport_error
               /\ b.frame_size = conn.frame_size /\ b.established = conn.established
               /\ b.ssn /\ b.attached
               /\ b.mapped = (conn.mapped \/ ~ conn.ssn)
               /\ b.state["connection"] = conn.state["connection"]
               /\ b.state["link"] = Open(Fresh)
               /\ b.state["session"] = IF conn.ssn THEN conn.state["session"] ELSE Open(Fresh)
<1> DEFINE session == IF conn.ssn THEN conn.state["session"] ELSE Open(Fresh)
           first == Replaced(conn, "session", session)
           link == Open(Fresh)
           second == Replaced(first, "link", link)
           mapped == conn.mapped \/ ~ conn.ssn
           b == Linked(conn)
<1>1. session \in EndpointStates /\ link \in EndpointStates
    BY EndsAre, EndpointFresh, EndpointOpen DEF Conns
<1>2. mapped \in BOOLEAN
    BY DEF Conns
<1>3. b = [second EXCEPT !.ssn = TRUE, !.mapped = mapped, !.attached = TRUE]
  <2>1. CASE conn.ssn
    <3>1. conn = [conn EXCEPT !.ssn = TRUE, !.mapped = mapped,
                              !.state = [@ EXCEPT !["session"] = session]]
        BY <2>1, EndsAre DEF Conns
    <3> QED BY <2>1, <3>1 DEF Linked, Begun, Replaced, Conns
  <2>2. CASE ~ conn.ssn
    BY <2>2 DEF Linked, Begun, Replaced, Conns
  <2> QED BY <2>1, <2>2
<1>4. /\ first \in Conns /\ SameButEnds(conn, first) /\ first.mapped = conn.mapped
      /\ first.state["session"] = session
      /\ first.state["connection"] = conn.state["connection"]
  <2> HIDE DEF session
  <2> QED BY <1>1, ReplacedFields, EndsAre
<1>5. /\ second \in Conns /\ SameButEnds(first, second)
      /\ second.state["link"] = link /\ second.state["session"] = first.state["session"]
      /\ second.state["connection"] = first.state["connection"]
  <2> HIDE DEF first, link
  <2> QED BY <1>1, <1>4, ReplacedFields, EndsAre
<1> HIDE DEF session, first, link, second, mapped, b
<1>6. /\ b \in Conns /\ SameSocket(second, b) /\ SameReconnect(second, b)
      /\ SameTimers(second, b) /\ b.socket_ready = second.socket_ready
      /\ b.transport_error = second.transport_error
      /\ b.frame_size = second.frame_size /\ b.established = second.established
      /\ b.ssn /\ b.attached /\ b.mapped = mapped /\ b.state = second.state
    BY <1>2, <1>3, <1>5 DEF Conns, SameSocket, SameReconnect, SameTimers, Got
<1>7. /\ SameSocket(conn, b) /\ SameReconnect(conn, b) /\ SameTimers(conn, b)
      /\ b.socket_ready = conn.socket_ready
      /\ b.transport_error = conn.transport_error
      /\ b.frame_size = conn.frame_size /\ b.established = conn.established
    BY <1>4, <1>5, <1>6 DEF SameButEnds, SameBelow, SameSocket, SameReconnect, SameTimers
<1> QED BY <1>4, <1>5, <1>6, <1>7 DEF b, session, link, mapped

\* The events that end without a tick.
Listened(conn, b, size) ==
    /\ SameEnds(conn, b) /\ SameReconnect(conn, b)
    /\ b.ssn = conn.ssn /\ b.established = conn.established
    /\ b.unsent = conn.unsent /\ Got(b) = Got(conn)
    /\ b.socket = conn.socket /\ b.socket_ready = conn.socket_ready
    /\ b.abort_idle = conn.abort_idle
    /\ b.closed_with_non_fatal_error = conn.closed_with_non_fatal_error
    /\ b.frame_size = size

LEMMA ListenedFields ==
    ASSUME NEW conn \in Conns
    PROVE  /\ LET b == [Input(conn) EXCEPT !.frame_size = conn.socket]
                  k == conn.state["connection"]
              IN  /\ b \in Conns /\ Listened(conn, b, conn.socket)
                  /\ b.heartbeat_in = "running" /\ b.transport_error = conn.transport_error
                  /\ b.ended = (conn.ended \/ (IsClosed(k) /\ HasSettled(k)))
                  /\ b.heartbeat_out =
                        IF IsOpen(k) /\ conn.heartbeat_out = "undefined" THEN "running"
                        ELSE conn.heartbeat_out
           /\ LET b == [conn EXCEPT !.heartbeat_in = Clear(@)]
              IN  /\ b \in Conns /\ Listened(conn, b, conn.frame_size)
                  /\ b.transport_error = conn.transport_error /\ b.ended = conn.ended
                  /\ b.heartbeat_out = conn.heartbeat_out
                  /\ b.heartbeat_in = Clear(conn.heartbeat_in)
           /\ LET b == [conn EXCEPT !.frame_size = 0, !.heartbeat_in = Clear(@), !.ended = TRUE]
              IN  /\ b \in Conns /\ Listened(conn, b, 0)
                  /\ b.transport_error = conn.transport_error /\ b.ended
                  /\ b.heartbeat_out = conn.heartbeat_out
                  /\ b.heartbeat_in = Clear(conn.heartbeat_in)
           /\ LET b == [Listening(conn) EXCEPT !.transport_error = TRUE, !.ended = TRUE]
              IN  /\ b \in Conns /\ Listened(conn, b, 0)
                  /\ b.transport_error /\ b.ended
                  /\ b.heartbeat_out = conn.heartbeat_out /\ b.heartbeat_in = "running"
<1> DEFINE none == 0
           in == Clear(conn.heartbeat_in)
<1>1. none \in 0..MaxSockets /\ conn.socket \in 0..MaxSockets
    BY SocketBound DEF Conns, Sockets
<1>2. in \in Timers /\ "running" \in Timers
    BY DEF Conns, Clear, Timers
<1>3. none = 0
    OBVIOUS
<1> DEFINE a == [Input(conn) EXCEPT !.frame_size = conn.socket]
           b == [conn EXCEPT !.heartbeat_in = in]
           d == [conn EXCEPT !.frame_size = none, !.heartbeat_in = in, !.ended = TRUE]
           f == [conn EXCEPT !.frame_size = none, !.heartbeat_in = "running",
                             !.transport_error = TRUE, !.ended = TRUE]
<1>4. LET k == conn.state["connection"]
      IN  /\ a \in Conns /\ Listened(conn, a, conn.socket)
          /\ a.heartbeat_in = "running" /\ a.transport_error = conn.transport_error
          /\ a.ended = (conn.ended \/ (IsClosed(k) /\ HasSettled(k)))
          /\ a.heartbeat_out =
                IF IsOpen(k) /\ conn.heartbeat_out = "undefined" THEN "running"
                ELSE conn.heartbeat_out
  <2> DEFINE i == Input(conn)
  <2>1. LET k == conn.state["connection"]
        IN  /\ i \in Conns /\ Listened(conn, i, 0)
            /\ i.heartbeat_in = "running" /\ i.transport_error = conn.transport_error
            /\ i.ended = (conn.ended \/ (IsClosed(k) /\ HasSettled(k)))
            /\ i.heartbeat_out =
                  IF IsOpen(k) /\ conn.heartbeat_out = "undefined" THEN "running"
                  ELSE conn.heartbeat_out
    BY InputFields DEF Listened
  <2> HIDE DEF i
  <2>2. [i EXCEPT !.frame_size = conn.socket] \in Conns
    BY <1>1, <2>1 DEF Conns
  <2>3. LET j == [i EXCEPT !.frame_size = conn.socket]
        IN  /\ SameEnds(i, j) /\ SameReconnect(i, j) /\ j.frame_size = conn.socket
            /\ j.ssn = i.ssn /\ j.established = i.established
            /\ j.unsent = i.unsent /\ Got(j) = Got(i)
            /\ j.socket = i.socket /\ j.socket_ready = i.socket_ready
            /\ j.abort_idle = i.abort_idle
            /\ j.closed_with_non_fatal_error = i.closed_with_non_fatal_error
            /\ j.heartbeat_in = i.heartbeat_in /\ j.heartbeat_out = i.heartbeat_out
            /\ j.ended = i.ended /\ j.transport_error = i.transport_error
    BY <2>1 DEF Conns, SameEnds, SameReconnect, Got
  <2>4. a = [i EXCEPT !.frame_size = conn.socket]
    BY DEF i
  <2> HIDE DEF a
  <2>5. Listened(conn, a, conn.socket)
    BY <2>1, <2>3, <2>4 DEF Listened, SameEnds, SameReconnect
  <2> QED BY <2>1, <2>2, <2>3, <2>4, <2>5
<1>5. [Listening(conn) EXCEPT !.transport_error = TRUE, !.ended = TRUE] = f
    BY DEF Listening
<1> HIDE DEF none, in
<1>6. b \in Conns /\ d \in Conns /\ f \in Conns
    BY <1>1, <1>2 DEF Conns
<1>7. /\ Listened(conn, b, conn.frame_size) /\ b.ended = conn.ended /\ b.heartbeat_in = in
      /\ b.transport_error = conn.transport_error /\ b.heartbeat_out = conn.heartbeat_out
    BY DEF Conns, Listened, SameEnds, SameReconnect, Got
<1>8. /\ Listened(conn, d, none) /\ d.ended /\ d.heartbeat_in = in
      /\ d.transport_error = conn.transport_error /\ d.heartbeat_out = conn.heartbeat_out
    BY DEF Conns, Listened, SameEnds, SameReconnect, Got
<1>9. /\ Listened(conn, f, none) /\ f.ended /\ f.heartbeat_in = "running"
      /\ f.transport_error /\ f.heartbeat_out = conn.heartbeat_out
    BY DEF Conns, Listened, SameEnds, SameReconnect, Got
<1>10. /\ b = [conn EXCEPT !.heartbeat_in = Clear(@)]
       /\ d = [conn EXCEPT !.frame_size = 0, !.heartbeat_in = Clear(@), !.ended = TRUE]
    BY DEF in, none
<1> HIDE DEF a, b, d, f
<1> QED BY <1>3, <1>4, <1>5, <1>6, <1>7, <1>8, <1>9, <1>10 DEF a, in

-----------------------------------------------------------------------------
(* The actions, with the values named above, and the types.                 *)

\* abort_socket, before _disconnected.
Dropped(conn) == [conn EXCEPT !.ended = TRUE]

LEMMA DroppedFields ==
    ASSUME NEW conn \in Conns
    PROVE  LET b == Dropped(conn)
           IN  /\ b \in Conns /\ SameBelow(conn, b) /\ SameReconnect(conn, b)
               /\ SameTimers(conn, b) /\ SameEnds(conn, b) /\ b.ended
               /\ b.unsent = conn.unsent /\ Got(b) = Got(conn)
               /\ b.socket = conn.socket /\ b.socket_ready = conn.socket_ready
BY DEF Dropped, Conns, SameBelow, SameReconnect, SameTimers, SameEnds, Got

ShutSession(conn) == Replaced(conn, "session", Close(conn.state["session"]))
ShutConnection(conn) == Replaced(conn, "connection", Close(conn.state["connection"]))

LEMMA ShutFields ==
    ASSUME NEW conn \in Conns
    PROVE  /\ ShutSession(conn) \in Conns /\ SameButEnds(conn, ShutSession(conn))
           /\ ShutSession(conn).mapped = conn.mapped
           /\ ShutSession(conn).attached = conn.attached
           /\ ShutSession(conn).state["connection"] = conn.state["connection"]
           /\ ShutSession(conn).state["session"] = Close(conn.state["session"])
           /\ ShutSession(conn).state["link"] = conn.state["link"]
           /\ ShutConnection(conn) \in Conns /\ SameButEnds(conn, ShutConnection(conn))
           /\ ShutConnection(conn).mapped = conn.mapped
           /\ ShutConnection(conn).attached = conn.attached
           /\ ShutConnection(conn).state["connection"] = Close(conn.state["connection"])
           /\ ShutConnection(conn).state["session"] = conn.state["session"]
           /\ ShutConnection(conn).state["link"] = conn.state["link"]
<1>1. Close(conn.state["session"]) \in EndpointStates /\ Close(conn.state["connection"]) \in EndpointStates
    BY EndsAre, EndpointClose DEF Conns
<1> DEFINE session == Close(conn.state["session"])
           connection == Close(conn.state["connection"])
           a == Replaced(conn, "session", session)
           b == Replaced(conn, "connection", connection)
<1>2. session \in EndpointStates /\ connection \in EndpointStates
    BY <1>1
<1> HIDE DEF session, connection
<1>3. /\ a \in Conns /\ SameButEnds(conn, a) /\ a.mapped = conn.mapped
      /\ a.attached = conn.attached /\ a.state["session"] = session
      /\ a.state["connection"] = conn.state["connection"] /\ a.state["link"] = conn.state["link"]
    BY <1>2, EndsAre, ReplacedFields
<1>4. /\ b \in Conns /\ SameButEnds(conn, b) /\ b.mapped = conn.mapped
      /\ b.attached = conn.attached /\ b.state["connection"] = connection
      /\ b.state["session"] = conn.state["session"] /\ b.state["link"] = conn.state["link"]
    BY <1>2, EndsAre, ReplacedFields
<1>5. a = ShutSession(conn) /\ b = ShutConnection(conn)
    BY DEF ShutSession, ShutConnection, session, connection
<1> HIDE DEF a, b
<1> QED BY <1>3, <1>4, <1>5 DEF session, connection

LEMMA Steps ==
    /\ Reconnect => c' = Turn(Restarted(c))
    /\ \A s \in Sockets :
          /\ SocketConnected(s) => c' = Output(Connected(c))
          /\ SocketEnd(s) \/ SocketError(s) => c' = Turn(SocketLost(c))
    /\ Abort => c' = Turn(SocketLost(Dropped(c)))
    /\ PeerOpen => c' = Turn(Answered(c, "connection"))
    /\ PeerBegins => c' = Turn(Answered(c, "session"))
    /\ PeerAttaches => c' = Turn(Answered(c, "link"))
    /\ PeerEnds => c' = Forget(Turn(SessionEnded(c)))
    /\ \A fatal \in BOOLEAN : PeerCloses(fatal) => c' = Turn(ConnectionClosed(c, fatal))
    /\ Idle => c' = IF IsClosed(c.state["connection"]) THEN [c EXCEPT !.heartbeat_in = "spent"]
                    ELSE Turn(Silenced(c))
    /\ OpenLink => c' = Turn(Linked(c))
    /\ CloseSession => c' = Turn(ShutSession(c))
    /\ CloseConnection => c' = Turn(ShutConnection(c))
<1>1. Reconnect => c' = Turn(Restarted(c))
    BY DEF Reconnect, Restarted
<1>2. \A s \in Sockets :
          /\ SocketConnected(s) => c' = Output(Connected(c))
          /\ SocketEnd(s) \/ SocketError(s) => c' = Turn(SocketLost(c))
    BY DEF SocketConnected, SocketEnd, SocketError, Connected
<1>3. Abort => c' = Turn(SocketLost(Dropped(c)))
    BY DEF Abort, Dropped
<1>4. /\ PeerOpen => c' = Turn(Answered(c, "connection"))
      /\ PeerBegins => c' = Turn(Answered(c, "session"))
      /\ PeerAttaches => c' = Turn(Answered(c, "link"))
    BY DEF PeerOpen, PeerBegins, PeerAttaches, Frame, PeerOpened, Answered, Replaced
<1>5. PeerEnds => c' = Forget(Turn(SessionEnded(c)))
    BY DEF PeerEnds, SessionEnded, LetGo
<1>6. ASSUME NEW fatal \in BOOLEAN
      PROVE  PeerCloses(fatal) => c' = Turn(ConnectionClosed(c, fatal))
    BY DEF PeerCloses, Frame, ConnectionClosed, ToldClosed
<1>7. Idle => c' = IF IsClosed(c.state["connection"]) THEN [c EXCEPT !.heartbeat_in = "spent"]
                   ELSE Turn(Silenced(c))
    BY DEF Idle, Silenced
<1>8. OpenLink => c' = Turn(Linked(c))
    BY DEF OpenLink, Linked, Begun
<1>9. /\ CloseSession => c' = Turn(ShutSession(c))
      /\ CloseConnection => c' = Turn(ShutConnection(c))
    BY DEF CloseSession, CloseConnection, ShutSession, ShutConnection, Replaced
<1> QED BY <1>1, <1>2, <1>3, <1>4, <1>5, <1>6, <1>7, <1>8, <1>9

\* One step, by the event that makes it.
LEMMA NextIs ==
    Next <=> \/ Reconnect \/ Abort \/ PeerOpen \/ PeerBegins \/ PeerAttaches \/ PeerEnds
             \/ \E s \in Sockets : SocketConnected(s)
             \/ \E s \in Sockets : SocketEnd(s) \/ SocketError(s)
             \/ \E fatal \in BOOLEAN : PeerCloses(fatal)
             \/ ChunkBegins \/ ChunkGoesOn \/ ProtocolError \/ SaslFails
             \/ Idle \/ OpenLink \/ CloseSession \/ RemoveSession \/ CloseConnection
BY DEF Next, Peer

LEMMA TypedFirst == Init => Typed
<1> SUFFICES ASSUME Init PROVE Typed
    OBVIOUS
<1> DEFINE state == [e \in Ends |-> IF e = "connection" THEN Settled(Open(Fresh)) ELSE Fresh]
           unsent == <<[end |-> "connection", open |-> TRUE]>>
           first == 1
           none == 0
           reset == -1
<1>1. state \in [Ends -> EndpointStates]
    BY EndpointFresh, EndpointOpen, EndpointSettled
<1>2. unsent \in Seq(EndFrames)
  <2>1. [end |-> "connection", open |-> TRUE] \in EndFrames
    BY DEF EndFrames, Ends
  <2> QED BY <2>1
<1>3. first \in Sockets /\ none \in 0..1 /\ none \in 0..MaxSockets /\ none \in Nat /\ reset \in Int
    BY SocketBound DEF Sockets
<1>4. ReconnectLimit \in Int /\ "undefined" \in Timers /\ "unknown" \in Reconnecting
    BY LimitIsNat DEF Timers, Reconnecting
<1>5. c = [state |-> state, mapped |-> FALSE, ssn |-> FALSE, attached |-> FALSE,
            unsent |-> unsent, wrote |-> {}, refusable |-> FALSE,
            socket |-> first, socket_ready |-> FALSE, ended |-> FALSE,
            heartbeat_in |-> "undefined", heartbeat_out |-> "undefined",
            abort_idle |-> FALSE, scheduled_reconnect |-> none,
            closed_with_non_fatal_error |-> FALSE, transport_error |-> FALSE,
            frame_size |-> none, established |-> none, reset |-> reset, current |-> ReconnectLimit,
            reconnecting |-> "unknown"]
    BY DEF Init
<1> HIDE DEF state, unsent, first, none, reset
<1>6. c \in Conns
    BY <1>1, <1>2, <1>3, <1>4, <1>5 DEF Conns
<1>7. net \in Nets
    BY DEF Init, Nets
<1>8. calls = 0 /\ closed = FALSE /\ wanted = FALSE /\ attempts = 0
    BY DEF Init
<1>9. calls \in 0..MaxCalls
    BY <1>8, CallBound
<1> QED BY <1>6, <1>7, <1>8, <1>9 DEF Typed

LEMMA TypedNext == Typed /\ [Next]_vars => Typed'
<1> SUFFICES ASSUME Typed, [Next]_vars
             PROVE  Typed'
    OBVIOUS
<1>1. /\ c \in Conns /\ net \in Nets /\ calls \in 0..MaxCalls
      /\ closed \in BOOLEAN /\ wanted \in BOOLEAN /\ attempts \in Nat
    BY DEF Typed
<1>2. c.socket \in Sockets /\ c.socket_ready \in BOOLEAN /\ c.scheduled_reconnect \in 0..1
    BY <1>1 DEF Conns
<1>3. /\ \A end \in Ends : Answered(c, end) \in Conns
      /\ \A fatal \in BOOLEAN : ConnectionClosed(c, fatal) \in Conns
      /\ SessionEnded(c) \in Conns /\ Silenced(c) \in Conns /\ Linked(c) \in Conns
      /\ ShutSession(c) \in Conns /\ ShutConnection(c) \in Conns
      /\ SocketLost(c) \in Conns /\ Dropped(c) \in Conns /\ Connected(c) \in Conns
    BY <1>1, AnsweredFields, ConnectionClosedFields, SessionEndedFields, SilencedFields,
       LinkedFields, ShutFields, SocketLostFields, DroppedFields, ConnectedFields
<1>4. SocketLost(Dropped(c)) \in Conns
    BY <1>3, SocketLostFields
<1>5. \A a \in Conns : Turn(a) \in Conns /\ Output(a) \in Conns /\ Forget(a) \in Conns
    BY TurnFields, OutputFields, ForgetFields
<1>6. \A s \in Sockets, how \in {"unused", "connecting", "up", "ended", "gone"} :
          [net EXCEPT ![s] = how] \in Nets
    BY <1>1 DEF Nets
<1>7. CASE Reconnect
  <2>1. Restarted(c) \in Conns
    BY <1>1, <1>7, RestartedFields DEF Reconnect
  <2>2. c.socket + 1 \in Sockets
    BY <1>2, <1>7, SocketBound DEF Reconnect, Sockets
  <2>3. c' \in Conns
    BY <1>5, <1>7, <2>1, Steps
  <2>4. net' \in Nets /\ attempts' = attempts + 1 /\ UNCHANGED <<calls, closed, wanted>>
    BY <1>6, <1>7, <2>2 DEF Reconnect
  <2> QED BY <1>1, <2>3, <2>4 DEF Typed
<1>8. CASE \E s \in Sockets : SocketConnected(s)
  <2>1. PICK s \in Sockets : SocketConnected(s)
    BY <1>8
  <2>2. c' \in Conns
    BY <1>3, <1>5, <2>1, Steps
  <2>3. net' \in Nets /\ attempts' = 0 /\ UNCHANGED <<calls, closed, wanted>>
    BY <1>6, <2>1 DEF SocketConnected
  <2> QED BY <1>1, <2>2, <2>3 DEF Typed
<1>9. CASE \E s \in Sockets : SocketEnd(s) \/ SocketError(s)
    BY <1>1, <1>3, <1>5, <1>6, <1>9, Steps DEF SocketEnd, SocketError, Typed
<1>10. CASE Abort
    BY <1>1, <1>2, <1>4, <1>5, <1>6, <1>10, Steps DEF Abort, Typed
<1>11. CASE PeerOpen \/ PeerBegins \/ PeerAttaches
  <2>1. "connection" \in Ends /\ "session" \in Ends /\ "link" \in Ends
    BY EndsAre
  <2>2. c' \in Conns
    BY <1>3, <1>5, <1>11, <2>1, Steps
  <2> QED BY <1>1, <1>11, <2>2 DEF PeerOpen, PeerBegins, PeerAttaches, Frame, Typed
<1>12. CASE PeerEnds
    BY <1>1, <1>3, <1>5, <1>12, Steps DEF PeerEnds, Typed
<1>13. CASE \E fatal \in BOOLEAN : PeerCloses(fatal)
  <2>1. PICK fatal \in BOOLEAN : PeerCloses(fatal)
    BY <1>13
  <2>2. c' \in Conns
    BY <1>3, <1>5, <2>1, Steps
  <2>3. /\ UNCHANGED <<net, attempts, calls, closed>>
        /\ wanted' = (wanted /\ ~ fatal)
    BY <2>1 DEF PeerCloses, Frame
  <2> QED BY <1>1, <2>2, <2>3 DEF Typed
<1>14. CASE ChunkBegins \/ ChunkGoesOn \/ ProtocolError \/ SaslFails
  <2>1. c' \in Conns
    BY <1>1, <1>14, ListenedFields DEF ChunkBegins, ChunkGoesOn, ProtocolError, SaslFails
  <2> QED BY <1>1, <1>14, <2>1 DEF ChunkBegins, ChunkGoesOn, ProtocolError, SaslFails, Typed
<1>15. CASE Idle
  <2>1. [c EXCEPT !.heartbeat_in = "spent"] \in Conns
    BY <1>1 DEF Conns, Timers
  <2>2. c' \in Conns
    BY <1>3, <1>5, <1>15, <2>1, Steps
  <2> QED BY <1>1, <1>15, <2>2 DEF Idle, Typed
<1>16. CASE OpenLink \/ CloseSession \/ RemoveSession \/ CloseConnection
  <2>1. c' \in Conns
    BY <1>1, <1>3, <1>5, <1>16, Steps DEF RemoveSession
  <2>2. /\ UNCHANGED <<net, attempts>> /\ calls < MaxCalls /\ calls' = calls + 1
        /\ closed' \in BOOLEAN /\ wanted' \in BOOLEAN
    BY <1>1, <1>16 DEF OpenLink, CloseSession, RemoveSession, CloseConnection, Call
  <2>3. calls' \in 0..MaxCalls
    BY <1>1, <2>2, CallBound
  <2> QED BY <1>1, <2>1, <2>2, <2>3 DEF Typed
<1>17. CASE UNCHANGED vars
    BY <1>1, <1>17 DEF vars, Typed
<1> QED BY <1>7, <1>8, <1>9, <1>10, <1>11, <1>12, <1>13, <1>14, <1>15, <1>16, <1>17, NextIs

\* Every field of the connection keeps its shape, whatever application, peer and network
\* do: the frames to be written are those of an end, requests are counted by naturals.
THEOREM TypesHold == Spec => []TypeOK
<1>1. Spec => []Typed
    BY TypedFirst, TypedNext, PTL DEF Spec
<1> QED BY <1>1, TypedGivesTypes, PTL

-----------------------------------------------------------------------------
(* Sockets, timers and attempts, when no socket reports late.               *)

Now == net[c.socket]
Local == c.state["connection"]

\* Sockets are used one after the other, and an attempt is scheduled for after the last.
SocketsInTurn ==
    /\ \A s \in Sockets : /\ s > c.socket => net[s] = "unused"
                          /\ s < c.socket => net[s] \in {"ended", "gone"}
    /\ Now # "unused"
    /\ c.scheduled_reconnect > 0 => Now \in {"ended", "gone"} /\ ~ c.socket_ready
    /\ Now = "connecting" => ~ c.socket_ready
    /\ Now = "up" => c.socket_ready

\* Without a peer no timer runs, but for a connection whose loss did not count.
AtRest ==
    /\ HasSettled(Local)
    /\ Now # "up" =>
          /\ ~ Local.remote_open /\ ~ c.abort_idle /\ ~ c.closed_with_non_fatal_error
          /\ c.heartbeat_out = "undefined"
          /\ c.socket_ready => IsClosed(Local)
          /\ ~ c.socket_ready => c.heartbeat_in = "undefined"
    /\ Now \in {"connecting", "up"} => ~ Local.was_open

\* With a peer the timers run that should.
OnSocket ==
    Now = "up" /\ ~ c.ended =>
        /\ ~ IsClosed(Local)
        /\ ~ Local.remote_open => c.heartbeat_out = "undefined"
        /\ IsOpen(Local) => c.heartbeat_out = "running"
        /\ c.frame_size = 0 => c.heartbeat_in = "running" \/ c.abort_idle

\* Attempts made, scheduled and left make up the limit, until one is refused.
AttemptsCounted ==
    /\ c.reset <= c.established
    /\ c.transport_error => c.scheduled_reconnect = 0
    /\ c.reconnecting = "no" => c.scheduled_reconnect = 0 /\ Now = "gone"
    /\ Now = "ended" /\ c.scheduled_reconnect = 0 => c.transport_error \/ IsClosed(Local)
    /\ Now = "up" => attempts = 0
    /\ ReconnectLimit > 0 =>
          /\ attempts <= ReconnectLimit
          /\ c.reconnecting # "no" =>
                /\ attempts + c.scheduled_reconnect + Current(c) = ReconnectLimit
                /\ Current(c) >= 0

Steady == Typed /\ SocketsInTurn /\ AtRest /\ OnSocket /\ AttemptsCounted

LEMMA SteadyFirst == Init => Steady
<1> SUFFICES ASSUME Init PROVE Steady
    OBVIOUS
<1>1. Typed
    BY TypedFirst
<1> DEFINE k == Settled(Open(Fresh))
<1>2. /\ c.state["connection"] = k /\ c.socket = 1 /\ ~ c.socket_ready /\ ~ c.ended
      /\ c.heartbeat_in = "undefined" /\ c.heartbeat_out = "undefined" /\ ~ c.abort_idle
      /\ c.scheduled_reconnect = 0 /\ ~ c.closed_with_non_fatal_error /\ ~ c.transport_error
      /\ c.established = 0 /\ c.reset = -1 /\ c.current = ReconnectLimit
      /\ c.reconnecting = "unknown"
    BY EndsAre DEF Init
<1>3. /\ HasSettled(k) /\ k.local_open /\ ~ k.remote_open /\ ~ k.was_open
    BY EndpointFresh, EndpointOpen, EndpointSettled
<1> HIDE DEF k
<1>4. net = [s \in Sockets |-> IF s = 1 THEN "connecting" ELSE "unused"] /\ attempts = 0
    BY DEF Init
<1>5. Now = "connecting"
    BY <1>2, <1>4, SocketBound DEF Now, Sockets
<1>6. SocketsInTurn
    BY <1>2, <1>4, <1>5 DEF SocketsInTurn, Sockets
<1>7. AtRest /\ OnSocket
    BY <1>2, <1>3, <1>5 DEF AtRest, OnSocket, Local
<1>8. AttemptsCounted
    BY <1>2, <1>4, <1>5, LimitIsNat DEF AttemptsCounted, Current
<1> QED BY <1>1, <1>6, <1>7, <1>8 DEF Steady

\* A step that leaves the sockets and the attempts alone.
Quiet ==
    /\ c'.socket = c.socket /\ c'.socket_ready = c.socket_ready
    /\ SameReconnect(c, c') /\ c'.established = c.established
    /\ UNCHANGED <<net, attempts>>

LEMMA QuietStep ==
    ASSUME Steady, Quiet, Now # "ended" \/ (IsClosed(Local) => IsClosed(Local')),
           c.transport_error => c'.transport_error,
           c'.transport_error => c.transport_error \/ Now = "up"
    PROVE  SocketsInTurn' /\ AttemptsCounted' /\ Now' = Now
<1>1. Now' = Now
    BY DEF Quiet, Now
<1>2. SocketsInTurn'
    BY <1>1 DEF Steady, SocketsInTurn, Quiet, SameReconnect
<1>3. Current(c)' = Current(c)
    BY DEF Quiet, SameReconnect, Current
<1>4. c.scheduled_reconnect \in 0..1
    BY DEF Steady, Typed, Conns
<1>5. AttemptsCounted'
    BY <1>1, <1>3, <1>4 DEF Steady, SocketsInTurn, AttemptsCounted, Quiet, SameReconnect
<1> QED BY <1>1, <1>2, <1>5

\* The rest, of a step on a socket that is up.
LEMMA UpStep ==
    ASSUME Steady, Quiet, Now = "up",
           c.transport_error => c'.transport_error,
           HasSettled(Local'), ~ Local'.was_open, OnSocket'
    PROVE  SocketsInTurn' /\ AtRest' /\ OnSocket' /\ AttemptsCounted'
<1>1. SocketsInTurn' /\ AttemptsCounted' /\ Now' = Now
    BY QuietStep
<1> QED BY <1>1 DEF AtRest

\* What the ticks do to the flags of the connection's end and to the timers.
Ticked(b, t) ==
    LET k == b.state["connection"]
        j == t.state["connection"]
    IN  /\ SameApart(b, t) /\ HasSettled(j)
        /\ j.local_open = k.local_open /\ j.remote_open = k.remote_open
        /\ j.was_open = k.was_open
        /\ IsClosed(j) <=> IsClosed(k)
        /\ IsOpen(j) <=> IsOpen(k)
        /\ t.ended = (b.ended \/ (Writes(b) /\ Over(b)))
        /\ t.heartbeat_in = IF Writes(b) /\ b.heartbeat_in = "undefined" THEN "running"
                            ELSE b.heartbeat_in
        /\ t.heartbeat_out = IF ~ Writes(b) THEN b.heartbeat_out
                             ELSE IF IsOpen(k) /\ ~ Over(b) THEN "running"
                             ELSE Clear(b.heartbeat_out)
        /\ ~ HasSettled(k) => Frames(b) # << >>

LEMMA TurnTicks ==
    ASSUME NEW b \in Conns
    PROVE  Ticked(b, Turn(b))
<1> DEFINE t == Turn(b)
           k == b.state["connection"]
           j == t.state["connection"]
<1>1. /\ SameApart(b, t) /\ HasSettled(j)
      /\ j.local_open = k.local_open /\ j.remote_open = k.remote_open /\ j.was_open = k.was_open
      /\ t.ended = (b.ended \/ (Writes(b) /\ Over(b)))
      /\ t.heartbeat_in = IF Writes(b) /\ b.heartbeat_in = "undefined" THEN "running"
                          ELSE b.heartbeat_in
      /\ t.heartbeat_out = IF ~ Writes(b) THEN b.heartbeat_out
                           ELSE IF IsOpen(k) /\ ~ Over(b) THEN "running"
                           ELSE Clear(b.heartbeat_out)
      /\ ~ HasSettled(k) => Frames(b) # << >>
    BY TurnFields, EndsAre
<1> HIDE DEF t
<1>2. (IsClosed(j) <=> IsClosed(k)) /\ (IsOpen(j) <=> IsOpen(k))
    BY <1>1 DEF IsClosed, IsOpen
<1>3. Ticked(b, t)
    BY <1>1, <1>2 DEF Ticked
<1> QED BY <1>3 DEF t

\* The timers after a frame was handled.
LEMMA HeardOnSocket ==
    ASSUME NEW b \in Conns, Ticked(b, c'), b.heartbeat_in = "running",
           IsClosed(b.state["connection"]) => c'.ended,
           ~ b.state["connection"].remote_open => b.heartbeat_out = "undefined" \/ c'.ended,
           IsOpen(b.state["connection"]) => b.heartbeat_out = "running"
    PROVE  OnSocket'
<1> DEFINE k == b.state["connection"]
<1>1. SUFFICES ASSUME ~ c'.ended
               PROVE  /\ ~ IsClosed(Local')
                      /\ ~ Local'.remote_open => c'.heartbeat_out = "undefined"
                      /\ IsOpen(Local') => c'.heartbeat_out = "running"
                      /\ c'.heartbeat_in = "running"
    BY DEF OnSocket
<1> HIDE DEF k
<1>2. /\ Local'.remote_open = k.remote_open
      /\ IsClosed(Local') <=> IsClosed(k)
      /\ IsOpen(Local') <=> IsOpen(k)
      /\ c'.ended = (b.ended \/ (Writes(b) /\ Over(b)))
      /\ c'.heartbeat_in = IF Writes(b) /\ b.heartbeat_in = "undefined" THEN "running"
                           ELSE b.heartbeat_in
      /\ c'.heartbeat_out = IF ~ Writes(b) THEN b.heartbeat_out
                            ELSE IF IsOpen(k) /\ ~ Over(b) THEN "running"
                            ELSE Clear(b.heartbeat_out)
    BY DEF Ticked, Local, k
<1>3. /\ IsClosed(k) => c'.ended
      /\ ~ k.remote_open => b.heartbeat_out = "undefined" \/ c'.ended
      /\ IsOpen(k) => b.heartbeat_out = "running" /\ k.remote_open
    BY DEF k, IsOpen
<1>4. ~ (Writes(b) /\ Over(b))
    BY <1>1, <1>2
<1> QED BY <1>1, <1>2, <1>3, <1>4 DEF Clear

\* What holds on a socket where a frame may come.
LEMMA OnReceiving ==
    ASSUME Steady, Receives
    PROVE  /\ Now = "up" /\ ~ c.ended /\ c.socket_ready /\ c.scheduled_reconnect = 0
           /\ c \in Conns /\ Local \in EndpointStates /\ HasSettled(Local)
           /\ ~ Local.was_open /\ ~ IsClosed(Local)
           /\ ~ Local.remote_open => c.heartbeat_out = "undefined"
           /\ IsOpen(Local) => c.heartbeat_out = "running"
           /\ c.frame_size = 0 => c.heartbeat_in = "running" \/ c.abort_idle
           /\ Local.local_open \/ Local.remote_open
<1>1. c \in Conns /\ Local \in EndpointStates /\ c.scheduled_reconnect \in 0..1
    BY EndsAre DEF Steady, Typed, Conns, Local
<1>2. Now = "up" /\ ~ c.ended
    BY DEF Receives, Now
<1>3. /\ c.socket_ready /\ c.scheduled_reconnect = 0 /\ HasSettled(Local)
      /\ ~ Local.was_open /\ ~ IsClosed(Local)
    BY <1>1, <1>2 DEF Steady, SocketsInTurn, AtRest, OnSocket
<1> QED BY <1>1, <1>2, <1>3 DEF Steady, OnSocket, IsClosed

LEMMA SteadyAnswered ==
    ASSUME Steady, PeerOpen \/ PeerBegins \/ PeerAttaches
    PROVE  SocketsInTurn' /\ AtRest' /\ OnSocket' /\ AttemptsCounted'
<1>1. PICK e \in Ends : /\ c' = Turn(Answered(c, e))
                        /\ Receives /\ UNCHANGED <<net, attempts>>
                        /\ e = "connection" => ~ Local.remote_open
    BY Steps, EndsAre DEF PeerOpen, PeerBegins, PeerAttaches, Frame, Local
<1> DEFINE b == Answered(c, e)
           k == b.state["connection"]
<1>2. /\ Now = "up" /\ ~ c.ended /\ c \in Conns /\ Local \in EndpointStates /\ HasSettled(Local)
      /\ ~ Local.was_open /\ ~ IsClosed(Local)
      /\ ~ Local.remote_open => c.heartbeat_out = "undefined"
      /\ IsOpen(Local) => c.heartbeat_out = "running"
    BY <1>1, OnReceiving
<1>3. /\ b \in Conns /\ Heard(c, b, k)
      /\ b.closed_with_non_fatal_error = c.closed_with_non_fatal_error
      /\ b.heartbeat_out = IF IsOpen(k) /\ c.heartbeat_out = "undefined" THEN "running"
                           ELSE c.heartbeat_out
      /\ b.state[e] = Open(RemoteOpened(c.state[e]))
      /\ \A o \in Ends : o # e => b.state[o] = c.state[o]
    BY <1>2, AnsweredFields
<1>4. /\ k \in EndpointStates /\ ~ k.was_open /\ ~ IsClosed(k)
      /\ ~ k.remote_open => c.heartbeat_out = "undefined" /\ ~ IsOpen(k)
      /\ IsOpen(k) => c.heartbeat_out \in {"running", "undefined"}
  <2>1. CASE e = "connection"
    <3> DEFINE r == RemoteOpened(Local)
    <3>1. r \in EndpointStates /\ r = [Local EXCEPT !.remote_open = TRUE]
        BY <1>2, EndpointRemote
    <3>2. r.remote_open /\ ~ r.was_open
        BY <1>2, <3>1 DEF EndpointStates
    <3>3. k = Open(r)
        BY <1>3, <2>1 DEF Local
    <3> HIDE DEF r, b
    <3>4. k \in EndpointStates /\ k.local_open /\ k.remote_open /\ ~ k.was_open
        BY <3>1, <3>2, <3>3, EndpointOpen
    <3>5. c.heartbeat_out = "undefined"
        BY <1>1, <1>2, <2>1
    <3> QED BY <3>4, <3>5 DEF IsClosed
  <2>2. CASE e # "connection"
    <3>1. k = Local
        BY <1>3, <2>2, EndsAre DEF Local
    <3> QED BY <1>2, <3>1 DEF IsOpen
  <2> QED BY <2>1, <2>2
<1> HIDE DEF b
<1>5. c' = Turn(b)
    BY <1>1 DEF b
<1>6. Ticked(b, c') /\ b.heartbeat_in = "running"
    BY <1>3, <1>5, TurnTicks DEF Heard
<1>7. Quiet /\ c'.transport_error = c.transport_error
    BY <1>1, <1>3, <1>6 DEF Quiet, Heard, Ticked, SameApart, SameReconnect
<1>8. OnSocket'
    BY <1>3, <1>4, <1>6, HeardOnSocket
<1>9. HasSettled(Local') /\ ~ Local'.was_open
    BY <1>4, <1>6 DEF Ticked, Local
<1> QED BY <1>2, <1>7, <1>8, <1>9, UpStep

LEMMA SteadyPeerEnds ==
    ASSUME Steady, PeerEnds
    PROVE  SocketsInTurn' /\ AtRest' /\ OnSocket' /\ AttemptsCounted'
<1> DEFINE b == SessionEnded(c)
           t == Turn(b)
           k == b.state["connection"]
<1>1. c' = Forget(t) /\ Receives /\ UNCHANGED <<net, attempts>>
    BY Steps DEF PeerEnds
<1>2. /\ Now = "up" /\ ~ c.ended /\ c \in Conns /\ Local \in EndpointStates /\ HasSettled(Local)
      /\ ~ Local.was_open /\ ~ IsClosed(Local)
      /\ ~ Local.remote_open => c.heartbeat_out = "undefined"
      /\ IsOpen(Local) => c.heartbeat_out = "running"
    BY <1>1, OnReceiving
<1>3. /\ b \in Conns /\ Heard(c, b, k)
      /\ b.closed_with_non_fatal_error = c.closed_with_non_fatal_error
      /\ b.heartbeat_out = IF IsOpen(k) /\ c.heartbeat_out = "undefined" THEN "running"
                           ELSE c.heartbeat_out
      /\ k = Local
    BY <1>2, SessionEndedFields DEF Local
<1> HIDE DEF b
<1>4. t \in Conns /\ Ticked(b, t) /\ b.heartbeat_in = "running"
    BY <1>3, TurnTicks, TurnFields DEF Heard
<1> HIDE DEF t
<1>5. /\ SameButEnds(t, c') /\ c'.state["connection"] = t.state["connection"]
    BY <1>1, <1>4, ForgetFields
<1>6. Quiet /\ c'.transport_error = c.transport_error
    BY <1>1, <1>3, <1>4, <1>5
       DEF Quiet, Heard, Ticked, SameApart, SameReconnect, SameButEnds, SameBelow, SameSocket
<1>7. /\ HasSettled(Local') /\ ~ Local'.was_open
      /\ Local'.remote_open = Local.remote_open
      /\ IsClosed(Local') <=> IsClosed(Local)
      /\ IsOpen(Local') <=> IsOpen(Local)
      /\ c'.ended = (b.ended \/ (Writes(b) /\ Over(b)))
      /\ c'.heartbeat_in = IF Writes(b) /\ b.heartbeat_in = "undefined" THEN "running"
                           ELSE b.heartbeat_in
      /\ c'.heartbeat_out = IF ~ Writes(b) THEN b.heartbeat_out
                            ELSE IF IsOpen(Local) /\ ~ Over(b) THEN "running"
                            ELSE Clear(b.heartbeat_out)
    BY <1>2, <1>3, <1>4, <1>5 DEF Ticked, Local, SameButEnds, SameTimers, SameSocket
<1>8. OnSocket'
  <2>1. SUFFICES ASSUME ~ c'.ended
                 PROVE  /\ ~ IsClosed(Local')
                        /\ ~ Local'.remote_open => c'.heartbeat_out = "undefined"
                        /\ IsOpen(Local') => c'.heartbeat_out = "running"
                        /\ c'.heartbeat_in = "running"
    BY DEF OnSocket
  <2>2. ~ (Writes(b) /\ Over(b))
    BY <1>7, <2>1
  <2>3. b.heartbeat_out = c.heartbeat_out
    BY <1>2, <1>3 DEF IsOpen
  <2> QED BY <1>2, <1>4, <1>7, <2>2, <2>3 DEF Clear, IsOpen
<1> QED BY <1>2, <1>6, <1>7, <1>8, UpStep

LEMMA SteadyPeerCloses ==
    ASSUME Steady, NEW fatal \in BOOLEAN, PeerCloses(fatal)
    PROVE  SocketsInTurn' /\ AtRest' /\ OnSocket' /\ AttemptsCounted'
<1> DEFINE b == ConnectionClosed(c, fatal)
           k == b.state["connection"]
           r == RemoteClosed(Local)
<1>1. c' = Turn(b) /\ Receives /\ UNCHANGED <<net, attempts>>
    BY Steps DEF PeerCloses, Frame
<1>2. /\ Now = "up" /\ ~ c.ended /\ c.socket_ready /\ c \in Conns
      /\ Local \in EndpointStates /\ HasSettled(Local) /\ ~ Local.was_open
    BY <1>1, OnReceiving
<1>3. b \in Conns /\ Heard(c, b, r) /\ k = Close(r)
    BY <1>2, ConnectionClosedFields DEF Local
<1>4. /\ r \in EndpointStates /\ HasSettled(r) /\ ~ r.was_open /\ ~ r.remote_open
      /\ r.local_open = Local.local_open
  <2>1. r \in EndpointStates /\ r = [Local EXCEPT !.remote_open = FALSE]
    BY <1>2, EndpointRemote
  <2> HIDE DEF r
  <2> QED BY <1>2, <2>1 DEF EndpointStates, HasSettled
<1> HIDE DEF b, r
<1>5. /\ IsClosed(k) /\ ~ k.was_open /\ ~ k.remote_open /\ ~ k.local_open
      /\ r.local_open => ~ HasSettled(k)
  <2>1. /\ ~ k.was_open /\ ~ k.remote_open /\ ~ k.local_open
        /\ r.local_open => k.close_requests = r.close_requests + 1
    BY <1>3, <1>4, EndpointClose
  <2>2. r.close_requests \in Nat
    BY <1>4 DEF EndpointStates
  <2> QED BY <2>1, <2>2 DEF IsClosed, HasSettled
<1>6. Ticked(b, c') /\ b.heartbeat_in = "running" /\ b.socket_ready
    BY <1>1, <1>2, <1>3, TurnTicks DEF Heard
<1>7. c'.ended
  <2>1. CASE r.local_open
    <3>1. Frames(b) # << >>
        BY <1>5, <1>6, <2>1 DEF Ticked
    <3>2. Writes(b) /\ Over(b)
        BY <1>5, <1>6, <3>1 DEF Writes, Over
    <3> QED BY <1>6, <3>2 DEF Ticked
  <2>2. CASE ~ r.local_open
    <3>1. IsClosed(r)
        BY <1>4, <2>2 DEF IsClosed
    <3>2. b.ended
        BY <1>3, <1>4, <3>1 DEF Heard
    <3> QED BY <1>6, <3>2 DEF Ticked
  <2> QED BY <2>1, <2>2
<1>8. Quiet /\ c'.transport_error = c.transport_error
    BY <1>1, <1>3, <1>6 DEF Quiet, Heard, Ticked, SameApart, SameReconnect
<1>9. HasSettled(Local') /\ ~ Local'.was_open
    BY <1>5, <1>6 DEF Ticked, Local
<1>10. OnSocket'
    BY <1>7 DEF OnSocket
<1> QED BY <1>2, <1>8, <1>9, <1>10, UpStep

LEMMA SteadyListening ==
    ASSUME Steady, ChunkBegins \/ ChunkGoesOn \/ ProtocolError \/ SaslFails
    PROVE  SocketsInTurn' /\ AtRest' /\ OnSocket' /\ AttemptsCounted'
<1>1. Receives /\ UNCHANGED <<net, attempts>>
    BY DEF ChunkBegins, ChunkGoesOn, ProtocolError, SaslFails
<1>2. /\ Now = "up" /\ ~ c.ended /\ c \in Conns /\ HasSettled(Local)
      /\ ~ Local.was_open /\ ~ IsClosed(Local)
      /\ ~ Local.remote_open => c.heartbeat_out = "undefined"
      /\ IsOpen(Local) => c.heartbeat_out = "running"
    BY <1>1, OnReceiving
<1>3. c.socket > 0
    BY <1>2, SocketBound DEF Conns, Sockets
<1>4. CASE ChunkBegins
  <2>1. /\ Listened(c, c', c.socket) /\ c'.transport_error = c.transport_error
        /\ c'.heartbeat_out =
              IF IsOpen(Local) /\ c.heartbeat_out = "undefined" THEN "running"
              ELSE c.heartbeat_out
    BY <1>2, <1>4, ListenedFields DEF ChunkBegins, Local
  <2>2. Quiet /\ Local' = Local /\ c'.frame_size > 0 /\ c'.heartbeat_out = c.heartbeat_out
    BY <1>1, <1>2, <1>3, <2>1 DEF Listened, Quiet, Local, SameEnds
  <2>3. OnSocket'
    BY <1>2, <2>2 DEF OnSocket
  <2> QED BY <1>2, <2>1, <2>2, <2>3, UpStep
<1>5. CASE ChunkGoesOn
  <2>1. /\ Listened(c, c', c.frame_size) /\ c'.transport_error = c.transport_error
        /\ c'.heartbeat_out = c.heartbeat_out /\ c.frame_size > 0
    BY <1>2, <1>5, ListenedFields DEF ChunkGoesOn
  <2>2. Quiet /\ Local' = Local /\ c'.frame_size > 0
    BY <1>1, <2>1 DEF Listened, Quiet, Local, SameEnds
  <2>3. OnSocket'
    BY <1>2, <2>1, <2>2 DEF OnSocket
  <2> QED BY <1>2, <2>1, <2>2, <2>3, UpStep
<1>6. CASE ProtocolError \/ SaslFails
  <2>1. Listened(c, c', 0) /\ c'.ended /\ (c.transport_error => c'.transport_error)
    BY <1>2, <1>6, ListenedFields DEF ProtocolError, SaslFails
  <2>2. Quiet /\ Local' = Local
    BY <1>1, <2>1 DEF Listened, Quiet, Local, SameEnds
  <2>3. OnSocket'
    BY <2>1 DEF OnSocket
  <2> QED BY <1>2, <2>1, <2>2, <2>3, UpStep
<1> QED BY <1>4, <1>5, <1>6

\* A step of the application: the ends change, and the ticks follow.
CalledFor(b) ==
    /\ b \in Conns
    /\ b.socket = c.socket /\ b.socket_ready = c.socket_ready /\ b.ended = c.ended
    /\ SameReconnect(c, b) /\ SameTimers(c, b)
    /\ b.transport_error = c.transport_error /\ b.frame_size = c.frame_size
    /\ b.established = c.established
    /\ LET k == b.state["connection"]
       IN  /\ k.remote_open = Local.remote_open /\ k.was_open = Local.was_open
           /\ k.local_open => Local.local_open
           /\ IsClosed(k) /\ ~ IsClosed(Local) => Frames(b) # << >>

LEMMA SteadyCalledFor ==
    ASSUME Steady, NEW b, CalledFor(b), c' = Turn(b), UNCHANGED <<net, attempts>>
    PROVE  SocketsInTurn' /\ AtRest' /\ OnSocket' /\ AttemptsCounted'
<1> DEFINE k == b.state["connection"]
<1>1. Ticked(b, c')
    BY TurnTicks DEF CalledFor
<1>2. c \in Conns /\ Local \in EndpointStates
    BY EndsAre DEF Steady, Typed, Conns, Local
<1>3. /\ k.remote_open = Local.remote_open /\ k.was_open = Local.was_open
      /\ k.local_open => Local.local_open
      /\ IsClosed(k) /\ ~ IsClosed(Local) => Frames(b) # << >>
    BY DEF CalledFor
<1> HIDE DEF k
<1>4. /\ HasSettled(Local')
      /\ Local'.remote_open = Local.remote_open /\ Local'.was_open = Local.was_open
      /\ IsClosed(Local') <=> IsClosed(k)
      /\ IsOpen(Local') <=> IsOpen(k)
    BY <1>1, <1>3 DEF Ticked, Local, k
<1>5. (IsClosed(Local) => IsClosed(k)) /\ (IsOpen(k) => IsOpen(Local))
    BY <1>3 DEF IsClosed, IsOpen
<1>6. Quiet /\ c'.transport_error = c.transport_error
    BY <1>1 DEF CalledFor, Ticked, SameApart, Quiet, SameReconnect
<1>7. SocketsInTurn' /\ AttemptsCounted' /\ Now' = Now
    BY <1>4, <1>5, <1>6, QuietStep
<1>8. /\ c'.socket_ready = c.socket_ready /\ c'.abort_idle = c.abort_idle
      /\ c'.closed_with_non_fatal_error = c.closed_with_non_fatal_error
      /\ c'.frame_size = c.frame_size
      /\ c'.ended = (c.ended \/ (Writes(b) /\ Over(b)))
      /\ c'.heartbeat_in = IF Writes(b) /\ c.heartbeat_in = "undefined" THEN "running"
                            ELSE c.heartbeat_in
      /\ c'.heartbeat_out = IF ~ Writes(b) THEN c.heartbeat_out
                             ELSE IF IsOpen(k) /\ ~ Over(b) THEN "running"
                             ELSE Clear(c.heartbeat_out)
      /\ Writes(b) <=> c.socket_ready /\ Frames(b) # << >>
      /\ Over(b) <=> IsClosed(k) \/ c.abort_idle \/ c.transport_error
    BY <1>1 DEF CalledFor, Ticked, SameApart, SameTimers, Writes, Over, k
<1>9. AtRest'
  <2>1. IsOpen(k) => Local.remote_open
    BY <1>5 DEF IsOpen
  <2> QED BY <1>4, <1>5, <1>7, <1>8, <2>1 DEF Steady, AtRest, Clear
<1>10. OnSocket'
  <2>1. SUFFICES ASSUME Now = "up", ~ c'.ended
                 PROVE  /\ ~ IsClosed(Local')
                        /\ ~ Local'.remote_open => c'.heartbeat_out = "undefined"
                        /\ IsOpen(Local') => c'.heartbeat_out = "running"
                        /\ c'.frame_size = 0 => c'.heartbeat_in = "running" \/ c'.abort_idle
    BY <1>7 DEF OnSocket
  <2>2. ~ c.ended /\ ~ (Writes(b) /\ Over(b)) /\ c.socket_ready
    BY <1>8, <2>1 DEF Steady, SocketsInTurn
  <2>3. /\ ~ IsClosed(Local)
        /\ ~ Local.remote_open => c.heartbeat_out = "undefined"
        /\ IsOpen(Local) => c.heartbeat_out = "running"
        /\ c.frame_size = 0 => c.heartbeat_in = "running" \/ c.abort_idle
    BY <2>1, <2>2 DEF Steady, OnSocket
  <2>4. ~ IsClosed(k)
    BY <1>3, <1>8, <2>2, <2>3
  <2>5. IsOpen(k) => Local.remote_open
    BY <1>5 DEF IsOpen
  <2> QED BY <1>4, <1>5, <1>8, <2>2, <2>3, <2>4, <2>5 DEF Clear
<1> QED BY <1>7, <1>9, <1>10

\* A close that is registered is a frame to be written.
LEMMA ClosingFrames ==
    ASSUME NEW b \in Conns, ~ HasSettled(b.state["connection"])
    PROVE  Frames(b) # << >>
BY TurnFields

LEMMA SteadyCalls ==
    ASSUME Steady, OpenLink \/ CloseSession \/ CloseConnection
    PROVE  SocketsInTurn' /\ AtRest' /\ OnSocket' /\ AttemptsCounted'
<1>1. c \in Conns /\ Local \in EndpointStates /\ HasSettled(Local)
    BY EndsAre DEF Steady, Typed, Conns, Local, AtRest
<1>2. UNCHANGED <<net, attempts>>
    BY DEF OpenLink, CloseSession, CloseConnection, Call
<1>3. CASE OpenLink
  <2>1. CalledFor(Linked(c))
    BY <1>1, LinkedFields DEF CalledFor, SameSocket, Local
  <2> QED BY <1>2, <1>3, <2>1, Steps, SteadyCalledFor
<1>4. CASE CloseSession
  <2>1. CalledFor(ShutSession(c))
    BY <1>1, ShutFields
       DEF CalledFor, SameButEnds, SameBelow, SameSocket, Local
  <2> QED BY <1>2, <1>4, <2>1, Steps, SteadyCalledFor
<1>5. CASE CloseConnection
  <2> DEFINE b == ShutConnection(c)
             k == b.state["connection"]
  <2>1. /\ b \in Conns /\ SameButEnds(c, b) /\ k = Close(Local)
    BY <1>1, ShutFields DEF Local
  <2> HIDE DEF b
  <2>2. /\ ~ k.local_open /\ k.remote_open = Local.remote_open /\ k.was_open = Local.was_open
        /\ Local.local_open => k.close_requests = Local.close_requests + 1
    BY <1>1, <2>1, EndpointClose
  <2>3. Local.local_open => Frames(b) # << >>
    <3>1. Local.close_requests = 0
        BY <1>1 DEF HasSettled
    <3>2. Local.local_open => ~ HasSettled(k)
        BY <2>2, <3>1 DEF HasSettled
    <3> QED BY <2>1, <3>2, ClosingFrames
  <2>4. IsClosed(k) /\ ~ IsClosed(Local) => Local.local_open
    BY <2>2 DEF IsClosed
  <2>5. CalledFor(b)
    BY <2>1, <2>2, <2>3, <2>4
       DEF CalledFor, SameButEnds, SameBelow, SameSocket
  <2> QED BY <1>2, <1>5, <2>5, Steps, SteadyCalledFor DEF b
<1> QED BY <1>3, <1>4, <1>5

LEMMA SteadyRemoves ==
    ASSUME Steady, RemoveSession
    PROVE  SocketsInTurn' /\ AtRest' /\ OnSocket' /\ AttemptsCounted'
<1>1. c \in Conns /\ c' = Forget(c) /\ c.scheduled_reconnect > 0 /\ UNCHANGED <<net, attempts>>
    BY DEF Steady, Typed, RemoveSession, Call
<1>2. SameButEnds(c, c') /\ Local' = Local
    BY <1>1, ForgetFields DEF Local
<1>3. Quiet /\ c'.transport_error = c.transport_error
    BY <1>1, <1>2 DEF Quiet, SameButEnds, SameBelow, SameSocket
<1>4. SocketsInTurn' /\ AttemptsCounted' /\ Now' = Now
    BY <1>2, <1>3, QuietStep
<1>5. Now # "up"
    BY <1>1 DEF Steady, SocketsInTurn
<1>6. AtRest' /\ OnSocket'
    BY <1>2, <1>4, <1>5
       DEF Steady, AtRest, OnSocket, SameButEnds, SameTimers, SameBelow, SameSocket
<1> QED BY <1>4, <1>6

LEMMA SteadyIdle ==
    ASSUME Steady, Idle
    PROVE  SocketsInTurn' /\ AtRest' /\ OnSocket' /\ AttemptsCounted'
<1>1. c \in Conns /\ Local \in EndpointStates /\ HasSettled(Local)
    BY EndsAre DEF Steady, Typed, Conns, Local, AtRest
<1>2. c.heartbeat_in = "running" /\ UNCHANGED <<net, attempts>>
    BY DEF Idle
<1>3. Now # "up" => c.socket_ready /\ IsClosed(Local)
    BY <1>1, <1>2 DEF Steady, AtRest, Conns
<1>4. CASE IsClosed(Local)
  <2>1. c' = [c EXCEPT !.heartbeat_in = "spent"]
    BY <1>4, Steps DEF Local
  <2>2. /\ SameBelow(c, c') /\ SameSocket(c, c') /\ SameReconnect(c, c')
        /\ Local' = Local /\ c'.socket_ready = c.socket_ready
        /\ c'.abort_idle = c.abort_idle
        /\ c'.closed_with_non_fatal_error = c.closed_with_non_fatal_error
        /\ c'.heartbeat_out = c.heartbeat_out
    BY <1>1, <2>1 DEF Conns, SameBelow, SameSocket, SameReconnect, Local, Got
  <2>3. Quiet /\ c'.transport_error = c.transport_error
    BY <1>2, <2>2 DEF Quiet, SameBelow, SameSocket
  <2>4. SocketsInTurn' /\ AttemptsCounted' /\ Now' = Now
    BY <2>2, <2>3, QuietStep
  <2>5. AtRest'
    BY <1>3, <2>2, <2>4 DEF Steady, AtRest
  <2>6. OnSocket'
    BY <1>4, <2>2, <2>4 DEF Steady, OnSocket, SameSocket
  <2> QED BY <2>4, <2>5, <2>6
<1>5. CASE ~ IsClosed(Local)
  <2> DEFINE b == Silenced(c)
             k == b.state["connection"]
  <2>1. c' = Turn(b)
    BY <1>5, Steps DEF Local
  <2>2. /\ b \in Conns /\ SameBelow(c, b) /\ SameSocket(c, b)
        /\ SameReconnect(c, b) /\ b.socket_ready = c.socket_ready
        /\ b.heartbeat_in = "spent" /\ b.heartbeat_out = c.heartbeat_out
        /\ b.abort_idle /\ k = Close(Local)
    BY <1>1, SilencedFields DEF Local
  <2> HIDE DEF b
  <2>3. Ticked(b, c')
    BY <2>1, <2>2, TurnTicks
  <2>4. Now = "up"
    BY <1>3, <1>5
  <2>5. /\ ~ k.local_open /\ k.remote_open = Local.remote_open /\ k.was_open = Local.was_open
        /\ Local.local_open => k.close_requests = Local.close_requests + 1
    BY <1>1, <2>2, EndpointClose
  <2>6. ~ Local.was_open /\ c.socket_ready
    BY <2>4 DEF Steady, AtRest, SocketsInTurn
  <2>7. Local.local_open => c'.ended
    <3>1. Local.close_requests = 0
        BY <1>1 DEF HasSettled
    <3>2. Local.local_open => ~ HasSettled(k)
        BY <2>5, <3>1 DEF HasSettled
    <3>3. Local.local_open => Frames(b) # << >>
        BY <2>2, <3>2, ClosingFrames
    <3>4. Over(b)
        BY <2>2 DEF Over
    <3> QED BY <2>2, <2>3, <2>6, <3>3, <3>4 DEF Ticked, Writes
  <2>8. Quiet /\ c'.transport_error = c.transport_error
    BY <1>2, <2>2, <2>3
       DEF Ticked, SameApart, Quiet, SameReconnect, SameBelow, SameSocket
  <2>9. HasSettled(Local') /\ ~ Local'.was_open
    BY <2>3, <2>5, <2>6 DEF Ticked, Local
  <2>10. OnSocket'
    <3>1. SUFFICES ASSUME ~ c'.ended
                   PROVE  /\ ~ IsClosed(Local')
                          /\ Local'.remote_open
                          /\ ~ IsOpen(Local')
                          /\ c'.abort_idle
        BY DEF OnSocket
    <3>2. Local.remote_open
        BY <1>5, <2>6, <2>7, <3>1 DEF IsClosed
    <3>3. Local'.remote_open /\ ~ Local'.local_open /\ c'.abort_idle
        BY <2>2, <2>3, <2>5, <3>2 DEF Ticked, Local, SameApart
    <3> QED BY <3>3 DEF IsClosed, IsOpen
  <2> QED BY <2>4, <2>8, <2>9, <2>10, UpStep
<1> QED BY <1>4, <1>5

LEMMA SteadyReconnects ==
    ASSUME Steady, Reconnect
    PROVE  SocketsInTurn' /\ AtRest' /\ OnSocket' /\ AttemptsCounted'
<1> DEFINE b == Restarted(c)
           k == b.state["connection"]
<1>1. /\ c \in Conns /\ net \in Nets /\ Local \in EndpointStates
      /\ c.socket \in Sockets /\ c.scheduled_reconnect \in 0..1
    BY EndsAre DEF Steady, Typed, Conns, Local
<1>2. /\ c.scheduled_reconnect = 1 /\ c.socket < MaxSockets /\ c' = Turn(b)
      /\ net' = [net EXCEPT ![c.socket + 1] = "connecting"] /\ attempts' = attempts + 1
    BY <1>1, Steps DEF Reconnect
<1>3. Now \in {"ended", "gone"} /\ ~ c.socket_ready
    BY <1>2 DEF Steady, SocketsInTurn
<1>4. /\ ~ Local.remote_open /\ ~ c.abort_idle /\ ~ c.closed_with_non_fatal_error
      /\ c.heartbeat_in = "undefined" /\ c.heartbeat_out = "undefined"
    BY <1>3 DEF Steady, AtRest
<1>5. /\ b \in Conns /\ SameBelow(c, b) /\ SameTimers(c, b)
      /\ k = Reconnected(Local) /\ b.socket_ready = c.socket_ready
      /\ b.socket = c.socket + 1 /\ b.scheduled_reconnect = 0
      /\ b.reset = c.reset /\ b.current = c.current /\ b.reconnecting = c.reconnecting
    BY <1>1, <1>2, RestartedFields, EndsAre DEF Reached, Local
<1>6. ~ k.was_open /\ ~ k.remote_open
    BY <1>1, <1>4, <1>5, EndpointReconnected
<1> HIDE DEF b
<1>7. Ticked(b, c') /\ ~ Writes(b)
    BY <1>2, <1>3, <1>5, TurnTicks DEF Writes
<1>8. /\ c'.socket = c.socket + 1 /\ ~ c'.socket_ready /\ c'.scheduled_reconnect = 0
      /\ c'.reset = c.reset /\ c'.current = c.current /\ c'.established = c.established
      /\ c'.reconnecting = c.reconnecting /\ c'.transport_error = c.transport_error
      /\ ~ c'.abort_idle /\ ~ c'.closed_with_non_fatal_error
      /\ c'.heartbeat_in = "undefined" /\ c'.heartbeat_out = "undefined"
      /\ HasSettled(Local') /\ ~ Local'.was_open /\ ~ Local'.remote_open
    BY <1>3, <1>4, <1>5, <1>6, <1>7 DEF Ticked, SameApart, SameBelow, SameTimers, Local
<1>9. Now' = "connecting"
  <2>1. c.socket + 1 \in Sockets
    BY <1>1, <1>2, SocketBound DEF Sockets
  <2> QED BY <1>1, <1>2, <1>8, <2>1 DEF Now, Nets
<1>10. SocketsInTurn'
  <2>1. \A s \in Sockets : s # c.socket + 1 => net'[s] = net[s]
    BY <1>1, <1>2 DEF Nets
  <2>2. \A s \in Sockets : /\ s > c.socket + 1 => s > c.socket
                           /\ s < c.socket + 1 => s < c.socket \/ s = c.socket
    BY <1>1 DEF Sockets
  <2>3. \A s \in Sockets : /\ s > c.socket + 1 => s # c.socket + 1
                           /\ s < c.socket + 1 => s # c.socket + 1
    BY <1>1 DEF Sockets
  <2>4. \A s \in Sockets : /\ s > c'.socket => net'[s] = "unused"
                           /\ s < c'.socket => net'[s] \in {"ended", "gone"}
    BY <1>3, <1>8, <2>1, <2>2, <2>3 DEF Steady, SocketsInTurn, Now
  <2> QED BY <1>8, <1>9, <2>4 DEF SocketsInTurn
<1>11. AtRest' /\ OnSocket'
    BY <1>8, <1>9 DEF AtRest, OnSocket
<1>12. AttemptsCounted'
  <2>1. Current(c)' = Current(c) /\ Current(c) \in Int
    BY <1>1, <1>8, LimitIsNat DEF Current, Conns
  <2>2. attempts \in Nat /\ ReconnectLimit \in Nat
    BY LimitIsNat DEF Steady, Typed
  <2>3. c.reconnecting # "no"
    BY <1>2 DEF Steady, AttemptsCounted
  <2>4. ReconnectLimit > 0 =>
           /\ attempts + 1 + Current(c) = ReconnectLimit
           /\ Current(c) >= 0
    BY <1>2, <2>3 DEF Steady, AttemptsCounted
  <2>5. ReconnectLimit > 0 =>
           /\ attempts' <= ReconnectLimit
           /\ attempts' + c'.scheduled_reconnect + Current(c)' = ReconnectLimit
           /\ Current(c)' >= 0
    BY <1>2, <1>8, <2>1, <2>2, <2>4
  <2> QED BY <1>8, <1>9, <2>3, <2>5 DEF Steady, AttemptsCounted
<1> QED BY <1>10, <1>11, <1>12

LEMMA SteadyConnects ==
    ASSUME Steady, NEW s \in Sockets, SocketConnected(s)
    PROVE  SocketsInTurn' /\ AtRest' /\ OnSocket' /\ AttemptsCounted'
<1> DEFINE b == Connected(c)
<1>1. /\ c \in Conns /\ net \in Nets /\ Local \in EndpointStates
      /\ c.socket \in Sockets /\ c.scheduled_reconnect \in 0..1
      /\ c.reset \in Int /\ c.current \in Int /\ c.established \in Nat
    BY EndsAre DEF Steady, Typed, Conns, Local
<1>2. /\ net[s] = "connecting" /\ net' = [net EXCEPT ![s] = "up"] /\ c' = Output(b)
      /\ attempts' = 0
    BY Steps DEF SocketConnected
<1>3. s = c.socket /\ Now = "connecting"
  <2>1. s = c.socket \/ s > c.socket \/ s < c.socket
    BY <1>1 DEF Sockets
  <2> QED BY <1>2, <2>1 DEF Steady, SocketsInTurn, Now
<1>4. /\ ~ c.socket_ready /\ c.scheduled_reconnect = 0 /\ HasSettled(Local)
      /\ ~ Local.remote_open /\ ~ Local.was_open /\ ~ c.abort_idle
      /\ c.heartbeat_in = "undefined" /\ c.heartbeat_out = "undefined"
      /\ c.reconnecting # "no" /\ c.reset <= c.established
    BY <1>1, <1>3 DEF Steady, SocketsInTurn, AtRest, AttemptsCounted
<1>5. /\ b \in Conns /\ SameEnds(c, b) /\ SameSocket(c, b)
      /\ SameReconnect(c, b) /\ SameTimers(c, b)
      /\ b.transport_error = c.transport_error
      /\ b.socket_ready /\ b.established = c.established + 1
    BY <1>1, ConnectedFields
<1> HIDE DEF b
<1>6. /\ SameApart(b, c') /\ c'.state = b.state
      /\ c'.ended = (b.ended \/ MustEnd(b))
      /\ c'.heartbeat_out = Rearmed(b)
      /\ c'.heartbeat_in = IF b.heartbeat_in = "undefined" THEN "running" ELSE b.heartbeat_in
    BY <1>2, <1>5, OutputFields
<1>7. ~ IsOpen(Local) /\ b.state["connection"] = Local
    BY <1>4, <1>5 DEF IsOpen, SameEnds, Local
<1>8. /\ Local' = Local /\ c'.socket = c.socket /\ c'.socket_ready
      /\ c'.scheduled_reconnect = 0 /\ c'.reset = c.reset /\ c'.reconnecting # "no"
      /\ c'.established = c.established + 1
      /\ c'.heartbeat_in = "running" /\ c'.heartbeat_out = "undefined"
      /\ IsClosed(Local) => c'.ended
    BY <1>4, <1>5, <1>6, <1>7
       DEF SameApart, SameReconnect, SameSocket, SameTimers, Rearmed, Clear, MustEnd, Local
<1>9. Now' = "up"
    BY <1>1, <1>2, <1>3, <1>8 DEF Now, Nets
<1>10. SocketsInTurn'
  <2>1. \A t \in Sockets : t # c.socket => net'[t] = net[t]
    BY <1>1, <1>2, <1>3 DEF Nets
  <2>2. \A t \in Sockets : t > c.socket \/ t < c.socket => t # c.socket
    BY <1>1 DEF Sockets
  <2>3. \A t \in Sockets : /\ t > c'.socket => net'[t] = "unused"
                           /\ t < c'.socket => net'[t] \in {"ended", "gone"}
    BY <1>8, <2>1, <2>2 DEF Steady, SocketsInTurn
  <2> QED BY <1>8, <1>9, <2>3 DEF SocketsInTurn
<1>11. AtRest' /\ OnSocket'
    BY <1>4, <1>7, <1>8, <1>9 DEF AtRest, OnSocket
<1>12. AttemptsCounted'
  <2>1. c'.reset <= c'.established /\ c'.reset # c'.established
    BY <1>1, <1>4, <1>8
  <2>2. Current(c)' = ReconnectLimit
    BY <2>1 DEF Current
  <2> QED BY <1>2, <1>8, <1>9, <2>1, <2>2, LimitIsNat DEF AttemptsCounted
<1> QED BY <1>10, <1>11, <1>12

\* The socket in use ends, fails or is destroyed.
LosesSocket(a, to) ==
    /\ a \in Conns /\ SameBelow(c, a) /\ SameReconnect(c, a) /\ SameTimers(c, a)
    /\ SameEnds(c, a)
    /\ a.socket = c.socket /\ a.socket_ready = c.socket_ready
    /\ Now # "gone"
    /\ to \in {"ended", "gone"}
    /\ to = "ended" => Now = "up"
    /\ c' = Turn(SocketLost(a))
    /\ net' = [net EXCEPT ![c.socket] = to]
    /\ attempts' = attempts

LEMMA SteadyLosesSocket ==
    ASSUME Steady, NEW a, NEW to, LosesSocket(a, to)
    PROVE  SocketsInTurn' /\ AtRest' /\ OnSocket' /\ AttemptsCounted'
<1> DEFINE b == SocketLost(a)
           k == b.state["connection"]
<1>1. /\ c \in Conns /\ net \in Nets /\ Local \in EndpointStates
      /\ c.socket \in Sockets /\ c.scheduled_reconnect \in 0..1
      /\ c.reset \in Int /\ c.current \in Int /\ c.established \in Nat
      /\ attempts \in Nat /\ c.transport_error \in BOOLEAN
    BY EndsAre DEF Steady, Typed, Conns, Local
<1>2. /\ a \in Conns /\ SameBelow(c, a) /\ SameReconnect(c, a) /\ SameTimers(c, a)
      /\ a.state = c.state
      /\ a.socket = c.socket /\ a.socket_ready = c.socket_ready
      /\ Now # "gone" /\ to \in {"ended", "gone"} /\ (to = "ended" => Now = "up")
      /\ c' = Turn(b) /\ net' = [net EXCEPT ![c.socket] = to] /\ attempts' = attempts
    BY DEF LosesSocket, SameEnds
<1>3. /\ b \in Conns /\ SameBelow(a, b) /\ SameSocket(a, b) /\ NoTimers(b)
      /\ ~ Counts(a) =>
            /\ SameReconnect(a, b) /\ b.socket_ready = a.socket_ready
            /\ b.state = StoppedState(a)
      /\ Counts(a) =>
            /\ ~ b.socket_ready
            /\ k = Disconnected(Judged(a))
            /\ ReconnectsAfter(a) => Scheduled(a, b)
            /\ a.transport_error => Forbidden(a, b)
            /\ ~ a.transport_error /\ ~ Allowed(a) => Refused(a, b)
    BY <1>2, SocketLostFields
<1>4. /\ c.reconnecting # "no"
      /\ Current(a) = Current(c) /\ Current(c) \in Int
  <2>1. c.reconnecting # "no"
    BY <1>2 DEF Steady, AttemptsCounted
  <2>2. Current(a) = Current(c) /\ Current(c) \in Int
    BY <1>1, <1>2, LimitIsNat DEF Current, SameBelow, SameReconnect
  <2> QED BY <2>1, <2>2
<1> HIDE DEF b
<1>5. Ticked(b, c')
    BY <1>2, <1>3, TurnTicks
<1>6. c'.socket = c.socket /\ Now' = to
  <2>1. c'.socket = c.socket
    BY <1>2, <1>3, <1>5 DEF Ticked, SameApart, SameSocket
  <2> QED BY <1>1, <1>2, <2>1 DEF Now, Nets
<1>7. \A s \in Sockets : /\ s > c'.socket => net'[s] = "unused"
                         /\ s < c'.socket => net'[s] \in {"ended", "gone"}
  <2>1. \A t \in Sockets : t # c.socket => net'[t] = net[t]
    BY <1>1, <1>2 DEF Nets
  <2>2. \A t \in Sockets : t > c.socket \/ t < c.socket => t # c.socket
    BY <1>1 DEF Sockets
  <2> QED BY <1>6, <2>1, <2>2 DEF Steady, SocketsInTurn
<1>8. OnSocket'
    BY <1>2, <1>6 DEF OnSocket
<1>9. /\ ~ c'.abort_idle /\ ~ c'.closed_with_non_fatal_error
      /\ HasSettled(Local') /\ Local'.remote_open = k.remote_open
      /\ (IsClosed(Local') <=> IsClosed(k)) /\ (IsOpen(Local') <=> IsOpen(k))
      /\ c'.transport_error = c.transport_error /\ c'.established = c.established
      /\ c'.reset = b.reset /\ c'.current = b.current /\ c'.reconnecting = b.reconnecting
      /\ c'.scheduled_reconnect = b.scheduled_reconnect /\ c'.socket_ready = b.socket_ready
      /\ ~ b.socket_ready => ~ Writes(b)
      /\ ~ Writes(b) => c'.heartbeat_in = "undefined"
      /\ c'.heartbeat_out =
            IF Writes(b) /\ IsOpen(k) /\ ~ Over(b) THEN "running" ELSE "undefined"
    BY <1>2, <1>3, <1>5
       DEF Ticked, SameApart, SameBelow, NoTimers, Local, Clear, Writes
<1>10. CASE Counts(a)
  <2>1. ~ b.socket_ready /\ ~ k.remote_open
    <3>1. Judged(a) \in EndpointStates
        BY <1>1, <1>2, EndpointOpen DEF Judged, Local
    <3> QED BY <1>3, <1>10, <3>1, EndpointDisconnected
  <2>2. AtRest'
    BY <1>2, <1>6, <1>9, <2>1 DEF AtRest
  <2>3. SocketsInTurn'
    BY <1>2, <1>6, <1>7, <1>9, <2>1 DEF SocketsInTurn
  <2>4. c.scheduled_reconnect = 0
    BY <1>2, <1>10 DEF Counts, SameReconnect
  <2>5. c.reset <= c.established
    BY DEF Steady, AttemptsCounted
  <2>6. ReconnectLimit > 0 =>
            /\ attempts <= ReconnectLimit
            /\ attempts + Current(c) = ReconnectLimit /\ Current(c) >= 0
    BY <1>1, <1>4, <2>4, LimitIsNat DEF Steady, AttemptsCounted
  <2>7. CASE a.transport_error
    <3>1. Forbidden(a, b) /\ c.transport_error
        BY <1>2, <1>3, <1>10, <2>7 DEF SameBelow
    <3>2. /\ c'.scheduled_reconnect = 0 /\ c'.reconnecting = "unknown"
          /\ c'.reset = c.reset /\ c'.current = c.current
        BY <1>2, <1>9, <3>1 DEF Forbidden, SameReconnect
    <3>3. Current(c)' = Current(c)
        BY <1>9, <3>2 DEF Current
    <3>4. AttemptsCounted'
        BY <1>1, <1>2, <1>4, <1>6, <1>9, <2>5, <2>6, <3>1, <3>2, <3>3, LimitIsNat DEF AttemptsCounted
    <3> QED BY <1>8, <2>2, <2>3, <3>4
  <2>8. CASE ~ a.transport_error /\ Allowed(a)
    <3>1. Scheduled(a, b) /\ ~ c.transport_error
        BY <1>2, <1>3, <1>10, <2>8 DEF SameBelow, ReconnectsAfter
    <3>2. /\ c'.scheduled_reconnect = 1 /\ c'.reconnecting = "yes"
          /\ c'.reset = c.established /\ c'.current = Current(c) - 1
        BY <1>2, <1>4, <1>9, <3>1 DEF Scheduled, SameBelow
    <3>3. Current(c)' = Current(c) - 1
        BY <1>9, <3>2 DEF Current
    <3>4. ReconnectLimit > 0 => Current(c) - 1 >= 0
        BY <1>4, <2>6, <2>8 DEF Allowed
    <3>5. ReconnectLimit > 0 =>
             /\ attempts' <= ReconnectLimit
             /\ attempts' + c'.scheduled_reconnect + Current(c)' = ReconnectLimit
             /\ Current(c)' >= 0
        BY <1>1, <1>2, <1>4, <2>6, <3>2, <3>3, <3>4, LimitIsNat
    <3>6. c'.reset <= c'.established
        BY <1>1, <1>9, <3>2
    <3>7. AttemptsCounted'
        BY <1>2, <1>6, <1>9, <3>1, <3>2, <3>5, <3>6 DEF AttemptsCounted
    <3> QED BY <1>8, <2>2, <2>3, <3>7
  <2>9. CASE ~ a.transport_error /\ ~ Allowed(a)
    <3>1. Refused(a, b) /\ ~ c.transport_error
        BY <1>2, <1>3, <1>10, <2>9 DEF SameBelow
    <3>2. /\ c'.scheduled_reconnect = 0 /\ c'.reconnecting = "no"
          /\ c'.reset = c.established
        BY <1>2, <1>9, <3>1 DEF Refused, SameBelow
    <3>3. ReconnectLimit > 0 /\ Current(c) = 0
        BY <1>4, <2>9, LimitIsNat DEF Allowed
    <3>4. Now # "up"
      <4>1. ASSUME Now = "up" PROVE FALSE
        <5>1. attempts = 0
            BY <4>1 DEF Steady, AttemptsCounted
        <5> QED BY <2>6, <3>3, <5>1
      <4> QED BY <4>1
    <3>5. Now' = "gone"
        BY <1>2, <1>6, <3>4
    <3>6. c'.reset <= c'.established
        BY <1>1, <1>9, <3>2
    <3>7. AttemptsCounted'
        BY <1>2, <1>9, <2>6, <3>2, <3>5, <3>6 DEF AttemptsCounted
    <3> QED BY <1>8, <2>2, <2>3, <3>7
  <2> QED BY <2>7, <2>8, <2>9
<1>11. CASE ~ Counts(a)
  <2>1. /\ c'.reset = c.reset /\ c'.current = c.current /\ c'.reconnecting = c.reconnecting
        /\ c'.scheduled_reconnect = c.scheduled_reconnect
        /\ c'.socket_ready = c.socket_ready /\ k = Judged(a)
    BY <1>1, <1>2, <1>3, <1>9, <1>11, EndsAre DEF SameReconnect, StoppedState, Conns
  <2>2. Judged(a) = IF c.closed_with_non_fatal_error THEN Open(Local) ELSE Local
    BY <1>2 DEF Judged, SameTimers, Local
  <2>3. Current(c)' = Current(c)
    BY <1>9, <2>1 DEF Current
  <2>4. CASE c.scheduled_reconnect = 1
    <3>1. Now \in {"ended", "gone"} /\ ~ c.socket_ready
        BY <2>4 DEF Steady, SocketsInTurn
    <3>2. ~ c.closed_with_non_fatal_error /\ ~ Local.remote_open
        BY <3>1 DEF Steady, AtRest
    <3>3. k = Local
        BY <2>1, <2>2, <3>2
    <3>4. Now' = "gone"
        BY <1>2, <1>6, <3>1
    <3>5. AtRest'
        BY <1>9, <2>1, <3>1, <3>2, <3>3, <3>4 DEF AtRest
    <3>6. SocketsInTurn'
        BY <1>7, <2>1, <3>1, <3>4 DEF SocketsInTurn
    <3>7. AttemptsCounted'
        BY <1>2, <1>4, <1>9, <2>1, <2>3, <3>4 DEF Steady, AttemptsCounted
    <3> QED BY <1>8, <3>5, <3>6, <3>7
  <2>5. CASE c.scheduled_reconnect = 0
    <3>1. IsClosed(k)
        BY <1>2, <1>11, <2>1, <2>5 DEF Counts, SameReconnect
    <3>2. ~ k.remote_open /\ ~ IsOpen(k)
        BY <3>1 DEF IsClosed, IsOpen
    <3>3. c'.heartbeat_out = "undefined" /\ ~ Local'.remote_open /\ IsClosed(Local')
        BY <1>9, <3>1, <3>2
    <3>4. AtRest'
        BY <1>2, <1>6, <1>9, <2>1, <3>3 DEF AtRest
    <3>5. SocketsInTurn'
        BY <1>2, <1>6, <1>7, <2>1, <2>5 DEF SocketsInTurn
    <3>6. AttemptsCounted'
        BY <1>2, <1>4, <1>6, <1>9, <2>1, <2>3, <2>5, <3>3 DEF Steady, AttemptsCounted
    <3> QED BY <1>8, <3>4, <3>5, <3>6
  <2> QED BY <1>1, <2>4, <2>5
<1> QED BY <1>10, <1>11

LEMMA SteadySocketEnds ==
    ASSUME Steady, "late" \notin Liberties, NEW s \in Sockets, SocketEnd(s) \/ SocketError(s)
    PROVE  SocketsInTurn' /\ AtRest' /\ OnSocket' /\ AttemptsCounted'
<1>1. c \in Conns /\ c.socket \in Sockets
    BY DEF Steady, Typed, Conns
<1>2. s = c.socket
  <2>1. net[s] \in {"connecting", "up"} \/ s = c.socket
    BY DEF SocketEnd, SocketError
  <2>2. s = c.socket \/ s > c.socket \/ s < c.socket
    BY <1>1 DEF Sockets
  <2> QED BY <2>1, <2>2 DEF Steady, SocketsInTurn
<1>3. /\ c' = Turn(SocketLost(c)) /\ attempts' = attempts
      /\ Now # "gone"
      /\ \/ net' = [net EXCEPT ![c.socket] = "ended"] /\ Now = "up"
         \/ net' = [net EXCEPT ![c.socket] = "gone"]
    BY <1>2 DEF SocketEnd, SocketError, Now
<1>4. /\ SameBelow(c, c) /\ SameReconnect(c, c) /\ SameTimers(c, c) /\ SameEnds(c, c)
    BY DEF SameBelow, SameReconnect, SameTimers, SameEnds
<1>5. LosesSocket(c, "ended") \/ LosesSocket(c, "gone")
    BY <1>1, <1>3, <1>4 DEF LosesSocket
<1> QED BY <1>5, SteadyLosesSocket

LEMMA SteadyAborts ==
    ASSUME Steady, Abort
    PROVE  SocketsInTurn' /\ AtRest' /\ OnSocket' /\ AttemptsCounted'
<1>1. c \in Conns
    BY DEF Steady, Typed
<1>2. Now = "up"
    BY DEF Abort, Steady, AtRest
<1>3. LosesSocket(Dropped(c), "gone")
    BY <1>1, <1>2, DroppedFields, Steps DEF LosesSocket, Abort
<1> QED BY <1>3, SteadyLosesSocket

LEMMA SteadyNext ==
    ASSUME "late" \notin Liberties
    PROVE  Steady /\ [Next]_vars => Steady'
<1> SUFFICES ASSUME Steady, [Next]_vars
             PROVE  SocketsInTurn' /\ AtRest' /\ OnSocket' /\ AttemptsCounted'
    BY TypedNext DEF Steady
<1>1. CASE UNCHANGED vars
    BY <1>1 DEF vars, Steady, SocketsInTurn, AtRest, OnSocket, AttemptsCounted, Now, Local, Current
<1> QED BY <1>1, NextIs, SteadyReconnects, SteadyConnects, SteadySocketEnds, SteadyAborts,
           SteadyAnswered, SteadyPeerEnds, SteadyPeerCloses, SteadyListening, SteadyIdle,
           SteadyCalls, SteadyRemoves

LEMMA SteadyGives ==
    ASSUME Steady
    PROVE  OneSocket /\ SilenceIsNoticed /\ PeerHearsFromUs /\ AttemptsAreLimited
<1>1. /\ c \in Conns /\ net \in Nets /\ c.socket \in Sockets /\ c.scheduled_reconnect \in 0..1
    BY DEF Steady, Typed, Conns
<1>2. OneSocket
  <2>1. \A s \in Sockets : net[s] \in {"connecting", "up"} => s = c.socket
    <3>1. \A s \in Sockets : s = c.socket \/ s > c.socket \/ s < c.socket
        BY <1>1 DEF Sockets
    <3> QED BY <3>1 DEF Steady, SocketsInTurn
  <2> QED BY <1>1, <2>1 DEF OneSocket
<1>3. SilenceIsNoticed
    BY DEF Steady, OnSocket, SilenceIsNoticed, Now
<1>4. PeerHearsFromUs
  <2>1. SUFFICES ASSUME IsOpen(Local), ~ c.ended
                 PROVE  c.heartbeat_out = "running"
    BY DEF PeerHearsFromUs, Local
  <2>2. Now = "up"
    BY <2>1 DEF Steady, AtRest, IsOpen
  <2> QED BY <2>1, <2>2 DEF Steady, OnSocket
<1>5. AttemptsAreLimited
    BY DEF Steady, AttemptsCounted, AttemptsAreLimited
<1> QED BY <1>2, <1>3, <1>4, <1>5

\* There is never more than one socket in use, and none while a reconnect is still to
\* come, for every interleaving of end, error, abort and the timer of reconnect.
THEOREM NeverTwoSockets == "late" \notin Liberties => (Spec => []OneSocket)
<1>1. SUFFICES ASSUME "late" \notin Liberties PROVE Spec => []OneSocket
    OBVIOUS
<1>2. Steady /\ [Next]_vars => Steady'
    BY <1>1, SteadyNext
<1>3. Steady => OneSocket
    BY SteadyGives
<1> QED BY <1>2, <1>3, SteadyFirst, PTL DEF Spec

\* Where a socket is in use, the timer of input runs that will find a silent peer, or the
\* one that destroys the socket, unless input waits for the rest of a frame.
THEOREM IdleTimerRuns == "late" \notin Liberties => (Spec => []SilenceIsNoticed)
<1>1. SUFFICES ASSUME "late" \notin Liberties PROVE Spec => []SilenceIsNoticed
    OBVIOUS
<1>2. Steady /\ [Next]_vars => Steady'
    BY <1>1, SteadyNext
<1>3. Steady => SilenceIsNoticed
    BY SteadyGives
<1> QED BY <1>2, <1>3, SteadyFirst, PTL DEF Spec

\* Where the connection is open, the heartbeat's timer runs after every output and input.
THEOREM HeartbeatRuns == "late" \notin Liberties => (Spec => []PeerHearsFromUs)
<1>1. SUFFICES ASSUME "late" \notin Liberties PROVE Spec => []PeerHearsFromUs
    OBVIOUS
<1>2. Steady /\ [Next]_vars => Steady'
    BY <1>1, SteadyNext
<1>3. Steady => PeerHearsFromUs
    BY SteadyGives
<1> QED BY <1>2, <1>3, SteadyFirst, PTL DEF Spec

\* Since a connection was last established there were no more attempts than the limit,
\* and none is scheduled once one was refused or SASL failed.
THEOREM LimitHolds == "late" \notin Liberties => (Spec => []AttemptsAreLimited)
<1>1. SUFFICES ASSUME "late" \notin Liberties PROVE Spec => []AttemptsAreLimited
    OBVIOUS
<1>2. Steady /\ [Next]_vars => Steady'
    BY <1>1, SteadyNext
<1>3. Steady => AttemptsAreLimited
    BY SteadyGives
<1> QED BY <1>2, <1>3, SteadyFirst, PTL DEF Spec

-----------------------------------------------------------------------------
(***************************************************************************)
(* Connection, second part: the frames that a socket carries, and a        *)
(* connection that was closed.  Both need, over what Connection_proof has, *)
(* that nothing goes wrong while the application waits for the answer to   *)
(* its close ("loss" is no liberty: the run closed_again shows what        *)
(* happens then).                                                          *)
(*                                                                         *)
(* FramesInOrder looks at what the peer has got.  What decides it is Told: *)
(* that, with the frames still in amqp_transport.pending.  Ordered says    *)
(* that Told and the states of the ends never disagree (InLockStep,        *)
(* ToldInOrder), across turns that write nothing, lost sockets and         *)
(* reconnects.                                                             *)
(***************************************************************************)

\* What the peer of this socket gets, with what is still to be written.
Told(conn) == Written(conn, conn.unsent)

\* One frame more, if it is wanted.
Send(got, frame, isWanted) == IF isWanted THEN AfterFrame(got, frame) ELSE got

OpenOf(e) == [end |-> e, open |-> TRUE]
CloseOf(e) == [end |-> e, open |-> FALSE]

\* One _process, by its frames.
Sent(conn, got) ==
    LET k == conn.state["connection"]
        session == conn.state["session"]
        link == conn.state["link"]
        opened == Send(got, OpenOf("connection"), k.open_requests > 0)
        begun == Send(opened, OpenOf("session"), conn.mapped /\ session.open_requests > 0)
        attached == Send(begun, OpenOf("link"),
                         conn.mapped /\ conn.attached /\ link.open_requests > 0)
        ended == Send(attached, CloseOf("session"), conn.mapped /\ session.close_requests > 0)
    IN  Send(ended, CloseOf("connection"), k.close_requests > 0)

LEMMA WrittenOneMore ==
    ASSUME NEW conn, Got(conn) \in Gotten, NEW frames \in Seq(EndFrames), NEW f \in EndFrames,
           NEW isWanted \in BOOLEAN
    PROVE  Written(conn, frames \o (IF isWanted THEN <<f>> ELSE << >>))
              = Send(Written(conn, frames), f, isWanted)
<1>1. CASE isWanted
  <2>1. frames \o <<f>> = Append(frames, f)
    OBVIOUS
  <2> QED BY <1>1, <2>1, WrittenAppend DEF Send
<1>2. CASE ~ isWanted
  <2>1. frames \o << >> = frames
    OBVIOUS
  <2> QED BY <1>2, <2>1 DEF Send
<1> QED BY <1>1, <1>2

LEMMA WrittenFrames ==
    ASSUME NEW conn \in Conns
    PROVE  Written(conn, conn.unsent \o Frames(conn)) = Sent(conn, Told(conn))
<1> DEFINE S == Seq(EndFrames)
           k == conn.state["connection"]
           session == conn.state["session"]
           link == conn.state["link"]
           one == k.open_requests > 0
           two == conn.mapped /\ session.open_requests > 0
           three == conn.mapped /\ conn.attached /\ link.open_requests > 0
           four == conn.mapped /\ session.close_requests > 0
           five == k.close_requests > 0
           Part(f, isWanted) == IF isWanted THEN <<f>> ELSE << >>
           u == conn.unsent
           p1 == Part(OpenOf("connection"), one)
           p2 == Part(OpenOf("session"), two)
           p3 == Part(OpenOf("link"), three)
           p4 == Part(CloseOf("session"), four)
           p5 == Part(CloseOf("connection"), five)
<1>1. /\ one \in BOOLEAN /\ two \in BOOLEAN /\ three \in BOOLEAN /\ four \in BOOLEAN
      /\ five \in BOOLEAN /\ u \in S /\ Got(conn) \in Gotten
    BY GetsType DEF Conns
<1>2. \A e \in Ends : OpenOf(e) \in EndFrames /\ CloseOf(e) \in EndFrames
    BY DEF OpenOf, CloseOf, EndFrames
<1>3. \A f \in EndFrames, isWanted \in BOOLEAN : Part(f, isWanted) \in S
    OBVIOUS
<1>4. p1 \in S /\ p2 \in S /\ p3 \in S /\ p4 \in S /\ p5 \in S
    BY <1>1, <1>2, <1>3, EndsAre
<1>5. Frames(conn) = p1 \o p2 \o p3 \o p4 \o p5
  <2>1. /\ "session" \in Reached(conn) <=> conn.mapped
        /\ "link" \in Reached(conn) <=> conn.mapped /\ conn.attached
    BY DEF Reached
  <2>2. /\ OpenFrame(conn, "connection") = p1 /\ CloseFrame(conn, "connection") = p5
        /\ (IF "session" \in Reached(conn) THEN OpenFrame(conn, "session") ELSE << >>) = p2
        /\ (IF "link" \in Reached(conn) THEN OpenFrame(conn, "link") ELSE << >>) = p3
        /\ (IF "session" \in Reached(conn) THEN CloseFrame(conn, "session") ELSE << >>) = p4
    BY <2>1 DEF OpenFrame, CloseFrame, OpenOf, CloseOf
  <2> QED BY <2>2 DEF Frames
<1>6. /\ \A s \in S, f \in EndFrames, isWanted \in BOOLEAN :
            Written(conn, s \o Part(f, isWanted)) = Send(Written(conn, s), f, isWanted)
      /\ \A s \in S, t \in S : s \o t \in S
    BY <1>1, WrittenOneMore
<1> DEFINE s1 == u \o p1
           s2 == s1 \o p2
           s3 == s2 \o p3
           s4 == s3 \o p4
           s5 == s4 \o p5
<1>7. s1 \in S /\ s2 \in S /\ s3 \in S /\ s4 \in S
  <2> HIDE DEF S, p1, p2, p3, p4, p5, u
  <2> QED BY <1>1, <1>4, <1>6
<1>8. /\ Written(conn, s1) = Send(Written(conn, u), OpenOf("connection"), one)
      /\ Written(conn, s2) = Send(Written(conn, s1), OpenOf("session"), two)
      /\ Written(conn, s3) = Send(Written(conn, s2), OpenOf("link"), three)
      /\ Written(conn, s4) = Send(Written(conn, s3), CloseOf("session"), four)
      /\ Written(conn, s5) = Send(Written(conn, s4), CloseOf("connection"), five)
  <2>1. /\ OpenOf("connection") \in EndFrames /\ OpenOf("session") \in EndFrames
        /\ OpenOf("link") \in EndFrames /\ CloseOf("session") \in EndFrames
        /\ CloseOf("connection") \in EndFrames
    BY <1>2, EndsAre
  <2> HIDE DEF S, Part, s1, s2, s3, s4, s5, u, one, two, three, four, five
  <2>2. /\ s1 = u \o Part(OpenOf("connection"), one)
        /\ s2 = s1 \o Part(OpenOf("session"), two)
        /\ s3 = s2 \o Part(OpenOf("link"), three)
        /\ s4 = s3 \o Part(CloseOf("session"), four)
        /\ s5 = s4 \o Part(CloseOf("connection"), five)
    BY DEF s1, s2, s3, s4, s5
  <2> QED BY <1>1, <1>6, <1>7, <2>1, <2>2
<1>9. u \o Frames(conn) = s5
  <2> DEFINE q == p1 \o p2
             r == q \o p3
             t == r \o p4
  <2>1. q \in S /\ r \in S /\ t \in S
    <3> HIDE DEF p1, p2, p3, p4, p5
    <3> QED BY <1>4
  <2>2. /\ u \o q = s2 /\ u \o r = (u \o q) \o p3 /\ u \o t = (u \o r) \o p4
        /\ u \o (t \o p5) = (u \o t) \o p5
    <3> HIDE DEF p1, p2, p3, p4, p5, u
    <3>1. \A x \in S, y \in S, z \in S : (x \o y) \o z = x \o (y \o z)
        BY ConcatAssociative
    <3>2. u \o q = s2
        BY <1>1, <1>4, <3>1
    <3> HIDE DEF q
    <3>3. u \o r = (u \o q) \o p3
        BY <1>1, <1>4, <2>1, <3>1
    <3> HIDE DEF r
    <3>4. u \o t = (u \o r) \o p4
        BY <1>1, <1>4, <2>1, <3>1
    <3> HIDE DEF t
    <3>5. u \o (t \o p5) = (u \o t) \o p5
        BY <1>1, <1>4, <2>1, <3>1
    <3> QED BY <3>2, <3>3, <3>4, <3>5
  <2> HIDE DEF p1, p2, p3, p4, p5, u
  <2> QED BY <1>5, <2>2
<1> HIDE DEF s1, s2, s3, s4, s5, u, p1, p2, p3, p4, p5
<1> QED BY <1>8, <1>9 DEF Sent, Told, u

\* What the peer is told in all is what it was told before, and the frames of the turn.
LEMMA TurnTold ==
    ASSUME NEW conn \in Conns
    PROVE  /\ ~ conn.ended => Told(Turn(conn)) = Sent(conn, Told(conn))
           /\ ~ Writes(conn) \/ conn.ended => Got(Turn(conn)) = Got(conn)
           /\ Writes(conn) /\ ~ conn.ended => Got(Turn(conn)) = Sent(conn, Told(conn))
           /\ conn.socket_ready =>
                 Turn(conn).unsent = IF Frames(conn) = << >> THEN conn.unsent ELSE << >>
<1>1. /\ Got(conn) \in Gotten /\ conn.unsent \in Seq(EndFrames)
      /\ Told(conn) \in Gotten
    BY GetsType DEF Conns, Told
<1>2. Frames(conn) = << >> => conn.unsent \o Frames(conn) = conn.unsent
    BY <1>1
<1>3. Frames(conn) = << >> => Sent(conn, Told(conn)) = Told(conn)
    BY <1>2, WrittenFrames DEF Told
<1>4. CASE Frames(conn) = << >>
  <2>1. Turn(conn) = conn
    BY <1>4 DEF Turn
  <2> QED BY <1>3, <1>4, <2>1 DEF Writes
<1>5. CASE Frames(conn) # << >>
  <2> DEFINE t == Taken(conn)
             o == Output(t)
  <2>1. Turn(conn) = o
    BY <1>5 DEF Turn, Taken
  <2>2. /\ t \in Conns /\ Got(t) = Got(conn) /\ t.ended = conn.ended
        /\ t.socket_ready = conn.socket_ready
        /\ t.unsent = conn.unsent \o Frames(conn)
    BY TakenFields DEF SameApart
  <2> HIDE DEF t
  <2>3. Written(t, t.unsent) = Sent(conn, Told(conn)) /\ t.unsent \in Seq(EndFrames)
    <3>1. t.unsent \in Seq(EndFrames)
        BY <2>2 DEF Conns
    <3>2. Written(t, t.unsent) = Written(conn, t.unsent)
        BY <1>1, <2>2, <3>1, WrittenFrom
    <3> QED BY <2>2, <3>1, <3>2, WrittenFrames
  <2>4. /\ ~ t.socket_ready => o = t
        /\ t.socket_ready => o.unsent = << >> /\ Got(o) = Gets(t)
    BY <2>2, OutputFields
  <2> HIDE DEF o
  <2>5. t.socket_ready => Told(o) = Got(o)
    <3>1. t.socket_ready => Got(o) \in Gotten
        BY <2>2, <2>4, GetsType
    <3> QED BY <2>4, <3>1, WrittenNothing DEF Told
  <2> QED BY <1>5, <2>1, <2>2, <2>3, <2>4, <2>5 DEF Writes, Gets, Told
<1> QED BY <1>4, <1>5

\* A turn does nothing when all requests have been taken.
LEMMA NothingToSend ==
    ASSUME NEW conn \in Conns, HasSettled(conn.state["connection"]),
           conn.mapped => /\ HasSettled(conn.state["session"])
                          /\ conn.attached => HasSettled(conn.state["link"])
    PROVE  Turn(conn) = conn /\ Frames(conn) = << >>
<1>1. /\ conn.mapped <=> "session" \in Reached(conn)
      /\ conn.mapped /\ conn.attached <=> "link" \in Reached(conn)
    BY DEF Reached
<1>2. /\ OpenFrame(conn, "connection") = << >> /\ CloseFrame(conn, "connection") = << >>
      /\ (IF "session" \in Reached(conn) THEN OpenFrame(conn, "session") ELSE << >>) = << >>
      /\ (IF "link" \in Reached(conn) THEN OpenFrame(conn, "link") ELSE << >>) = << >>
      /\ (IF "session" \in Reached(conn) THEN CloseFrame(conn, "session") ELSE << >>) = << >>
    BY <1>1 DEF HasSettled, OpenFrame, CloseFrame
<1>3. Frames(conn) = << >>
    BY <1>2 DEF Frames
<1> QED BY <1>3 DEF Turn

LEMMA TurnSettles ==
    ASSUME NEW conn \in Conns, conn.mapped, conn.attached,
           conn.state["link"].close_requests = 0
    PROVE  HasSettled(Turn(conn).state["session"]) /\ HasSettled(Turn(conn).state["link"])
<1>1. "session" \in Reached(conn) /\ "link" \in Reached(conn)
    BY DEF Reached
<1>2. conn.state["session"] \in EndpointStates /\ conn.state["link"] \in EndpointStates
    BY EndsAre DEF Conns
<1>3. CASE Frames(conn) = << >>
  <2>1. /\ OpenFrame(conn, "session") = << >> /\ CloseFrame(conn, "session") = << >>
        /\ OpenFrame(conn, "link") = << >>
    BY <1>1, <1>3, FramesEmpty
  <2>2. /\ ~ conn.state["session"].open_requests > 0
        /\ ~ conn.state["session"].close_requests > 0
        /\ ~ conn.state["link"].open_requests > 0
    BY <2>1 DEF OpenFrame, CloseFrame
  <2>3. HasSettled(conn.state["session"]) /\ HasSettled(conn.state["link"])
    BY <1>2, <2>2 DEF EndpointStates, HasSettled
  <2> QED BY <1>3, <2>3 DEF Turn
<1>4. CASE Frames(conn) # << >>
  <2> DEFINE t == Taken(conn)
  <2>1. Turn(conn) = Output(t)
    BY <1>4 DEF Turn, Taken
  <2>2. /\ t \in Conns
        /\ t.state["session"] = Settled(conn.state["session"])
        /\ t.state["link"] = Settled(conn.state["link"])
    BY <1>1, TakenFields, EndsAre
  <2> HIDE DEF t
  <2>3. Output(t).state = t.state
    BY <2>2, OutputFields
  <2> QED BY <1>2, <2>1, <2>2, <2>3, EndpointSettled
<1> QED BY <1>3, <1>4

\* Once the application has closed the connection it stays so.
ClosedForGood ==
    closed => /\ ~ Local.local_open /\ ~ Local.was_open
              /\ Local.remote_open => Now = "up" /\ ~ c.ended
              /\ c.scheduled_reconnect = 0 /\ Now # "connecting"
              /\ ~ c.closed_with_non_fatal_error /\ ~ c.abort_idle

\* And until it does, the connection is open or will be.
OpenUnlessLost ==
    /\ ~ closed =>
          /\ Now \in {"connecting", "up"} => Local.local_open \/ c.ended
          /\ Now = "up" =>
                Local.local_open \/ c.closed_with_non_fatal_error \/ IsClosed(Local)
    /\ c.scheduled_reconnect > 0 => Local.was_open
    /\ Local.was_open => ~ Local.local_open
    /\ Now = "up" /\ ~ c.ended =>
          ~ c.closed_with_non_fatal_error /\ ~ c.abort_idle /\ ~ c.transport_error
    /\ Now = "connecting" => ~ c.ended /\ ~ c.transport_error
    /\ Now # "up" /\ c.socket_ready => c.ended

\* Session and link open and reconnect together.
InLockStep ==
    LET session == c.state["session"]
        link == c.state["link"]
    IN  c.mapped =>
          /\ c.attached /\ HasSettled(session) /\ HasSettled(link)
          /\ link.was_open = session.was_open
          /\ session.local_open => link.local_open /\ ~ session.was_open
          /\ c.scheduled_reconnect > 0 => ~ session.remote_open

\* A peer is there or will be, and will hear what is written.
Live == Now \in {"connecting", "up"} /\ ~ c.ended

\* What the peer is told agrees with the state of the ends.
ToldInOrder ==
    /\ c.socket_ready => c.unsent = << >>
    /\ ~ c.refusable
    /\ Live =>
          LET told == Told(c)
              session == c.state["session"]
          IN  /\ ~ told.refusable
              /\ "connection" \in told.wrote <=> Local.local_open
              /\ "session" \in told.wrote =>
                    "connection" \in told.wrote /\ c.mapped /\ session.local_open
              /\ "link" \in told.wrote => "session" \in told.wrote
              /\ ~ closed /\ c.mapped /\ IsOpen(session) => "session" \in told.wrote

InOrder == ClosedForGood /\ OpenUnlessLost /\ InLockStep /\ ToldInOrder

Ordered == Steady /\ InOrder

\* Nothing is lost while the application waits for the answer to its close.
Orderly == "late" \notin Liberties /\ "loss" \notin Liberties

LEMMA OrderedTypes ==
    ASSUME Ordered
    PROVE  /\ c \in Conns /\ net \in Nets /\ c.socket \in Sockets
           /\ Local \in EndpointStates /\ HasSettled(Local)
           /\ c.state["session"] \in EndpointStates /\ c.state["link"] \in EndpointStates
           /\ c.state["connection"] = Local
           /\ closed \in BOOLEAN /\ c.scheduled_reconnect \in 0..1
           /\ c.mapped \in BOOLEAN /\ c.ended \in BOOLEAN /\ c.socket_ready \in BOOLEAN
           /\ Told(c) \in Gotten /\ Got(c) \in Gotten
           /\ c.socket_ready => Told(c) = Got(c)
<1>1. c \in Conns /\ net \in Nets /\ closed \in BOOLEAN
    BY DEF Ordered, Steady, Typed
<1>2. Told(c) \in Gotten /\ Got(c) \in Gotten
    BY <1>1, GetsType DEF Told
<1>3. c.socket_ready => Told(c) = Got(c)
    BY <1>2, WrittenNothing DEF Told, Ordered, InOrder, ToldInOrder
<1>4. HasSettled(Local)
    BY DEF Ordered, Steady, AtRest
<1> QED BY <1>1, <1>2, <1>3, <1>4, EndsAre DEF Conns, Local

\* What the ticks leave of an event for these invariants.
LEMMA LockStepTurn ==
    ASSUME NEW b \in Conns, c' = Turn(b),
           b.mapped =>
              /\ b.attached /\ b.state["link"].close_requests = 0
              /\ b.state["link"].was_open = b.state["session"].was_open
              /\ b.state["session"].local_open =>
                    b.state["link"].local_open /\ ~ b.state["session"].was_open
              /\ b.scheduled_reconnect > 0 => ~ b.state["session"].remote_open
    PROVE  InLockStep'
<1>1. /\ SameApart(b, c')
      /\ \A e \in Ends : /\ c'.state[e].local_open = b.state[e].local_open
                         /\ c'.state[e].remote_open = b.state[e].remote_open
                         /\ c'.state[e].was_open = b.state[e].was_open
    BY TurnFields
<1>2. b.mapped /\ b.attached /\ b.state["link"].close_requests = 0 =>
          HasSettled(c'.state["session"]) /\ HasSettled(c'.state["link"])
    BY TurnSettles
<1> QED BY <1>1, <1>2, EndsAre DEF InLockStep, SameApart

LEMMA ToldTurn ==
    ASSUME NEW b \in Conns, c' = Turn(b), b.socket_ready => b.unsent = << >>, ~ b.refusable,
           ~ b.ended /\ b.socket_ready => ~ Sent(b, Told(b)).refusable
    PROVE  /\ c'.socket_ready => c'.unsent = << >>
           /\ ~ c'.refusable
           /\ ~ c'.ended => Told(c)' = Sent(b, Told(b))
           /\ b.ended => c'.ended
<1>1. /\ SameApart(b, c') /\ c'.ended = (b.ended \/ (Writes(b) /\ Over(b)))
    BY TurnFields
<1>2. /\ ~ b.ended => Told(c') = Sent(b, Told(b))
      /\ ~ Writes(b) \/ b.ended => Got(c') = Got(b)
      /\ Writes(b) /\ ~ b.ended => Got(c') = Sent(b, Told(b))
      /\ b.socket_ready => c'.unsent = IF Frames(b) = << >> THEN b.unsent ELSE << >>
    BY TurnTold
<1>3. Told(c)' = Told(c')
    BY DEF Told, Written
<1>4. c'.refusable = Got(c').refusable /\ b.refusable = Got(b).refusable
    BY DEF Got
<1> QED BY <1>1, <1>2, <1>3, <1>4 DEF SameApart, Writes

\* What is said to the peer, in the ways the events have it.
LEMMA SentNothing ==
    ASSUME NEW b \in Conns, NEW got, HasSettled(b.state["connection"]),
           b.mapped => /\ HasSettled(b.state["session"])
                       /\ b.attached => HasSettled(b.state["link"])
    PROVE  Sent(b, got) = got
BY DEF Sent, Send, HasSettled

LEMMA SentSessionEnd ==
    ASSUME NEW b \in Conns, NEW got \in Gotten, HasSettled(b.state["connection"]),
           b.mapped, b.attached, HasSettled(b.state["link"]),
           b.state["session"].open_requests = 0, b.state["session"].close_requests = 1,
           "session" \in got.wrote
    PROVE  /\ Sent(b, got).wrote = got.wrote \ {"session", "link"}
           /\ Sent(b, got).refusable = got.refusable
<1>1. Sent(b, got) = AfterFrame(got, CloseOf("session"))
    BY DEF Sent, Send, HasSettled
<1>2. /\ CloseOf("session").open = FALSE /\ CloseOf("session").end = "session"
    BY DEF CloseOf
<1>3. got.wrote \subseteq Ends /\ got.refusable \in BOOLEAN
    BY DEF Gotten
<1>4. \A e \in Ends : e # "session" /\ "session" \notin Within(e) <=> e \notin {"session", "link"}
    BY EndsAre DEF Within
<1>5. {e \in got.wrote : e # "session" /\ "session" \notin Within(e)}
          = got.wrote \ {"session", "link"}
    BY <1>3, <1>4
<1> QED BY <1>1, <1>2, <1>3, <1>5 DEF AfterFrame

LEMMA SentClose ==
    ASSUME NEW b \in Conns, NEW got \in Gotten,
           b.state["connection"].open_requests = 0, b.state["connection"].close_requests = 1,
           b.mapped => /\ HasSettled(b.state["session"])
                       /\ b.attached => HasSettled(b.state["link"]),
           "connection" \in got.wrote
    PROVE  Sent(b, got).wrote = {} /\ Sent(b, got).refusable = got.refusable
<1>1. Sent(b, got) = AfterFrame(got, CloseOf("connection"))
    BY DEF Sent, Send, HasSettled
<1>2. /\ CloseOf("connection").open = FALSE /\ CloseOf("connection").end = "connection"
    BY DEF CloseOf
<1>3. got.wrote \subseteq Ends /\ got.refusable \in BOOLEAN
    BY DEF Gotten
<1>4. \A e \in Ends : ~ (e # "connection" /\ "connection" \notin Within(e))
    BY EndsAre DEF Within
<1>5. {e \in got.wrote : e # "connection" /\ "connection" \notin Within(e)} = {}
    BY <1>3, <1>4
<1> QED BY <1>1, <1>2, <1>3, <1>5 DEF AfterFrame

LEMMA SentBegin ==
    ASSUME NEW b \in Conns, NEW got \in Gotten, HasSettled(b.state["connection"]),
           b.mapped, b.attached,
           b.state["session"].open_requests = 1, b.state["session"].close_requests = 0,
           b.state["link"].open_requests = 1,
           "connection" \in got.wrote, "session" \notin got.wrote, "link" \notin got.wrote
    PROVE  /\ Sent(b, got).wrote = got.wrote \cup {"session", "link"}
           /\ Sent(b, got).refusable = got.refusable
<1> DEFINE begun == AfterFrame(got, OpenOf("session"))
<1>1. Sent(b, got) = AfterFrame(begun, OpenOf("link"))
    BY DEF Sent, Send, HasSettled
<1>2. /\ OpenOf("session").open = TRUE /\ OpenOf("session").end = "session"
      /\ OpenOf("link").open = TRUE /\ OpenOf("link").end = "link"
    BY DEF OpenOf
<1>3. /\ Within("session") = {"connection"} /\ Within("link") = {"connection", "session"}
      /\ got.wrote \subseteq Ends /\ got.refusable \in BOOLEAN
    BY DEF Within, Gotten
<1>4. /\ begun.wrote = got.wrote \cup {"session"}
      /\ begun.refusable = got.refusable
    BY <1>2, <1>3 DEF AfterFrame
<1> HIDE DEF begun
<1> QED BY <1>1, <1>2, <1>3, <1>4 DEF AfterFrame

LEMMA SentAgain ==
    ASSUME NEW b \in Conns, NEW got \in Gotten, got.wrote = {},
           b.state["connection"].open_requests = 1, b.state["connection"].close_requests = 0,
           b.mapped =>
              /\ b.state["session"].close_requests = 0
              /\ b.state["link"].open_requests > 0 => b.state["session"].open_requests > 0
    PROVE  LET isBegun == b.mapped /\ b.state["session"].open_requests > 0
               isAttached == b.mapped /\ b.attached /\ b.state["link"].open_requests > 0
           IN  /\ Sent(b, got).wrote =
                     {"connection"} \cup (IF isBegun THEN {"session"} ELSE {})
                        \cup (IF isAttached THEN {"link"} ELSE {})
               /\ Sent(b, got).refusable = got.refusable
<1> DEFINE isBegun == b.mapped /\ b.state["session"].open_requests > 0
           isAttached == b.mapped /\ b.attached /\ b.state["link"].open_requests > 0
           opened == AfterFrame(got, OpenOf("connection"))
           begun == Send(opened, OpenOf("session"), isBegun)
<1>1. Sent(b, got) = Send(begun, OpenOf("link"), isAttached)
    BY DEF Sent, Send
<1>2. /\ OpenOf("session").open = TRUE /\ OpenOf("session").end = "session"
      /\ OpenOf("link").open = TRUE /\ OpenOf("link").end = "link"
      /\ OpenOf("connection").open = TRUE /\ OpenOf("connection").end = "connection"
    BY DEF OpenOf
<1>3. /\ Within("session") = {"connection"} /\ Within("link") = {"connection", "session"}
      /\ Within("connection") = {} /\ got.refusable \in BOOLEAN
    BY DEF Within, Gotten
<1>4. isAttached => isBegun
    OBVIOUS
<1>5. opened.wrote = {"connection"} /\ opened.refusable = got.refusable
    BY <1>2, <1>3 DEF AfterFrame
<1> HIDE DEF opened, isBegun, isAttached
<1>6. /\ begun.wrote = {"connection"} \cup (IF isBegun THEN {"session"} ELSE {})
      /\ begun.refusable = got.refusable
    BY <1>2, <1>3, <1>5 DEF AfterFrame, Send
<1> HIDE DEF begun
<1>7. /\ Sent(b, got).wrote =
            {"connection"} \cup (IF isBegun THEN {"session"} ELSE {})
               \cup (IF isAttached THEN {"link"} ELSE {})
      /\ Sent(b, got).refusable = got.refusable
  <2>1. CASE isAttached
    BY <1>1, <1>2, <1>3, <1>4, <1>6, <2>1 DEF AfterFrame, Send
  <2>2. CASE ~ isAttached
    BY <1>1, <1>6, <2>2 DEF Send
  <2> QED BY <2>1, <2>2
<1> QED BY <1>7 DEF isBegun, isAttached

\* Only what is written, and what is still to be, matters.
LEMMA ToldSame ==
    ASSUME NEW a \in Conns, NEW b \in Conns, Got(b) = Got(a), b.unsent = a.unsent
    PROVE  Told(b) = Told(a)
<1>1. Got(a) \in Gotten /\ a.unsent \in Seq(EndFrames)
    BY GetsType DEF Conns
<1> QED BY <1>1, WrittenFrom DEF Told

LEMMA OrderedAnswered ==
    ASSUME Ordered, Steady', PeerOpen \/ PeerBegins \/ PeerAttaches
    PROVE  InOrder'
<1>1. PICK e \in Ends : /\ c' = Turn(Answered(c, e)) /\ Receives /\ e \in c.wrote
                        /\ UNCHANGED <<net, closed>>
                        /\ e = "connection" => ~ Local.remote_open
    BY Steps, EndsAre DEF PeerOpen, PeerBegins, PeerAttaches, Frame, Local
<1> DEFINE b == Answered(c, e)
           k == b.state["connection"]
           session == c.state["session"]
           link == c.state["link"]
           x == c.state[e]
           r == RemoteOpened(x)
<1>2. /\ Now = "up" /\ ~ c.ended /\ c.socket_ready /\ ~ IsClosed(Local) /\ Live
      /\ c.scheduled_reconnect = 0 /\ ~ Local.was_open
    BY <1>1, OnReceiving DEF Ordered, Live
<1>3. /\ c \in Conns /\ Local \in EndpointStates /\ HasSettled(Local)
      /\ session \in EndpointStates /\ link \in EndpointStates
      /\ c.state["connection"] = Local /\ x \in EndpointStates
      /\ Told(c) = Got(c) /\ Got(c).wrote = c.wrote
    BY <1>2, OrderedTypes, EndsAre DEF Conns, Got
<1>4. /\ "connection" \in c.wrote <=> Local.local_open
      /\ "session" \in c.wrote => c.mapped /\ session.local_open
      /\ "link" \in c.wrote => "session" \in c.wrote
    BY <1>2, <1>3 DEF Ordered, InOrder, ToldInOrder
<1>5. c.mapped => /\ c.attached /\ HasSettled(session) /\ HasSettled(link)
                  /\ link.was_open = session.was_open
                  /\ session.local_open => link.local_open /\ ~ session.was_open
    BY DEF Ordered, InOrder, InLockStep
<1>6. x.local_open /\ HasSettled(x) /\ (e # "connection" => c.mapped)
    BY <1>1, <1>3, <1>4, <1>5, EndsAre
<1>7. /\ b \in Conns /\ Heard(c, b, k)
      /\ b.closed_with_non_fatal_error = c.closed_with_non_fatal_error
      /\ b.state[e] = Open(r)
      /\ \A o \in Ends : o # e => b.state[o] = c.state[o]
    BY <1>3, AnsweredFields
<1>8. /\ b.state[e].local_open /\ b.state[e].remote_open /\ b.state[e].was_open = x.was_open
      /\ HasSettled(b.state[e])
  <2>1. r \in EndpointStates /\ r = [x EXCEPT !.remote_open = TRUE]
    BY <1>3, EndpointRemote
  <2>2. /\ r.local_open /\ r.remote_open /\ r.was_open = x.was_open /\ HasSettled(r)
    <3> HIDE DEF x, r
    <3> QED BY <1>3, <1>6, <2>1 DEF EndpointStates, HasSettled
  <2> HIDE DEF r, b
  <2> QED BY <1>7, <2>1, <2>2, EndpointOpen DEF HasSettled
<1> HIDE DEF b, x, r
<1>9. /\ HasSettled(k)
      /\ b.mapped => HasSettled(b.state["session"]) /\ HasSettled(b.state["link"])
    BY <1>3, <1>5, <1>7, <1>8, EndsAre DEF Heard
<1>10. c' = b
    BY <1>1, <1>7, <1>9, NothingToSend DEF b
<1>11. /\ Local' = k /\ ~ k.was_open
       /\ Local.local_open => k.local_open
       /\ closed => k = Local
    BY <1>2, <1>3, <1>4, <1>6, <1>7, <1>8, <1>10, EndsAre
       DEF Local, x, Ordered, InOrder, ClosedForGood
<1>12. /\ c'.mapped = c.mapped /\ c'.attached = c.attached
       /\ c'.socket = c.socket /\ c'.socket_ready = c.socket_ready
       /\ c'.scheduled_reconnect = 0 /\ c'.abort_idle = c.abort_idle
       /\ c'.closed_with_non_fatal_error = c.closed_with_non_fatal_error
       /\ c'.transport_error = c.transport_error
       /\ c'.unsent = c.unsent /\ Got(c') = Got(c) /\ Now' = "up"
    BY <1>1, <1>2, <1>7, <1>10 DEF Heard, SameReconnect, Now
<1>13. ~ c'.ended
  <2>1. ~ IsClosed(k)
    BY <1>2, <1>7, <1>8, <1>3, EndsAre DEF IsClosed
  <2> QED BY <1>2, <1>7, <1>10, <2>1 DEF Heard
<1>14. ClosedForGood'
    BY <1>1, <1>11, <1>12, <1>13 DEF Ordered, InOrder, ClosedForGood
<1>15. OpenUnlessLost'
    BY <1>1, <1>2, <1>11, <1>12, <1>13 DEF Ordered, InOrder, OpenUnlessLost
<1>16. InLockStep'
  <2>1. c.mapped => /\ c'.state["session"].was_open = session.was_open
                    /\ c'.state["link"].was_open = link.was_open
                    /\ c'.state["session"].local_open = session.local_open
                    /\ c'.state["link"].local_open = link.local_open
    <3>1. \A o \in Ends : c'.state[o].was_open = c.state[o].was_open
        BY <1>7, <1>8, <1>10 DEF x
    <3>2. \A o \in Ends : o # e => c'.state[o].local_open = c.state[o].local_open
        BY <1>7, <1>10
    <3>3. c'.state[e].local_open = c.state[e].local_open
      <4>1. c'.state[e].local_open \in BOOLEAN /\ c.state[e].local_open \in BOOLEAN
        BY <1>3, <1>7, <1>10 DEF Conns, EndpointStates, x
      <4> QED BY <1>6, <1>8, <1>10, <4>1 DEF x
    <3> QED BY <3>1, <3>2, <3>3, EndsAre
  <2> QED BY <1>5, <1>9, <1>10, <1>12, <2>1 DEF InLockStep
<1>17. ToldInOrder'
  <2>1. c' \in Conns
    BY <1>7, <1>10
  <2>2. Told(c)' = Told(c)
    <3>1. Told(c') = Told(c)
        BY <1>3, <1>12, <2>1, ToldSame
    <3> QED BY <3>1 DEF Told, Written
  <2>3. Local'.local_open <=> Local.local_open
    <3>1. CASE e = "connection"
        BY <1>6, <1>8, <1>11, <3>1 DEF x, Local
    <3>2. CASE e # "connection"
        BY <1>7, <1>11, <3>2, EndsAre DEF Local
    <3> QED BY <3>1, <3>2
  <2>4. /\ "session" \in c.wrote => c'.state["session"].local_open
        /\ c'.mapped /\ IsOpen(c'.state["session"]) /\ ~ closed => "session" \in c.wrote
    <3>1. CASE e = "session"
        BY <1>1, <1>7, <1>8, <1>10, <3>1
    <3>2. CASE e # "session"
      <4>1. c'.state["session"] = session
        BY <1>7, <1>10, <3>2, EndsAre
      <4>2. c.mapped /\ IsOpen(session) /\ ~ closed => "session" \in c.wrote
        BY <1>2, <1>3 DEF Ordered, InOrder, ToldInOrder
      <4> QED BY <1>4, <1>12, <4>1, <4>2
    <3> QED BY <3>1, <3>2
  <2>5. c'.refusable = c.refusable
    BY <1>12 DEF Got
  <2>6. Told(c).wrote = c.wrote
    BY <1>3
  <2> QED BY <1>1, <1>2, <1>4, <1>12, <2>2, <2>3, <2>4, <2>5, <2>6 DEF Ordered, InOrder, ToldInOrder
<1> QED BY <1>14, <1>15, <1>16, <1>17 DEF InOrder

\* Whoever waits for the answer to its close loses nothing, and hears no more frames.
LEMMA NotUndisturbed ==
    ASSUME Ordered, "loss" \notin Liberties, ~ Undisturbed, ~ IsClosed(Local)
    PROVE  ~ closed
BY DEF Undisturbed, Local

\* What holds of what was written where a frame may come.
LEMMA ToldOnReceiving ==
    ASSUME Ordered, Receives
    PROVE  /\ Live /\ Told(c) = Got(c) /\ ~ c.refusable
           /\ c.unsent = << >>
           /\ ~ closed => Local.local_open
           /\ ~ c.closed_with_non_fatal_error /\ ~ c.abort_idle /\ ~ c.transport_error
<1>1. Now = "up" /\ ~ c.ended /\ c.socket_ready /\ ~ IsClosed(Local)
    BY OnReceiving DEF Ordered
<1> QED BY <1>1, OrderedTypes DEF Live, Ordered, InOrder, OpenUnlessLost, ToldInOrder

LEMMA OrderedPeerEnds ==
    ASSUME Ordered, Steady', "loss" \notin Liberties, PeerEnds
    PROVE  InOrder'
<1> DEFINE b == SessionEnded(c)
           t == Turn(b)
           k == b.state["connection"]
           session == c.state["session"]
           r == RemoteClosed(session)
           ending == b.state["session"]
<1>1. /\ c' = Forget(t) /\ Receives /\ UNCHANGED <<net, closed>> /\ session.remote_open
      /\ ~ Undisturbed
    BY Steps DEF PeerEnds
<1>2. /\ Now = "up" /\ ~ c.ended /\ c.socket_ready /\ ~ IsClosed(Local) /\ ~ closed
      /\ ~ Local.was_open /\ c.scheduled_reconnect = 0
    BY <1>1, OnReceiving, NotUndisturbed DEF Ordered
<1>3. /\ c \in Conns /\ HasSettled(Local) /\ c.state["connection"] = Local
      /\ session \in EndpointStates
      /\ Told(c) = Got(c) /\ Told(c) \in Gotten /\ c.unsent = << >> /\ ~ c.refusable
      /\ Local.local_open /\ Live
      /\ ~ c.closed_with_non_fatal_error /\ ~ c.abort_idle /\ ~ c.transport_error
    BY <1>1, <1>2, OrderedTypes, ToldOnReceiving
<1>4. /\ b \in Conns /\ Heard(c, b, k)
      /\ b.closed_with_non_fatal_error = c.closed_with_non_fatal_error
      /\ k = Local /\ ending = Close(r) /\ b.state["link"] = c.state["link"]
    BY <1>3, SessionEndedFields
<1>5. /\ ending.open_requests = session.open_requests
      /\ session.local_open => ending.close_requests = session.close_requests + 1
      /\ ~ session.local_open => ending.close_requests = session.close_requests
  <2>1. r \in EndpointStates /\ r = [session EXCEPT !.remote_open = FALSE]
    BY <1>3, EndpointRemote
  <2>2. /\ r.open_requests = session.open_requests /\ r.close_requests = session.close_requests
        /\ r.local_open = session.local_open
    <3> HIDE DEF session, r
    <3> QED BY <1>3, <2>1 DEF EndpointStates
  <2> HIDE DEF r, b, session
  <2> QED BY <1>4, <2>1, <2>2, EndpointClose
<1> HIDE DEF b
<1>6. /\ SameApart(b, t) /\ t \in Conns
      /\ t.state["connection"].local_open = Local.local_open
      /\ t.state["connection"].remote_open = Local.remote_open
      /\ t.state["connection"].was_open = Local.was_open
      /\ HasSettled(t.state["connection"])
      /\ t.ended = (b.ended \/ (Writes(b) /\ Over(b)))
    BY <1>4, TurnFields, EndsAre
<1>7. ~ b.ended /\ ~ Over(b)
    BY <1>2, <1>3, <1>4 DEF Heard, Over
<1>8. /\ Told(t) = Sent(b, Told(b)) /\ (Frames(b) = << >> => t.unsent = << >>)
      /\ t.unsent = << >>
      /\ Told(b) = Told(c) /\ b.unsent = c.unsent
  <2>1. b.unsent = c.unsent /\ Got(b) = Got(c) /\ b.socket_ready
    BY <1>2, <1>4 DEF Heard
  <2> QED BY <1>3, <1>4, <1>7, <2>1, TurnTold, ToldSame
<1> HIDE DEF t
<1>9. /\ c' \in Conns /\ SameButEnds(t, c') /\ ~ c'.mapped
      /\ Local' = t.state["connection"]
    BY <1>1, <1>6, ForgetFields DEF Local
<1>10. /\ c'.socket = c.socket /\ c'.socket_ready = c.socket_ready /\ ~ c'.ended
       /\ c'.scheduled_reconnect = 0 /\ ~ c'.abort_idle
       /\ ~ c'.closed_with_non_fatal_error /\ ~ c'.transport_error
       /\ c'.unsent = << >> /\ Now' = "up" /\ Live'
       /\ Local'.local_open /\ ~ Local'.was_open
  <2>1. /\ b.socket = c.socket /\ b.socket_ready = c.socket_ready
        /\ b.scheduled_reconnect = 0 /\ ~ b.abort_idle
        /\ ~ b.closed_with_non_fatal_error /\ ~ b.transport_error
    BY <1>2, <1>3, <1>4 DEF Heard, SameReconnect
  <2>2. /\ t.socket = c.socket /\ t.socket_ready = c.socket_ready /\ ~ t.ended
        /\ t.scheduled_reconnect = 0 /\ ~ t.abort_idle
        /\ ~ t.closed_with_non_fatal_error /\ ~ t.transport_error
    BY <1>6, <1>7, <2>1 DEF SameApart
  <2>3. /\ c'.socket = c.socket /\ c'.socket_ready = c.socket_ready /\ ~ c'.ended
        /\ c'.scheduled_reconnect = 0 /\ ~ c'.abort_idle
        /\ ~ c'.closed_with_non_fatal_error /\ ~ c'.transport_error
        /\ c'.unsent = << >>
    BY <1>8, <1>9, <2>2 DEF SameButEnds, SameBelow, SameSocket, SameReconnect, SameTimers
  <2>4. Local'.local_open /\ ~ Local'.was_open
    BY <1>2, <1>3, <1>6, <1>9
  <2>5. Now' = "up"
    BY <1>1, <1>2, <2>3 DEF Now
  <2> QED BY <2>3, <2>4, <2>5 DEF Live
<1>11. /\ Told(c)' = Sent(b, Told(c)) /\ Got(c') = Told(c')
  <2>1. Told(c') = Told(t)
    BY <1>6, <1>9, ToldSame DEF SameButEnds, SameSocket
  <2>2. Got(c') = Told(c')
    BY <1>9, <1>10, GetsType, WrittenNothing DEF Told
  <2> QED BY <1>8, <2>1, <2>2 DEF Told, Written
<1>12. /\ "connection" \in Told(c).wrote /\ ~ Told(c).refusable
       /\ "session" \in Told(c).wrote <=> c.mapped /\ session.local_open
       /\ "link" \in Told(c).wrote => "session" \in Told(c).wrote
    BY <1>1, <1>2, <1>3 DEF Ordered, InOrder, ToldInOrder, IsOpen
<1>13. c.mapped => c.attached /\ HasSettled(session) /\ HasSettled(c.state["link"])
    BY DEF Ordered, InOrder, InLockStep
<1>14. /\ b.mapped = c.mapped /\ b.attached = c.attached
    BY <1>4 DEF Heard
<1>15. /\ "connection" \in Sent(b, Told(c)).wrote /\ ~ Sent(b, Told(c)).refusable
       /\ "session" \notin Sent(b, Told(c)).wrote /\ "link" \notin Sent(b, Told(c)).wrote
  <2>1. CASE c.mapped /\ session.local_open
    <3>1. ending.open_requests = 0 /\ ending.close_requests = 1
        BY <1>5, <1>13, <2>1 DEF HasSettled
    <3> QED BY <1>3, <1>4, <1>12, <1>13, <1>14, <2>1, <3>1, SentSessionEnd
  <2>2. CASE ~ (c.mapped /\ session.local_open)
    <3>1. c.mapped => HasSettled(ending)
        BY <1>5, <1>13, <2>2 DEF HasSettled
    <3>2. Sent(b, Told(c)) = Told(c)
        BY <1>3, <1>4, <1>13, <1>14, <3>1, SentNothing
    <3> QED BY <1>12, <2>2, <3>2
  <2> QED BY <2>1, <2>2
<1>16. ~ c'.refusable
  <2>1. PICK got : got = Sent(b, Told(c))
    OBVIOUS
  <2>2. Got(c') = got /\ ~ got.refusable
    BY <1>11, <1>15, <2>1
  <2>3. Got(c').refusable = c'.refusable
    BY DEF Got
  <2> QED BY <2>2, <2>3
<1> QED BY <1>1, <1>2, <1>9, <1>10, <1>11, <1>15, <1>16
        DEF InOrder, ClosedForGood, OpenUnlessLost, InLockStep, ToldInOrder

LEMMA OrderedPeerCloses ==
    ASSUME Ordered, Steady', "loss" \notin Liberties, NEW fatal \in BOOLEAN, PeerCloses(fatal)
    PROVE  InOrder'
<1> DEFINE b == ConnectionClosed(c, fatal)
           k == b.state["connection"]
           r == RemoteClosed(Local)
<1>1. c' = Turn(b) /\ Receives /\ UNCHANGED <<net, closed>>
    BY Steps DEF PeerCloses, Frame
<1>2. /\ Now = "up" /\ ~ c.ended /\ c.socket_ready
      /\ ~ Local.was_open /\ c.scheduled_reconnect = 0
    BY <1>1, OnReceiving DEF Ordered
<1>3. /\ c \in Conns /\ Local \in EndpointStates /\ HasSettled(Local)
      /\ c.state["connection"] = Local
      /\ Told(c) \in Gotten /\ c.unsent = << >> /\ ~ c.refusable /\ Live
      /\ ~ c.closed_with_non_fatal_error /\ ~ c.abort_idle
      /\ closed => ~ Local.local_open
    BY <1>1, <1>2, OrderedTypes, ToldOnReceiving DEF Ordered, InOrder, ClosedForGood
<1>4. /\ b \in Conns /\ Heard(c, b, r) /\ k = Close(r)
      /\ b.closed_with_non_fatal_error = (c.closed_with_non_fatal_error \/ (~ fatal /\ Local.local_open))
      /\ b.state["session"] = c.state["session"] /\ b.state["link"] = c.state["link"]
    BY <1>3, ConnectionClosedFields
<1>5. /\ r \in EndpointStates /\ HasSettled(r) /\ ~ r.was_open /\ ~ r.remote_open
      /\ r.local_open = Local.local_open
  <2>1. r \in EndpointStates /\ r = [Local EXCEPT !.remote_open = FALSE]
    BY <1>3, EndpointRemote
  <2> HIDE DEF r
  <2> QED BY <1>2, <1>3, <2>1 DEF EndpointStates, HasSettled
<1> HIDE DEF b, r
<1>6. /\ ~ k.was_open /\ ~ k.remote_open /\ ~ k.local_open
      /\ k.open_requests = 0
      /\ Local.local_open => k.close_requests = 1
      /\ ~ Local.local_open => HasSettled(k)
  <2>1. r.open_requests = 0 /\ r.close_requests = 0
    BY <1>5 DEF HasSettled
  <2> QED BY <1>4, <1>5, <2>1, EndpointClose DEF HasSettled
<1>7. Ticked(b, c')
    BY <1>1, <1>4, TurnTicks
<1>8. /\ ~ Local'.was_open /\ ~ Local'.remote_open /\ ~ Local'.local_open
      /\ c'.mapped = c.mapped /\ c'.socket = c.socket /\ c'.socket_ready
      /\ c'.scheduled_reconnect = 0 /\ ~ c'.abort_idle /\ Now' = "up"
      /\ closed => ~ c'.closed_with_non_fatal_error
    BY <1>1, <1>2, <1>3, <1>4, <1>6, <1>7
       DEF Ticked, SameApart, Heard, SameReconnect, Local, Now
<1>9. c'.ended
    BY <1>8 DEF Steady, OnSocket, IsClosed
<1>10. ClosedForGood'
    BY <1>1, <1>8 DEF ClosedForGood
<1>11. OpenUnlessLost'
    BY <1>8, <1>9 DEF OpenUnlessLost, IsClosed
<1>12. c.mapped => /\ c.attached /\ HasSettled(c.state["session"]) /\ HasSettled(c.state["link"])
                   /\ c.state["link"].was_open = c.state["session"].was_open
                   /\ c.state["session"].local_open =>
                         c.state["link"].local_open /\ ~ c.state["session"].was_open
    BY DEF Ordered, InOrder, InLockStep
<1>13. b.mapped = c.mapped /\ b.attached = c.attached /\ b.scheduled_reconnect = 0
          /\ b.unsent = << >> /\ Got(b) = Got(c)
    BY <1>2, <1>3, <1>4 DEF Heard, SameReconnect
<1>14. InLockStep'
    BY <1>1, <1>4, <1>12, <1>13, LockStepTurn DEF HasSettled
<1>15. ~ b.refusable /\ Told(b) = Told(c)
    BY <1>3, <1>4, <1>13, ToldSame DEF Got
<1>16. ~ Sent(b, Told(c)).refusable
  <2>1. /\ "connection" \in Told(c).wrote <=> Local.local_open
        /\ ~ Told(c).refusable
    BY <1>3 DEF Ordered, InOrder, ToldInOrder
  <2>2. CASE Local.local_open
    BY <1>3, <1>4, <1>6, <1>12, <1>13, <2>1, <2>2, SentClose
  <2>3. CASE ~ Local.local_open
    BY <1>4, <1>6, <1>12, <1>13, <2>1, <2>3, SentNothing
  <2> QED BY <2>2, <2>3
<1>17. (c'.socket_ready => c'.unsent = << >>) /\ ~ c'.refusable
    BY <1>1, <1>4, <1>13, <1>15, <1>16, ToldTurn
<1>18. ToldInOrder'
    BY <1>9, <1>17 DEF ToldInOrder, Live
<1> QED BY <1>10, <1>11, <1>14, <1>18 DEF InOrder

LEMMA OrderedListening ==
    ASSUME Ordered, Steady', "loss" \notin Liberties,
           ChunkBegins \/ ChunkGoesOn \/ ProtocolError \/ SaslFails
    PROVE  InOrder'
<1>1. Receives /\ UNCHANGED <<net, closed>>
    BY DEF ChunkBegins, ChunkGoesOn, ProtocolError, SaslFails
<1>2. /\ Now = "up" /\ ~ c.ended /\ ~ IsClosed(Local) /\ c.socket_ready /\ Live
      /\ c \in Conns /\ c.scheduled_reconnect = 0
      /\ ~ c.closed_with_non_fatal_error /\ ~ c.abort_idle /\ ~ c.transport_error
    BY <1>1, OnReceiving, OrderedTypes, ToldOnReceiving DEF Ordered
<1>3. \E size \in Nat : Listened(c, c', size)
  <2>1. c.socket \in Nat /\ c.frame_size \in Nat /\ 0 \in Nat
    BY <1>2, SocketBound DEF Conns, Sockets
  <2>2. \/ Listened(c, c', c.socket) \/ Listened(c, c', c.frame_size) \/ Listened(c, c', 0)
    BY <1>2, ListenedFields DEF ChunkBegins, ChunkGoesOn, ProtocolError, SaslFails
  <2> QED BY <2>1, <2>2
<1>4. /\ c'.transport_error => c'.ended
      /\ closed => ~ c'.ended
  <2>1. CASE ChunkBegins
    <3>1. /\ c'.transport_error = c.transport_error
          /\ c'.ended = (c.ended \/ (IsClosed(Local) /\ HasSettled(Local)))
        BY <1>2, <2>1, ListenedFields DEF ChunkBegins, Local
    <3> QED BY <1>2, <3>1
  <2>2. CASE ChunkGoesOn
    BY <1>2, <2>2, ListenedFields DEF ChunkGoesOn
  <2>3. CASE ProtocolError
    <3>1. ~ closed
        BY <1>2, <2>3, NotUndisturbed DEF ProtocolError, MayLose
    <3> QED BY <1>2, <2>3, <3>1, ListenedFields DEF ProtocolError
  <2>4. CASE SaslFails
    <3>1. ~ closed
        BY <1>2, <2>4 DEF SaslFails, Local, IsClosed, Ordered, InOrder, ClosedForGood
    <3> QED BY <1>2, <2>4, <3>1, ListenedFields DEF SaslFails
  <2> QED BY <2>1, <2>2, <2>3, <2>4
<1>5. /\ Local' = Local /\ c'.mapped = c.mapped /\ c'.attached = c.attached
      /\ c'.state = c.state
      /\ c'.socket = c.socket /\ c'.socket_ready = c.socket_ready /\ Now' = Now
      /\ c'.scheduled_reconnect = c.scheduled_reconnect /\ c'.abort_idle = c.abort_idle
      /\ c'.closed_with_non_fatal_error = c.closed_with_non_fatal_error
      /\ c'.unsent = c.unsent /\ Got(c') = Got(c)
    BY <1>1, <1>3 DEF Listened, SameEnds, SameReconnect, Local, Now
<1>6. Told(c)' = Told(c)
  <2>1. c' \in Conns
    BY DEF Steady, Typed
  <2>2. Told(c') = Told(c)
    BY <1>2, <1>5, <2>1, ToldSame
  <2> QED BY <2>2 DEF Told, Written
<1>7. ClosedForGood' /\ OpenUnlessLost' /\ InLockStep'
    BY <1>1, <1>2, <1>4, <1>5
       DEF Ordered, InOrder, ClosedForGood, OpenUnlessLost, InLockStep
<1>8. ToldInOrder'
    BY <1>1, <1>2, <1>5, <1>6 DEF Ordered, InOrder, ToldInOrder, Live, Got
<1> QED BY <1>7, <1>8 DEF InOrder

LEMMA OrderedIdle ==
    ASSUME Ordered, Steady', "loss" \notin Liberties, Idle
    PROVE  InOrder'
<1>1. /\ c \in Conns /\ Local \in EndpointStates /\ HasSettled(Local)
      /\ c.state["connection"] = Local /\ Told(c) \in Gotten
      /\ c.heartbeat_in = "running" /\ UNCHANGED <<net, closed>> /\ ~ Undisturbed
    BY OrderedTypes DEF Idle, MayLose
<1>2. Now # "up" => c.socket_ready /\ IsClosed(Local)
    BY <1>1 DEF Ordered, Steady, AtRest, Conns
<1>3. CASE IsClosed(Local)
  <2>1. c' = [c EXCEPT !.heartbeat_in = "spent"]
    BY <1>3, Steps DEF Local
  <2>2. /\ SameBelow(c, c') /\ SameSocket(c, c') /\ SameReconnect(c, c') /\ SameEnds(c, c')
        /\ Local' = Local /\ c'.socket_ready = c.socket_ready
        /\ c'.abort_idle = c.abort_idle
        /\ c'.closed_with_non_fatal_error = c.closed_with_non_fatal_error
    BY <1>1, <2>1 DEF Conns, SameBelow, SameSocket, SameReconnect, SameEnds, Local, Got
  <2>3. Now' = Now
    BY <1>1, <2>2 DEF Now, SameSocket
  <2>4. Told(c)' = Told(c)
    <3>1. c' \in Conns
        BY DEF Steady, Typed
    <3>2. Told(c') = Told(c)
        BY <1>1, <2>2, <3>1, ToldSame DEF SameSocket
    <3> QED BY <3>2 DEF Told, Written
  <2>5. ClosedForGood' /\ OpenUnlessLost' /\ InLockStep'
    BY <1>1, <2>2, <2>3
       DEF Ordered, InOrder, ClosedForGood, OpenUnlessLost, InLockStep,
           SameBelow, SameSocket, SameReconnect, SameEnds
  <2>6. ToldInOrder'
    BY <1>1, <2>2, <2>3, <2>4
       DEF Ordered, InOrder, ToldInOrder, Live, SameSocket, SameEnds, Got
  <2> QED BY <2>5, <2>6 DEF InOrder
<1>4. CASE ~ IsClosed(Local)
  <2> DEFINE b == Silenced(c)
             k == b.state["connection"]
  <2>1. c' = Turn(b) /\ ~ closed /\ Now = "up"
    BY <1>1, <1>2, <1>4, Steps, NotUndisturbed DEF Local
  <2>2. /\ ~ Local.was_open /\ c.socket_ready /\ c.scheduled_reconnect = 0
        /\ c.unsent = << >> /\ ~ c.refusable
    BY <1>1, <2>1, OrderedTypes
       DEF Ordered, Steady, SocketsInTurn, AtRest, InOrder, ToldInOrder
  <2>3. /\ b \in Conns /\ SameBelow(c, b) /\ SameSocket(c, b)
        /\ SameReconnect(c, b) /\ b.socket_ready = c.socket_ready
        /\ b.abort_idle /\ b.closed_with_non_fatal_error /\ k = Close(Local)
        /\ b.mapped = c.mapped /\ b.attached = c.attached
        /\ b.state["session"] = c.state["session"] /\ b.state["link"] = c.state["link"]
    BY <1>1, SilencedFields
  <2> HIDE DEF b
  <2>4. Ticked(b, c')
    BY <2>1, <2>3, TurnTicks
  <2>5. /\ ~ k.local_open /\ k.was_open = Local.was_open /\ k.open_requests = 0
        /\ Local.local_open => k.close_requests = 1
        /\ ~ Local.local_open => HasSettled(k)
    <3>1. Local.open_requests = 0 /\ Local.close_requests = 0
        BY <1>1 DEF HasSettled
    <3> QED BY <1>1, <2>3, <3>1, EndpointClose DEF HasSettled
  <2>6. c'.ended
    <3>1. Local.local_open => Frames(b) # << >>
        BY <2>3, <2>5, ClosingFrames DEF HasSettled
    <3>2. Over(b)
        BY <2>3 DEF Over
    <3>3. Local.local_open \/ c.ended
        BY <2>1 DEF Ordered, InOrder, OpenUnlessLost
    <3> QED BY <2>2, <2>3, <2>4, <3>1, <3>2, <3>3 DEF Ticked, Writes, SameSocket
  <2>7. /\ ~ Local'.was_open /\ ~ Local'.local_open
        /\ c'.socket = c.socket /\ c'.socket_ready
        /\ c'.scheduled_reconnect = 0 /\ Now' = "up"
        /\ c'.closed_with_non_fatal_error
    BY <1>1, <2>1, <2>2, <2>3, <2>4, <2>5
       DEF Ticked, SameApart, SameSocket, SameReconnect, Local, Now
  <2>8. ClosedForGood' /\ OpenUnlessLost'
    BY <1>1, <2>1, <2>6, <2>7 DEF ClosedForGood, OpenUnlessLost
  <2>9. c.mapped => /\ c.attached /\ HasSettled(c.state["session"]) /\ HasSettled(c.state["link"])
                    /\ c.state["link"].was_open = c.state["session"].was_open
                    /\ c.state["session"].local_open =>
                          c.state["link"].local_open /\ ~ c.state["session"].was_open
    BY DEF Ordered, InOrder, InLockStep
  <2>10. b.scheduled_reconnect = 0 /\ b.unsent = << >> /\ Got(b) = Got(c) /\ b.ended = c.ended
    BY <2>2, <2>3 DEF SameSocket, SameReconnect
  <2>11. InLockStep'
    BY <2>1, <2>3, <2>9, <2>10, LockStepTurn DEF HasSettled
  <2>12. ~ b.refusable /\ Told(b) = Told(c)
    BY <1>1, <2>2, <2>3, <2>10, ToldSame DEF Got
  <2>13. ~ b.ended => ~ Sent(b, Told(c)).refusable
    <3>1. SUFFICES ASSUME ~ c.ended
                   PROVE  ~ Sent(b, Told(c)).refusable
        BY <2>10
    <3>2. /\ Local.local_open /\ "connection" \in Told(c).wrote
          /\ ~ Told(c).refusable
        BY <2>1, <3>1 DEF Ordered, InOrder, OpenUnlessLost, ToldInOrder, Live
    <3> QED BY <1>1, <2>3, <2>5, <2>9, <3>2, SentClose
  <2>14. (c'.socket_ready => c'.unsent = << >>) /\ ~ c'.refusable
    BY <2>1, <2>3, <2>10, <2>12, <2>13, ToldTurn
  <2>15. ToldInOrder'
    BY <2>6, <2>14 DEF ToldInOrder, Live
  <2> QED BY <2>8, <2>11, <2>15 DEF InOrder
<1> QED BY <1>3, <1>4

\* A call of the application that leaves the connection's own end alone.
LEMMA OrderedCalledInside ==
    ASSUME Ordered, NEW b, CalledFor(b), c' = Turn(b), UNCHANGED net, ~ closed, closed' = closed,
           b.state["connection"] = Local, b.unsent = c.unsent, Got(b) = Got(c)
    PROVE  /\ ClosedForGood' /\ OpenUnlessLost'
           /\ c'.mapped = b.mapped /\ Told(b) = Told(c)
           /\ Live' => Live
           /\ Local'.local_open = Local.local_open
           /\ c.socket_ready /\ ~ c.ended => Live
<1>1. Ticked(b, c') /\ b \in Conns
    BY TurnTicks DEF CalledFor
<1>2. /\ c \in Conns /\ c.ended \in BOOLEAN /\ c.scheduled_reconnect \in 0..1
    BY OrderedTypes
<1>3. /\ Local'.local_open = Local.local_open
      /\ Local'.remote_open = Local.remote_open /\ Local'.was_open = Local.was_open
      /\ c'.socket = c.socket /\ c'.socket_ready = c.socket_ready
      /\ c'.scheduled_reconnect = c.scheduled_reconnect /\ c'.abort_idle = c.abort_idle
      /\ c'.closed_with_non_fatal_error = c.closed_with_non_fatal_error
      /\ c'.transport_error = c.transport_error /\ c'.mapped = b.mapped
    BY <1>1 DEF CalledFor, Ticked, SameApart, SameReconnect, SameTimers, Local
<1>4. Now' = Now
    BY <1>3 DEF Now
<1>5. /\ c.ended => c'.ended
      /\ ~ c.socket_ready => c'.ended = c.ended
    BY <1>1, <1>2 DEF CalledFor, Ticked, Writes
<1>6. ~ c.socket_ready \/ Now # "connecting"
    BY DEF Ordered, Steady, SocketsInTurn
<1>7. Told(b) = Told(c)
    BY <1>1, <1>2, ToldSame
<1>8. IsClosed(Local') <=> IsClosed(Local)
    BY <1>3 DEF IsClosed
<1>9. OpenUnlessLost'
    BY <1>3, <1>4, <1>5, <1>6, <1>8 DEF Ordered, InOrder, OpenUnlessLost
<1>10. c.socket_ready /\ ~ c.ended => Live
    BY DEF Ordered, InOrder, OpenUnlessLost, Live
<1> QED BY <1>3, <1>4, <1>5, <1>7, <1>9, <1>10 DEF ClosedForGood, Live

LEMMA OrderedOpensLink ==
    ASSUME Ordered, OpenLink
    PROVE  InOrder'
<1> DEFINE b == Linked(c)
           k == b.state["connection"]
           session == b.state["session"]
           link == b.state["link"]
<1>1. /\ c' = Turn(b) /\ UNCHANGED <<net, closed, attempts>> /\ ~ closed
      /\ ~ c.attached /\ (Local.local_open \/ Local.was_open)
    BY Steps DEF OpenLink, Call, Local
<1>2. /\ c \in Conns /\ Local \in EndpointStates /\ HasSettled(Local) /\ Told(c) \in Gotten
      /\ c.state["connection"] = Local /\ c.ended \in BOOLEAN
    BY OrderedTypes
<1>3. /\ b \in Conns /\ SameSocket(c, b) /\ b.attached /\ b.socket_ready = c.socket_ready
      /\ SameReconnect(c, b)
      /\ b.mapped = (c.mapped \/ ~ c.ssn)
      /\ k = Local /\ link = Open(Fresh)
      /\ session = IF c.ssn THEN c.state["session"] ELSE Open(Fresh)
    BY <1>2, LinkedFields
<1>4. CalledFor(b)
    BY <1>2, LinkedFields DEF CalledFor, SameSocket, Local
<1> HIDE DEF b
<1>5. Got(b) = Got(c) /\ b.unsent = c.unsent /\ b.ended = c.ended
    BY <1>3 DEF SameSocket
<1>6. /\ ClosedForGood' /\ OpenUnlessLost'
      /\ c'.mapped = b.mapped /\ Told(b) = Told(c)
      /\ Live' => Live
      /\ Local'.local_open = Local.local_open
      /\ c.socket_ready /\ ~ c.ended => Live
    BY <1>1, <1>3, <1>4, <1>5, OrderedCalledInside
<1>7. ~ c.mapped
    BY <1>1 DEF Ordered, InOrder, InLockStep
<1>8. /\ link.local_open /\ ~ link.remote_open /\ ~ link.was_open
      /\ link.open_requests = 1 /\ link.close_requests = 0
      /\ ~ c.ssn => session = link
  <2>1. Fresh.open_requests = 0 /\ Fresh.close_requests = 0
    BY DEF Fresh
  <2> QED BY <1>3, <2>1, EndpointFresh, EndpointOpen
<1>9. InLockStep'
    BY <1>1, <1>3, <1>7, <1>8, LockStepTurn
<1>10. Live =>
        /\ Local.local_open /\ "connection" \in Told(c).wrote
        /\ "session" \notin Told(c).wrote /\ "link" \notin Told(c).wrote
        /\ ~ Told(c).refusable
  <2>1. Live => ~ Local.was_open
    BY DEF Ordered, Steady, AtRest, Live
  <2> QED BY <1>1, <1>7, <2>1 DEF Ordered, InOrder, ToldInOrder
<1>11. CASE c.ssn
  <2>1. Sent(b, Told(c)) = Told(c) /\ ~ b.mapped
    BY <1>2, <1>3, <1>7, <1>11, SentNothing
  <2>2. /\ ~ c'.ended => Told(c)' = Told(c)
        /\ ~ c'.refusable /\ (c'.socket_ready => c'.unsent = << >>)
    BY <1>1, <1>3, <1>5, <1>6, <1>10, <2>1, ToldTurn DEF Ordered, InOrder, ToldInOrder, Got
  <2>3. ~ c'.mapped
    BY <1>6, <2>1
  <2>4. ToldInOrder'
    BY <1>6, <1>10, <2>2, <2>3 DEF ToldInOrder, Live
  <2> QED BY <1>6, <1>9, <2>4 DEF InOrder
<1>12. CASE ~ c.ssn
  <2>1. Live => /\ Sent(b, Told(c)).wrote = Told(c).wrote \cup {"session", "link"}
                /\ Sent(b, Told(c)).refusable = Told(c).refusable
    BY <1>2, <1>3, <1>8, <1>10, <1>12, SentBegin
  <2>2. /\ ~ c'.ended => Told(c)' = Sent(b, Told(c))
        /\ ~ c'.refusable /\ (c'.socket_ready => c'.unsent = << >>)
    BY <1>1, <1>3, <1>5, <1>6, <1>10, <2>1, ToldTurn DEF Ordered, InOrder, ToldInOrder, Got
  <2>3. c'.mapped /\ c'.state["session"].local_open
    <3>1. c'.state["session"].local_open = session.local_open
        BY <1>1, <1>3, TurnFields, EndsAre
    <3> QED BY <1>3, <1>6, <1>8, <1>12, <3>1
  <2>4. ToldInOrder'
    BY <1>6, <1>10, <2>1, <2>2, <2>3 DEF ToldInOrder, Live
  <2> QED BY <1>6, <1>9, <2>4 DEF InOrder
<1> QED BY <1>11, <1>12

LEMMA OrderedClosesSession ==
    ASSUME Ordered, CloseSession
    PROVE  InOrder'
<1> DEFINE b == ShutSession(c)
           k == b.state["connection"]
           session == c.state["session"]
           link == c.state["link"]
           ending == b.state["session"]
<1>1. /\ c' = Turn(b) /\ UNCHANGED <<net, closed, attempts>> /\ ~ closed
      /\ c.mapped /\ session.local_open /\ session.remote_open /\ IsOpen(session)
    BY Steps DEF CloseSession, Call, IsOpen
<1>2. /\ c \in Conns /\ Local \in EndpointStates /\ HasSettled(Local) /\ Told(c) \in Gotten
      /\ session \in EndpointStates
      /\ c.state["connection"] = Local /\ c.ended \in BOOLEAN
    BY OrderedTypes
<1>3. /\ b \in Conns /\ SameButEnds(c, b) /\ b.mapped = c.mapped /\ b.attached = c.attached
      /\ k = Local /\ b.state["link"] = link /\ ending = Close(session)
    BY <1>2, ShutFields
<1>4. CalledFor(b)
    BY <1>2, ShutFields DEF CalledFor, SameButEnds, SameBelow, SameSocket, Local
<1> HIDE DEF b
<1>5. /\ Got(b) = Got(c) /\ b.unsent = c.unsent /\ b.ended = c.ended
      /\ b.socket_ready = c.socket_ready /\ b.scheduled_reconnect = c.scheduled_reconnect
    BY <1>3 DEF SameButEnds, SameSocket, SameReconnect
<1>6. /\ ClosedForGood' /\ OpenUnlessLost'
      /\ c'.mapped = b.mapped /\ Told(b) = Told(c)
      /\ Live' => Live
      /\ Local'.local_open = Local.local_open
      /\ c.socket_ready /\ ~ c.ended => Live
    BY <1>1, <1>3, <1>4, <1>5, OrderedCalledInside
<1>7. /\ c.attached /\ HasSettled(session) /\ HasSettled(link)
      /\ link.was_open = session.was_open /\ ~ c.scheduled_reconnect > 0
    BY <1>1 DEF Ordered, InOrder, InLockStep
<1>8. /\ ~ ending.local_open /\ ending.was_open = session.was_open
      /\ ending.open_requests = 0 /\ ending.close_requests = 1
  <2>1. session.open_requests = 0 /\ session.close_requests = 0
    BY <1>7 DEF HasSettled
  <2> QED BY <1>1, <1>2, <1>3, <2>1, EndpointClose
<1>9. InLockStep'
    BY <1>1, <1>3, <1>5, <1>7, <1>8, LockStepTurn DEF HasSettled
<1>10. Live =>
        /\ Local.local_open /\ "connection" \in Told(c).wrote
        /\ "session" \in Told(c).wrote /\ ~ Told(c).refusable
    BY <1>1 DEF Ordered, InOrder, ToldInOrder
<1>11. Live => /\ Sent(b, Told(c)).wrote = Told(c).wrote \ {"session", "link"}
               /\ Sent(b, Told(c)).refusable = Told(c).refusable
    BY <1>1, <1>2, <1>3, <1>7, <1>8, <1>10, SentSessionEnd
<1>12. /\ ~ c'.ended => Told(c)' = Sent(b, Told(c))
       /\ ~ c'.refusable /\ (c'.socket_ready => c'.unsent = << >>)
    BY <1>1, <1>3, <1>5, <1>6, <1>10, <1>11, ToldTurn DEF Ordered, InOrder, ToldInOrder, Got
<1>13. ~ c'.state["session"].local_open
  <2>1. c'.state["session"].local_open = ending.local_open
    BY <1>1, <1>3, TurnFields, EndsAre
  <2> QED BY <1>8, <2>1
<1>14. ToldInOrder'
    BY <1>6, <1>10, <1>11, <1>12, <1>13 DEF ToldInOrder, Live, IsOpen
<1> QED BY <1>6, <1>9, <1>14 DEF InOrder

LEMMA OrderedRemoves ==
    ASSUME Ordered, RemoveSession
    PROVE  InOrder'
<1>1. /\ c \in Conns /\ c' = Forget(c) /\ c.scheduled_reconnect > 0
      /\ UNCHANGED <<net, closed>> /\ ~ closed
    BY OrderedTypes DEF RemoveSession, Call
<1>2. SameButEnds(c, c') /\ Local' = Local /\ ~ c'.mapped
    BY <1>1, ForgetFields DEF Local
<1>3. /\ c'.socket = c.socket /\ c'.socket_ready = c.socket_ready
      /\ c'.scheduled_reconnect = c.scheduled_reconnect
      /\ c'.ended = c.ended /\ c'.unsent = c.unsent /\ c'.refusable = c.refusable
      /\ Now' = Now
    BY <1>1, <1>2 DEF SameButEnds, SameBelow, SameSocket, SameReconnect, SameTimers, Got, Now
<1>4. Now \notin {"connecting", "up"} /\ ~ c.socket_ready
    BY <1>1 DEF Ordered, Steady, SocketsInTurn
<1>5. ClosedForGood' /\ OpenUnlessLost' /\ InLockStep' /\ ToldInOrder'
    BY <1>1, <1>2, <1>3, <1>4
       DEF Ordered, InOrder, ClosedForGood, OpenUnlessLost, InLockStep, ToldInOrder, Live
<1> QED BY <1>5 DEF InOrder

LEMMA OrderedCloses ==
    ASSUME Ordered, "loss" \notin Liberties, CloseConnection
    PROVE  InOrder'
<1> DEFINE b == ShutConnection(c)
           k == b.state["connection"]
           session == c.state["session"]
           link == c.state["link"]
<1>1. /\ c' = Turn(b) /\ UNCHANGED net /\ ~ closed /\ closed' = TRUE
      /\ Local.local_open /\ Local.remote_open /\ Receives
    BY Steps DEF CloseConnection, Call, Local, IsOpen
<1>2. /\ Now = "up" /\ ~ c.ended /\ c.socket_ready
      /\ ~ Local.was_open /\ c.scheduled_reconnect = 0
    BY <1>1, OnReceiving DEF Ordered
<1>3. /\ c \in Conns /\ Local \in EndpointStates /\ HasSettled(Local)
      /\ c.state["connection"] = Local
      /\ Told(c) \in Gotten /\ c.unsent = << >> /\ ~ c.refusable /\ Live
      /\ ~ c.closed_with_non_fatal_error /\ ~ c.abort_idle /\ ~ c.transport_error
    BY <1>1, OrderedTypes, ToldOnReceiving
<1>4. /\ b \in Conns /\ SameButEnds(c, b) /\ b.mapped = c.mapped /\ b.attached = c.attached
      /\ k = Close(Local) /\ b.state["session"] = session /\ b.state["link"] = link
    BY <1>3, ShutFields
<1> HIDE DEF b
<1>5. /\ ~ k.local_open /\ k.remote_open /\ ~ k.was_open
      /\ k.open_requests = 0 /\ k.close_requests = 1
  <2>1. Local.open_requests = 0 /\ Local.close_requests = 0
    BY <1>3 DEF HasSettled
  <2> QED BY <1>1, <1>2, <1>3, <1>4, <2>1, EndpointClose
<1>6. Ticked(b, c')
    BY <1>1, <1>4, TurnTicks
<1>7. /\ b.socket = c.socket /\ b.socket_ready /\ ~ b.ended
      /\ b.scheduled_reconnect = 0 /\ ~ b.abort_idle
      /\ ~ b.closed_with_non_fatal_error /\ ~ b.transport_error
      /\ b.unsent = << >> /\ Got(b) = Got(c)
    BY <1>2, <1>3, <1>4
       DEF SameButEnds, SameBelow, SameSocket, SameReconnect, SameTimers
<1>8. ~ Over(b)
    BY <1>5, <1>7 DEF Over, IsClosed
<1>9. /\ c'.socket = c.socket /\ c'.socket_ready /\ ~ c'.ended
      /\ c'.scheduled_reconnect = 0 /\ ~ c'.abort_idle
      /\ ~ c'.closed_with_non_fatal_error /\ ~ c'.transport_error
      /\ ~ Local'.local_open /\ Local'.remote_open /\ ~ Local'.was_open
    BY <1>5, <1>6, <1>7, <1>8 DEF Ticked, SameApart, Local
<1>10. Now' = "up"
    BY <1>1, <1>2, <1>9 DEF Now
<1>11. ClosedForGood' /\ OpenUnlessLost'
    BY <1>1, <1>9, <1>10 DEF ClosedForGood, OpenUnlessLost
<1>12. c.mapped => /\ c.attached /\ HasSettled(session) /\ HasSettled(link)
                   /\ link.was_open = session.was_open
                   /\ session.local_open => link.local_open /\ ~ session.was_open
    BY DEF Ordered, InOrder, InLockStep
<1>13. InLockStep'
    BY <1>1, <1>4, <1>7, <1>12, LockStepTurn DEF HasSettled
<1>14. /\ Sent(b, Told(c)).wrote = {} /\ ~ Sent(b, Told(c)).refusable
  <2>1. "connection" \in Told(c).wrote /\ ~ Told(c).refusable
    BY <1>1, <1>3 DEF Ordered, InOrder, ToldInOrder
  <2> QED BY <1>3, <1>4, <1>5, <1>12, <2>1, SentClose
<1>15. ~ b.refusable /\ Told(b) = Told(c)
    BY <1>3, <1>4, <1>7, ToldSame DEF Got
<1>16. /\ Told(c)' = Sent(b, Told(c))
       /\ ~ c'.refusable /\ (c'.socket_ready => c'.unsent = << >>)
    BY <1>1, <1>4, <1>7, <1>9, <1>14, <1>15, ToldTurn
<1>17. ToldInOrder'
    BY <1>1, <1>9, <1>14, <1>16 DEF ToldInOrder
<1> QED BY <1>11, <1>13, <1>17 DEF InOrder

LEMMA OrderedReconnects ==
    ASSUME Ordered, Steady', Reconnect
    PROVE  InOrder'
<1> DEFINE b == Restarted(c)
           k == b.state["connection"]
           session == c.state["session"]
           link == c.state["link"]
           again == b.state["session"]
           attached == b.state["link"]
<1>1. /\ c' = Turn(b) /\ c.scheduled_reconnect > 0 /\ c.socket < MaxSockets
      /\ net' = [net EXCEPT ![c.socket + 1] = "connecting"] /\ closed' = closed
    BY Steps DEF Reconnect
<1>2. /\ c \in Conns /\ net \in Nets /\ c.socket \in Sockets
      /\ Local \in EndpointStates /\ HasSettled(Local) /\ c.state["connection"] = Local
      /\ session \in EndpointStates /\ link \in EndpointStates
    BY OrderedTypes
<1>3. /\ Now # "up" /\ ~ c.socket_ready /\ ~ c.transport_error
      /\ Local.was_open /\ ~ Local.local_open /\ ~ closed /\ ~ c.refusable
    BY <1>1
       DEF Ordered, Steady, SocketsInTurn, AttemptsCounted, InOrder, ClosedForGood,
           OpenUnlessLost, ToldInOrder
<1>4. ~ Local.remote_open /\ ~ c.abort_idle /\ ~ c.closed_with_non_fatal_error
    BY <1>3 DEF Ordered, Steady, AtRest
<1>5. /\ b \in Conns /\ SameBelow(c, b) /\ SameTimers(c, b)
      /\ b.mapped = c.mapped /\ b.attached = c.attached
      /\ \A e \in Ends : b.state[e] =
            IF e \in Reached(c) THEN Reconnected(c.state[e]) ELSE c.state[e]
      /\ b.socket_ready = c.socket_ready
      /\ b.socket = c.socket + 1 /\ ~ b.ended
      /\ b.unsent = << >> /\ b.wrote = {} /\ b.refusable = c.refusable
      /\ b.scheduled_reconnect = 0
    BY <1>1, <1>2, RestartedFields
<1>6. /\ k = Reconnected(Local)
      /\ again = IF c.mapped THEN Reconnected(session) ELSE session
      /\ attached = IF c.mapped /\ c.attached THEN Reconnected(link) ELSE link
  <2>1. /\ "connection" \in Reached(c)
        /\ "session" \in Reached(c) <=> c.mapped
        /\ "link" \in Reached(c) <=> c.mapped /\ c.attached
    BY DEF Reached
  <2> HIDE DEF b
  <2> QED BY <1>2, <1>5, <2>1, EndsAre
<1> HIDE DEF b
<1>7. /\ k.local_open /\ ~ k.was_open /\ ~ k.remote_open
      /\ k.open_requests = 1 /\ k.close_requests = 0
  <2>1. Local.open_requests = 0 /\ Local.close_requests = 0
    BY <1>2 DEF HasSettled
  <2> QED BY <1>2, <1>3, <1>4, <1>6, <2>1, EndpointReconnected
<1>8. c.mapped => /\ c.attached /\ HasSettled(session) /\ HasSettled(link)
                  /\ link.was_open = session.was_open
                  /\ session.local_open => link.local_open /\ ~ session.was_open
                  /\ ~ session.remote_open
    BY <1>1 DEF Ordered, InOrder, InLockStep
<1>9. c.mapped => /\ ~ again.was_open /\ ~ attached.was_open /\ ~ again.remote_open
                  /\ again.close_requests = 0 /\ attached.close_requests = 0
                  /\ again.local_open => attached.local_open
                  /\ attached.open_requests > 0 => again.open_requests > 0
                  /\ again.open_requests > 0 => again.local_open
  <2>1. SUFFICES ASSUME c.mapped
                 PROVE  /\ ~ again.was_open /\ ~ attached.was_open /\ ~ again.remote_open
                        /\ again.close_requests = 0 /\ attached.close_requests = 0
                        /\ again.local_open => attached.local_open
                        /\ attached.open_requests > 0 => again.open_requests > 0
                        /\ again.open_requests > 0 => again.local_open
    OBVIOUS
  <2>2. again = Reconnected(session) /\ attached = Reconnected(link)
    BY <1>6, <1>8, <2>1
  <2>3. /\ session.open_requests = 0 /\ session.close_requests = 0
        /\ link.open_requests = 0 /\ link.close_requests = 0
    BY <1>8, <2>1 DEF HasSettled
  <2>4. CASE session.was_open
    <3>1. ~ session.local_open /\ link.was_open
        BY <1>8, <2>1, <2>4
    <3>2. again.open_requests = 1
        BY <1>2, <2>2, <2>3, <2>4, <3>1, EndpointReconnected
    <3> QED BY <1>2, <1>8, <2>1, <2>2, <2>3, <2>4, <3>1, <3>2, EndpointReconnected
  <2>5. CASE ~ session.was_open
    <3>1. again = session /\ attached = link
        BY <1>2, <1>8, <2>1, <2>2, <2>5, EndpointReconnected
    <3> QED BY <1>8, <2>1, <2>3, <2>5, <3>1
  <2> QED BY <2>4, <2>5
<1>10. Told(b) = Got(b) /\ Got(b) \in Gotten /\ Got(b).wrote = {} /\ ~ Got(b).refusable
  <2>1. Got(b) \in Gotten
    BY <1>5, GetsType
  <2> QED BY <1>3, <1>5, <2>1, WrittenNothing DEF Told, Got
<1>11. LET isBegun == b.mapped /\ again.open_requests > 0
           isAttached == b.mapped /\ b.attached /\ attached.open_requests > 0
       IN  /\ Sent(b, Got(b)).wrote =
                 {"connection"} \cup (IF isBegun THEN {"session"} ELSE {})
                    \cup (IF isAttached THEN {"link"} ELSE {})
           /\ ~ Sent(b, Got(b)).refusable
    BY <1>5, <1>7, <1>9, <1>10, SentAgain
<1>12. Ticked(b, c') /\ ~ Writes(b)
    BY <1>1, <1>3, <1>5, TurnTicks DEF Writes
<1>13. /\ c'.socket = c.socket + 1 /\ ~ c'.socket_ready /\ c'.scheduled_reconnect = 0
       /\ ~ c'.ended /\ ~ c'.transport_error
       /\ Local'.local_open /\ ~ Local'.was_open
       /\ c'.mapped = c.mapped
    BY <1>3, <1>5, <1>7, <1>12 DEF Ticked, SameApart, SameBelow, Local
<1>14. Now' = "connecting"
  <2>1. c.socket + 1 \in Sockets
    BY <1>1, <1>2, SocketBound DEF Sockets
  <2> QED BY <1>1, <1>2, <1>13, <2>1 DEF Now, Nets
<1>15. ClosedForGood' /\ OpenUnlessLost'
    BY <1>1, <1>3, <1>13, <1>14 DEF ClosedForGood, OpenUnlessLost
<1>16. InLockStep'
  <2>1. b.mapped =>
              /\ b.attached /\ b.state["link"].close_requests = 0
              /\ b.state["link"].was_open = b.state["session"].was_open
              /\ b.state["session"].local_open =>
                    b.state["link"].local_open /\ ~ b.state["session"].was_open
              /\ b.scheduled_reconnect > 0 => ~ b.state["session"].remote_open
    <3>1. c.mapped => again \in EndpointStates /\ attached \in EndpointStates
        BY <1>5, EndsAre DEF Conns
    <3>2. c.mapped => attached.was_open = again.was_open
        BY <1>9, <3>1 DEF EndpointStates
    <3> QED BY <1>5, <1>8, <1>9, <3>2
  <2> QED BY <1>1, <1>5, <2>1, LockStepTurn
<1>17. /\ Told(c)' = Sent(b, Got(b))
       /\ ~ c'.refusable /\ (c'.socket_ready => c'.unsent = << >>)
    BY <1>1, <1>3, <1>5, <1>10, <1>11, <1>13, ToldTurn
<1>18. c.mapped => /\ again.open_requests > 0 => c'.state["session"].local_open
                   /\ ~ c'.state["session"].remote_open
  <2>1. /\ c'.state["session"].local_open = again.local_open
        /\ c'.state["session"].remote_open = again.remote_open
    BY <1>1, <1>5, TurnFields, EndsAre
  <2> QED BY <1>9, <2>1
<1>19. ToldInOrder'
    BY <1>5, <1>9, <1>11, <1>13, <1>17, <1>18 DEF ToldInOrder, IsOpen
<1> QED BY <1>15, <1>16, <1>19 DEF InOrder

LEMMA OrderedConnects ==
    ASSUME Ordered, Steady', NEW s \in Sockets, SocketConnected(s)
    PROVE  InOrder'
<1> DEFINE b == Connected(c)
<1>1. /\ net[s] = "connecting" /\ net' = [net EXCEPT ![s] = "up"] /\ c' = Output(b)
      /\ closed' = closed
    BY Steps DEF SocketConnected
<1>2. /\ c \in Conns /\ net \in Nets /\ c.socket \in Sockets
      /\ Told(c) \in Gotten
    BY OrderedTypes
<1>3. s = c.socket /\ Now = "connecting"
  <2>1. s = c.socket \/ s > c.socket \/ s < c.socket
    BY <1>2 DEF Sockets
  <2> QED BY <1>1, <2>1 DEF Ordered, Steady, SocketsInTurn, Now
<1>4. /\ ~ c.socket_ready /\ ~ c.scheduled_reconnect > 0 /\ ~ closed /\ Live
      /\ ~ c.ended /\ ~ c.transport_error
      /\ ~ Local.was_open /\ ~ c.abort_idle /\ ~ c.closed_with_non_fatal_error
      /\ Local.local_open
    BY <1>3
       DEF Ordered, Steady, SocketsInTurn, AtRest, InOrder, ClosedForGood, OpenUnlessLost, Live
<1>5. /\ b \in Conns /\ SameEnds(c, b) /\ SameSocket(c, b)
      /\ SameReconnect(c, b) /\ SameTimers(c, b)
      /\ b.transport_error = c.transport_error /\ b.socket_ready
    BY <1>2, ConnectedFields
<1> HIDE DEF b
<1>6. /\ SameApart(b, c') /\ c'.state = b.state
      /\ c'.unsent = << >> /\ Got(c') = Gets(b) /\ c' \in Conns
    BY <1>1, <1>5, OutputFields
<1>7. /\ Local' = Local /\ c'.state = c.state /\ c'.mapped = c.mapped
      /\ c'.attached = c.attached
      /\ c'.socket = c.socket /\ ~ c'.scheduled_reconnect > 0
      /\ ~ c'.abort_idle /\ ~ c'.closed_with_non_fatal_error /\ ~ c'.transport_error
    BY <1>4, <1>5, <1>6
       DEF SameApart, SameReconnect, SameSocket, SameTimers, SameEnds, Local
<1>8. Now' = "up"
    BY <1>1, <1>2, <1>3, <1>7 DEF Now, Nets
<1>9. ClosedForGood' /\ OpenUnlessLost'
    BY <1>1, <1>4, <1>7, <1>8 DEF ClosedForGood, OpenUnlessLost
<1>10. InLockStep'
    BY <1>4, <1>7 DEF Ordered, InOrder, InLockStep
<1>11. Told(c)' = Told(c) /\ Got(c') = Told(c)
  <2>1. Gets(b) = Told(b) /\ Told(b) = Told(c)
    BY <1>2, <1>4, <1>5, ToldSame DEF Gets, Told, SameSocket
  <2>2. Told(c') = Got(c')
    BY <1>6, GetsType, WrittenNothing DEF Told
  <2>3. Told(c)' = Told(c')
    BY DEF Told, Written
  <2> QED BY <1>6, <2>1, <2>2, <2>3
<1>12. ToldInOrder'
    BY <1>1, <1>4, <1>6, <1>7, <1>11 DEF Ordered, InOrder, ToldInOrder, Got
<1> QED BY <1>9, <1>10, <1>12 DEF InOrder

LEMMA OrderedLosesSocket ==
    ASSUME Ordered, Steady', NEW a, NEW to, LosesSocket(a, to),
           closed' = closed, closed => IsClosed(Local),
           a.unsent = c.unsent, Got(a) = Got(c), c.ended => a.ended
    PROVE  InOrder'
<1> DEFINE b == SocketLost(a)
           k == b.state["connection"]
           session == c.state["session"]
           link == c.state["link"]
<1>1. /\ c \in Conns /\ net \in Nets /\ c.socket \in Sockets
      /\ Local \in EndpointStates /\ HasSettled(Local) /\ c.state["connection"] = Local
      /\ session \in EndpointStates /\ link \in EndpointStates
      /\ c.scheduled_reconnect \in 0..1
    BY OrderedTypes
<1>2. /\ a \in Conns /\ SameBelow(c, a) /\ SameReconnect(c, a) /\ SameTimers(c, a)
      /\ SameEnds(c, a)
      /\ a.socket = c.socket /\ a.socket_ready = c.socket_ready
      /\ Now # "gone" /\ to \in {"ended", "gone"}
      /\ c' = Turn(b) /\ net' = [net EXCEPT ![c.socket] = to]
    BY DEF LosesSocket
<1>3. /\ b \in Conns /\ SameBelow(a, b) /\ SameSocket(a, b) /\ NoTimers(b)
      /\ ~ Counts(a) =>
            /\ SameReconnect(a, b) /\ b.socket_ready = a.socket_ready
            /\ b.mapped = a.mapped /\ b.attached = a.attached
            /\ b.state = StoppedState(a)
      /\ Counts(a) =>
            /\ ~ b.socket_ready
            /\ k = Disconnected(Judged(a))
            /\ DisconnectedInside(a, b)
            /\ a.transport_error => Forbidden(a, b)
    BY <1>2, SocketLostFields
<1>4. Judged(a) = IF c.closed_with_non_fatal_error THEN Open(Local) ELSE Local
    BY <1>1, <1>2 DEF Judged, SameTimers, SameEnds
<1>5. Judged(a) \in EndpointStates /\ (c.closed_with_non_fatal_error => Judged(a).local_open)
    BY <1>1, <1>4, EndpointOpen
<1>6. c.mapped => /\ c.attached /\ HasSettled(session) /\ HasSettled(link)
                  /\ link.was_open = session.was_open
                  /\ session.local_open => link.local_open /\ ~ session.was_open
                  /\ c.scheduled_reconnect > 0 => ~ session.remote_open
    BY DEF Ordered, InOrder, InLockStep
<1>7. a.mapped = c.mapped /\ a.attached = c.attached /\ a.state = c.state
    BY <1>2 DEF SameEnds
<1> HIDE DEF b
<1>8. /\ b.socket = c.socket /\ Got(b) = Got(c) /\ b.unsent = c.unsent
      /\ c.ended => b.ended
      /\ ~ b.closed_with_non_fatal_error /\ ~ b.abort_idle
      /\ b.transport_error = c.transport_error
    BY <1>2, <1>3 DEF SameSocket, SameBelow, NoTimers
<1>9. ~ c.refusable /\ (c.socket_ready => c.unsent = << >>)
    BY DEF Ordered, InOrder, ToldInOrder
<1>10. CASE Counts(a)
  <2>1. c.scheduled_reconnect = 0 /\ ~ IsClosed(Judged(a)) /\ ~ closed
    <3>1. c.scheduled_reconnect = 0 /\ ~ IsClosed(Judged(a))
        BY <1>2, <1>10 DEF Counts, SameReconnect
    <3>2. closed => ~ c.closed_with_non_fatal_error
        BY DEF Ordered, InOrder, ClosedForGood
    <3> QED BY <1>4, <3>1, <3>2
  <2>2. /\ HasSettled(k) /\ ~ k.local_open /\ ~ k.remote_open
        /\ k.was_open = Judged(a).local_open
    BY <1>3, <1>5, <1>10, EndpointDisconnected
  <2>3. b.mapped =>
           /\ b.attached /\ HasSettled(b.state["session"]) /\ HasSettled(b.state["link"])
           /\ b.state["link"].was_open = b.state["session"].was_open
           /\ ~ b.state["session"].local_open /\ ~ b.state["session"].remote_open
    <3>1. SUFFICES ASSUME b.mapped
                   PROVE  /\ b.attached /\ HasSettled(b.state["session"])
                          /\ HasSettled(b.state["link"])
                          /\ b.state["link"].was_open = b.state["session"].was_open
                          /\ ~ b.state["session"].local_open
                          /\ ~ b.state["session"].remote_open
        OBVIOUS
    <3>2. c.mapped /\ session.local_open
        BY <1>3, <1>7, <1>10, <3>1 DEF DisconnectedInside
    <3>3. /\ b.attached = (c.attached /\ link.local_open)
          /\ b.state["session"] = Disconnected(session)
          /\ b.state["link"] = Disconnected(link)
        BY <1>3, <1>7, <1>10, <3>2 DEF DisconnectedInside
    <3>4. /\ HasSettled(Disconnected(session)) /\ HasSettled(Disconnected(link))
          /\ ~ Disconnected(session).local_open /\ ~ Disconnected(session).remote_open
          /\ Disconnected(session).was_open = session.local_open
          /\ Disconnected(link).was_open = link.local_open
        BY <1>1, EndpointDisconnected
    <3>5. link.local_open = session.local_open
        BY <1>1, <1>6, <3>2 DEF EndpointStates
    <3> QED BY <1>6, <3>2, <3>3, <3>4, <3>5
  <2>4. c' = b
    BY <1>2, <1>3, <2>2, <2>3, NothingToSend
  <2>5. Now' \in {"ended", "gone"}
    BY <1>1, <1>2, <1>8, <2>4 DEF Now, Nets
  <2>6. c.transport_error \/ Judged(a).local_open
    <3>1. CASE Now \in {"connecting", "up"}
        BY <1>4, <1>5, <2>1, <3>1 DEF Ordered, InOrder, OpenUnlessLost
    <3>2. CASE Now = "ended"
      <4>1. ~ c.closed_with_non_fatal_error
        BY <3>2 DEF Ordered, Steady, AtRest
      <4> QED BY <1>4, <2>1, <3>2, <4>1 DEF Ordered, Steady, AttemptsCounted
    <3>3. Now \in {"connecting", "up", "ended"}
        BY <1>1, <1>2 DEF Ordered, Steady, SocketsInTurn, Now, Nets
    <3> QED BY <3>1, <3>2, <3>3
  <2>7. c'.scheduled_reconnect > 0 => Local'.was_open
    <3>1. c.transport_error => c'.scheduled_reconnect = 0
        BY <1>2, <1>3, <1>10, <2>4 DEF Forbidden, SameBelow
    <3> QED BY <2>2, <2>4, <2>6, <3>1 DEF Local
  <2>8. Local' = k /\ ~ c'.socket_ready
    BY <1>3, <1>10, <2>4 DEF Local
  <2>9. ClosedForGood' /\ OpenUnlessLost'
    BY <2>1, <2>2, <2>5, <2>7, <2>8 DEF ClosedForGood, OpenUnlessLost
  <2>10. InLockStep'
    BY <2>3, <2>4 DEF InLockStep
  <2>11. ToldInOrder'
    BY <1>8, <1>9, <2>4, <2>5, <2>8 DEF ToldInOrder, Live, Got
  <2> QED BY <2>9, <2>10, <2>11 DEF InOrder
<1>11. CASE ~ Counts(a)
  <2>1. ~ c.closed_with_non_fatal_error
    <3>1. ASSUME c.closed_with_non_fatal_error
          PROVE  FALSE
      <4>1. ~ IsClosed(Judged(a))
        BY <1>5, <3>1 DEF IsClosed
      <4>2. c.scheduled_reconnect > 0
        BY <1>1, <1>2, <1>11, <4>1 DEF Counts, SameReconnect
      <4>3. Now # "up"
        BY <4>2 DEF Ordered, Steady, SocketsInTurn
      <4> QED BY <3>1, <4>3 DEF Ordered, Steady, AtRest
    <3> QED BY <3>1
  <2>2. b.state = c.state /\ k = Local
    <3>1. StoppedState(a) = c.state
        BY <1>1, <1>4, <1>7, <2>1, EndsAre DEF StoppedState, Conns, Local
    <3> QED BY <1>1, <1>3, <1>11, <3>1
  <2>3. c' = b
    BY <1>1, <1>2, <1>3, <1>6, <1>7, <1>11, <2>2, NothingToSend
  <2>4. /\ c'.scheduled_reconnect = c.scheduled_reconnect
        /\ c'.socket_ready = c.socket_ready
        /\ c'.mapped = c.mapped /\ c'.attached = c.attached /\ c'.state = c.state
        /\ Local' = Local
    BY <1>2, <1>3, <1>7, <1>11, <2>2, <2>3 DEF SameReconnect, Local
  <2>5. Now' \in {"ended", "gone"}
    BY <1>1, <1>2, <1>8, <2>3 DEF Now, Nets
  <2>6. c.socket_ready => c'.ended
    <3>1. CASE Now = "up"
      <4>1. ~ c.scheduled_reconnect > 0
        BY <3>1 DEF Ordered, Steady, SocketsInTurn
      <4>2. c.scheduled_reconnect = 0
        BY <1>1, <4>1
      <4>3. IsClosed(Local)
        BY <1>2, <1>4, <1>11, <2>1, <4>2 DEF Counts, SameReconnect
      <4>4. c.ended
        BY <3>1, <4>3 DEF Ordered, Steady, OnSocket
      <4> QED BY <1>8, <2>3, <4>4
    <3>2. CASE Now # "up"
        BY <1>8, <2>3, <3>2 DEF Ordered, InOrder, OpenUnlessLost
    <3> QED BY <3>1, <3>2
  <2>7. ClosedForGood'
    BY <1>8, <2>3, <2>4, <2>5 DEF Ordered, InOrder, ClosedForGood, IsClosed
  <2>8. OpenUnlessLost'
    BY <2>4, <2>5, <2>6 DEF Ordered, InOrder, OpenUnlessLost
  <2>9. InLockStep'
    BY <1>6, <2>4 DEF InLockStep
  <2>10. ToldInOrder'
    BY <1>8, <1>9, <2>3, <2>4, <2>5 DEF ToldInOrder, Live, Got
  <2> QED BY <2>7, <2>8, <2>9, <2>10 DEF InOrder
<1> QED BY <1>10, <1>11

LEMMA OrderedSocketEnds ==
    ASSUME Ordered, Steady', Orderly, NEW s \in Sockets, SocketEnd(s) \/ SocketError(s)
    PROVE  InOrder'
<1>1. c \in Conns /\ c.socket \in Sockets
    BY OrderedTypes
<1>2. s = c.socket
  <2>1. net[s] \in {"connecting", "up"} \/ s = c.socket
    BY DEF SocketEnd, SocketError, Orderly
  <2>2. s = c.socket \/ s > c.socket \/ s < c.socket
    BY <1>1 DEF Sockets
  <2> QED BY <2>1, <2>2 DEF Ordered, Steady, SocketsInTurn
<1>3. /\ c' = Turn(SocketLost(c)) /\ attempts' = attempts /\ closed' = closed
      /\ Now # "gone"
      /\ \/ net' = [net EXCEPT ![c.socket] = "ended"] /\ Now = "up"
         \/ net' = [net EXCEPT ![c.socket] = "gone"]
      /\ MayLose \/ c.ended \/ Now = "ended"
    BY <1>2 DEF SocketEnd, SocketError, Now, Orderly
<1>4. /\ SameBelow(c, c) /\ SameReconnect(c, c) /\ SameTimers(c, c) /\ SameEnds(c, c)
    BY DEF SameBelow, SameReconnect, SameTimers, SameEnds
<1>5. LosesSocket(c, "ended") \/ LosesSocket(c, "gone")
    BY <1>1, <1>3, <1>4 DEF LosesSocket
<1>6. closed => IsClosed(Local)
  <2>1. MayLose /\ closed => IsClosed(Local)
    BY DEF MayLose, Undisturbed, Orderly, Local
  <2>2. closed /\ (c.ended \/ Now = "ended") => IsClosed(Local)
    BY DEF Ordered, InOrder, ClosedForGood, IsClosed
  <2> QED BY <1>3, <2>1, <2>2
<1> QED BY <1>3, <1>5, <1>6, OrderedLosesSocket

LEMMA OrderedAborts ==
    ASSUME Ordered, Steady', Abort
    PROVE  InOrder'
<1>1. c \in Conns
    BY OrderedTypes
<1>2. Now = "up" /\ ~ closed /\ closed' = closed
    BY DEF Abort, Ordered, Steady, AtRest, InOrder, ClosedForGood
<1>3. LosesSocket(Dropped(c), "gone")
    BY <1>1, <1>2, DroppedFields, Steps DEF LosesSocket, Abort
<1>4. /\ Dropped(c).unsent = c.unsent /\ Got(Dropped(c)) = Got(c) /\ Dropped(c).ended
    BY <1>1, DroppedFields
<1> QED BY <1>2, <1>3, <1>4, OrderedLosesSocket

\* Only the timer of reconnect takes a new socket.
LEMMA SocketStays ==
    ASSUME Ordered, Next, ~ Reconnect
    PROVE  c'.socket = c.socket
<1>1. c \in Conns
    BY OrderedTypes
<1>2. \A b \in Conns : /\ Turn(b).socket = b.socket /\ Output(b).socket = b.socket
                       /\ SocketLost(b).socket = b.socket /\ Turn(b) \in Conns
                       /\ SocketLost(b) \in Conns /\ Forget(b).socket = b.socket
    BY TurnFields, OutputFields, SocketLostFields, ForgetFields
       DEF SameApart, SameSocket, SameButEnds
<1>3. /\ Connected(c) \in Conns /\ Connected(c).socket = c.socket
      /\ Dropped(c) \in Conns /\ Dropped(c).socket = c.socket
      /\ \A e \in Ends : Answered(c, e) \in Conns /\ Answered(c, e).socket = c.socket
      /\ SessionEnded(c) \in Conns /\ SessionEnded(c).socket = c.socket
      /\ \A fatal \in BOOLEAN : /\ ConnectionClosed(c, fatal) \in Conns
                               /\ ConnectionClosed(c, fatal).socket = c.socket
      /\ Silenced(c) \in Conns /\ Silenced(c).socket = c.socket
      /\ Linked(c) \in Conns /\ Linked(c).socket = c.socket
      /\ ShutSession(c) \in Conns /\ ShutSession(c).socket = c.socket
      /\ ShutConnection(c) \in Conns /\ ShutConnection(c).socket = c.socket
    BY <1>1, ConnectedFields, DroppedFields, AnsweredFields, SessionEndedFields,
       ConnectionClosedFields, SilencedFields, LinkedFields, ShutFields
       DEF Heard, SameSocket, SameButEnds
<1>4. CASE ChunkBegins \/ ChunkGoesOn \/ ProtocolError \/ SaslFails
  <2>1. \A b, size : Listened(c, b, size) => b.socket = c.socket
    BY DEF Listened
  <2>2. /\ Listened(c, [Input(c) EXCEPT !.frame_size = c.socket], c.socket)
        /\ Listened(c, [c EXCEPT !.heartbeat_in = Clear(@)], c.frame_size)
        /\ Listened(c, [c EXCEPT !.frame_size = 0, !.heartbeat_in = Clear(@), !.ended = TRUE], 0)
    BY <1>1, ListenedFields
  <2>3. [Listening(c) EXCEPT !.transport_error = TRUE, !.ended = TRUE].socket = c.socket
    BY <1>1, ListenedFields DEF Listened
  <2>4. CASE ChunkBegins
    BY <2>1, <2>2, <2>4 DEF ChunkBegins
  <2>5. CASE ChunkGoesOn
    BY <2>1, <2>2, <2>5 DEF ChunkGoesOn
  <2>6. CASE ProtocolError
    BY <2>1, <2>2, <2>6 DEF ProtocolError
  <2>7. CASE SaslFails
    BY <2>3, <2>7 DEF SaslFails
  <2> QED BY <1>4, <2>4, <2>5, <2>6, <2>7
<1>5. CASE Idle
  <2>1. [c EXCEPT !.heartbeat_in = "spent"].socket = c.socket
    BY <1>1 DEF Conns
  <2>2. c' = [c EXCEPT !.heartbeat_in = "spent"] \/ c' = Turn(Silenced(c))
    BY <1>5, Steps
  <2>3. Turn(Silenced(c)).socket = c.socket
    BY <1>2, <1>3
  <2> QED BY <2>1, <2>2, <2>3
<1>6. CASE RemoveSession
    BY <1>1, <1>2, <1>6 DEF RemoveSession
<1>7. CASE PeerOpen \/ PeerBegins \/ PeerAttaches
    BY <1>2, <1>3, <1>7, Steps, EndsAre
<1>8. CASE \/ Abort \/ PeerEnds \/ OpenLink \/ CloseSession \/ CloseConnection
    BY <1>2, <1>3, <1>8, Steps
<1>9. CASE \E s \in Sockets : SocketConnected(s) \/ SocketEnd(s) \/ SocketError(s)
    BY <1>1, <1>2, <1>3, <1>9, Steps
<1>10. CASE \E fatal \in BOOLEAN : PeerCloses(fatal)
    BY <1>2, <1>3, <1>10, Steps
<1> QED BY <1>4, <1>5, <1>6, <1>7, <1>8, <1>9, <1>10, NextIs

LEMMA OrderedFirst == Init => Ordered
<1> SUFFICES ASSUME Init PROVE Ordered
    OBVIOUS
<1>1. Steady
    BY SteadyFirst
<1> DEFINE k == Settled(Open(Fresh))
           f == [end |-> "connection", open |-> TRUE]
<1>2. /\ c.state["connection"] = k /\ c.socket = 1 /\ ~ c.socket_ready /\ ~ c.ended
      /\ ~ c.mapped /\ c.unsent = <<f>> /\ c.wrote = {} /\ c.refusable = FALSE
      /\ c.scheduled_reconnect = 0 /\ ~ c.transport_error /\ ~ closed
    BY EndsAre DEF Init
<1>3. k.local_open /\ ~ k.was_open
    BY EndpointFresh, EndpointOpen, EndpointSettled
<1> HIDE DEF k
<1>4. Now = "connecting"
    BY <1>2, SocketBound DEF Init, Now, Sockets
<1>5. Told(c).wrote = {"connection"} /\ ~ Told(c).refusable
  <2>1. Got(c) = [wrote |-> {}, refusable |-> FALSE] /\ Got(c) \in Gotten
    BY <1>2 DEF Got, Gotten
  <2>2. f \in EndFrames /\ << >> \in Seq(EndFrames) /\ <<f>> = Append(<< >>, f)
    BY DEF EndFrames, Ends
  <2>3. f.open = TRUE /\ f.end = "connection"
    OBVIOUS
  <2> HIDE DEF f
  <2>4. Told(c) = AfterFrame(Got(c), f)
    <3>1. Written(c, Append(<< >>, f)) = AfterFrame(Written(c, << >>), f)
        BY <2>1, <2>2, WrittenAppend
    <3>2. Written(c, << >>) = Got(c)
        BY <2>1, WrittenNothing
    <3> QED BY <1>2, <2>2, <3>1, <3>2 DEF Told
  <2>5. Within("connection") = {}
    BY DEF Within
  <2>6. Told(c) = [wrote |-> {} \cup {"connection"},
                   refusable |-> FALSE \/ "connection" \in {} \/ ~ (Within("connection") \subseteq {})]
    BY <2>1, <2>3, <2>4 DEF AfterFrame
  <2>7. Told(c).wrote = {} \cup {"connection"}
    BY <2>6
  <2>8. Told(c).refusable = (FALSE \/ "connection" \in {} \/ ~ (Within("connection") \subseteq {}))
    BY <2>6
  <2> QED BY <2>5, <2>7, <2>8
<1>6. ClosedForGood /\ OpenUnlessLost /\ InLockStep
    BY <1>2, <1>3, <1>4 DEF ClosedForGood, OpenUnlessLost, InLockStep, Local
<1>7. ToldInOrder
    BY <1>2, <1>3, <1>5 DEF ToldInOrder, Local
<1> QED BY <1>1, <1>6, <1>7 DEF Ordered, InOrder

LEMMA OrderedNext ==
    ASSUME Orderly
    PROVE  Ordered /\ [Next]_vars => Ordered'
<1> SUFFICES ASSUME Ordered, [Next]_vars
             PROVE  Ordered'
    OBVIOUS
<1>1. Steady'
    BY SteadyNext DEF Orderly, Ordered
<1>2. CASE UNCHANGED vars
  <2>1. c' = c /\ net' = net /\ closed' = closed
    BY <1>2 DEF vars
  <2>2. Now' = Now /\ Local' = Local /\ Live' = Live /\ Told(c)' = Told(c)
    BY <2>1 DEF Now, Local, Live, Told, Written
  <2>3. InOrder'
    BY <2>1, <2>2
       DEF Ordered, InOrder, ClosedForGood, OpenUnlessLost, InLockStep, ToldInOrder
  <2> QED BY <1>1, <2>3 DEF Ordered
<1>3. CASE Next
  <2>1. InOrder'
    BY <1>1, <1>3, NextIs, OrderedReconnects, OrderedConnects, OrderedSocketEnds,
       OrderedAborts, OrderedAnswered, OrderedPeerEnds, OrderedPeerCloses, OrderedListening,
       OrderedIdle, OrderedOpensLink, OrderedClosesSession, OrderedRemoves, OrderedCloses
       DEF Orderly
  <2> QED BY <1>1, <2>1 DEF Ordered
<1> QED BY <1>2, <1>3

\* On every socket begin follows open and attach begin, each comes once, and nothing
\* follows end and close, whatever was pending when the last socket was lost.
THEOREM FramesComeInOrder == Orderly => (Spec => []FramesInOrder)
<1>1. SUFFICES ASSUME Orderly PROVE Spec => []FramesInOrder
    OBVIOUS
<1>2. Ordered /\ [Next]_vars => Ordered'
    BY <1>1, OrderedNext
<1>3. Ordered => FramesInOrder
    BY DEF Ordered, InOrder, ToldInOrder, FramesInOrder
<1> QED BY <1>2, <1>3, OrderedFirst, PTL DEF Spec

\* A connection that the application has closed makes no further socket and is not opened
\* again, whichever of end, error, abort and timers was still to come.
THEOREM ClosedIsClosed == Orderly => (Spec => ClosedStaysClosed)
<1>1. SUFFICES ASSUME Orderly PROVE Spec => ClosedStaysClosed
    OBVIOUS
<1>2. Ordered /\ [Next]_vars => Ordered'
    BY <1>1, OrderedNext
<1>3. Ordered /\ Ordered' /\ [Next]_vars =>
          [closed => c'.socket = c.socket
                        /\ (c'.state["connection"].local_open => c.state["connection"].local_open)]_vars
  <2>1. SUFFICES ASSUME Ordered, Ordered', Next, closed
                 PROVE  c'.socket = c.socket /\ ~ c'.state["connection"].local_open
    BY DEF vars
  <2>2. closed'
    BY <2>1, NextIs
       DEF Reconnect, Abort, PeerOpen, PeerBegins, PeerAttaches, PeerEnds, SocketConnected,
           SocketEnd, SocketError, PeerCloses, Frame, ChunkBegins, ChunkGoesOn, ProtocolError,
           SaslFails, Idle, OpenLink, CloseSession, RemoveSession, CloseConnection, Call
  <2>3. ~ c'.state["connection"].local_open
    BY <2>1, <2>2 DEF Ordered, InOrder, ClosedForGood, Local
  <2>4. ~ Reconnect
    <3>1. c.scheduled_reconnect = 0
        BY <2>1 DEF Ordered, InOrder, ClosedForGood
    <3>2. Reconnect => c.scheduled_reconnect > 0
        BY DEF Reconnect
    <3> QED BY <3>1, <3>2
  <2>5. c'.socket = c.socket
    BY <2>1, <2>4, SocketStays
  <2> QED BY <2>3, <2>5
<1> QED BY <1>2, <1>3, OrderedFirst, PTL DEF Spec, ClosedStaysClosed
====
