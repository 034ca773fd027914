----------------------------- MODULE Connection -----------------------------
(***************************************************************************)
(* A client's connection over the sockets it uses one after the other:     *)
(* opening and closing, loss of the socket, the idle timer and the         *)
(* heartbeat, automatic reconnection with its limit, and what becomes of   *)
(* the default session and of a link in it (src/lib/connection.js, with    *)
(* the _disconnect and _reconnect of session.js and link.js).              *)
(*                                                                         *)
(* The process is one JavaScript thread, and what a handler leaves to      *)
(* process.nextTick is done before the next event is looked at.  So a step *)
(* is one event - a callback of a socket, a timer, a frame of the peer, a  *)
(* call of the application - together with the ticks it leaves: Turn.      *)
(***************************************************************************)
EXTENDS EndpointState, Integers, Sequences

CONSTANTS
    MaxSockets,     \* bound: sockets in use one after the other; the last is not lost
    ReconnectLimit, \* options.reconnect_limit, 0 for none
    Liberties,      \* what application and network may do beyond the usual
    MaxCalls        \* bound: calls of the application

(***************************************************************************)
(* "loss": the socket may be lost, or the peer be silent, while the        *)
(* application waits for the answer to its close; "down": it opens a link  *)
(* between the loss of the socket and the next attempt; "stale": it opens  *)
(* a link when it has closed or removed the default session; "late": a     *)
(* socket reports an error after its end though it was replaced or never   *)
(* connected; "midframe": the socket is lost in the middle of a frame.     *)
(***************************************************************************)
ASSUME SocketBound == MaxSockets \in Nat \ {0}
ASSUME LimitIsNat == ReconnectLimit \in Nat
ASSUME LibertyNames == Liberties \subseteq {"loss", "down", "stale", "late", "midframe"}
ASSUME CallBound == MaxCalls \in Nat

VARIABLES
    c,              \* the Connection and what hangs on it
    net,            \* socket -> its state
    calls,          \* calls of the application so far
    closed,         \* history: the application has closed the connection
    wanted,         \* history: the application has a link, and nobody closed it
    attempts        \* history: reconnects since the last established connection

vars == <<c, net, calls, closed, wanted, attempts>>

Ends == {"connection", "session", "link"}
Sockets == 1 .. MaxSockets

\* A timer's variable is undefined, or holds a timer that runs or does not any more.
Timers == {"undefined", "running", "spent"}

Clear(timer) == IF timer = "undefined" THEN timer ELSE "spent"

TypeOK ==
    /\ c.state \in [Ends -> EndpointStates]
    /\ c.mapped \in BOOLEAN         \* the session is in local_channel_map
    /\ c.ssn \in BOOLEAN            \* session_per_connection holds the session
    /\ c.attached \in BOOLEAN       \* the link is in session.links
    /\ c.unsent \in Seq([end: Ends, open: BOOLEAN])  \* amqp_transport.pending
    /\ c.wrote \subseteq Ends       \* ends whose open frame is on this socket
    /\ c.refusable \in BOOLEAN      \* a frame was written where the peer must refuse it
    /\ c.socket \in Sockets
    /\ c.socket_ready \in BOOLEAN
    /\ c.ended \in BOOLEAN          \* socket.end() was called
    /\ c.heartbeat_in \in Timers /\ c.heartbeat_out \in Timers
    /\ c.abort_idle \in BOOLEAN     \* the timer of abort_socket runs
    /\ c.scheduled_reconnect \in 0 .. 1 \* timers of reconnect that run
    /\ c.closed_with_non_fatal_error \in BOOLEAN
    /\ c.transport_error \in BOOLEAN
    /\ c.frame_size \in 0 .. MaxSockets \* the socket on which a frame has begun, or 0
    /\ c.established \in Nat
    /\ c.reset \in Int /\ c.current \in Int \* the variables of restrict
    /\ c.reconnecting \in {"unknown", "yes", "no"} \* told with the last disconnected
    /\ net \in [Sockets -> {"unused", "connecting", "up", "ended", "gone"}]

(***************************************************************************)
(* connect(): the first socket is being connected, and the open frame      *)
(* waits in the transport.                                                 *)
(***************************************************************************)
Init ==
    /\ c = [state |-> [e \in Ends |-> IF e = "connection" THEN Settled(Open(Fresh)) ELSE Fresh],
            mapped |-> FALSE, ssn |-> FALSE, attached |-> FALSE,
            unsent |-> <<[end |-> "connection", open |-> TRUE]>>,
            wrote |-> {}, refusable |-> FALSE,
            socket |-> 1, socket_ready |-> FALSE, ended |-> FALSE,
            heartbeat_in |-> "undefined", heartbeat_out |-> "undefined",
            abort_idle |-> FALSE, scheduled_reconnect |-> 0,
            closed_with_non_fatal_error |-> FALSE, transport_error |-> FALSE,
            frame_size |-> 0, established |-> 0, reset |-> -1, current |-> ReconnectLimit,
            reconnecting |-> "unknown"]
    /\ net = [s \in Sockets |-> IF s = 1 THEN "connecting" ELSE "unused"]
    /\ calls = 0
    /\ closed = FALSE
    /\ wanted = FALSE
    /\ attempts = 0

-----------------------------------------------------------------------------
(* Writing.                                                                *)

Within(e) == CASE e = "connection" -> {} [] e = "session" -> {"connection"}
               [] e = "link" -> {"connection", "session"}

\* What the peer has, and may refuse, after one more frame: begin needs open, attach begin.
AfterFrame(before, f) ==
    IF f.open
    THEN [wrote |-> before.wrote \cup {f.end},
          refusable |-> before.refusable \/ f.end \in before.wrote
                          \/ ~ Within(f.end) \subseteq before.wrote]
    ELSE [wrote |-> {e \in before.wrote : e # f.end /\ f.end \notin Within(e)},
          refusable |-> before.refusable \/ f.end \notin before.wrote]

\* The frames of a sequence, one by one.
Written(conn, frames) ==
    LET after[k \in 0 .. Len(frames)] ==
          IF k = 0 THEN [wrote |-> conn.wrote, refusable |-> conn.refusable]
          ELSE AfterFrame(after[k - 1], frames[k])
    IN  after[Len(frames)]

\* Both sides have closed and all is written, the peer was silent or SASL failed.
MustEnd(conn) ==
    \/ IsClosed(conn.state["connection"]) /\ HasSettled(conn.state["connection"])
    \/ conn.abort_idle
    \/ conn.transport_error

\* Mutation of Rearmed: only a timer that was never set is set.
SetOnce(conn) ==
    IF IsOpen(conn.state["connection"]) /\ conn.heartbeat_out = "undefined" THEN "running"
    ELSE Clear(conn.heartbeat_out)

\* The heartbeat after a write: both sides have an idle_time_out.
Rearmed(conn) ==
    IF IsOpen(conn.state["connection"]) /\ ~ MustEnd(conn) THEN "running"
    ELSE Clear(conn.heartbeat_out)

(***************************************************************************)
(* output, after the frames of one turn.  Of a socket that was ended the   *)
(* peer gets nothing more.  The timer of the heartbeat writes an empty     *)
(* frame and is set again here, which leaves all as it is.                 *)
(***************************************************************************)
Output(conn) ==
    IF ~ conn.socket_ready THEN conn
    ELSE LET w == IF conn.ended THEN [wrote |-> conn.wrote, refusable |-> conn.refusable]
                  ELSE Written(conn, conn.unsent)
         IN  [conn EXCEPT
                !.wrote = w.wrote, !.refusable = w.refusable, !.unsent = <<>>,
                !.ended = @ \/ MustEnd(conn),
                !.heartbeat_out = Rearmed(conn),
                !.heartbeat_in = IF @ = "undefined" THEN "running" ELSE @]

\* The frame of an end for which one is to be written.
OpenFrame(conn, e) ==
    IF conn.state[e].open_requests > 0 THEN <<[end |-> e, open |-> TRUE]>> ELSE <<>>
CloseFrame(conn, e) ==
    IF conn.state[e].close_requests > 0 THEN <<[end |-> e, open |-> FALSE]>> ELSE <<>>

\* The ends that _process comes by: it goes through the sessions that are mapped.
Reached(conn) ==
    {"connection"} \cup (IF conn.mapped THEN {"session"} ELSE {})
                   \cup (IF conn.mapped /\ conn.attached THEN {"link"} ELSE {})

\* The frames of one _process of connection, session and link.
Frames(conn) ==
    LET ofEnd(e, frames) == IF e \in Reached(conn) THEN frames ELSE <<>>
    IN  OpenFrame(conn, "connection") \o ofEnd("session", OpenFrame(conn, "session"))
          \o ofEnd("link", OpenFrame(conn, "link")) \o ofEnd("session", CloseFrame(conn, "session"))
          \o CloseFrame(conn, "connection")

\* _process, which each turn runs in a tick if anything is registered.
Turn(conn) ==
    IF Frames(conn) = <<>> THEN conn
    ELSE Output([conn EXCEPT
                   !.unsent = @ \o Frames(conn),
                   !.state = [e \in Ends |-> IF e \in Reached(conn) THEN Settled(@[e]) ELSE @[e]]])

-----------------------------------------------------------------------------
(* Loss of the socket, and reconnection.                                   *)

\* restrict: the limit counts from the last connection that was established.
Current(conn) == IF conn.reset # conn.established THEN ReconnectLimit ELSE conn.current

\* Mutation of Allowed: one more than the limit.
AllowedOnceMore(conn) == ReconnectLimit = 0 \/ Current(conn) >= 0

Allowed(conn) == ReconnectLimit = 0 \/ Current(conn) # 0

ReconnectsAfter(conn) == ~ conn.transport_error /\ Allowed(conn)

Forget(conn) ==
    [conn EXCEPT !.mapped = FALSE, !.attached = FALSE,
                 !.state["session"] = Fresh, !.state["link"] = Fresh]

(***************************************************************************)
(* _disconnect of the connection, of its session and of the link: one that *)
(* was not open any more is removed.  The variable ssn stays.              *)
(***************************************************************************)
EndsDisconnected(conn) ==
    LET lost == [conn EXCEPT !.socket_ready = FALSE,
                             !.state["connection"] = Disconnected(@)]
    IN  IF ~ conn.mapped THEN lost
        ELSE IF ~ conn.state["session"].local_open THEN Forget(lost)
        ELSE [lost EXCEPT !.state["session"] = Disconnected(@),
                          !.state["link"] = Disconnected(@),
                          !.attached = @ /\ conn.state["link"].local_open]

\* Mutations of LossCounts: without the one or the other condition.
LossAlwaysCounts(conn, nonfatal) == ~ IsClosed(conn.state["connection"]) \/ nonfatal
ClosedCounts(conn, nonfatal) == conn.scheduled_reconnect = 0

LossCounts(conn, nonfatal) ==
    /\ ~ IsClosed(conn.state["connection"]) \/ nonfatal
    /\ conn.scheduled_reconnect = 0

\* Mutation of TimersStopped: the idle timer keeps its variable.
TimersCleared(conn) ==
    [conn EXCEPT !.heartbeat_in = Clear(@), !.heartbeat_out = "undefined", !.abort_idle = FALSE]

TimersStopped(conn) ==
    [conn EXCEPT !.heartbeat_in = "undefined", !.heartbeat_out = "undefined",
                 !.abort_idle = FALSE]

(***************************************************************************)
(* _disconnected.  After an error that is not fatal the connection is      *)
(* opened again first, so that it counts as one that was open.             *)
(***************************************************************************)
SocketLost(conn) ==
    LET nonfatal == conn.closed_with_non_fatal_error
        stopped == [TimersStopped(conn) EXCEPT
                      !.closed_with_non_fatal_error = FALSE,
                      !.state["connection"] = IF nonfatal THEN Open(@) ELSE @]
        lost == EndsDisconnected(stopped)
    IN  IF ~ LossCounts(stopped, nonfatal) THEN stopped
        ELSE IF ~ ReconnectsAfter(conn)
        THEN [lost EXCEPT !.reconnecting = IF conn.transport_error THEN "unknown" ELSE "no",
                          !.current = IF conn.transport_error THEN @ ELSE Current(conn) - 1,
                          !.reset = IF conn.transport_error THEN @ ELSE conn.established]
        ELSE [lost EXCEPT !.reconnecting = "yes", !.scheduled_reconnect = @ + 1,
                          !.current = Current(conn) - 1, !.reset = conn.established]

\* Mutation of EndsReconnected: the link is forgotten.
LinkForgotten(conn) ==
    [conn.state EXCEPT !["connection"] = Reconnected(@),
                       !["session"] = IF conn.mapped THEN Reconnected(@) ELSE @]

\* _reconnect of the connection and of what it still has.
EndsReconnected(conn) ==
    [e \in Ends |-> IF e \in Reached(conn) THEN Reconnected(conn.state[e]) ELSE conn.state[e]]

\* Mutation of TransportReset: frames of the last connection are still to be written.
TransportKept(conn) == [conn EXCEPT !.wrote = {}, !.ended = FALSE]

\* _reset_remote_state: what input keeps of an unfinished frame stays.
TransportReset(conn) == [conn EXCEPT !.unsent = <<>>, !.wrote = {}, !.ended = FALSE]

\* The timer of reconnect: everything that was open opens again, on a new socket.
Reconnect ==
    /\ c.scheduled_reconnect > 0
    /\ c.socket < MaxSockets
    /\ c' = Turn([TransportReset(c) EXCEPT !.scheduled_reconnect = @ - 1,
                                           !.state = EndsReconnected(c),
                                           !.socket = @ + 1])
    /\ net' = [net EXCEPT ![c.socket + 1] = "connecting"]
    /\ attempts' = attempts + 1
    /\ UNCHANGED <<calls, closed, wanted>>

\* The application waits for the peer to close, and nothing may go wrong now.
Undisturbed == closed /\ ~ IsClosed(c.state["connection"]) /\ "loss" \notin Liberties

\* The environment may take this socket away.
MayLose == c.socket < MaxSockets /\ ~ Undisturbed
                /\ (c.frame_size = 0 \/ "midframe" \in Liberties)

\* The callback of connect.
SocketConnected(s) ==
    /\ net[s] = "connecting"
    /\ net' = [net EXCEPT ![s] = "up"]
    /\ c' = Output([c EXCEPT !.socket_ready = TRUE, !.established = @ + 1])
    /\ attempts' = 0
    /\ UNCHANGED <<calls, closed, wanted>>

\* "end": the peer ends the socket, or answers our end of it.
SocketEnd(s) ==
    /\ \/ net[s] = "up"
       \/ net[s] = "connecting" /\ "late" \in Liberties
    /\ MayLose \/ c.ended
    /\ net' = [net EXCEPT ![s] = "ended"]
    /\ c' = Turn(SocketLost(c))
    /\ UNCHANGED <<calls, closed, wanted, attempts>>

\* "error": it cannot be connected, is reset, or what was still to be written fails.
SocketError(s) ==
    /\ \/ net[s] \in {"connecting", "up"} /\ MayLose
       \/ net[s] = "ended" /\ ("late" \in Liberties \/ s = c.socket)
    /\ net' = [net EXCEPT ![s] = "gone"]
    /\ c' = Turn(SocketLost(c))
    /\ UNCHANGED <<calls, closed, wanted, attempts>>

-----------------------------------------------------------------------------
(* Input.                                                                  *)

\* A peer on the current socket that still may write.
Receives == net[c.socket] = "up" /\ ~ c.ended

Listening(conn) == [conn EXCEPT !.frame_size = 0, !.heartbeat_in = "running"]

(***************************************************************************)
(* The end of input, before the ticks: the idle timer starts anew, and the *)
(* socket is ended or the heartbeat started.                               *)
(***************************************************************************)
Input(conn) ==
    LET heard == Listening(conn)
        connection == conn.state["connection"]
    IN  [heard EXCEPT
           !.ended = @ \/ (IsClosed(connection) /\ HasSettled(connection)),
           !.heartbeat_out = IF IsOpen(connection) /\ @ = "undefined" THEN "running" ELSE @]

\* A frame which is whole, on a socket whose earlier bytes were its own.
Frame(handled) ==
    /\ Receives
    /\ c.frame_size \in {0, c.socket}
    /\ c' = Turn(handled)
    /\ UNCHANGED <<net, attempts>>

\* on_open, on_begin and on_attach open the local end too.
PeerOpened(e) == [c EXCEPT !.state[e] = Open(RemoteOpened(@))]

\* open: once for each socket.
PeerOpen ==
    /\ ~ c.state["connection"].remote_open
    /\ "connection" \in c.wrote
    /\ Frame(Input(PeerOpened("connection")))
    /\ UNCHANGED <<calls, closed, wanted>>

\* begin and attach, as answers to what is on this socket.
PeerBegins ==
    /\ "session" \in c.wrote
    /\ c.state["connection"].remote_open /\ ~ c.state["session"].remote_open
    /\ Frame(Input(PeerOpened("session")))
    /\ UNCHANGED <<calls, closed, wanted>>

PeerAttaches ==
    /\ "link" \in c.wrote
    /\ c.state["session"].remote_open /\ ~ c.state["link"].remote_open
    /\ Frame(Input(PeerOpened("link")))
    /\ UNCHANGED <<calls, closed, wanted>>

(***************************************************************************)
(* end: session_close lets ssn go, and in the ticks the session is closed, *)
(* its end is written, and it is removed.                                  *)
(***************************************************************************)
PeerEnds ==
    /\ c.state["session"].remote_open
    /\ ~ Undisturbed
    /\ Receives
    /\ c.frame_size \in {0, c.socket}
    /\ c' = Forget(Turn([Input([c EXCEPT !.state["session"] = RemoteClosed(@), !.ssn = FALSE])
                           EXCEPT !.state["session"] = Close(@)]))
    /\ wanted' = FALSE
    /\ UNCHANGED <<net, calls, closed, attempts>>

(***************************************************************************)
(* close: with an error that is not fatal (amqp:connection:forced) or not. *)
(* The local end is closed in a tick.                                      *)
(***************************************************************************)
PeerCloses(fatal) ==
    /\ c.state["connection"].remote_open
    /\ fatal \/ MayLose
    /\ LET heard == Input([c EXCEPT
                 !.state["connection"] = RemoteClosed(@),
                 !.closed_with_non_fatal_error =
                     @ \/ (~ fatal /\ c.state["connection"].local_open),
                 !.heartbeat_out = Clear(@)])
       IN  Frame([heard EXCEPT !.state["connection"] = Close(@)])
    /\ wanted' = (wanted /\ ~ fatal)
    /\ UNCHANGED <<calls, closed>>

\* The first part of a frame: input remembers its size and listens on.
ChunkBegins ==
    /\ Receives
    /\ c.frame_size = 0
    /\ c' = [Input(c) EXCEPT !.frame_size = c.socket]
    /\ UNCHANGED <<net, calls, closed, wanted, attempts>>

\* A further part, that does not end it: the timer is cleared and nothing else.
ChunkGoesOn ==
    /\ Receives
    /\ c.frame_size > 0
    /\ c' = [c EXCEPT !.heartbeat_in = Clear(@)]
    /\ UNCHANGED <<net, calls, closed, wanted, attempts>>

(***************************************************************************)
(* Bytes that are no frame, for which input ends the socket: as the peer   *)
(* wrote them, or because they follow a part of a frame of an old socket.  *)
(***************************************************************************)
ProtocolError ==
    /\ Receives
    /\ MayLose
    /\ c' = [c EXCEPT !.frame_size = 0, !.heartbeat_in = Clear(@), !.ended = TRUE]
    /\ UNCHANGED <<net, calls, closed, wanted, attempts>>

\* sasl_failed: an error that forbids to reconnect.
SaslFails ==
    /\ Receives
    /\ ~ c.state["connection"].remote_open /\ c.frame_size = 0
    /\ c' = [Listening(c) EXCEPT !.transport_error = TRUE, !.ended = TRUE]
    /\ wanted' = FALSE
    /\ UNCHANGED <<net, calls, closed, attempts>>

-----------------------------------------------------------------------------
(* Timers.                                                                 *)

\* idle: it closes, and gives the socket a second to end.
Idle ==
    /\ c.heartbeat_in = "running"
    /\ MayLose
    /\ c' = IF IsClosed(c.state["connection"]) THEN [c EXCEPT !.heartbeat_in = "spent"]
            ELSE Turn([c EXCEPT !.heartbeat_in = "spent", !.abort_idle = TRUE,
                                !.closed_with_non_fatal_error = TRUE,
                                !.state["connection"] = Close(@)])
    /\ UNCHANGED <<net, calls, closed, wanted, attempts>>

\* abort_socket: the socket is destroyed, without its listeners.
Abort ==
    /\ c.abort_idle
    /\ net' = [net EXCEPT ![c.socket] = "gone"]
    /\ c' = Turn(SocketLost([c EXCEPT !.ended = TRUE]))
    /\ UNCHANGED <<calls, closed, wanted, attempts>>

-----------------------------------------------------------------------------
(* The application.                                                        *)

Call ==
    /\ calls < MaxCalls
    /\ ~ closed
    /\ calls' = calls + 1
    /\ UNCHANGED <<net, attempts>>

\* open_sender and open_receiver, in the session that get_session gives.
OpenLink ==
    /\ Call
    /\ ~ c.attached /\ ~ c.transport_error
    /\ c.state["connection"].local_open \/ c.state["connection"].was_open
    /\ \/ c.ssn => c.mapped /\ (c.state["session"].local_open \/ c.state["session"].was_open)
       \/ "stale" \in Liberties
    /\ \/ c.scheduled_reconnect = 0 /\ c.reconnecting # "no"
       \/ "down" \in Liberties
    /\ LET begun == IF c.ssn THEN c
                    ELSE [c EXCEPT !.ssn = TRUE, !.mapped = TRUE,
                                   !.state["session"] = Open(Fresh)]
       IN  c' = Turn([begun EXCEPT !.attached = TRUE, !.state["link"] = Open(Fresh)])
    /\ wanted' = TRUE
    /\ UNCHANGED closed

\* session.close, of the default session once it is open.
CloseSession ==
    /\ Call
    /\ c.mapped /\ IsOpen(c.state["session"])
    /\ c' = Turn([c EXCEPT !.state["session"] = Close(@)])
    /\ wanted' = FALSE
    /\ UNCHANGED closed

\* session.remove, from the disconnected event.
RemoveSession ==
    /\ Call
    /\ c.mapped /\ c.scheduled_reconnect > 0
    /\ c' = Forget(c)
    /\ wanted' = FALSE
    /\ UNCHANGED closed

\* close: of a connection that is open, or at any time.
CloseConnection ==
    /\ Call
    /\ \/ IsOpen(c.state["connection"]) /\ c.frame_size = 0 /\ Receives
       \/ "loss" \in Liberties
    /\ c' = Turn([c EXCEPT !.state["connection"] = Close(@)])
    /\ closed' = TRUE
    /\ wanted' = FALSE

-----------------------------------------------------------------------------

Peer == PeerOpen \/ PeerBegins \/ PeerAttaches

Next ==
    \/ Reconnect
    \/ \E s \in Sockets : SocketConnected(s) \/ SocketEnd(s) \/ SocketError(s)
    \/ Peer \/ PeerEnds
    \/ \E fatal \in BOOLEAN : PeerCloses(fatal)
    \/ ChunkBegins \/ ChunkGoesOn \/ ProtocolError \/ SaslFails
    \/ Idle \/ Abort
    \/ OpenLink \/ CloseSession \/ RemoveSession \/ CloseConnection

Spec == Init /\ [][Next]_vars

(***************************************************************************)
(* Timers fire, a socket connects or fails, the peer answers what it gets  *)
(* and ends a socket that was ended.                                       *)
(***************************************************************************)
FairSpec ==
    /\ Spec
    /\ WF_vars(Reconnect) /\ WF_vars(Abort) /\ WF_vars(Peer)
    /\ \A s \in Sockets : WF_vars(SocketConnected(s) \/ SocketError(s))
                             /\ WF_vars(c.ended /\ SocketEnd(s))

-----------------------------------------------------------------------------
(* What the code should do.                                                *)

(***************************************************************************)
(* There is never more than one socket in use, and none while a reconnect  *)
(* is still to come, whatever end, error, abort and timer come together    *)
(* (connection.js:601 to 658).                                             *)
(***************************************************************************)
OneSocket ==
    LET used == {s \in Sockets : net[s] \in {"connecting", "up"}}
    IN  /\ \A s, t \in used : s = t
        /\ c.scheduled_reconnect > 0 => c.scheduled_reconnect = 1 /\ used \subseteq {c.socket}

(***************************************************************************)
(* On every socket begin follows open and attach begin, each comes once,   *)
(* and nothing follows end and close: what was pending when a socket was   *)
(* lost, or was left open or closed then, does not confuse the next peer.  *)
(***************************************************************************)
FramesInOrder == ~ c.refusable

(***************************************************************************)
(* README: idle_time_out.  As long as a socket is in use, a timer runs     *)
(* that will find a silent peer, unless input waits for the rest of a      *)
(* frame of which it has had two parts (connection.js:549 to 580).         *)
(***************************************************************************)
SilenceIsNoticed ==
    c.socket_ready /\ net[c.socket] = "up" /\ ~ c.ended /\ c.frame_size = 0
        => c.heartbeat_in = "running" \/ c.abort_idle

(***************************************************************************)
(* As long as the connection is open, the timer runs whose frames keep the *)
(* peer's idle timer from firing (connection.js:514 and 585).              *)
(***************************************************************************)
PeerHearsFromUs ==
    IsOpen(c.state["connection"]) /\ c.socket_ready /\ ~ c.ended
        => c.heartbeat_out = "running"

(***************************************************************************)
(* README: reconnect_limit is the "maximum number of reconnect attempts",  *)
(* counted since a connection was last established; and once disconnected  *)
(* was raised with reconnecting false, or SASL failed, there are no more.  *)
(***************************************************************************)
AttemptsAreLimited ==
    /\ ReconnectLimit > 0 => attempts <= ReconnectLimit
    /\ c.reconnecting = "no" \/ c.transport_error => c.scheduled_reconnect = 0

(***************************************************************************)
(* test/reconnect.ts:323: "closed connection shouldnt have reconnected".   *)
(* Once the application has closed the connection and the close goes       *)
(* through, no further socket is made and the connection is not opened     *)
(* again, whatever the library did before (connection.js:618 to 658).      *)
(***************************************************************************)
ClosedStaysClosed ==
    [][closed => c'.socket = c.socket
                    /\ (c'.state["connection"].local_open => c.state["connection"].local_open)]_vars

(***************************************************************************)
(* README: reconnect, "the library will automatically attempt to           *)
(* reconnect if disconnected".  In the end the link that the application   *)
(* opened is open again on both sides, unless SASL failed or the limit was *)
(* reached, however often and whenever the socket was lost.                *)
(***************************************************************************)
LinkComesBack ==
    <>[](wanted => IsOpen(c.state["link"]) \/ c.reconnecting = "no")
=============================================================================
