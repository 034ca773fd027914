--------------------------- MODULE EndpointState ---------------------------
(***************************************************************************)
(* The state that a connection, a session and a link keep of their two     *)
(* ends (src/lib/endpoint.js), as values: each operator gives the state    *)
(* after the method of that name.  A request counts a frame, open or       *)
(* close, that the next _process has to write.                             *)
(***************************************************************************)
EXTENDS Naturals

\* The marker is a time; 0 stands for undefined.
Marker == Nat

EndpointStates ==
    [local_open: BOOLEAN, remote_open: BOOLEAN, was_open: BOOLEAN,
     open_requests: Nat, close_requests: Nat, marker: Marker]

Fresh == [local_open |-> FALSE, remote_open |-> FALSE, was_open |-> FALSE,
          open_requests |-> 0, close_requests |-> 0, marker |-> 0]

Mark(e, time) == [e EXCEPT !.marker = time]

Open(e) ==
    [e EXCEPT !.marker = 0, !.local_open = TRUE,
              !.open_requests = IF e.local_open THEN @ ELSE @ + 1]

CloseUnasked(e) == [e EXCEPT !.marker = 0, !.local_open = FALSE]

Close(e) ==
    [e EXCEPT !.marker = 0, !.local_open = FALSE,
              !.close_requests = IF e.local_open THEN @ + 1 ELSE @]

RemoteOpened(e) == [e EXCEPT !.remote_open = TRUE]

RemoteClosed(e) == [e EXCEPT !.remote_open = FALSE]

\* disconnected: whether the end was open is all that is kept.
Disconnected(e) == [Fresh EXCEPT !.was_open = e.local_open]

\* reconnect: an end that was open opens again.
Reconnected(e) == IF e.was_open THEN [Open(e) EXCEPT !.was_open = FALSE] ELSE e

IsOpen(e) == e.local_open /\ e.remote_open

\* is_closed, of an end that has been opened.
IsClosed(e) == ~e.local_open /\ ~e.was_open /\ ~e.remote_open

HasSettled(e) == e.open_requests = 0 /\ e.close_requests = 0

\* Every request has been taken by need_open or need_close.
Settled(e) == [e EXCEPT !.open_requests = 0, !.close_requests = 0]
=============================================================================
