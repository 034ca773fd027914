--------------------------- MODULE LinkLifecycle ---------------------------
(***************************************************************************)
(* How links come and go on one open session between two rhea peers: the   *)
(* links a session keeps by name, the handles of both sides, attach and    *)
(* detach on the stream, and the work a handler leaves to process.nextTick *)
(* (src/lib/link.js, session.js, endpoint.js).                             *)
(*                                                                         *)
(* A peer is one JavaScript thread.  The frames of one chunk of input are  *)
(* read without a pause; the queue of ticks is emptied before the next     *)
(* chunk is read.  The applications call from listeners, timers and ticks  *)
(* of their own, so a call may come between any two steps of its peer; a   *)
(* call from within the receiver_open listener is one right after the      *)
(* attach, a call from within receiver_close has the effect of one right   *)
(* before the detach, since on_detach marks the link after the listener.   *)
(***************************************************************************)
EXTENDS EndpointState, FiniteSets, SequencesExt

CONSTANTS
    Peers,          \* the two ends of the session
    Names,          \* the names of links
    Times,          \* the values of Date.now() that one turn can tell apart
    Liberties,      \* what the applications may do beyond the usual
    MaxCalls        \* bound: calls of the applications

(***************************************************************************)
(* The liberties of an application: "early" closes a link before the       *)
(* peer's attach has come, "late" closes it after the peer's detach has    *)
(* come and before the tick that answers it, "reopen" opens again a link   *)
(* it has closed, before that link is removed.                             *)
(***************************************************************************)
ASSUME TwoPeers == \E p \in Peers : \E q \in Peers : p # q /\ Peers = {p, q}
ASSUME LinkNames == IsFiniteSet(Names) /\ "nothing" \notin Names /\ "removed" \notin Names
ASSUME TimeValues == Times \subseteq Nat \ {0} /\ Times # {}
ASSUME LibertyNames == Liberties \subseteq {"early", "late", "reopen"}
ASSUME CallBound == MaxCalls \in Nat

VARIABLES
    links,          \* the names in session.links
    state,          \* link.state, Fresh for a name without a link
    handle,         \* link.local.handle; session.local.handles is its inverse
    remote_handles, \* session.remote.handles: a name, Nothing or Removed
    ticks,          \* the queue of process.nextTick
    reading,        \* no tick has run since the last frame was read
    wire,           \* the frames on their way to each peer
    fault,          \* the error a handler has thrown
    calls,          \* calls made so far
    cancelled       \* history: the names closed since they were last opened

vars == <<links, state, handle, remote_handles, ticks, reading, wire, fault,
          calls, cancelled>>

Nothing == "nothing"
Removed == "removed"
Handles == 0 .. Cardinality(Names) - 1
NoHandle == Cardinality(Names)

Other(p) == CHOOSE q \in Peers : q # p

(***************************************************************************)
(* A detach carries only the handle; its name is that of the link which    *)
(* wrote it, for the properties.                                           *)
(***************************************************************************)
Frames == [type: {"attach", "detach"}, name: Names, handle: Handles]

Process == [task |-> "process"]
CloseTask(n, time) == [task |-> "close", name |-> n, token |-> time]
RemoveTask(n) == [task |-> "remove", name |-> n]
Tasks == {Process} \cup [task: {"close"}, name: Names, token: Times]
                   \cup [task: {"remove"}, name: Names]

TypeOK ==
    /\ links \in [Peers -> SUBSET Names]
    /\ state \in [Peers -> [Names -> EndpointStates]]
    /\ handle \in [Peers -> [Names -> Handles \cup {NoHandle}]]
    /\ remote_handles \in [Peers -> [Handles -> Names \cup {Nothing, Removed}]]
    /\ ticks \in [Peers -> Seq(Tasks)]
    /\ reading \in [Peers -> BOOLEAN]
    /\ wire \in [Peers -> Seq(Frames)]
    /\ fault \in [Peers -> {"none", "Attach already received",
                            "Detach already received", "Invalid handle"}]
    /\ calls \in 0 .. MaxCalls
    /\ cancelled \subseteq Names

Init ==
    /\ links = [p \in Peers |-> {}]
    /\ state = [p \in Peers |-> [n \in Names |-> Fresh]]
    /\ handle = [p \in Peers |-> [n \in Names |-> NoHandle]]
    /\ remote_handles = [p \in Peers |-> [h \in Handles |-> Nothing]]
    /\ ticks = [p \in Peers |-> <<>>]
    /\ reading = [p \in Peers |-> FALSE]
    /\ wire = [p \in Peers |-> <<>>]
    /\ fault = [p \in Peers |-> "none"]
    /\ calls = 0
    /\ cancelled = {}

-----------------------------------------------------------------------------
(* The queue of ticks and the handles.                                     *)

\* _register: one _process is enough, however often it is asked for.
Register(queue) == IF Contains(queue, Process) THEN queue ELSE Append(queue, Process)

\* attach, detach and close ask for a _process only if they change the state.
RegisterIf(changed, queue) == IF changed THEN Register(queue) ELSE queue

\* create_link takes the first handle that no link has.
FreeHandleOfCount(p) == Cardinality(links[p])
FreeHandleFromOne(p) == Cardinality(links[p]) + 1
FreeHandle(p) ==
    CHOOSE h \in Handles :
        /\ \A n \in links[p] : handle[p][n] # h
        /\ \A g \in 0 .. h - 1 : \E n \in links[p] : handle[p][n] = g

Running(p) == fault[p] = "none"

-----------------------------------------------------------------------------
(* The calls of an application.                                            *)

Call(p) ==
    /\ Running(p)
    /\ calls < MaxCalls
    /\ calls' = calls + 1

\* open_sender, open_receiver: create_link and attach.
OpenLink(p, n) ==
    /\ Call(p)
    /\ n \notin links[p]
    /\ links' = [links EXCEPT ![p] = @ \cup {n}]
    /\ handle' = [handle EXCEPT ![p][n] = FreeHandle(p)]
    /\ state' = [state EXCEPT ![p][n] = Open(Fresh)]
    /\ ticks' = [ticks EXCEPT ![p] = Register(@)]
    /\ cancelled' = cancelled \ {n}
    /\ UNCHANGED <<remote_handles, reading, wire, fault>>

\* close and detach, of a link that is open on this side.
CloseLink(p, n) ==
    /\ Call(p)
    /\ n \in links[p]
    /\ state[p][n].local_open
    /\ \/ state[p][n].remote_open
       \/ state[p][n].marker = 0 /\ "early" \in Liberties
       \/ state[p][n].marker # 0 /\ "late" \in Liberties
    /\ state' = [state EXCEPT ![p][n] = Close(@)]
    /\ ticks' = [ticks EXCEPT ![p] = Register(@)]
    /\ cancelled' = cancelled \cup {n}
    /\ UNCHANGED <<links, handle, remote_handles, reading, wire, fault>>

\* open, of a link that the application has closed.
ReopenLink(p, n) ==
    /\ "reopen" \in Liberties
    /\ Call(p)
    /\ n \in links[p]
    /\ ~state[p][n].local_open
    /\ state' = [state EXCEPT ![p][n] = Open(@)]
    /\ ticks' = [ticks EXCEPT ![p] = Register(@)]
    /\ cancelled' = cancelled \ {n}
    /\ UNCHANGED <<links, handle, remote_handles, reading, wire, fault>>

-----------------------------------------------------------------------------
(* Input: the frames of a chunk.                                           *)

Read(p, type) ==
    /\ Running(p)
    /\ reading[p] \/ ticks[p] = <<>>
    /\ wire[p] # <<>>
    /\ Head(wire[p]).type = type
    /\ wire' = [wire EXCEPT ![p] = Tail(@)]
    /\ reading' = [reading EXCEPT ![p] = TRUE]
    /\ UNCHANGED <<calls, cancelled>>

\* link.on_attach, of a link in the given state: its own end opens too.
AttachedOnly(e) == RemoteOpened(e)
Attached(e) == Open(RemoteOpened(e))

(***************************************************************************)
(* session.on_attach: the link of that name, made if there is none, is now *)
(* behind the peer's handle.                                               *)
(***************************************************************************)
ReadAttach(p) ==
    /\ Read(p, "attach")
    /\ LET n == Head(wire[p]).name
       IN  /\ remote_handles' = [remote_handles EXCEPT ![p][Head(wire[p]).handle] = n]
           /\ IF n \in links[p]
              THEN UNCHANGED <<links, handle>>
              ELSE /\ links' = [links EXCEPT ![p] = @ \cup {n}]
                   /\ handle' = [handle EXCEPT ![p][n] = FreeHandle(p)]
           /\ IF state[p][n].remote_open
              THEN /\ fault' = [fault EXCEPT ![p] = "Attach already received"]
                   /\ UNCHANGED <<state, ticks>>
              ELSE /\ state' = [state EXCEPT ![p][n] = Attached(@)]
                   /\ ticks' = [ticks EXCEPT ![p] = RegisterIf(~state[p][n].local_open, @)]
                   /\ UNCHANGED fault

(***************************************************************************)
(* on_detach: closing this side waits for the next tick, and the token     *)
(* tells that tick whether the link was opened or closed in between.       *)
(***************************************************************************)
ReadDetach(p) ==
    /\ Read(p, "detach")
    /\ LET n == remote_handles[p][Head(wire[p]).handle]
       IN  IF n \in Names /\ state[p][n].remote_open
           THEN \E time \in Times :
                  /\ state' = [state EXCEPT ![p][n] = Mark(RemoteClosed(@), time)]
                  /\ ticks' = [ticks EXCEPT ![p] = Append(@, CloseTask(n, time))]
                  /\ UNCHANGED fault
           ELSE /\ fault' = [fault EXCEPT ![p] = IF n = Nothing THEN "Invalid handle"
                                                 ELSE "Detach already received"]
                /\ UNCHANGED <<state, ticks>>
    /\ UNCHANGED <<links, handle, remote_handles>>

-----------------------------------------------------------------------------
(* The ticks.                                                              *)

Tick(p, task) ==
    /\ Running(p)
    /\ ticks[p] # <<>>
    /\ Head(ticks[p]).task = task
    /\ reading' = [reading EXCEPT ![p] = FALSE]
    /\ UNCHANGED <<fault, calls, cancelled>>

(***************************************************************************)
(* What _process of a peer has to write: a frame for every request.  Of    *)
(* one link it takes an open request and then a close request until none   *)
(* is left, whatever the order in which they were made.                    *)
(***************************************************************************)
Requests(p) ==
    UNION {[name : {n}, index : 1 .. state[p][n].open_requests + state[p][n].close_requests]
             : n \in links[p]}

FrameType(e, i) ==
    LET pairs == IF e.open_requests < e.close_requests THEN e.open_requests
                                                       ELSE e.close_requests
        attach == IF i <= 2 * pairs THEN i % 2 = 1 ELSE e.open_requests > e.close_requests
    IN  IF attach THEN "attach" ELSE "detach"

FrameFor(p, request) ==
    [type |-> FrameType(state[p][request.name], request.index),
     name |-> request.name, handle |-> handle[p][request.name]]

\* One link after the other, each from its first request to its last.
LinkByLink(requests) ==
    \A i, k \in DOMAIN requests :
        i < k /\ requests[i].name = requests[k].name
            => /\ requests[i].index < requests[k].index
               /\ \A j \in i .. k : requests[j].name = requests[i].name

\* connection._process, over the links in whatever order they were made.
ProcessTick(p) ==
    /\ Tick(p, "process")
    /\ ticks' = [ticks EXCEPT ![p] = Tail(@)]
    /\ \E requests \in SetToSeqs(Requests(p)) :
          /\ LinkByLink(requests)
          /\ wire' = [wire EXCEPT ![Other(p)] =
                        @ \o [i \in DOMAIN requests |-> FrameFor(p, requests[i])]]
    /\ state' = [state EXCEPT ![p] = [n \in Names |-> Settled(@[n])]]
    /\ UNCHANGED <<links, handle, remote_handles>>

\* The token of on_detach is still the link's marker.
UnlessReopened(p, n, token) == state[p][n].marker = token
Always(p, n, token) == TRUE
Undisturbed(p, n, token) == UnlessReopened(p, n, token)

\* The first function on_detach leaves to nextTick: close, and remove a tick later.
CloseTick(p) ==
    /\ Tick(p, "close")
    /\ LET n == Head(ticks[p]).name
       IN  IF Undisturbed(p, n, Head(ticks[p]).token)
           THEN /\ state' = [state EXCEPT ![p][n] = Close(@)]
                /\ ticks' = [ticks EXCEPT ![p] =
                       Append(RegisterIf(state[p][n].local_open, Tail(@)), RemoveTask(n))]
           ELSE /\ ticks' = [ticks EXCEPT ![p] = Tail(@)]
                /\ UNCHANGED state
    /\ UNCHANGED <<links, handle, remote_handles, wire>>

(***************************************************************************)
(* The second: session.remove_link.  It looks for its entry among the      *)
(* remote handles under link.remote.handle, which is never set, and so the *)
(* peer's handle goes on to lead to the removed link.                      *)
(***************************************************************************)
RemoveTick(p) ==
    /\ Tick(p, "remove")
    /\ ticks' = [ticks EXCEPT ![p] = Tail(@)]
    /\ LET n == Head(ticks[p]).name
       IN  /\ links' = [links EXCEPT ![p] = @ \ {n}]
           /\ state' = [state EXCEPT ![p][n] = Fresh]
           /\ handle' = [handle EXCEPT ![p][n] = NoHandle]
           /\ remote_handles' = [remote_handles EXCEPT ![p] =
                 [h \in Handles |-> IF @[h] = n THEN Removed ELSE @[h]]]
    /\ UNCHANGED wire

-----------------------------------------------------------------------------

Step(p) ==
    \/ ReadAttach(p)
    \/ ReadDetach(p)
    \/ ProcessTick(p)
    \/ CloseTick(p)
    \/ RemoveTick(p)

Next ==
    \E p \in Peers :
        \/ Step(p)
        \/ \E n \in Names : OpenLink(p, n) \/ CloseLink(p, n) \/ ReopenLink(p, n)

Spec == Init /\ [][Next]_vars

\* What has been written is read in the end, and every tick has its turn.
FairSpec == Spec /\ \A p \in Peers : WF_vars(Step(p))
-----------------------------------------------------------------------------
(* What the code should do.                                                *)

(***************************************************************************)
(* Between two rhea peers no handler ever throws: each attach finds the    *)
(* link not attached by the peer, each detach finds it attached            *)
(* (link.js:146 and 179, session.js:762).                                  *)
(***************************************************************************)
NeverRefused == \A p \in Peers : fault[p] = "none"

(***************************************************************************)
(* A detach closes the link that its writer meant, although the entries of *)
(* remote.handles outlive their links and handles are used again.          *)
(***************************************************************************)
DetachFindsItsLink ==
    \A p \in Peers :
        wire[p] # <<>> /\ Head(wire[p]).type = "detach"
            => remote_handles[p][Head(wire[p]).handle] = Head(wire[p]).name

(***************************************************************************)
(* Once nothing is on its way and no tick is left, both sides have the     *)
(* same links, open on both sides, and the handle of each is known to the  *)
(* other: no half of a link is left over, whatever crossed.                *)
(***************************************************************************)
AtRest == \A p \in Peers : wire[p] = <<>> /\ ticks[p] = <<>>
AgreeAtRest ==
    AtRest => \A p \in Peers, n \in Names :
                 n \in links[p] => /\ n \in links[Other(p)]
                                  /\ IsOpen(state[p][n])
                                  /\ remote_handles[Other(p)][handle[p][n]] = n

(***************************************************************************)
(* remove_link forgets a link only when both sides have closed it and the  *)
(* detach that says so has been written, so that no later frame is for it. *)
(***************************************************************************)
RemovedWhenClosed ==
    [][\A p \in Peers, n \in Names :
          n \in links[p] /\ n \notin links'[p]
              => IsClosed(state[p][n]) /\ HasSettled(state[p][n])]_vars

(***************************************************************************)
(* README: close() "Closes a receiving link (i.e. cancels the              *)
(* subscription)": a link that one side has closed, and nobody has opened  *)
(* since, is gone on both sides for good.                                  *)
(***************************************************************************)
ClosedForGood ==
    <>[](\A n \in cancelled, p \in Peers : n \notin links[p])
=============================================================================
