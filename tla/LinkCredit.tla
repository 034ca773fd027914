----------------------------- MODULE LinkCredit -----------------------------
(***************************************************************************)
(* Credit between the senders of one rhea peer and the receivers of the    *)
(* other: granting and topping up, draining, and the sendable event, over  *)
(* the ring of deliveries that the senders of a session share              *)
(* (src/lib/link.js, src/lib/session.js).                                  *)
(*                                                                         *)
(* The window of the session is left out: a message is one frame, and the  *)
(* receiving session has room for all that are under way.  SessionTransfer *)
(* is about the window.                                                    *)
(***************************************************************************)
EXTENDS Integers, SequencesExt

CONSTANTS
    Links,          \* the links, numbered in the order they were opened
    CreditWindow,   \* credit_window of each receiver, 0 for credit by hand
    Drains,         \* the links whose receiver asks the sender to drain
    Capacity,       \* deliveries in the outgoing ring
    Liberties,      \* what the applications may do beyond the usual
    MaxGrant,       \* bound: credit that a receiver's application adds by hand
    MaxMessages     \* bound: messages the application has for a link

(***************************************************************************)
(* The liberty of an application: "topup" adds credit by hand while it     *)
(* waits for a drain.                                                      *)
(***************************************************************************)
ASSUME LinkNumbers == IsFiniteSet(Links) /\ Links = 1 .. Cardinality(Links)
ASSUME CreditWindows == CreditWindow \in [Links -> Nat]
ASSUME DrainingLinks == Drains \subseteq Links
ASSUME RingCapacity == Capacity \in Nat \ {0}
ASSUME LibertyNames == Liberties \subseteq {"topup"}
ASSUME Bounds == MaxGrant \in Nat /\ MaxMessages \in Nat

VARIABLES
    snd,        \* link -> credit, delivery_count, _draining, _drained, issue_flow
    ring,       \* session.outgoing.deliveries, oldest first
    ready,      \* link -> messages its application still has to send
    offered,    \* link -> messages its application has had so far
    snd_registered,  \* the sender's connection has a _process to come
    rcv,        \* link -> credit, delivery_count, drain, issue_flow
    unaccepted, \* incoming.updated: deliveries whose acceptance is not written
    granted,    \* link -> credit added by hand so far
    rcv_registered,
    s2r, r2s,   \* the frames under way
    drained     \* history: links drained since credit was last added

senderVars == <<snd, ring, ready, offered, snd_registered>>
receiverVars == <<rcv, unaccepted, granted, rcv_registered, drained>>
vars == <<senderVars, receiverVars, s2r, r2s>>

Deliveries == [link: Links, state: {"queued", "sent", "settled"}]

Flow(l, link, drain) ==
    [type |-> "flow", link |-> l, drain |-> drain,
     delivery_count |-> link.delivery_count, link_credit |-> link.credit]

Transfer(l) == [type |-> "transfer", link |-> l]

Init ==
    /\ snd = [l \in Links |-> [credit |-> 0, delivery_count |-> 0, draining |-> FALSE,
                               drained |-> FALSE, issue_flow |-> FALSE]]
    /\ ring = <<>>
    /\ ready = [l \in Links |-> 0]
    /\ offered = [l \in Links |-> 0]
    /\ snd_registered = FALSE
    \* receiver_open: a FlowController has asked for the first window.
    /\ rcv = [l \in Links |-> [credit |-> CreditWindow[l], delivery_count |-> 0,
                               drain |-> FALSE, issue_flow |-> CreditWindow[l] > 0]]
    /\ unaccepted = 0
    /\ granted = [l \in Links |-> 0]
    /\ rcv_registered = TRUE
    /\ s2r = <<>>
    /\ r2s = <<>>
    /\ drained = {}

-----------------------------------------------------------------------------
(* The sending peer and its application.                                   *)

\* Sender.sendable(): the credit counts as true when it is not zero.
Sendable(link, deliveries) == link.credit # 0 /\ Len(deliveries) < Capacity

Least(S) == CHOOSE x \in S : \A y \in S : x <= y

Queued(deliveries, l) ==
    {i \in DOMAIN deliveries : deliveries[i] = [link |-> l, state |-> "queued"]}

(***************************************************************************)
(* while (sendable()) send(): neither takes off credit, process does that. *)
(* So an application that is told sends all it has, until the ring is full *)
(* (README, send and sendable; examples/simple_send.js).                   *)
(***************************************************************************)
ToSend(link, deliveries, messages) ==
    IF Sendable(link, deliveries) THEN Least({Capacity - Len(deliveries), messages}) ELSE 0

Sent(l, n) == [k \in 1 .. n |-> [link |-> l, state |-> "queued"]]

\* Mutation of SetDrained: no flow is issued.
SetDrainedOnly(link, yes) == [link EXCEPT !.drained = yes]

SetDrained(link, yes) ==
    [link EXCEPT !.drained = yes, !.issue_flow = @ \/ (link.draining /\ yes)]

\* The listener of sendable, in a peer whose link l can send.
Told(peer, l) ==
    LET n == ToSend(peer.snd[l], peer.ring, peer.ready[l])
    IN  [peer EXCEPT !.ring = @ \o Sent(l, n), !.ready[l] = @ - n]

\* The listener of sender_draining: it sends what it can and calls set_drained(true).
Drain(peer, l) == [Told(peer, l) EXCEPT !.snd[l] = SetDrained(@, TRUE)]

\* The application has a message more, and sends it if sendable.
Offer(l) ==
    /\ offered[l] < MaxMessages
    /\ offered' = [offered EXCEPT ![l] = @ + 1]
    /\ LET peer == Told([snd |-> snd, ring |-> ring,
                         ready |-> [ready EXCEPT ![l] = @ + 1]], l)
       IN  /\ ring' = peer.ring
           /\ ready' = peer.ready
           /\ snd_registered' = (snd_registered \/ Len(peer.ring) > Len(ring))
    /\ UNCHANGED <<snd, receiverVars, s2r, r2s>>

\* Or it sends without asking: no credit is needed, only room in the ring.
SendAtOnce(l) ==
    /\ offered[l] < MaxMessages
    /\ Len(ring) < Capacity
    /\ offered' = [offered EXCEPT ![l] = @ + 1]
    /\ ring' = ring \o Sent(l, 1)
    /\ snd_registered' = TRUE
    /\ UNCHANGED <<snd, ready, receiverVars, s2r, r2s>>

\* Mutation of CreditAfter: the messages under way are not taken off.
CreditAsGranted(link, f) == f.link_credit

CreditAfter(link, f) == f.delivery_count + f.link_credit - link.delivery_count

(***************************************************************************)
(* Sender.on_flow: sender_draining is raised, whose listener leaves none   *)
(* that sendable could send, or sendable; session.on_flow registers.       *)
(***************************************************************************)
SenderOnFlow ==
    /\ r2s # <<>> /\ Head(r2s).type = "flow"
    /\ LET f == Head(r2s)
           l == f.link
           credit == CreditAfter(snd[l], f)
           link == [snd[l] EXCEPT !.credit = credit, !.draining = f.drain,
                                  !.drained = credit > 0]
           peer == [snd |-> [snd EXCEPT ![l] = link], ring |-> ring, ready |-> ready]
           told == IF f.drain THEN Drain(peer, l)
                   ELSE IF Sendable(link, ring) THEN Told(peer, l) ELSE peer
       IN  /\ snd' = told.snd
           /\ ring' = told.ring
           /\ ready' = told.ready
    /\ snd_registered' = TRUE
    /\ r2s' = Tail(r2s)
    /\ UNCHANGED <<offered, receiverVars, s2r>>

\* Outgoing.on_disposition: acceptances settle, in order, what has been sent.
SenderOnDisposition ==
    /\ r2s # <<>> /\ Head(r2s).type = "disposition"
    /\ LET sent == {i \in DOMAIN ring : ring[i].state = "sent"}
           hit == {i \in sent : Cardinality({j \in sent : j <= i}) <= Head(r2s).count}
       IN  ring' = [i \in DOMAIN ring |-> IF i \in hit THEN [ring[i] EXCEPT !.state = "settled"]
                                          ELSE ring[i]]
    /\ snd_registered' = TRUE
    /\ r2s' = Tail(r2s)
    /\ UNCHANGED <<snd, ready, offered, receiverVars, s2r>>

\* Mutation of Goes: one message for each run of process.
GoesAlone(i) ==
    /\ ring[i].state = "queued" /\ snd[ring[i].link].credit > 0
    /\ \A j \in 1 .. i - 1 : ring[j].state # "queued"

\* The loop of Outgoing.process ends at the first message whose link has no credit.
Goes(i) ==
    /\ ring[i].state = "queued"
    /\ \A j \in 1 .. i :
          ring[j].state = "queued" =>
              Cardinality({k \in Queued(ring, ring[j].link) : k <= j}) <= snd[ring[j].link].credit

\* The links as the loop leaves them, and the ring once its settled head is popped.
Charged ==
    [l \in Links |->
        LET n == Cardinality({i \in Queued(ring, l) : Goes(i)})
        IN  [snd[l] EXCEPT !.credit = @ - n, !.delivery_count = @ + n]]

Unsettled == {i \in DOMAIN ring : ring[i].state # "settled"}

Popped ==
    LET marked == [i \in DOMAIN ring |->
                      IF Goes(i) THEN [ring[i] EXCEPT !.state = "sent"] ELSE ring[i]]
    IN  IF Unsettled = {} THEN <<>> ELSE SubSeq(marked, Least(Unsettled), Len(ring))

\* Mutation of WasBlocked: the room is asked for once the ring has been emptied.
WasNeverBlocked == Len(Popped) = Capacity

\* Session._process looks at the ring before outgoing.process pops from it.
WasBlocked == Len(ring) = Capacity

\* each_sender(notify_sendable, is_sender_sendable): one link after the other.
Notify(peer, l) == IF Sendable(peer.snd[l], peer.ring) THEN Told(peer, l) ELSE peer

Notified ==
    LET peer == [snd |-> Charged, ring |-> Popped, ready |-> ready]
    IN  IF WasBlocked /\ Len(peer.ring) < Capacity
        THEN LET upTo[l \in 0 .. Cardinality(Links)] ==
                   IF l = 0 THEN peer ELSE Notify(upTo[l - 1], l)
             IN  upTo[Cardinality(Links)]
        ELSE peer

\* The test of _get_drain.
MayDrain(link) == link.draining /\ link.drained /\ link.credit # 0

\* _get_drain, whose loop ends when the credit comes down to zero.
GiveUp(link) == [link EXCEPT !.credit = 0, !.delivery_count = @ + link.credit]

\* link._process of a sender: its flow, if one is to be issued.
FlowOf(l, link) ==
    IF ~ link.issue_flow THEN <<>>
    ELSE IF MayDrain(link) THEN <<Flow(l, GiveUp(link), TRUE)>>
    ELSE <<Flow(l, link, FALSE)>>

\* Mutation of AfterFlow: the credit is given up in the frame alone.
AfterFlowKept(link) == [link EXCEPT !.issue_flow = FALSE]

AfterFlow(link) ==
    [(IF link.issue_flow /\ MayDrain(link) THEN GiveUp(link) ELSE link) EXCEPT !.issue_flow = FALSE]

\* Session._process of the sender's session; from a negative credit _get_drain never
\* returns.
SenderProcess ==
    /\ snd_registered
    /\ \A l \in Links : snd[l].credit >= 0 \/ ~ (snd[l].issue_flow /\ MayDrain(snd[l]))
    /\ \E told \in {Notified} :
          /\ LET transfers == [i \in DOMAIN ring |->
                                 IF Goes(i) THEN <<Transfer(ring[i].link)>> ELSE <<>>]
                 flows == [l \in Links |-> FlowOf(l, told.snd[l])]
             IN  s2r' = s2r \o FlattenSeq(transfers) \o FlattenSeq(flows)
          /\ snd' = [l \in Links |-> AfterFlow(told.snd[l])]
          /\ ring' = told.ring
          /\ ready' = told.ready
          \* A message sent by a listener in between asks for another run.
          /\ snd_registered' = (Len(told.ring) > Len(Popped))
    /\ UNCHANGED <<offered, receiverVars, r2s>>

-----------------------------------------------------------------------------
(* The receiving peer and its application.                                 *)

\* Receiver.flow.
Granted(link, n) == [link EXCEPT !.credit = @ + n, !.issue_flow = TRUE]

\* FlowController.update, a listener of "message".
ToppedUp(l, link) ==
    LET delta == CreditWindow[l] - link.credit
    IN  IF CreditWindow[l] > 0 /\ delta > 0 /\ 4 * delta >= CreditWindow[l]
        THEN Granted(link, delta) ELSE link

\* Incoming.on_transfer, with the listeners that top up and accept.
ReceiverOnTransfer ==
    /\ s2r # <<>> /\ Head(s2r).type = "transfer"
    /\ LET l == Head(s2r).link
           counted == [rcv[l] EXCEPT !.delivery_count = @ + 1,
                                     !.credit = IF @ > 0 THEN @ - 1 ELSE @]
       IN  /\ rcv' = [rcv EXCEPT ![l] = ToppedUp(l, counted)]
           /\ drained' = IF ToppedUp(l, counted) # counted THEN drained \ {l} ELSE drained
    /\ unaccepted' = unaccepted + 1
    /\ rcv_registered' = TRUE
    /\ s2r' = Tail(s2r)
    /\ UNCHANGED <<granted, senderVars, r2s>>

\* Mutation of TakenOver: the count of the sender is not taken over.
CreditTakenOver(link, f) == [link EXCEPT !.credit = f.link_credit]

\* Receiver.on_flow of a flow with drain.
TakenOver(link, f) ==
    [link EXCEPT !.credit = f.link_credit, !.delivery_count = f.delivery_count]

ReceiverOnFlow ==
    /\ s2r # <<>> /\ Head(s2r).type = "flow"
    /\ LET f == Head(s2r)
       IN  /\ rcv' = IF f.drain THEN [rcv EXCEPT ![f.link] = TakenOver(@, f)] ELSE rcv
           /\ drained' = IF f.drain /\ f.link_credit <= 0 THEN drained \cup {f.link} ELSE drained
    /\ rcv_registered' = TRUE
    /\ s2r' = Tail(s2r)
    /\ UNCHANGED <<unaccepted, granted, senderVars, r2s>>

\* Receiver.add_credit by an application that manages the credit by hand.
AddCredit(l, n) ==
    /\ CreditWindow[l] = 0
    /\ n \in 1 .. MaxGrant - granted[l]
    /\ rcv[l].drain /\ rcv[l].credit > 0 => "topup" \in Liberties
    /\ rcv' = [rcv EXCEPT ![l] = Granted(@, n)]
    /\ granted' = [granted EXCEPT ![l] = @ + n]
    /\ rcv_registered' = TRUE
    /\ drained' = drained \ {l}
    /\ UNCHANGED <<unaccepted, senderVars, s2r, r2s>>

\* Receiver.drain_credit.  Nothing in the library takes the flag back.
DrainCredit(l) ==
    /\ l \in Drains
    /\ ~ rcv[l].drain
    /\ rcv' = [rcv EXCEPT ![l].drain = TRUE, ![l].issue_flow = TRUE]
    /\ rcv_registered' = TRUE
    /\ UNCHANGED <<unaccepted, granted, drained, senderVars, s2r, r2s>>

\* Session._process of the receiver's session: dispositions, then the links' flows.
ReceiverProcess ==
    /\ rcv_registered
    /\ LET flows == [l \in Links |-> IF rcv[l].issue_flow
                                       THEN <<Flow(l, rcv[l], rcv[l].drain)>> ELSE <<>>]
           acceptance == [type |-> "disposition", count |-> unaccepted]
       IN  r2s' = r2s \o (IF unaccepted > 0 THEN <<acceptance>> ELSE <<>>) \o FlattenSeq(flows)
    /\ rcv' = [l \in Links |-> [rcv[l] EXCEPT !.issue_flow = FALSE]]
    /\ unaccepted' = 0
    /\ rcv_registered' = FALSE
    /\ UNCHANGED <<granted, drained, senderVars, s2r>>

-----------------------------------------------------------------------------

\* What the two peers do by themselves, without their applications.
Library ==
    \/ SenderOnFlow
    \/ SenderOnDisposition
    \/ SenderProcess
    \/ ReceiverOnTransfer
    \/ ReceiverOnFlow
    \/ ReceiverProcess

Next ==
    \/ Library
    \/ \E l \in Links : Offer(l) \/ SendAtOnce(l) \/ DrainCredit(l)
    \/ \E l \in Links, n \in 1 .. MaxGrant : AddCredit(l, n)

Spec == Init /\ [][Next]_vars

\* A tick has its turn and a frame that was written is read, unless others do for ever.
FairSpec == Spec /\ WF_vars(Library)

-----------------------------------------------------------------------------
(* What the code should do.                                                *)

UnderWay(l) == Cardinality({i \in DOMAIN s2r : s2r[i] = Transfer(l)})

(***************************************************************************)
(* Credit is a natural number at both ends, whatever flows, drains and     *)
(* messages cross: _get_drain counts it down to zero one by one (link.js:  *)
(* 292), sendable() takes a negative one for true (link.js:311), and a     *)
(* message finds the receiver with credit left (session.js:386).           *)
(***************************************************************************)
NeverOverdrawn ==
    /\ \A l \in Links : snd[l].credit >= 0 /\ rcv[l].credit >= 0
    /\ s2r # <<>> /\ Head(s2r).type = "transfer" => rcv[Head(s2r).link].credit > 0

(***************************************************************************)
(* When nothing is under way and nothing is left to be written, the sender *)
(* has exactly the credit the receiver believes to have given, and both    *)
(* have counted the same deliveries, drained credit included (link.js:290, *)
(* 315 and 357).                                                           *)
(***************************************************************************)
CreditAgrees ==
    s2r = <<>> /\ r2s = <<>> /\ ~ snd_registered /\ ~ rcv_registered
        => \A l \in Links : /\ snd[l].credit = rcv[l].credit
                            /\ snd[l].delivery_count = rcv[l].delivery_count

(***************************************************************************)
(* README, receiver_drained: "the remote peer indicates that it has        *)
(* drained all credit (and therefore there are no more messages at present *)
(* that it can send)": until the receiver adds credit, no message of the   *)
(* link is under way and none that waits in the ring can be sent.          *)
(***************************************************************************)
DrainedMeansNone ==
    \A l \in drained : UnderWay(l) = 0 /\ snd[l].credit <= 0

\* The message that the loop of process looks at first.
IsNext(i) == ring[i].state = "queued" /\ \A j \in 1 .. i - 1 : ring[j].state # "queued"

(***************************************************************************)
(* Only a lack of credit holds a message back.  The loop of process stops  *)
(* at the first whose link has none (session.js:277), also if others wait  *)
(* behind it; but then a _process is to come as soon as that link can go   *)
(* on, whether by a flow, by what a listener sends in the middle of        *)
(* _process, or with the credit that a drain has left.                     *)
(***************************************************************************)
HeldOnlyByCredit ==
    ~ snd_registered =>
        \A i \in DOMAIN ring : IsNext(i) => snd[ring[i].link].credit <= 0

(***************************************************************************)
(* A sender that is asked to drain uses or gives up all its credit, be the *)
(* ring full or the flow under way when the request comes (link.js:292).   *)
(***************************************************************************)
DrainIsAnswered ==
    \A l \in Links : rcv[l].drain /\ rcv[l].credit > 0 ~> rcv[l].credit = 0

\* The ring is full, and held by a message whose link has no credit.
Held ==
    /\ Len(ring) = Capacity
    /\ \E i \in DOMAIN ring : IsNext(i) /\ snd[ring[i].link].credit <= 0

(***************************************************************************)
(* README: "When sender is no longer sendable, continue sending in the     *)
(* sendable event": an application that waits for the event gets its       *)
(* messages sent as long as there is credit for them, though the ring is   *)
(* shared with another sender that fills it (session.js:644).  The one     *)
(* thing that can keep it waiting for ever is a message in a full ring     *)
(* that another link has sent beyond its credit.                           *)
(***************************************************************************)
SendableIsTold ==
    \A l \in Links :
        ready[l] > 0 /\ snd[l].credit > 0 ~> ready[l] = 0 \/ snd[l].credit <= 0 \/ Held
=============================================================================
