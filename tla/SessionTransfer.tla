--------------------------- MODULE SessionTransfer ---------------------------
(***************************************************************************)
(* Message transfer over one AMQP session between two rhea peers: the      *)
(* Outgoing half of the sender's session, the Incoming half of the         *)
(* receiver's session, the credit of the links that share them, and the    *)
(* ordered byte stream between the peers (src/lib/session.js, link.js).    *)
(*                                                                         *)
(* Each peer is one JavaScript thread, so every handler is one step.  What *)
(* a handler writes is put on the stream by the next run of _process,      *)
(* which the handler asks for with _register.  The session and its links   *)
(* are open on both sides from the start, receivers do not drain, and      *)
(* autosettle has its default, true.                                       *)
(***************************************************************************)
EXTENDS CircularBuffer, Dispositions

CONSTANTS
    Links,          \* the handles of the links from the sender to the receiver
    OutCapacity,    \* session_buffer_size.outgoing of the sending peer
    InCapacity,     \* session_buffer_size.incoming of the receiving peer
    UintModulus,    \* a uint field of a frame holds a value modulo this
    CreditWindow,   \* credit_window of each receiver; 0 is manual credit
    AutoAccept,     \* the links whose receiver has autoaccept
    SettledFirst,   \* the links whose sender has snd_settle_mode 1
    SettlesSecond,  \* the links whose receiver has rcv_settle_mode 1
    Outcomes,       \* the outcomes an application gives a message
    Liberties,      \* what the applications may do beyond the usual
    MaxDeliveries,  \* bound: deliveries sent
    MaxFrames,      \* bound: transfer frames one message is split into
    MaxGrant        \* bound: credit granted by hand per link

(***************************************************************************)
(* The liberties of an application: "overrun" sends when the buffer of the *)
(* session is full (send throws), "forget" settles what it sent before any *)
(* outcome has come, "repeat" gives a message an outcome a second time.    *)
(***************************************************************************)
ASSUME Capacities == OutCapacity \in Nat \ {0} /\ InCapacity \in Nat \ {0}
ASSUME Modulus == UintModulus \in Nat \ {0}
ASSUME LinkOptions ==
    /\ Links \subseteq Nat /\ IsFiniteSet(Links)
    /\ CreditWindow \in [Links -> Nat]
    /\ AutoAccept \subseteq Links
    /\ SettledFirst \subseteq Links
    /\ SettlesSecond \subseteq Links
ASSUME OutcomeNames == Outcomes \subseteq {"accepted", "released", "rejected", "modified"}
ASSUME Bounds == MaxDeliveries \in Nat /\ MaxFrames \in Nat \ {0} /\ MaxGrant \in Nat
ASSUME LibertyNames == Liberties \subseteq {"overrun", "forget", "repeat"}

VARIABLES
    out,        \* the sender's session.outgoing, without its buffer
    outbuf,     \* session.outgoing.deliveries
    sent,       \* the delivery objects made by send, by delivery-id
    snd,        \* the Sender links
    sproc,      \* the sending connection: registered, and inside _process
    inc,        \* the receiver's session.incoming, without its buffer
    inbuf,      \* session.incoming.deliveries
    got,        \* the delivery objects made by on_transfer, by delivery-id
    rcv,        \* the Receiver links
    registered, \* the receiving connection has a _process coming
    s2r, r2s,   \* the frames under way, in each direction
    delivered,  \* history: the ids of the "message" events, in order
    failed      \* the exception that ended the connection, or "none"

sender == <<out, outbuf, sent, snd, sproc>>
receiver == <<inc, inbuf, got, rcv, registered, delivered, failed>>
vars == <<sender, receiver, s2r, r2s>>

Ids == 0..(MaxDeliveries - 1)
States == Outcomes \cup {NoState, "accepted"}
\* A flow for the session only has no handle.
NoHandle == Undefined

Lesser(a, b) == IF a < b THEN a ELSE b
Uint(n) == n % UintModulus

-----------------------------------------------------------------------------
(* Init: both peers have seen begin and attach.  A receiver with a credit   *)
(* window has been topped up by its receiver_open event.                    *)

Init ==
    /\ out = [next_delivery_id |-> 0, next_pending_delivery |-> 0,
              next_transfer_id |-> 0, remote_next_transfer_id |-> Undefined,
              remote_window |-> InCapacity,
              updated |-> {}, pending_dispositions |-> <<>>]
    /\ outbuf = EmptyBuffer(OutCapacity)
    /\ sent = [id \in Ids |-> [link |-> NoHandle, frames |-> 0, next_to_send |-> 0,
                               settled |-> FALSE, remote_settled |-> FALSE,
                               remote_state |-> NoState]]
    /\ snd = [l \in Links |-> [credit |-> 0, delivery_count |-> 0]]
    /\ sproc = [registered |-> FALSE, processing |-> FALSE]
    /\ inc = [next_transfer_id |-> 0, next_delivery_id |-> Undefined,
              max_transfer_id |-> InCapacity, updated |-> <<>>]
    /\ inbuf = EmptyBuffer(InCapacity)
    /\ got = [id \in Ids |-> [link |-> NoHandle, parts |-> <<>>, settled |-> FALSE,
                              state |-> NoState, remote_settled |-> FALSE,
                              updates |-> 0]]
    /\ rcv = [l \in Links |-> [credit |-> CreditWindow[l], delivery_count |-> 0,
                               issue_flow |-> CreditWindow[l] > 0,
                               incomplete |-> Undefined]]
    /\ registered = \E l \in Links : CreditWindow[l] > 0
    /\ s2r = <<>>
    /\ r2s = <<>>
    /\ delivered = <<>>
    /\ failed = "none"

-----------------------------------------------------------------------------
(* The sending peer.                                                        *)

\* Between two runs of its event loop's callbacks, on a live connection.
SenderIdle == ~ sproc.processing /\ failed = "none"

(***************************************************************************)
(* Sender.send and Outgoing.send of a message that takes n frames.  The id *)
(* is taken before push throws on a full buffer, and _register is not      *)
(* reached then.  A sender with snd_settle_mode 1 settles it at once.      *)
(***************************************************************************)
Send(l, n) ==
    LET id == out.next_delivery_id
    IN  /\ SenderIdle
        /\ id < MaxDeliveries
        /\ Available(outbuf) > 0 \/ "overrun" \in Liberties
        /\ out' = [out EXCEPT !.next_delivery_id = id + 1]
        /\ IF Available(outbuf) > 0
           THEN /\ sent' = [sent EXCEPT ![id] =
                               [link |-> l, frames |-> n, next_to_send |-> 0,
                                settled |-> l \in SettledFirst,
                                remote_settled |-> FALSE, remote_state |-> NoState]]
                /\ outbuf' = Push(outbuf, id)
                /\ sproc' = [sproc EXCEPT !.registered = TRUE]
           ELSE UNCHANGED <<sent, outbuf, sproc>>
        /\ UNCHANGED <<snd, receiver, s2r, r2s>>

(***************************************************************************)
(* delivery.update(true), which is Outgoing.update: the application        *)
(* settles a delivery once its outcome is in, or forgets it earlier.       *)
(***************************************************************************)
Settle(id) ==
    /\ SenderIdle
    /\ sent[id].frames > 0 /\ ~ sent[id].settled
    /\ sent[id].remote_state # NoState \/ "forget" \in Liberties
    /\ sent' = [sent EXCEPT ![id].settled = TRUE]
    /\ out' = IF sent[id].remote_settled THEN out
              ELSE [out EXCEPT !.pending_dispositions = Append(@, id)]
    /\ sproc' = [sproc EXCEPT !.registered = TRUE]
    /\ UNCHANGED <<outbuf, snd, receiver, s2r, r2s>>

\* Mutation of TransferWindow: the transfers under way are not taken off.
WindowAsTold ==
    IF out.remote_window = 0 \/ out.remote_next_transfer_id = Undefined THEN 0
    ELSE out.remote_window

\* transfer_window; before the first flow the code computes NaN, which sends nothing.
TransferWindow ==
    IF out.remote_window = 0 \/ out.remote_next_transfer_id = Undefined THEN 0
    ELSE out.remote_window - (out.next_transfer_id - out.remote_next_transfer_id)

\* The delivery the loop of process looks at, and how many of its frames may go.
Pending == ById(outbuf, out.next_pending_delivery)
NumToSend == Lesser(TransferWindow, sent[Pending].frames - sent[Pending].next_to_send)

\* Mutation of CanSend: has_credit is not asked.
CanSendWithoutCredit ==
    /\ out.next_pending_delivery < out.next_delivery_id
    /\ Pending # Undefined
    /\ NumToSend > 0

CanSend ==
    /\ out.next_pending_delivery < out.next_delivery_id
    /\ Pending # Undefined
    /\ snd[sent[Pending].link].credit > 0
    /\ NumToSend > 0

(***************************************************************************)
(* The kth of the frames the loop sends now.  transfer_id and number are   *)
(* not in the frame: AMQP counts transfers and deliveries implicitly, and  *)
(* the properties use the counts.                                          *)
(***************************************************************************)
Transfer(d, k) ==
    LET part == sent[d].next_to_send + k - 1
    IN  [type |-> "transfer", handle |-> sent[d].link, delivery_id |-> d,
         settled |-> sent[d].settled, more |-> part + 1 < sent[d].frames, part |-> part,
         transfer_id |-> out.next_transfer_id + k - 1,
         number |-> snd[sent[d].link].delivery_count]

\* One round of the loop in Outgoing.process that sends pending deliveries.
SendPending ==
    /\ failed = "none" /\ sproc.registered /\ CanSend
    /\ LET d == Pending
           l == sent[d].link
           done == sent[d].next_to_send + NumToSend = sent[d].frames
       IN  /\ s2r' = s2r \o [k \in 1..NumToSend |-> Transfer(d, k)]
           /\ out' = [out EXCEPT !.next_transfer_id = @ + NumToSend,
                                 !.next_pending_delivery = IF done THEN @ + 1 ELSE @]
           /\ sent' = IF done
                      THEN [sent EXCEPT ![d].remote_settled = @ \/ sent[d].settled]
                      ELSE [sent EXCEPT ![d].next_to_send = @ + NumToSend]
           /\ snd' = IF done
                     THEN [snd EXCEPT ![l] = [credit |-> @.credit - 1,
                                              delivery_count |-> @.delivery_count + 1]]
                     ELSE snd
    /\ sproc' = [sproc EXCEPT !.processing = TRUE]
    /\ UNCHANGED <<outbuf, receiver, r2s>>

(***************************************************************************)
(* The rest of Outgoing.process, once the loop is left: the events of the  *)
(* updated deliveries, of which "settled" settles the delivery here too    *)
(* (auto_settle), the pending dispositions, and the fully settled          *)
(* deliveries at the head of the buffer.                                   *)
(***************************************************************************)
\* Mutation of Notified: no auto_settle.
NeverAutoSettled == sent

Notified ==
    [id \in Ids |->
        IF id \in out.updated /\ sent[id].remote_settled
        THEN [sent[id] EXCEPT !.settled = TRUE] ELSE sent[id]]

UpdatedOutgoing ==
    [k \in 1..Len(out.pending_dispositions) |->
        [id |-> out.pending_dispositions[k], state |-> NoState,
         settled |-> Notified[out.pending_dispositions[k]].settled]]

\* Mutation of FullySettled: the remote's settlement is not waited for.
SettledHere(delivery) == delivery.settled

\* What pop_if asks of a delivery in process.
FullySettled(delivery) == delivery.settled /\ delivery.remote_settled

FinishProcess ==
    /\ failed = "none" /\ sproc.registered /\ ~ CanSend
    /\ sent' = Notified
    /\ s2r' = s2r \o WriteDispositions(UpdatedOutgoing, "sender")
    /\ outbuf' = PopIf(outbuf, {id \in Ids : FullySettled(Notified[id])})
    /\ out' = [out EXCEPT !.updated = {}, !.pending_dispositions = <<>>]
    /\ sproc' = [registered |-> FALSE, processing |-> FALSE]
    /\ UNCHANGED <<snd, receiver, r2s>>

\* A frame from the receiver is read between two runs of the sender's _process.
SenderReads(type) ==
    /\ SenderIdle
    /\ r2s # <<>> /\ Head(r2s).type = type
    /\ r2s' = Tail(r2s)
    /\ sproc' = [sproc EXCEPT !.registered = TRUE]

\* Mutation of CreditAfter: the messages the receiver has not counted yet are forgotten.
CreditAsTold(f) == f.link_credit

\* Sender.on_flow: the credit that is left once the messages under way are taken off.
CreditAfter(f) == f.delivery_count + f.link_credit - snd[f.handle].delivery_count

\* Session.on_flow at the sender, with Outgoing.on_flow and Sender.on_flow.
SenderOnFlow ==
    /\ SenderReads("flow")
    /\ LET f == Head(r2s)
       IN  /\ out' = [out EXCEPT !.remote_next_transfer_id = f.next_incoming_id,
                                 !.remote_window = f.incoming_window]
           /\ snd' = IF f.handle = NoHandle THEN snd
                     ELSE [snd EXCEPT ![f.handle].credit = CreditAfter(f)]
    /\ UNCHANGED <<outbuf, sent, receiver, s2r>>

\* Outgoing.on_disposition.
SenderOnDisposition ==
    /\ SenderReads("disposition")
    /\ LET f == Head(r2s)
           found == {ById(outbuf, i) : i \in f.first..f.last} \ {Undefined}
           hit == {d \in found : ~ sent[d].remote_settled
                                 /\ (f.settled \/ f.state # NoState)}
       IN  /\ sent' = [id \in Ids |->
                          IF id \notin hit THEN sent[id]
                          ELSE [sent[id] EXCEPT
                                  !.remote_settled = f.settled,
                                  !.remote_state = IF f.state = NoState THEN @ ELSE f.state]]
           /\ out' = [out EXCEPT !.updated = @ \cup hit]
    /\ UNCHANGED <<outbuf, snd, receiver, s2r>>

-----------------------------------------------------------------------------
(* The receiving peer.                                                      *)

ReceiverReads(type) ==
    /\ failed = "none"
    /\ s2r # <<>> /\ Head(s2r).type = type
    /\ s2r' = Tail(s2r)

\* Does the frame carry on the delivery its link has not completed?
Continues(f) == rcv[f.handle].incomplete # Undefined

\* next_delivery_id, which the first transfer of the session sets.
Expected(f) ==
    IF inc.next_delivery_id = Undefined THEN f.delivery_id ELSE inc.next_delivery_id

\* The exception Incoming.on_transfer throws for the frame, if any.
Fault(f) ==
    IF Continues(f)
    THEN IF rcv[f.handle].incomplete # f.delivery_id THEN "frame sequence error" ELSE "none"
    ELSE IF Expected(f) # f.delivery_id THEN "frame sequence error"
    ELSE IF Available(inbuf) = 0 THEN "circular buffer overflow"
    ELSE "none"

\* Mutation of Received: a frame that continues a delivery replaces what came before.
LastPartOnly(f) ==
    IF Continues(f)
    THEN [got[f.delivery_id] EXCEPT !.parts = <<f.part>>]
    ELSE [link |-> f.handle, parts |-> <<f.part>>, settled |-> FALSE, state |-> NoState,
          remote_settled |-> f.settled, updates |-> 0]

\* The delivery object once the frame is part of it.
Received(f) ==
    IF Continues(f)
    THEN [got[f.delivery_id] EXCEPT !.parts = Append(@, f.part)]
    ELSE [link |-> f.handle, parts |-> <<f.part>>, settled |-> FALSE, state |-> NoState,
          remote_settled |-> f.settled, updates |-> 0]

\* A frame that throws: connection.input reports the error and ends the socket.
TransferFails(f) ==
    /\ failed' = Fault(f)
    /\ inc' = [inc EXCEPT !.next_transfer_id = @ + 1]
    /\ UNCHANGED <<inbuf, got, rcv, registered, delivered>>

\* Mutation of NextDelivery: every frame counts as a delivery.
NextFrame(f) == Expected(f) + 1

\* A frame that begins a delivery pushes it, one that continues it does not.
BufferWith(f) == IF Continues(f) THEN inbuf ELSE Push(inbuf, f.delivery_id)
NextDelivery(f) == IF Continues(f) THEN inc.next_delivery_id ELSE Expected(f) + 1

\* A frame that more will follow.  Nothing asks for a run of _process here.
TransferMore(f) ==
    /\ inbuf' = BufferWith(f)
    /\ got' = [got EXCEPT ![f.delivery_id] = Received(f)]
    /\ rcv' = [rcv EXCEPT ![f.handle].incomplete = f.delivery_id]
    /\ inc' = [inc EXCEPT !.next_transfer_id = @ + 1,
                          !.next_delivery_id = NextDelivery(f)]
    /\ UNCHANGED <<registered, delivered, failed>>

(***************************************************************************)
(* The last frame of a message: the link's credit goes down and the        *)
(* "message" event is raised.  Its listeners are the FlowController of a   *)
(* credit window, which tops the credit up when a quarter is used, and     *)
(* auto_accept, which is delivery.update(undefined, accepted).             *)
(***************************************************************************)
TransferLast(f) ==
    LET l == f.handle
        left == IF rcv[l].credit > 0 THEN rcv[l].credit - 1 ELSE rcv[l].credit
        delta == CreditWindow[l] - left
        topup == CreditWindow[l] > 0 /\ delta > 0 /\ 4 * delta >= CreditWindow[l]
        accept == l \in AutoAccept
    IN  /\ inbuf' = BufferWith(f)
        /\ got' = [got EXCEPT ![f.delivery_id] =
                      IF accept THEN [Received(f) EXCEPT !.state = "accepted",
                                                         !.settled = l \notin SettlesSecond,
                                                         !.updates = 1]
                      ELSE Received(f)]
        /\ rcv' = [rcv EXCEPT ![l] =
                      [credit |-> IF topup THEN left + delta ELSE left,
                       delivery_count |-> rcv[l].delivery_count + 1,
                       issue_flow |-> rcv[l].issue_flow \/ topup,
                       incomplete |-> Undefined]]
        /\ inc' = [inc EXCEPT !.next_transfer_id = @ + 1,
                              !.next_delivery_id = NextDelivery(f),
                              !.updated = IF accept /\ ~ Received(f).remote_settled
                                          THEN Append(@, f.delivery_id) ELSE @]
        /\ registered' = (registered \/ topup \/ accept)
        /\ delivered' = Append(delivered, f.delivery_id)
        /\ UNCHANGED failed

\* Incoming.on_transfer.
ReceiverOnTransfer ==
    /\ ReceiverReads("transfer")
    /\ LET f == Head(s2r)
       IN  IF Fault(f) # "none" THEN TransferFails(f)
           ELSE IF f.more THEN TransferMore(f)
           ELSE TransferLast(f)
    /\ UNCHANGED <<sender, r2s>>

\* Has the "message" event of the delivery been raised?
Complete(id) == \E k \in DOMAIN delivered : delivered[k] = id

\* delivery.accept, release, reject or modified: update(undefined, outcome).
GiveOutcome(id, outcome) ==
    /\ failed = "none"
    /\ Complete(id)
    /\ got[id].updates < IF "repeat" \in Liberties THEN 2 ELSE 1
    /\ got' = [got EXCEPT ![id].state = outcome,
                          ![id].updates = @ + 1,
                          ![id].settled = got[id].link \notin SettlesSecond]
    /\ inc' = IF got[id].remote_settled THEN inc
              ELSE [inc EXCEPT !.updated = Append(@, id)]
    /\ registered' = TRUE
    /\ UNCHANGED <<sender, inbuf, rcv, delivered, failed, s2r, r2s>>

\* Receiver.add_credit(1) by an application that manages the credit itself.
AddCredit(l) ==
    /\ failed = "none"
    /\ CreditWindow[l] = 0
    /\ rcv[l].credit + rcv[l].delivery_count < MaxGrant
    /\ rcv' = [rcv EXCEPT ![l].credit = @ + 1, ![l].issue_flow = TRUE]
    /\ registered' = TRUE
    /\ UNCHANGED <<sender, inc, inbuf, got, delivered, failed, s2r, r2s>>

\* Incoming.on_disposition; "settled" settles a delivery of a link that settles second.
ReceiverOnDisposition ==
    /\ ReceiverReads("disposition")
    /\ LET f == Head(s2r)
           found == {ById(inbuf, i) : i \in f.first..f.last} \ {Undefined}
           hit == {d \in found : ~ got[d].remote_settled /\ f.settled}
       IN  got' = [id \in Ids |->
                      IF id \notin hit THEN got[id]
                      ELSE [got[id] EXCEPT
                              !.remote_settled = TRUE,
                              !.settled = @ \/ got[id].link \in SettlesSecond]]
    /\ registered' = TRUE
    /\ UNCHANGED <<sender, inc, inbuf, rcv, delivered, failed, r2s>>

\* The session's part of _write_flow, and a link's.
SessionFlow(buffer) ==
    [type |-> "flow", handle |-> NoHandle, next_incoming_id |-> Uint(inc.next_transfer_id),
     incoming_window |-> Available(buffer), delivery_count |-> 0, link_credit |-> 0]

LinkFlow(buffer, l) ==
    [SessionFlow(buffer) EXCEPT !.handle = l, !.delivery_count = rcv[l].delivery_count,
                                !.link_credit = rcv[l].credit]

(***************************************************************************)
(* The receiving connection's _process: Incoming.process writes the        *)
(* dispositions, frees the settled deliveries at the head of the buffer    *)
(* and opens the window when less than half of it is left; then each link  *)
(* that asked for it writes its flow, in the order of the session's links. *)
(***************************************************************************)
Freed == PopIf(inbuf, {id \in Ids : got[id].settled})
WindowLow == 2 * (inc.max_transfer_id - inc.next_transfer_id) < Available(Freed)
Asking == {l \in Links : rcv[l].issue_flow}

UpdatedIncoming ==
    [k \in 1..Len(inc.updated) |->
        [id |-> inc.updated[k], state |-> got[inc.updated[k]].state,
         settled |-> got[inc.updated[k]].settled]]

ReceiverProcess ==
    /\ failed = "none" /\ registered
    /\ \E order \in [1..Cardinality(Asking) -> Asking] :
           /\ \A i, j \in DOMAIN order : order[i] = order[j] => i = j
           /\ r2s' = r2s \o WriteDispositions(UpdatedIncoming, "receiver")
                         \o (IF WindowLow THEN <<SessionFlow(Freed)>> ELSE <<>>)
                         \o [k \in 1..Cardinality(Asking) |-> LinkFlow(Freed, order[k])]
    /\ inbuf' = Freed
    /\ inc' = [inc EXCEPT !.updated = <<>>,
                          !.max_transfer_id =
                              IF WindowLow \/ Asking # {}
                              THEN Uint(inc.next_transfer_id) + Available(Freed) ELSE @]
    /\ rcv' = [l \in Links |-> [rcv[l] EXCEPT !.issue_flow = FALSE]]
    /\ registered' = FALSE
    /\ UNCHANGED <<sender, got, delivered, failed, s2r>>

-----------------------------------------------------------------------------

SenderApplication ==
    \/ \E l \in Links, n \in 1..MaxFrames : Send(l, n)
    \/ \E id \in Ids : Settle(id)

ReceiverApplication ==
    \/ \E id \in Ids, outcome \in Outcomes : GiveOutcome(id, outcome)
    \/ \E l \in Links : AddCredit(l)

SenderPeer == SendPending \/ FinishProcess \/ SenderOnFlow \/ SenderOnDisposition

ReceiverPeer ==
    ReceiverOnTransfer \/ ReceiverOnDisposition \/ ReceiverProcess

Next == SenderApplication \/ ReceiverApplication \/ SenderPeer \/ ReceiverPeer

Spec == Init /\ [][Next]_vars

(***************************************************************************)
(* What the event loop and the connection guarantee: a registered _process *)
(* runs, and a frame on the stream is read.  The applications owe nothing. *)
(***************************************************************************)
Fairness ==
    /\ WF_vars(SendPending) /\ WF_vars(FinishProcess)
    /\ WF_vars(SenderOnFlow) /\ WF_vars(SenderOnDisposition)
    /\ WF_vars(ReceiverOnTransfer) /\ WF_vars(ReceiverOnDisposition)
    /\ WF_vars(ReceiverProcess)

FairSpec == Spec /\ Fairness

-----------------------------------------------------------------------------
(* Properties.                                                              *)

SentDelivery ==
    [link : Links \cup {NoHandle}, frames : 0..MaxFrames, next_to_send : 0..MaxFrames,
     settled : BOOLEAN, remote_settled : BOOLEAN, remote_state : States]

GotDelivery ==
    [link : Links \cup {NoHandle}, parts : Seq(Nat), settled : BOOLEAN,
     state : States, remote_settled : BOOLEAN, updates : Nat]

Outgoing ==
    [next_delivery_id : Nat, next_pending_delivery : Nat, next_transfer_id : Nat,
     remote_next_transfer_id : Nat \cup {Undefined}, remote_window : Nat,
     updated : SUBSET Ids, pending_dispositions : Seq(Ids)]

Incoming ==
    [next_transfer_id : Nat, next_delivery_id : Nat \cup {Undefined},
     max_transfer_id : Nat, updated : Seq(Ids)]

SenderLink == [credit : Int, delivery_count : Nat]

ReceiverLink ==
    [credit : Nat, delivery_count : Nat, issue_flow : BOOLEAN,
     incomplete : Ids \cup {Undefined}]

\* The shape of every variable.
TypeOK ==
    /\ out \in Outgoing
    /\ outbuf \in Buffer(OutCapacity, Ids)
    /\ sent \in [Ids -> SentDelivery]
    /\ snd \in [Links -> SenderLink]
    /\ sproc \in [registered : BOOLEAN, processing : BOOLEAN]
    /\ inc \in Incoming
    /\ inbuf \in Buffer(InCapacity, Ids)
    /\ got \in [Ids -> GotDelivery]
    /\ rcv \in [Links -> ReceiverLink]
    /\ registered \in BOOLEAN
    /\ delivered \in Seq(Ids)
    /\ failed \in {"none", "frame sequence error", "circular buffer overflow"}

\* The receiver's ring never overflows in on_transfer, whatever its application leaves
\* unsettled and however flows and transfers cross.
NeverOverflows == failed # "circular buffer overflow"

\* on_transfer never finds a delivery skipped, repeated or cut short: the ids on the
\* stream agree with what the receiver counts.
InSequence == failed # "frame sequence error"

\* What NeverOverflows rests on: the flows under way and the last
\* one that arrived never promise the sender more room than the receiver's ring has.
Room == inc.next_transfer_id + Available(inbuf)

WindowIsRoom ==
    /\ out.next_transfer_id <= Room
    /\ out.remote_next_transfer_id # Undefined =>
           out.remote_next_transfer_id + out.remote_window <= Room
    /\ \A k \in DOMAIN r2s : r2s[k].type = "flow" =>
           r2s[k].next_incoming_id + r2s[k].incoming_window <= Room

\* No message completes on a link whose receiver has no credit left for it ("Received
\* transfer when credit was 0"), however flows and transfers cross.
CreditCovered ==
    s2r # <<>> /\ Head(s2r).type = "transfer" /\ ~ Head(s2r).more
        => rcv[Head(s2r).handle].credit > 0

\* Why CreditCovered holds: the transfers on the stream are those the sender has
\* counted and the receiver has not, ...
TransfersCounted ==
    /\ inc.next_transfer_id <= out.next_transfer_id
    /\ \A k \in DOMAIN s2r : s2r[k].type = "transfer" =>
           s2r[k].transfer_id \in inc.next_transfer_id..(out.next_transfer_id - 1)
    /\ \A j, k \in DOMAIN s2r :
           j < k /\ s2r[j].type = "transfer" /\ s2r[k].type = "transfer"
               => s2r[j].transfer_id < s2r[k].transfer_id

\* ... so are the messages they complete, link by link, ...
Completing(k) == s2r[k].type = "transfer" /\ ~ s2r[k].more

MessagesCounted ==
    /\ \A l \in Links : rcv[l].delivery_count <= snd[l].delivery_count
    /\ \A k \in DOMAIN s2r : Completing(k) =>
           s2r[k].number \in rcv[s2r[k].handle].delivery_count
                                 ..(snd[s2r[k].handle].delivery_count - 1)
    /\ \A j, k \in DOMAIN s2r :
           j < k /\ Completing(j) /\ Completing(k) /\ s2r[j].handle = s2r[k].handle
               => s2r[j].number < s2r[k].number

\* ... and no flow, no sender and no message goes beyond what the receiver has granted.
Granted(l) == rcv[l].delivery_count + rcv[l].credit

CreditIsGranted ==
    /\ \A l \in Links : snd[l].delivery_count + snd[l].credit <= Granted(l)
    /\ \A k \in DOMAIN r2s : r2s[k].type = "flow" /\ r2s[k].handle # NoHandle =>
           r2s[k].delivery_count + r2s[k].link_credit <= Granted(r2s[k].handle)
    /\ \A k \in DOMAIN s2r : Completing(k) => s2r[k].number < Granted(s2r[k].handle)

\* Both ends' counts of transfers, messages, window and credit agree with the frames
\* that are under way: what the flow control of the session and of its links rests on.
FlowAccounting ==
    WindowIsRoom /\ TransfersCounted /\ MessagesCounted /\ CreditIsGranted

\* A delivery that process has not got to yet is where by_id finds it, so that "Next
\* pending delivery not found" is never reported: nothing unsent leaves the buffer.
PendingIsFound ==
    \A id \in out.next_pending_delivery..(out.next_delivery_id - 1) : ById(outbuf, id) = id

InOutgoing(id) == \E k \in DOMAIN Contents(outbuf) : Contents(outbuf)[k] = id

\* A slot of the sending buffer is freed only when both sides have settled, and then
\* the message has arrived, or is on its way with settled set.
FreedWhenSettled ==
    \A id \in 0..(out.next_delivery_id - 1) :
        ~ InOutgoing(id) =>
            /\ sent[id].settled /\ sent[id].remote_settled
            /\ sent[id].link \in SettledFirst \/ Complete(id)

\* What an outcome event of the sender says: that is the outcome the receiver gave.
OutcomeIsGiven ==
    \A id \in Ids : sent[id].remote_state \in {NoState, got[id].state}

\* Every message sent to receivers that accept by themselves arrives, is settled on
\* both sides and leaves the sending buffer: credit and window always come back.
EveryMessageSettled ==
    \A id \in Ids :
        id < out.next_delivery_id ~> Complete(id) /\ ~ InOutgoing(id)

Message(id) ==
    [link |-> sent[id].link, parts |-> [k \in 1..sent[id].frames |-> k - 1]]

Contract == INSTANCE TransferContract WITH
    Messages <- {[link |-> l, parts |-> [k \in 1..n |-> k - 1]] :
                    l \in Links, n \in 1..MaxFrames},
    outbox <- [k \in 1..out.next_delivery_id |-> Message(k - 1)],
    inbox <- [k \in DOMAIN delivered |->
                 [link |-> got[delivered[k]].link, parts |-> got[delivered[k]].parts]],
    presettled <- {id \in Ids : sent[id].link \in SettledFirst},
    given <- [id \in Ids |-> got[id].state],
    settled_there <- {id \in Ids : got[id].settled},
    heard <- [id \in Ids |-> sent[id].remote_state],
    settled_remotely <- {id \in Ids : sent[id].remote_settled}

\* The session keeps its contract: every step of buffers, windows, credit and frames
\* is a step of TransferContract, or none.
KeepsContract == Contract!Spec

=============================================================================
