------------------------- MODULE SessionContract_proof -------------------------
(***************************************************************************)
(* SessionTransfer implements TransferContract, for every number of links, *)
(* capacity and window.  To Usual, which the order of frames needs, comes  *)
(* OnlyAccepted: write_dispositions does not compare the outcomes of the   *)
(* first two deliveries of a batch, and the second is told to have that of *)
(* the first, so with other outcomes the code itself breaks the contract.  *)
(*                                                                         *)
(* Truthful is what the refinement adds to Ordered: every word under way   *)
(* is still true.  The receiver's ring holds what has begun to arrive and  *)
(* not been freed (Held), so that a disposition finds its delivery; an     *)
(* outcome is given once and settling comes after it (GivenOnce); what the *)
(* dispositions to the sender say, and what it has heard of them, is what  *)
(* the receiver has decided (TellsTrue, HeardTrue); and the sender's own   *)
(* dispositions are about deliveries whose outcome it knows and that the   *)
(* receiver still keeps unsettled (AnswersTrue), so nothing the receiver   *)
(* has told changes while it is on its way.                                *)
(***************************************************************************)
EXTENDS SessionOrder_proof

\* No two outcomes that write_dispositions could take for one another.
OnlyAccepted == Outcomes \subseteq {"accepted"}

\* The receiver's ring holds the deliveries that have begun to arrive, from the oldest
\* that it has not settled on.
Begun == IF Partial THEN Arrived + 1 ELSE Arrived
First == Begun - inbuf.size

Held ==
    /\ InOrder(inbuf, First) /\ 0 <= First /\ First <= Arrived
    /\ \A id \in Ids : id < First => got[id].settled

\* A delivery has its outcome once it was given one, and is not settled before.
GivenOnce ==
    \A id \in Ids :
        /\ got[id].state = IF got[id].updates > 0 THEN "accepted" ELSE NoState
        /\ got[id].updates > 0 => id < Arrived
        /\ got[id].settled => got[id].updates > 0

\* The receiver's dispositions say what is so, ...
TellsTrue ==
    \A k \in DOMAIN r2s : r2s[k].type = "disposition" =>
        /\ r2s[k].state = "accepted"
        /\ \A id \in Covered(r2s[k]) : r2s[k].settled <=> got[id].settled

\* ... and so does what the sender has heard.
HeardTrue ==
    \A id \in Ids : sent[id].remote_state # NoState =>
        /\ sent[id].remote_state = got[id].state
        /\ ~ sent[id].settled => (sent[id].remote_settled <=> got[id].settled)

\* The sender tells the receiver once that it has settled a delivery.
Noted(id) == \E k \in DOMAIN out.pending_dispositions : out.pending_dispositions[k] = id
Answering(id) == \E k \in DOMAIN s2r : s2r[k].type = "disposition" /\ id \in Covered(s2r[k])

AnswersOnce ==
    /\ \A j, k \in DOMAIN out.pending_dispositions :
           out.pending_dispositions[j] = out.pending_dispositions[k] => j = k
    /\ \A j, k \in DOMAIN s2r :
           j # k /\ s2r[j].type = "disposition" /\ s2r[k].type = "disposition"
               => Covered(s2r[j]) \cap Covered(s2r[k]) = {}
    /\ \A id \in Ids : ~ (Noted(id) /\ Answering(id))

Answered(id) == sent[id].remote_state # NoState /\ sent[id].settled /\ ~ got[id].settled

AnswersTrue ==
    /\ AnswersOnce
    /\ \A id \in Int : Noted(id) \/ Answering(id) => id \in Ids /\ Answered(id)

\* A delivery that is not sent yet is on no link.
Unsent == \A id \in Ids : id >= out.next_delivery_id => sent[id].link \notin SettledFirst

Truthful == Held /\ GivenOnce /\ TellsTrue /\ HeardTrue /\ AnswersTrue /\ Unsent

-----------------------------------------------------------------------------
(* What a step leaves as it was.                                            *)

LEMMA InitTruthful == Init => Truthful
<1> SUFFICES ASSUME Init PROVE Truthful
    OBVIOUS
<1>1. /\ out.next_delivery_id = 0 /\ out.pending_dispositions = <<>>
      /\ inbuf = EmptyBuffer(InCapacity) /\ s2r = <<>> /\ r2s = <<>> /\ delivered = <<>>
      /\ \A l \in Links : rcv[l].incomplete = Undefined
      /\ \A id \in Ids : /\ sent[id].link = NoHandle /\ sent[id].remote_state = NoState
                         /\ got[id].state = NoState /\ got[id].updates = 0 /\ ~ got[id].settled
    BY DEF Init
<1>2. MaxDeliveries \in Nat /\ Ids = 0..(MaxDeliveries - 1)
    BY Bounds DEF Ids
<1>3. Arrived = 0 /\ Begun = 0 /\ First = 0
    BY <1>1 DEF Arrived, Partial, Begun, First, EmptyBuffer
<1>4. Held
    BY <1>1, <1>2, <1>3, Capacities, EmptyInOrder DEF Held
<1>5. GivenOnce /\ TellsTrue /\ HeardTrue
    BY <1>1, <1>3 DEF GivenOnce, TellsTrue, HeardTrue
<1>6. AnswersTrue
  <2>1. \A id : ~ Noted(id) /\ ~ Answering(id)
    BY <1>1 DEF Noted, Answering
  <2>2. AnswersOnce
    BY <1>1, <2>1 DEF AnswersOnce
  <2> QED BY <2>1, <2>2 DEF AnswersTrue
<1>7. NoHandle \notin SettledFirst
    BY LinkOptions DEF NoHandle, Undefined
<1>8. Unsent
    BY <1>1, <1>7 DEF Unsent
<1> QED BY <1>4, <1>5, <1>6, <1>8 DEF Truthful

\* The receiver's ring stays, and what was settled stays settled.
LEMMA HeldGrows ==
    ASSUME Held, inbuf' = inbuf, delivered' = delivered,
           \A l \in Links : rcv'[l].incomplete = rcv[l].incomplete,
           \A id \in Ids : got[id].settled => got'[id].settled
    PROVE  Held' /\ Arrived' = Arrived
<1>1. Arrived' = Arrived /\ (Partial' <=> Partial)
    BY DEF Arrived, Partial
<1>2. First' = First
    BY <1>1 DEF First, Begun
<1> QED BY <1>1, <1>2 DEF Held, InOrder, Slot

\* The deliveries of the receiver stay as they are.
LEMMA HeldStays ==
    ASSUME Held, GivenOnce, inbuf' = inbuf, got' = got, delivered' = delivered,
           \A l \in Links : rcv'[l].incomplete = rcv[l].incomplete
    PROVE  Held' /\ GivenOnce'
<1>1. Held' /\ Arrived' = Arrived
    BY HeldGrows
<1>2. GivenOnce'
    BY <1>1 DEF GivenOnce
<1> QED BY <1>1, <1>2

\* The dispositions to the sender are among those there were, and stay true.
LEMMA TellsStay ==
    ASSUME Typed, Typed', Ordered, TellsTrue, NEW shift \in {0, 1},
           \A k \in DOMAIN r2s' : k + shift \in DOMAIN r2s /\ r2s'[k] = r2s[k + shift],
           \A id \in Ids : OnItsWay(id) => (got'[id].settled <=> got[id].settled)
    PROVE  TellsTrue'
<1> SUFFICES ASSUME NEW k \in DOMAIN r2s', r2s'[k].type = "disposition"
             PROVE  /\ r2s'[k].state = "accepted"
                    /\ \A id \in Covered(r2s'[k]) : r2s'[k].settled <=> got'[id].settled
    BY DEF TellsTrue, Covered
<1>1. k + shift \in DOMAIN r2s /\ r2s'[k] = r2s[k + shift] /\ r2s[k + shift].type = "disposition"
    OBVIOUS
<1>2. \A id \in Covered(r2s[k + shift]) : id \in Int /\ OnItsWay(id)
    BY <1>1 DEF OnItsWay, Covered
<1>3. \A id \in Covered(r2s[k + shift]) : id \in Ids
    BY <1>2 DEF Ordered, OutcomesInOrder
<1> QED BY <1>1, <1>2, <1>3 DEF TellsTrue

\* The dispositions to the receiver are among those there were, and stay true.
LEMMA AnswersStay ==
    ASSUME Typed, Typed', AnswersTrue, NEW shift \in {0, 1},
           out'.pending_dispositions = out.pending_dispositions,
           \A k \in DOMAIN s2r' : s2r'[k].type = "disposition" =>
               k + shift \in DOMAIN s2r /\ s2r'[k] = s2r[k + shift],
           \A id \in Ids : (Noted(id) \/ Answering(id)') /\ Answered(id) => Answered(id)'
    PROVE  AnswersTrue'
<1>0. \A k \in DOMAIN s2r' : k \in Int
    BY ShapesNext DEF StreamShape
<1>1. \A id : (Noted(id)' <=> Noted(id)) /\ (Answering(id)' => Answering(id))
  <2>1. \A id : Noted(id)' <=> Noted(id)
    BY DEF Noted
  <2>2. ASSUME NEW id, Answering(id)' PROVE Answering(id)
    <3>1. PICK k \in DOMAIN s2r' : s2r'[k].type = "disposition" /\ id \in Covered(s2r'[k])
        BY <2>2 DEF Answering, Covered
    <3> QED BY <3>1 DEF Answering
  <2> QED BY <2>1, <2>2
<1>2. AnswersOnce'
  <2>1. \A j, k \in DOMAIN out'.pending_dispositions :
            out'.pending_dispositions[j] = out'.pending_dispositions[k] => j = k
    BY DEF AnswersTrue, AnswersOnce
  <2>2. ASSUME NEW j \in DOMAIN s2r', NEW k \in DOMAIN s2r', j # k,
               s2r'[j].type = "disposition", s2r'[k].type = "disposition"
        PROVE  Covered(s2r'[j]) \cap Covered(s2r'[k]) = {}
    <3>1. j + shift # k + shift
      <4>1. j \in Int /\ k \in Int
        BY <1>0
      <4>2. \A a, b \in Int : a # b => a + shift # b + shift
        OBVIOUS
      <4> QED BY <2>2, <4>1, <4>2
    <3>2. /\ j + shift \in DOMAIN s2r /\ s2r'[j] = s2r[j + shift]
          /\ k + shift \in DOMAIN s2r /\ s2r'[k] = s2r[k + shift]
        BY <2>2
    <3> QED BY <2>2, <3>1, <3>2 DEF AnswersTrue, AnswersOnce
  <2>3. \A id \in Ids : ~ (Noted(id) /\ Answering(id))'
    BY <1>1 DEF AnswersTrue, AnswersOnce
  <2> QED BY <2>1, <2>2, <2>3 DEF AnswersOnce, Covered
<1>3. ASSUME NEW id \in Int, Noted(id)' \/ Answering(id)'
      PROVE  id \in Ids /\ Answered(id)'
  <2>1. id \in Ids /\ Answered(id)
    BY <1>1, <1>3 DEF AnswersTrue
  <2> QED BY <1>1, <1>3, <2>1
<1> QED BY <1>2, <1>3 DEF AnswersTrue

-----------------------------------------------------------------------------
(* The steps of the sending peer.                                           *)

\* What a step in which the receiver takes no part leaves true.
LEMMA IdleTruthful ==
    ASSUME Typed, Typed', Ordered, Held, GivenOnce, TellsTrue, ReceiverIdle, inbuf' = inbuf,
           NEW shift \in {0, 1},
           \A k \in DOMAIN r2s' : k + shift \in DOMAIN r2s /\ r2s'[k] = r2s[k + shift]
    PROVE  Held' /\ GivenOnce' /\ TellsTrue'
<1>1. Held' /\ GivenOnce'
    BY HeldStays DEF ReceiverIdle
<1>2. TellsTrue'
    BY TellsStay DEF ReceiverIdle
<1> QED BY <1>1, <1>2

LEMMA SendTruthful ==
    ASSUME Usual, Typed, Typed', Ordered, Truthful, NEW l \in Links, NEW n \in 1..MaxFrames,
           Send(l, n)
    PROVE  Truthful'
<1>1. Basics /\ Basics' /\ FlowsShape /\ StreamShape
    BY BasicsHold, BasicsNext, Shapes
<1>2. PICK id : id = out.next_delivery_id
    OBVIOUS
<1>3. id \in Ids /\ id \in Nat /\ Available(outbuf) > 0
    BY <1>1, <1>2 DEF Basics, Counts, Send, Usual
<1>4. /\ out \in Outgoing /\ sent \in [Ids -> SentDelivery]
      /\ out' = [out EXCEPT !.next_delivery_id = id + 1]
      /\ sent' = [sent EXCEPT ![id] =
                     [link |-> l, frames |-> n, next_to_send |-> 0,
                      settled |-> l \in SettledFirst,
                      remote_settled |-> FALSE, remote_state |-> NoState]]
      /\ s2r' = s2r /\ r2s' = r2s /\ inbuf' = inbuf
    BY <1>2, <1>3 DEF Send, receiver, Typed, TypeOK
<1>5. ReceiverIdle
    BY DEF Send, receiver, ReceiverIdle
<1>6. /\ out'.next_delivery_id = id + 1
      /\ out'.pending_dispositions = out.pending_dispositions
      /\ sent'[id].remote_state = NoState
      /\ \A e \in Ids : e # id => sent'[e] = sent[e]
    BY <1>3, <1>4 DEF Outgoing
<1>7. sent[id].remote_state = NoState
  <2>1. ~ Given(id)
    BY <1>1, <1>2, <1>3 DEF Given, Ordered, Buffered, Basics, Counts
  <2>2. Silent(id)
    BY <1>3, <2>1 DEF Ordered, OutcomesInOrder
  <2> QED BY <2>2 DEF Silent
<1>8. Held' /\ GivenOnce' /\ TellsTrue'
  <2>1. \A k \in DOMAIN r2s' : k + 0 \in DOMAIN r2s /\ r2s'[k] = r2s[k + 0]
    BY <1>1, <1>4 DEF FlowsShape
  <2> QED BY <1>4, <1>5, <2>1, IdleTruthful DEF Truthful
<1>9. HeardTrue'
  <2>1. got' = got
    BY <1>5 DEF ReceiverIdle
  <2> QED BY <1>6, <2>1 DEF Truthful, HeardTrue
<1>10. AnswersTrue'
  <2>1. \A k \in DOMAIN s2r' : k + 0 \in DOMAIN s2r /\ s2r'[k] = s2r[k + 0]
    BY <1>1, <1>4 DEF StreamShape
  <2>2. \A e \in Ids : Answered(e) => Answered(e)'
    BY <1>5, <1>6, <1>7 DEF Answered, ReceiverIdle
  <2> QED BY <1>6, <2>1, <2>2, AnswersStay DEF Truthful
<1>11. Unsent'
  <2>1. SUFFICES ASSUME NEW e \in Ids, e >= id + 1
                 PROVE  sent'[e].link \notin SettledFirst
    BY <1>6 DEF Unsent
  <2>2. e \in Int /\ e # id /\ e >= out.next_delivery_id
    BY <1>1, <1>2, <1>3, <2>1 DEF Basics, Counts
  <2> QED BY <1>6, <2>2 DEF Truthful, Unsent
<1> QED BY <1>8, <1>9, <1>10, <1>11 DEF Truthful

LEMMA SettleTruthful ==
    ASSUME Usual, Typed, Typed', Ordered, Truthful, NEW id \in Ids, Settle(id)
    PROVE  Truthful'
<1>1. Basics /\ Basics' /\ FlowsShape /\ StreamShape
    BY BasicsHold, BasicsNext, Shapes
<1>2. /\ out \in Outgoing /\ sent \in [Ids -> SentDelivery]
      /\ ~ sent[id].settled /\ sent[id].remote_state # NoState
      /\ sent' = [sent EXCEPT ![id] = [sent[id] EXCEPT !.settled = TRUE]]
      /\ out' = IF sent[id].remote_settled THEN out
                ELSE [out EXCEPT !.pending_dispositions = Append(out.pending_dispositions, id)]
      /\ s2r' = s2r /\ r2s' = r2s /\ inbuf' = inbuf
    BY DEF Settle, Usual, receiver, Typed, TypeOK
<1>3. ReceiverIdle
    BY DEF Settle, receiver, ReceiverIdle
<1>4. /\ \A e \in Ids : e # id => sent'[e] = sent[e]
      /\ sent'[id].settled /\ sent'[id].remote_state = sent[id].remote_state
      /\ sent'[id].link = sent[id].link
  <2>1. sent'[id] = [sent[id] EXCEPT !.settled = TRUE] /\ sent[id] \in SentDelivery
    BY <1>2
  <2> QED BY <1>2, <2>1 DEF SentDelivery
<1>5. Held' /\ GivenOnce' /\ TellsTrue'
  <2>1. \A k \in DOMAIN r2s' : k + 0 \in DOMAIN r2s /\ r2s'[k] = r2s[k + 0]
    BY <1>1, <1>2 DEF FlowsShape
  <2> QED BY <1>2, <1>3, <2>1, IdleTruthful DEF Truthful
<1>6. got' = got
    BY <1>3 DEF ReceiverIdle
<1>7. HeardTrue'
    BY <1>4, <1>6 DEF Truthful, HeardTrue
<1>8. \A e \in Ids : Answered(e) => Answered(e)'
    BY <1>4, <1>6 DEF Answered
<1>9. AnswersTrue'
  <2>1. CASE sent[id].remote_settled
    <3>1. out'.pending_dispositions = out.pending_dispositions
        BY <1>2, <2>1
    <3>2. \A k \in DOMAIN s2r' : k + 0 \in DOMAIN s2r /\ s2r'[k] = s2r[k + 0]
        BY <1>1, <1>2 DEF StreamShape
    <3> QED BY <1>8, <3>1, <3>2, AnswersStay DEF Truthful
  <2>2. CASE ~ sent[id].remote_settled
    <3>1. PICK old : old = out.pending_dispositions
        OBVIOUS
    <3>2. out'.pending_dispositions = Append(old, id) /\ old \in Seq(Ids)
        BY <1>2, <2>2, <3>1 DEF Outgoing
    <3>3. /\ Len(old) \in Nat /\ DOMAIN old = 1..Len(old)
          /\ DOMAIN out'.pending_dispositions = 1..(Len(old) + 1)
          /\ out'.pending_dispositions[Len(old) + 1] = id
          /\ \A k \in 1..Len(old) : out'.pending_dispositions[k] = old[k]
        BY <3>2
    <3>4. id \in Int /\ ~ Noted(id) /\ ~ Answering(id)
      <4>1. id \in Int
        BY <1>1 DEF Basics, Counts
      <4>2. ~ Answered(id)
        BY <1>2 DEF Answered
      <4> QED BY <4>1, <4>2 DEF Truthful, AnswersTrue
    <3>5. Answered(id)'
      <4>1. ~ got[id].settled
        BY <1>2, <2>2 DEF Truthful, HeardTrue
      <4> QED BY <1>2, <1>4, <1>6, <4>1 DEF Answered
    <3>6. \A e : (Noted(e)' => Noted(e) \/ e = id) /\ (Answering(e)' <=> Answering(e))
      <4>1. ASSUME NEW e, Noted(e)' PROVE Noted(e) \/ e = id
        <5>1. PICK k \in DOMAIN out'.pending_dispositions : out'.pending_dispositions[k] = e
            BY <4>1 DEF Noted
        <5>2. k = Len(old) + 1 \/ k \in 1..Len(old)
            BY <3>3, <5>1
        <5> QED BY <3>1, <3>3, <5>1, <5>2 DEF Noted
      <4>2. \A e : Answering(e)' <=> Answering(e)
        BY <1>2 DEF Answering, Covered
      <4> QED BY <4>1, <4>2
    <3>7. AnswersOnce'
      <4>1. ASSUME NEW j \in DOMAIN out'.pending_dispositions,
                   NEW k \in DOMAIN out'.pending_dispositions,
                   out'.pending_dispositions[j] = out'.pending_dispositions[k]
            PROVE  j = k
        <5>1. \A i \in 1..Len(old) : old[i] # id
            BY <3>1, <3>3, <3>4 DEF Noted
        <5>2. \A i, h \in 1..Len(old) : old[i] = old[h] => i = h
            BY <3>1, <3>3 DEF Truthful, AnswersTrue, AnswersOnce
        <5> QED BY <3>3, <4>1, <5>1, <5>2
      <4>2. \A j, k \in DOMAIN s2r' :
                j # k /\ s2r'[j].type = "disposition" /\ s2r'[k].type = "disposition"
                    => Covered(s2r'[j]) \cap Covered(s2r'[k]) = {}
        BY <1>2 DEF Truthful, AnswersTrue, AnswersOnce
      <4>3. \A e \in Ids : ~ (Noted(e) /\ Answering(e))'
        BY <3>4, <3>6 DEF Truthful, AnswersTrue, AnswersOnce
      <4> QED BY <4>1, <4>2, <4>3 DEF AnswersOnce, Covered
    <3>8. ASSUME NEW e \in Int, Noted(e)' \/ Answering(e)'
          PROVE  e \in Ids /\ Answered(e)'
      <4>1. CASE e = id
        BY <3>5, <4>1
      <4>2. CASE e # id
        <5>1. Noted(e) \/ Answering(e)
            BY <3>6, <3>8, <4>2
        <5>2. e \in Ids /\ Answered(e)
            BY <5>1 DEF Truthful, AnswersTrue
        <5> QED BY <1>8, <5>2
      <4> QED BY <4>1, <4>2
    <3> QED BY <3>7, <3>8 DEF AnswersTrue
  <2> QED BY <2>1, <2>2
<1>10. Unsent'
  <2>1. out'.next_delivery_id = out.next_delivery_id
    BY <1>2 DEF Outgoing
  <2>2. \A e \in Ids : sent'[e].link = sent[e].link
    BY <1>4
  <2> QED BY <2>1, <2>2 DEF Truthful, Unsent
<1> QED BY <1>5, <1>7, <1>9, <1>10 DEF Truthful

LEMMA SenderOnFlowTruthful ==
    ASSUME Typed, Typed', Ordered, Truthful, SenderOnFlow
    PROVE  Truthful'
<1>1. /\ s2r' = s2r /\ r2s # << >> /\ r2s' = Tail(r2s) /\ sent' = sent /\ inbuf' = inbuf
      /\ out \in Outgoing
      /\ \E n, w : out' = [out EXCEPT !.remote_next_transfer_id = n, !.remote_window = w]
    BY DEF SenderOnFlow, SenderReads, receiver, Typed, TypeOK
<1>2. ReceiverIdle
    BY DEF SenderOnFlow, receiver, ReceiverIdle
<1>3. /\ out'.next_delivery_id = out.next_delivery_id
      /\ out'.pending_dispositions = out.pending_dispositions
    BY <1>1 DEF Outgoing
<1>4. Held' /\ GivenOnce' /\ TellsTrue'
  <2>1. \A k \in DOMAIN r2s' : k + 1 \in DOMAIN r2s /\ r2s'[k] = r2s[k + 1]
    BY <1>1, FlowTaken
  <2> QED BY <1>1, <1>2, <2>1, IdleTruthful DEF Truthful
<1>5. HeardTrue' /\ Unsent'
    BY <1>1, <1>2, <1>3 DEF Truthful, HeardTrue, Unsent, ReceiverIdle
<1>6. AnswersTrue'
  <2>1. \A k \in DOMAIN s2r' : k + 0 \in DOMAIN s2r /\ s2r'[k] = s2r[k + 0]
    BY <1>1, Shapes DEF StreamShape
  <2>2. \A e \in Ids : Answered(e) => Answered(e)'
    BY <1>1, <1>2 DEF Answered, ReceiverIdle
  <2> QED BY <1>3, <2>1, <2>2, AnswersStay DEF Truthful
<1> QED BY <1>4, <1>5, <1>6 DEF Truthful

LEMMA SendPendingTruthful ==
    ASSUME Typed, Typed', Ordered, Truthful, SendPending
    PROVE  Truthful'
<1>1. Basics /\ Basics' /\ FlowsShape /\ StreamShape /\ StreamShape'
    BY BasicsHold, BasicsNext, Shapes, ShapesNext
<1>2. PICK p : p = out.next_pending_delivery
    OBVIOUS
<1>3. CanSend
    BY DEF SendPending
<1>4. /\ p \in Ids /\ p \in Nat /\ p < out.next_delivery_id /\ Arrived \in Nat /\ Arrived <= p
      /\ out.next_delivery_id \in Nat
    BY <1>1, <1>2, <1>3 DEF CanSend, Basics, Counts, Ordered, Buffered
<1>5. Pending = p
  <2>1. p \in out.next_pending_delivery..(out.next_delivery_id - 1)
    BY <1>2, <1>4
  <2> QED BY <1>2, <2>1, PendingFound DEF Pending
<1>6. PICK m : m = NumToSend
    OBVIOUS
<1>7. PICK burst : burst = [k \in 1..m |-> Transfer(p, k)]
    OBVIOUS
<1>8. /\ s2r' = s2r \o burst /\ r2s' = r2s /\ inbuf' = inbuf /\ out \in Outgoing
      /\ sent \in [Ids -> SentDelivery]
      /\ \E t, u : out' = [out EXCEPT !.next_transfer_id = t, !.next_pending_delivery = u]
      /\ \/ \E r : sent' = [sent EXCEPT ![p] = [sent[p] EXCEPT !.remote_settled = r]]
         \/ \E r : sent' = [sent EXCEPT ![p] = [sent[p] EXCEPT !.next_to_send = r]]
    BY <1>5, <1>6, <1>7 DEF SendPending, receiver, Typed, TypeOK
<1>9. ReceiverIdle
    BY DEF SendPending, receiver, ReceiverIdle
<1>10. /\ out'.next_delivery_id = out.next_delivery_id
       /\ out'.pending_dispositions = out.pending_dispositions
    BY <1>8 DEF Outgoing
<1>11. /\ \A e \in Ids : e # p => sent'[e] = sent[e]
       /\ sent'[p].remote_state = sent[p].remote_state /\ sent'[p].settled = sent[p].settled
       /\ sent'[p].link = sent[p].link
  <2>1. sent[p] \in SentDelivery
    BY <1>4, <1>8
  <2>2. \A e \in Ids : e # p => sent'[e] = sent[e]
    BY <1>8
  <2>3. \/ \E r : sent'[p] = [sent[p] EXCEPT !.remote_settled = r]
        \/ \E r : sent'[p] = [sent[p] EXCEPT !.next_to_send = r]
    BY <1>4, <1>8
  <2> QED BY <2>1, <2>2, <2>3 DEF SentDelivery
<1>12. sent[p].remote_state = NoState
  <2>1. ~ Given(p)
    BY <1>4 DEF Given
  <2>2. Silent(p)
    BY <1>4, <2>1 DEF Ordered, OutcomesInOrder
  <2> QED BY <2>2 DEF Silent
<1>13. Held' /\ GivenOnce' /\ TellsTrue'
  <2>1. \A k \in DOMAIN r2s' : k + 0 \in DOMAIN r2s /\ r2s'[k] = r2s[k + 0]
    BY <1>1, <1>8 DEF FlowsShape
  <2> QED BY <1>8, <1>9, <2>1, IdleTruthful DEF Truthful
<1>14. HeardTrue' /\ Unsent'
  <2>1. got' = got
    BY <1>9 DEF ReceiverIdle
  <2>2. HeardTrue'
    BY <1>11, <1>12, <2>1 DEF Truthful, HeardTrue
  <2>3. \A e \in Ids : sent'[e].link = sent[e].link
    BY <1>11
  <2> QED BY <1>10, <2>2, <2>3 DEF Truthful, Unsent
<1>15. AnswersTrue'
  <2>1. ASSUME NEW k \in DOMAIN s2r', s2r'[k].type = "disposition"
        PROVE  k + 0 \in DOMAIN s2r /\ s2r'[k] = s2r[k + 0]
    <3>1. s2r \in Seq(ToReceiver) /\ m \in Nat
        BY <1>3, <1>5, <1>6, PendingType DEF Typed
    <3>2. \A j \in 1..m : burst[j].type = "transfer"
        BY <1>7 DEF Transfer
    <3>3. DOMAIN burst = 1..m /\ Len(burst) = m
        BY <1>7, <3>1
    <3>4. k \in 1..Len(s2r) => k \in DOMAIN s2r /\ s2r'[k] = s2r[k] /\ k + 0 = k
        BY <1>8, <3>1, <3>3
    <3>5. ~ (k \in 1..Len(s2r)) => s2r'[k] = burst[k - Len(s2r)] /\ k - Len(s2r) \in 1..m
      <4>1. DOMAIN s2r' = 1..Len(s2r') /\ Len(s2r') = Len(s2r) + m
        BY <1>1, <1>7, <1>8, <3>1, <3>3 DEF StreamShape
      <4>2. Len(s2r) \in Nat
        BY <3>1
      <4> QED BY <1>8, <2>1, <3>1, <3>3, <4>1, <4>2
    <3> QED BY <2>1, <3>2, <3>4, <3>5
  <2>2. \A e \in Ids : Answered(e) => Answered(e)'
    BY <1>9, <1>11 DEF Answered, ReceiverIdle
  <2> QED BY <1>10, <2>1, <2>2, AnswersStay DEF Truthful
<1> QED BY <1>13, <1>14, <1>15 DEF Truthful

LEMMA FinishProcessTruthful ==
    ASSUME Typed, Typed', Ordered, Truthful, FinishProcess
    PROVE  Truthful'
<1> DEFINE told == WriteDispositions(UpdatedOutgoing, "sender")
<1>1. /\ s2r' = s2r \o told /\ r2s' = r2s /\ inbuf' = inbuf
      /\ out \in Outgoing /\ out' = [out EXCEPT !.updated = {}, !.pending_dispositions = <<>>]
      /\ sent' = Notified /\ sent \in [Ids -> SentDelivery] /\ s2r \in Seq(ToReceiver)
    BY DEF FinishProcess, receiver, Typed, TypeOK
<1>2. ReceiverIdle
    BY DEF FinishProcess, receiver, ReceiverIdle
<1>3. out'.next_delivery_id = out.next_delivery_id /\ out'.pending_dispositions = <<>>
    BY <1>1 DEF Outgoing
<1>4. Basics /\ Basics' /\ FlowsShape /\ StreamShape /\ StreamShape'
    BY BasicsHold, BasicsNext, Shapes, ShapesNext
<1>5. ASSUME NEW e \in Ids
      PROVE  /\ sent'[e].link = sent[e].link /\ sent'[e].remote_state = sent[e].remote_state
             /\ sent'[e].remote_settled = sent[e].remote_settled
             /\ sent[e].settled => sent'[e].settled
  <2>1. sent[e] \in SentDelivery
    BY <1>1
  <2>2. sent'[e] = sent[e] \/ sent'[e] = [sent[e] EXCEPT !.settled = TRUE]
    BY <1>1 DEF Notified
  <2> QED BY <2>1, <2>2 DEF SentDelivery
<1>6. got' = got
    BY <1>2 DEF ReceiverIdle
<1>7. Held' /\ GivenOnce' /\ TellsTrue'
  <2>1. \A k \in DOMAIN r2s' : k + 0 \in DOMAIN r2s /\ r2s'[k] = r2s[k + 0]
    BY <1>1, <1>4 DEF FlowsShape
  <2> QED BY <1>1, <1>2, <2>1, IdleTruthful DEF Truthful
<1>8. HeardTrue' /\ Unsent'
  <2>1. HeardTrue'
    BY <1>5, <1>6 DEF Truthful, HeardTrue
  <2> QED BY <1>3, <1>5, <2>1 DEF Truthful, Unsent
<1>9. told \in Seq(ToReceiver)
    BY UpdatedOutgoingType, DispositionsFit
\* The frames that are written.
<1>10. /\ \A k \in DOMAIN told : \A x \in Covered(told[k]) : Noted(x)
       /\ \A j, k \in DOMAIN told : j # k => Covered(told[j]) \cap Covered(told[k]) = {}
  <2> DEFINE ds == UpdatedOutgoing
  <2>1. out.pending_dispositions \in Seq(Ids)
    BY <1>1 DEF Outgoing
  <2>2. /\ Len(ds) = Len(out.pending_dispositions)
        /\ \A i \in 1..Len(out.pending_dispositions) : ds[i].id = out.pending_dispositions[i]
    BY <2>1 DEF UpdatedOutgoing
  <2>3. \A i, j \in 1..Len(ds) : ds[i].id = ds[j].id => i = j
    BY <2>1, <2>2 DEF Truthful, AnswersTrue, AnswersOnce
  <2>4. ds \in Seq(Deliveries(Ids, States)) /\ Ids \in SUBSET Int
    BY <1>4, UpdatedOutgoingType DEF Basics, Counts
  <2> HIDE DEF ds
  <2>5. /\ \A k \in DOMAIN WriteDispositions(ds, "sender") :
               \A x \in Covered(WriteDispositions(ds, "sender")[k]) :
                   \E i \in 1..Len(ds) : ds[i].id = x
        /\ \A j, k \in DOMAIN WriteDispositions(ds, "sender") : j # k =>
               Covered(WriteDispositions(ds, "sender")[j])
                   \cap Covered(WriteDispositions(ds, "sender")[k]) = {}
    BY <2>3, <2>4, FramesApart
  <2>6. told = WriteDispositions(ds, "sender")
    BY DEF ds
  <2> HIDE DEF told
  <2>7. \A i \in 1..Len(ds) : Noted(ds[i].id)
    BY <2>1, <2>2 DEF Noted
  <2> QED BY <2>5, <2>6, <2>7
<1> HIDE DEF told
<1>11. ASSUME NEW k \in DOMAIN s2r'
       PROVE  \/ k \in DOMAIN s2r /\ s2r'[k] = s2r[k]
              \/ k - Len(s2r) \in DOMAIN told /\ s2r'[k] = told[k - Len(s2r)]
    BY <1>1, <1>9, <1>11, Appended
<1>12. ASSUME NEW e, Answering(e)' PROVE Answering(e) \/ Noted(e)
  <2>1. PICK k \in DOMAIN s2r' : s2r'[k].type = "disposition" /\ e \in Covered(s2r'[k])
    BY <1>12 DEF Answering, Covered
  <2>2. CASE k \in DOMAIN s2r /\ s2r'[k] = s2r[k]
    BY <2>1, <2>2 DEF Answering
  <2>3. CASE k - Len(s2r) \in DOMAIN told /\ s2r'[k] = told[k - Len(s2r)]
    BY <1>10, <2>1, <2>3
  <2> QED BY <1>11, <2>2, <2>3
<1>13. \A e : ~ Noted(e)'
    BY <1>3 DEF Noted
<1>14. AnswersOnce'
  <2>1. \A j, k \in DOMAIN out'.pending_dispositions :
            out'.pending_dispositions[j] = out'.pending_dispositions[k] => j = k
    BY <1>3
  <2>2. \A x \in Int : ~ (Noted(x) /\ Answering(x))
    BY DEF Truthful, AnswersTrue, AnswersOnce
  <2>3. ASSUME NEW j \in DOMAIN s2r', NEW k \in DOMAIN s2r', j # k,
               s2r'[j].type = "disposition", s2r'[k].type = "disposition",
               NEW x \in Covered(s2r'[j]), x \in Covered(s2r'[k])
        PROVE  FALSE
    <3>1. x \in Int
        BY <2>3 DEF Covered
    <3>2. CASE j \in DOMAIN s2r /\ s2r'[j] = s2r[j]
      <4>1. Answering(x)
        BY <2>3, <3>2 DEF Answering
      <4>2. CASE k \in DOMAIN s2r /\ s2r'[k] = s2r[k]
        BY <2>3, <3>2, <4>2 DEF Truthful, AnswersTrue, AnswersOnce
      <4>3. CASE k - Len(s2r) \in DOMAIN told /\ s2r'[k] = told[k - Len(s2r)]
        BY <1>10, <2>2, <2>3, <3>1, <4>1, <4>3
      <4> QED BY <1>11, <2>3, <4>2, <4>3
    <3>3. CASE j - Len(s2r) \in DOMAIN told /\ s2r'[j] = told[j - Len(s2r)]
      <4>1. Noted(x)
        BY <1>10, <2>3, <3>3
      <4>2. CASE k \in DOMAIN s2r /\ s2r'[k] = s2r[k]
        <5>1. Answering(x)
            BY <2>3, <4>2 DEF Answering
        <5> QED BY <2>2, <3>1, <4>1, <5>1
      <4>3. CASE k - Len(s2r) \in DOMAIN told /\ s2r'[k] = told[k - Len(s2r)]
        <5>1. j - Len(s2r) # k - Len(s2r)
          <6>1. Len(s2r) \in Nat /\ j \in Int /\ k \in Int
            BY <1>4 DEF StreamShape
          <6> QED BY <2>3, <6>1
        <5> QED BY <1>10, <2>3, <3>3, <4>3, <5>1
      <4> QED BY <1>11, <2>3, <4>2, <4>3
    <3> QED BY <1>11, <2>3, <3>2, <3>3
  <2>4. \A j, k \in DOMAIN s2r' :
            j # k /\ s2r'[j].type = "disposition" /\ s2r'[k].type = "disposition"
                => Covered(s2r'[j]) \cap Covered(s2r'[k]) = {}
    BY <2>3
  <2> QED BY <1>13, <2>1, <2>4 DEF AnswersOnce, Covered
<1>15. ASSUME NEW e \in Int, Noted(e)' \/ Answering(e)'
       PROVE  e \in Ids /\ Answered(e)'
  <2>1. Noted(e) \/ Answering(e)
    BY <1>12, <1>13, <1>15
  <2>2. e \in Ids /\ Answered(e)
    BY <2>1 DEF Truthful, AnswersTrue
  <2> QED BY <1>5, <1>6, <2>2 DEF Answered
<1>16. AnswersTrue'
    BY <1>14, <1>15 DEF AnswersTrue
<1> QED BY <1>7, <1>8, <1>16 DEF Truthful

\* What the sender hears of: each delivery that the disposition speaks of.
LEMMA OutcomeHeard ==
    ASSUME Typed, Ordered, TellsTrue, SenderOnDisposition, NEW f, f = Head(r2s)
    PROVE  /\ r2s # << >> /\ f = r2s[1] /\ 1 \in DOMAIN r2s /\ f.type = "disposition"
           /\ \A k \in DOMAIN r2s' : k + 1 \in DOMAIN r2s /\ r2s'[k] = r2s[k + 1]
           /\ \A i \in Covered(f) : /\ i \in Ids /\ OnItsWay(i) /\ Given(i) /\ Silent(i)
                                    /\ ~ sent[i].remote_settled
           /\ sent' = [id \in Ids |->
                          IF id \notin Covered(f) THEN sent[id]
                          ELSE [sent[id] EXCEPT !.remote_settled = f.settled,
                                                !.remote_state = "accepted"]]
<1> DEFINE found == {ById(outbuf, i) : i \in f.first..f.last} \ {Undefined}
           hit == {d \in found : ~ sent[d].remote_settled /\ (f.settled \/ f.state # NoState)}
<1>1. /\ r2s # << >> /\ f.type = "disposition" /\ r2s' = Tail(r2s)
      /\ sent' = [id \in Ids |->
                     IF id \notin hit THEN sent[id]
                     ELSE [sent[id] EXCEPT
                             !.remote_settled = f.settled,
                             !.remote_state = IF f.state = NoState THEN @ ELSE f.state]]
    BY DEF SenderOnDisposition, SenderReads
<1>2. /\ f = r2s[1] /\ 1 \in DOMAIN r2s
      /\ \A k \in DOMAIN r2s' : k + 1 \in DOMAIN r2s /\ r2s'[k] = r2s[k + 1]
    BY <1>1, FlowTaken
<1>3. f.state = "accepted" /\ f.state # NoState
    BY <1>1, <1>2 DEF TellsTrue, NoState
<1>4. \A i \in Covered(f) : /\ i \in Ids /\ OnItsWay(i) /\ Given(i) /\ Silent(i)
                            /\ ~ sent[i].remote_settled /\ ById(outbuf, i) = i
    BY <1>1, DispositionFinds
<1>5. hit = Covered(f)
  <2>1. Basics
    BY BasicsHold
  <2>2. \A i \in Covered(f) : ById(outbuf, i) = i /\ i # Undefined
    BY <1>4, <2>1 DEF Basics, Counts, Undefined
  <2>3. found = Covered(f)
    BY <2>2 DEF Covered
  <2> QED BY <1>3, <1>4, <2>3
<1> HIDE DEF hit, found
<1> QED BY <1>1, <1>2, <1>3, <1>4, <1>5

LEMMA SenderOnDispositionTruthful ==
    ASSUME Typed, Typed', Ordered, Truthful, SenderOnDisposition
    PROVE  Truthful'
<1>1. PICK f : f = Head(r2s)
    OBVIOUS
<1>2. /\ f = r2s[1] /\ 1 \in DOMAIN r2s /\ f.type = "disposition"
      /\ \A k \in DOMAIN r2s' : k + 1 \in DOMAIN r2s /\ r2s'[k] = r2s[k + 1]
      /\ \A i \in Covered(f) : /\ i \in Ids /\ Given(i) /\ Silent(i) /\ ~ sent[i].remote_settled
      /\ sent' = [id \in Ids |->
                     IF id \notin Covered(f) THEN sent[id]
                     ELSE [sent[id] EXCEPT !.remote_settled = f.settled,
                                           !.remote_state = "accepted"]]
    BY <1>1, OutcomeHeard DEF Truthful
<1>3. /\ s2r' = s2r /\ inbuf' = inbuf /\ out \in Outgoing /\ sent \in [Ids -> SentDelivery]
      /\ \E u : out' = [out EXCEPT !.updated = u]
    BY DEF SenderOnDisposition, receiver, Typed, TypeOK
<1>4. ReceiverIdle
    BY DEF SenderOnDisposition, receiver, ReceiverIdle
<1>5. got' = got
    BY <1>4 DEF ReceiverIdle
<1>6. /\ out'.next_delivery_id = out.next_delivery_id
      /\ out'.pending_dispositions = out.pending_dispositions
    BY <1>3 DEF Outgoing
<1>7. ASSUME NEW e \in Ids
      PROVE  /\ sent'[e].link = sent[e].link /\ sent'[e].settled = sent[e].settled
             /\ e \notin Covered(f) => sent'[e] = sent[e]
             /\ e \in Covered(f) => /\ sent'[e].remote_state = "accepted"
                                    /\ sent'[e].remote_settled = f.settled
  <2>1. sent[e] \in SentDelivery
    BY <1>3
  <2>2. sent'[e] = IF e \notin Covered(f) THEN sent[e]
                   ELSE [sent[e] EXCEPT !.remote_settled = f.settled,
                                        !.remote_state = "accepted"]
    BY <1>2
  <2> QED BY <2>1, <2>2 DEF SentDelivery
<1>8. Held' /\ GivenOnce' /\ TellsTrue'
    BY <1>2, <1>3, <1>4, IdleTruthful DEF Truthful
<1>9. HeardTrue'
  <2>1. SUFFICES ASSUME NEW e \in Ids, sent'[e].remote_state # NoState
                 PROVE  /\ sent'[e].remote_state = got[e].state
                        /\ ~ sent'[e].settled => (sent'[e].remote_settled <=> got[e].settled)
    BY <1>5 DEF HeardTrue
  <2>2. CASE e \in Covered(f)
    <3>1. got[e].updates > 0
        BY <1>2, <2>2 DEF Given
    <3>2. got[e].state = "accepted"
        BY <3>1 DEF Truthful, GivenOnce
    <3>3. f.settled <=> got[e].settled
        BY <1>2, <2>2 DEF Truthful, TellsTrue
    <3> QED BY <1>7, <2>2, <3>2, <3>3
  <2>3. CASE e \notin Covered(f)
    BY <1>7, <2>1, <2>3 DEF Truthful, HeardTrue
  <2> QED BY <2>2, <2>3
<1>10. AnswersTrue'
  <2>1. \A k \in DOMAIN s2r' : k + 0 \in DOMAIN s2r /\ s2r'[k] = s2r[k + 0]
    BY <1>3, Shapes DEF StreamShape
  <2>2. \A e \in Ids : Answered(e) => Answered(e)'
    BY <1>2, <1>5, <1>7 DEF Answered, Silent
  <2> QED BY <1>6, <2>1, <2>2, AnswersStay DEF Truthful
<1>11. Unsent'
    BY <1>6, <1>7 DEF Truthful, Unsent
<1> QED BY <1>8, <1>9, <1>10, <1>11 DEF Truthful

-----------------------------------------------------------------------------
(* The steps of the receiving peer.                                         *)

\* A step that touches neither a delivery nor a frame.
LEMMA RestTruthful ==
    ASSUME Typed, Typed', Ordered, Truthful, SenderRests, s2r' = s2r, r2s' = r2s,
           inbuf' = inbuf, got' = got, delivered' = delivered,
           \A l \in Links : rcv'[l].incomplete = rcv[l].incomplete
    PROVE  Truthful'
<1>1. StreamShape /\ FlowsShape
    BY Shapes
<1>2. Held' /\ GivenOnce'
    BY HeldStays DEF Truthful
<1>3. TellsTrue'
  <2>1. \A k \in DOMAIN r2s' : k + 0 \in DOMAIN r2s /\ r2s'[k] = r2s[k + 0]
    BY <1>1 DEF FlowsShape
  <2> QED BY <2>1, TellsStay DEF Truthful
<1>4. HeardTrue' /\ Unsent'
    BY DEF Truthful, HeardTrue, Unsent, SenderRests
<1>5. AnswersTrue'
  <2>1. \A k \in DOMAIN s2r' : k + 0 \in DOMAIN s2r /\ s2r'[k] = s2r[k + 0]
    BY <1>1 DEF StreamShape
  <2>2. \A e \in Ids : Answered(e) => Answered(e)'
    BY DEF Answered, SenderRests
  <2>3. out'.pending_dispositions = out.pending_dispositions
    BY DEF SenderRests
  <2> QED BY <2>1, <2>2, <2>3, AnswersStay DEF Truthful
<1> QED BY <1>2, <1>3, <1>4, <1>5 DEF Truthful

LEMMA AddCreditTruthful ==
    ASSUME Typed, Typed', Ordered, Truthful, NEW l \in Links, AddCredit(l)
    PROVE  Truthful'
<1>1. /\ inbuf' = inbuf /\ delivered' = delivered /\ s2r' = s2r /\ r2s' = r2s /\ got' = got
      /\ rcv \in [Links -> ReceiverLink]
      /\ rcv' = [rcv EXCEPT ![l] = [rcv[l] EXCEPT !.credit = rcv[l].credit + 1, !.issue_flow = TRUE]]
    BY DEF AddCredit, Typed, TypeOK
<1>2. SenderRests
    BY DEF AddCredit, sender, SenderRests
<1>3. \A h \in Links : rcv'[h].incomplete = rcv[h].incomplete
  <2>1. rcv'[l] = [rcv[l] EXCEPT !.credit = rcv[l].credit + 1, !.issue_flow = TRUE]
        /\ rcv[l] \in ReceiverLink /\ \A h \in Links : h # l => rcv'[h] = rcv[h]
    BY <1>1
  <2> QED BY <2>1 DEF ReceiverLink
<1> QED BY <1>1, <1>2, <1>3, RestTruthful

\* The delivery an application gives an outcome has none, and the sender knows of none.
LEMMA OutcomeFirst ==
    ASSUME Usual, Typed, Ordered, NEW id \in Ids, NEW outcome \in Outcomes,
           GiveOutcome(id, outcome)
    PROVE  id < Arrived /\ got[id].updates = 0 /\ ~ Given(id) /\ Silent(id) /\ ~ OnItsWay(id)
<1>1. Basics
    BY BasicsHold
<1>2. got[id].updates < 1 /\ Complete(id)
    BY DEF GiveOutcome, Usual
<1>3. id < Arrived
  <2>1. PICK k \in DOMAIN delivered : delivered[k] = id
    BY <1>2 DEF Complete
  <2>2. k \in 1..Arrived /\ delivered[k] = k - 1 /\ Arrived \in Nat
    BY <1>1, <2>1 DEF Ordered, ArrivedInOrder, Parts, Basics, Counts
  <2> QED BY <2>1, <2>2
<1>4. got[id].updates = 0 /\ id \in Int
    BY <1>1, <1>2 DEF Basics, Counts, Fields
<1>5. ~ Given(id)
    BY <1>4 DEF Given
<1>6. Silent(id) /\ ~ OnItsWay(id)
    BY <1>4, <1>5 DEF Ordered, OutcomesInOrder
<1> QED BY <1>3, <1>4, <1>5, <1>6

LEMMA GiveOutcomeTruthful ==
    ASSUME Usual, OnlyAccepted, Typed, Typed', Ordered, Truthful, NEW id \in Ids,
           NEW outcome \in Outcomes, GiveOutcome(id, outcome)
    PROVE  Truthful'
<1>1. id < Arrived /\ got[id].updates = 0 /\ ~ Given(id) /\ Silent(id) /\ ~ OnItsWay(id)
    BY OutcomeFirst
<1>2. /\ inbuf' = inbuf /\ delivered' = delivered /\ s2r' = s2r /\ r2s' = r2s /\ rcv' = rcv
      /\ got \in [Ids -> GotDelivery] /\ got[id] \in GotDelivery
      /\ got' = [got EXCEPT ![id] = [got[id] EXCEPT !.state = outcome,
                                       !.updates = got[id].updates + 1,
                                       !.settled = got[id].link \notin SettlesSecond]]
    BY DEF GiveOutcome, Typed, TypeOK
<1>3. SenderRests
    BY DEF GiveOutcome, sender, SenderRests
<1>4. /\ \A e \in Ids : e # id => got'[e] = got[e]
      /\ got'[id].updates = 1 /\ got'[id].state = "accepted"
  <2>1. got'[id] = [got[id] EXCEPT !.state = outcome, !.updates = got[id].updates + 1,
                                   !.settled = got[id].link \notin SettlesSecond]
    BY <1>2
  <2>2. outcome = "accepted"
    BY DEF OnlyAccepted
  <2> QED BY <1>1, <1>2, <2>1, <2>2 DEF GotDelivery
<1>5. ~ got[id].settled
    BY <1>1 DEF Truthful, GivenOnce
<1>6. Held' /\ Arrived' = Arrived
    BY <1>2, <1>4, <1>5, HeldGrows DEF Truthful
<1>7. GivenOnce'
    BY <1>1, <1>4, <1>6 DEF Truthful, GivenOnce
<1>8. StreamShape /\ FlowsShape
    BY Shapes
<1>9. TellsTrue'
  <2>1. \A k \in DOMAIN r2s' : k + 0 \in DOMAIN r2s /\ r2s'[k] = r2s[k + 0]
    BY <1>2, <1>8 DEF FlowsShape
  <2>2. \A e \in Ids : OnItsWay(e) => (got'[e].settled <=> got[e].settled)
    BY <1>1, <1>4
  <2> QED BY <2>1, <2>2, TellsStay DEF Truthful
<1>10. sent' = sent /\ out' = out
    BY <1>3 DEF SenderRests
<1>11. HeardTrue' /\ Unsent'
    BY <1>1, <1>4, <1>10 DEF Truthful, HeardTrue, Unsent, Silent
<1>12. AnswersTrue'
  <2>1. \A k \in DOMAIN s2r' : k + 0 \in DOMAIN s2r /\ s2r'[k] = s2r[k + 0]
    BY <1>2, <1>8 DEF StreamShape
  <2>2. \A e \in Ids : Answered(e) => Answered(e)'
    BY <1>1, <1>4, <1>10 DEF Answered, Silent
  <2> QED BY <1>10, <2>1, <2>2, AnswersStay DEF Truthful
<1> QED BY <1>6, <1>7, <1>9, <1>11, <1>12 DEF Truthful

\* What the receiver hears of: deliveries that it has not settled and that the sender has.
LEMMA AnswerHeard ==
    ASSUME Typed, Ordered, Truthful, ReceiverOnDisposition, NEW f, f = Head(s2r)
    PROVE  /\ f = s2r[1] /\ 1 \in DOMAIN s2r /\ f.type = "disposition"
           /\ \A k \in DOMAIN s2r' : k + 1 \in DOMAIN s2r /\ s2r'[k] = s2r[k + 1]
           /\ \A i \in Covered(f) : i \in Ids /\ Answering(i) /\ Answered(i) /\ Given(i)
           /\ \A e \in Ids : /\ got'[e].link = got[e].link /\ got'[e].parts = got[e].parts
                             /\ got'[e].state = got[e].state /\ got'[e].updates = got[e].updates
                             /\ got[e].settled => got'[e].settled
                             /\ e \notin Covered(f) => got'[e] = got[e]
<1> DEFINE found == {ById(inbuf, i) : i \in f.first..f.last} \ {Undefined}
           hit == {d \in found : ~ got[d].remote_settled /\ f.settled}
<1>1. /\ s2r # << >> /\ f.type = "disposition" /\ s2r' = Tail(s2r)
      /\ got \in [Ids -> GotDelivery] /\ inbuf \in Buffer(InCapacity, Ids)
      /\ got' = [id \in Ids |->
                    IF id \notin hit THEN got[id]
                    ELSE [got[id] EXCEPT
                            !.remote_settled = TRUE,
                            !.settled = got[id].settled \/ got[id].link \in SettlesSecond]]
    BY DEF ReceiverOnDisposition, ReceiverReads, Typed, TypeOK
<1>2. /\ f = s2r[1] /\ 1 \in DOMAIN s2r
      /\ \A k \in DOMAIN s2r' : k + 1 \in DOMAIN s2r /\ s2r'[k] = s2r[k + 1]
  <2>1. /\ Len(s2r) \in Nat \ {0} /\ Head(s2r) = s2r[1] /\ DOMAIN s2r = 1..Len(s2r)
        /\ \A k \in DOMAIN s2r' : k + 1 \in DOMAIN s2r /\ s2r'[k] = s2r[k + 1]
    BY <1>1, HeadTaken
  <2>2. 1 \in 1..Len(s2r)
    BY <2>1
  <2> QED BY <2>1, <2>2
<1>3. Basics
    BY BasicsHold
<1>4. ASSUME NEW i \in Covered(f)
      PROVE  i \in Ids /\ Answering(i) /\ Answered(i) /\ Given(i) /\ ById(inbuf, i) = i
  <2>1. i \in Int /\ Answering(i)
    <3>1. i \in Int
        BY <1>4 DEF Covered
    <3>2. s2r[1].type = "disposition" /\ i \in Covered(s2r[1])
        BY <1>1, <1>2, <1>4
    <3> QED BY <1>2, <3>1, <3>2 DEF Answering
  <2>2. i \in Ids /\ Answered(i)
    BY <2>1 DEF Truthful, AnswersTrue
  <2>3. Given(i)
    BY <2>2 DEF Answered, Ordered, OutcomesInOrder, Silent
  <2>4. ~ (i < First)
    BY <2>2 DEF Answered, Truthful, Held
  <2>5. inbuf.size \in Nat /\ Begun \in Int /\ Arrived \in Nat /\ Arrived <= Begun
    <3>1. inbuf.size \in 0..InCapacity
        BY <1>1 DEF Buffer
    <3> QED BY <1>3, <3>1 DEF Begun, Basics, Counts
  <2>6. First \in Int /\ i \in First..(First + inbuf.size - 1)
    BY <2>1, <2>3, <2>4, <2>5 DEF First, Given
  <2>7. ById(inbuf, i) = i
    BY <1>1, <2>6, Capacities, ByIdFinds DEF Truthful, Held
  <2> QED BY <2>1, <2>2, <2>3, <2>7
<1>5. \A d \in hit : d \in Covered(f)
  <2>1. \A d \in found : d \in Covered(f)
    BY <1>4 DEF Covered
  <2> HIDE DEF found
  <2> QED BY <2>1
<1> HIDE DEF hit, found
<1>6. ASSUME NEW e \in Ids
      PROVE  /\ got'[e].link = got[e].link /\ got'[e].parts = got[e].parts
             /\ got'[e].state = got[e].state /\ got'[e].updates = got[e].updates
             /\ got[e].settled => got'[e].settled
             /\ e \notin Covered(f) => got'[e] = got[e]
  <2>1. got[e] \in GotDelivery
    BY <1>1
  <2>2. got'[e] = IF e \notin hit THEN got[e]
                  ELSE [got[e] EXCEPT
                          !.remote_settled = TRUE,
                          !.settled = got[e].settled \/ got[e].link \in SettlesSecond]
    BY <1>1
  <2>3. CASE e \notin hit
    BY <2>2, <2>3
  <2>4. CASE e \in hit
    BY <1>5, <2>1, <2>2, <2>4 DEF GotDelivery
  <2> QED BY <2>3, <2>4
<1> QED BY <1>1, <1>2, <1>4, <1>6

LEMMA ReceiverOnDispositionTruthful ==
    ASSUME Typed, Typed', Ordered, Truthful, ReceiverOnDisposition
    PROVE  Truthful'
<1>1. PICK f : f = Head(s2r)
    OBVIOUS
<1>2. /\ f = s2r[1] /\ 1 \in DOMAIN s2r /\ f.type = "disposition"
      /\ \A k \in DOMAIN s2r' : k + 1 \in DOMAIN s2r /\ s2r'[k] = s2r[k + 1]
      /\ \A i \in Covered(f) : i \in Ids /\ Answering(i) /\ Answered(i) /\ Given(i)
      /\ \A e \in Ids : /\ got'[e].state = got[e].state /\ got'[e].updates = got[e].updates
                        /\ got[e].settled => got'[e].settled
                        /\ e \notin Covered(f) => got'[e] = got[e]
    BY <1>1, AnswerHeard
<1>3. /\ inbuf' = inbuf /\ delivered' = delivered /\ rcv' = rcv /\ r2s' = r2s
    BY DEF ReceiverOnDisposition
<1>4. sent' = sent /\ out' = out
    BY DEF ReceiverOnDisposition, sender
<1>5. Held' /\ Arrived' = Arrived
    BY <1>2, <1>3, HeldGrows DEF Truthful
<1>6. GivenOnce'
  <2>1. SUFFICES ASSUME NEW e \in Ids
                 PROVE  /\ got'[e].state = IF got'[e].updates > 0 THEN "accepted" ELSE NoState
                        /\ got'[e].updates > 0 => e < Arrived
                        /\ got'[e].settled => got'[e].updates > 0
    BY <1>5 DEF GivenOnce
  <2>2. got'[e].state = (IF got'[e].updates > 0 THEN "accepted" ELSE NoState)
        /\ (got'[e].updates > 0 => e < Arrived)
    BY <1>2 DEF Truthful, GivenOnce
  <2>3. got'[e].settled => got'[e].updates > 0
    BY <1>2 DEF Truthful, GivenOnce, Given
  <2> QED BY <2>2, <2>3
<1>7. StreamShape /\ FlowsShape
    BY Shapes
<1>8. TellsTrue'
  <2>1. \A k \in DOMAIN r2s' : k + 0 \in DOMAIN r2s /\ r2s'[k] = r2s[k + 0]
    BY <1>3, <1>7 DEF FlowsShape
  <2>2. ASSUME NEW e \in Ids, OnItsWay(e) PROVE got'[e].settled <=> got[e].settled
    <3>1. Silent(e)
        BY <2>2 DEF Ordered, OutcomesInOrder
    <3>2. e \notin Covered(f)
        BY <1>2, <3>1 DEF Silent, Answered
    <3> QED BY <1>2, <3>2
  <2> QED BY <2>1, <2>2, TellsStay DEF Truthful
<1>9. HeardTrue'
    BY <1>2, <1>4 DEF Truthful, HeardTrue, Answered
<1>10. AnswersTrue'
  <2>1. ASSUME NEW e \in Ids, Noted(e) \/ Answering(e)', Answered(e)
        PROVE  Answered(e)'
    <3>1. e \notin Covered(f)
      <4>1. CASE Noted(e)
        BY <1>2, <4>1 DEF Truthful, AnswersTrue, AnswersOnce
      <4>2. CASE Answering(e)'
        <5>1. PICK k \in DOMAIN s2r' : s2r'[k].type = "disposition" /\ e \in Covered(s2r'[k])
            BY <4>2 DEF Answering, Covered
        <5>2. k + 1 \in DOMAIN s2r /\ s2r'[k] = s2r[k + 1] /\ k + 1 # 1
            BY <1>2, <1>7, <5>1, ShapesNext DEF StreamShape
        <5>3. Covered(s2r[k + 1]) \cap Covered(s2r[1]) = {}
            BY <1>2, <5>1, <5>2 DEF Truthful, AnswersTrue, AnswersOnce
        <5> QED BY <1>2, <5>1, <5>2, <5>3
      <4> QED BY <2>1, <4>1, <4>2
    <3> QED BY <1>2, <1>4, <2>1, <3>1 DEF Answered
  <2> QED BY <1>2, <1>4, <2>1, AnswersStay DEF Truthful
<1>11. Unsent'
    BY <1>4 DEF Truthful, Unsent
<1> QED BY <1>5, <1>6, <1>8, <1>9, <1>10, <1>11 DEF Truthful

\* A transfer that the receiver takes in: it belongs to the delivery after those that
\* have arrived, which has no outcome yet, and completes it or does not.
LEMMA TransferTaken ==
    ASSUME Typed, Ordered, GivenOnce, NeverOverflows', ReceiverOnTransfer,
           NEW f, f = Head(s2r), NEW a, a = Arrived
    PROVE  /\ Fault(f) = "none" /\ a \in Ids /\ a = f.delivery_id /\ a < out.next_delivery_id
           /\ \A k \in DOMAIN s2r' : k + 1 \in DOMAIN s2r /\ s2r'[k] = s2r[k + 1]
           /\ inbuf' = BufferWith(f) /\ (Continues(f) <=> Partial)
           /\ \A e \in Ids : e # a => got'[e] = got[e]
           /\ got[a].state = NoState /\ got[a].updates = 0 /\ ~ got[a].settled
           /\ f.more => /\ Arrived' = a /\ Partial' /\ delivered' = delivered
                        /\ got'[a].state = NoState /\ got'[a].updates = 0 /\ ~ got'[a].settled
           /\ ~ f.more =>
                  /\ Arrived' = a + 1 /\ ~ Partial' /\ delivered' = Append(delivered, a)
                  /\ \/ /\ got'[a].state = NoState /\ got'[a].updates = 0
                        /\ ~ got'[a].settled
                     \/ got'[a].state = "accepted" /\ got'[a].updates = 1
<1>1. Basics
    BY BasicsHold
<1>2. PICK l : l = f.handle
    OBVIOUS
<1>3. /\ s2r # << >> /\ f.type = "transfer" /\ s2r' = Tail(s2r)
      /\ IF Fault(f) # "none" THEN TransferFails(f)
         ELSE IF f.more THEN TransferMore(f) ELSE TransferLast(f)
    BY DEF ReceiverOnTransfer, ReceiverReads
<1>4. /\ Fault(f) # "frame sequence error" /\ Extended(f) /\ TrueTo(f)
    BY <1>3, HeadInOrder
<1>5. Fault(f) = "none"
  <2>1. ASSUME Fault(f) # "none" PROVE FALSE
    <3>1. failed' = Fault(f)
        BY <1>3, <2>1 DEF TransferFails
    <3>2. Fault(f) = "circular buffer overflow"
        BY <1>4, <2>1 DEF Fault
    <3> QED BY <3>1, <3>2 DEF NeverOverflows
  <2> QED BY <2>1
<1>6. /\ a \in Ids /\ a \in Nat /\ a = f.delivery_id /\ l \in Links /\ l = sent[a].link
      /\ a < out.next_delivery_id /\ a # Undefined
      /\ \A h \in Links : h # l => rcv[h].incomplete = Undefined
  <2>1. /\ a \in Ids /\ a = f.delivery_id /\ l \in Links /\ l = sent[a].link
        /\ \A h \in Links : h # l => rcv[h].incomplete = Undefined
    BY <1>2, <1>4 DEF Extended
  <2>2. a < out.next_delivery_id
    BY <1>4, <2>1 DEF TrueTo
  <2>3. a \in Nat /\ a # Undefined
    BY <1>1, <2>1 DEF Basics, Counts, Undefined
  <2> QED BY <2>1, <2>2, <2>3
<1>7. Continues(f) <=> Partial
    BY <1>2, <1>6 DEF Continues, Partial
<1>8. got[a].state = NoState /\ got[a].updates = 0 /\ ~ got[a].settled
  <2>1. got[a].updates \in Nat
    BY <1>1, <1>6 DEF Basics, Fields
  <2>2. ~ (got[a].updates > 0)
    BY <1>6 DEF GivenOnce
  <2> QED BY <1>6, <2>1, <2>2 DEF GivenOnce
<1>9. /\ Received(f) \in GotDelivery
      /\ Received(f).state = NoState /\ Received(f).updates = 0 /\ ~ Received(f).settled
  <2>1. f \in TransferFrames
    <3>1. 1 \in DOMAIN s2r /\ f = s2r[1]
      <4>1. s2r \in Seq(ToReceiver)
        BY DEF Typed
      <4> QED BY <1>3, <4>1
    <3> QED BY <1>3, <3>1, OnStream DEF Ordered
  <2>2. Received(f) \in GotDelivery
    BY <1>5, <2>1, ReceivedType
  <2>3. CASE Continues(f)
    <3>1. got[a] \in GotDelivery /\ Received(f) = [got[a] EXCEPT !.parts = Append(@, f.part)]
        BY <1>6, <2>3 DEF Received, Typed, TypeOK
    <3> QED BY <1>8, <2>2, <3>1 DEF GotDelivery
  <2>4. CASE ~ Continues(f)
    <3>1. Received(f) = [link |-> f.handle, parts |-> <<f.part>>, settled |-> FALSE,
                         state |-> NoState, remote_settled |-> f.settled, updates |-> 0]
        BY <2>4 DEF Received
    <3> QED BY <2>2, <3>1
  <2> QED BY <2>3, <2>4
<1>10. got \in [Ids -> GotDelivery] /\ rcv \in [Links -> ReceiverLink] /\ delivered \in Seq(Ids)
    BY DEF Typed, TypeOK
<1>11. \A k \in DOMAIN s2r' : k + 1 \in DOMAIN s2r /\ s2r'[k] = s2r[k + 1]
    BY <1>3, HeadTaken
<1>12. CASE f.more
  <2>1. TransferMore(f)
    BY <1>3, <1>5, <1>12
  <2>2. /\ inbuf' = BufferWith(f) /\ delivered' = delivered
        /\ got' = [got EXCEPT ![a] = Received(f)]
        /\ rcv' = [rcv EXCEPT ![l] = [rcv[l] EXCEPT !.incomplete = a]]
    BY <1>2, <1>6, <2>1 DEF TransferMore
  <2>3. got'[a] = Received(f) /\ \A e \in Ids : e # a => got'[e] = got[e]
    BY <1>6, <1>10, <2>2
  <2>4. rcv'[l].incomplete = a
    BY <1>6, <1>10, <2>2 DEF ReceiverLink
  <2>5. Arrived' = a /\ Partial'
    BY <1>6, <2>2, <2>4 DEF Arrived, Partial
  <2> QED BY <1>5, <1>6, <1>7, <1>8, <1>9, <1>11, <1>12, <2>2, <2>3, <2>5
<1>13. CASE ~ f.more
  <2>1. TransferLast(f)
    BY <1>3, <1>5, <1>13
  <2>2. /\ inbuf' = BufferWith(f) /\ delivered' = Append(delivered, a)
        /\ got' = [got EXCEPT ![a] =
                      IF l \in AutoAccept
                      THEN [Received(f) EXCEPT !.state = "accepted",
                                               !.settled = l \notin SettlesSecond,
                                               !.updates = 1]
                      ELSE Received(f)]
        /\ \E c, i : rcv' = [rcv EXCEPT ![l] =
                      [credit |-> c, delivery_count |-> rcv[l].delivery_count + 1,
                       issue_flow |-> i, incomplete |-> Undefined]]
    BY <1>2, <1>6, <2>1 DEF TransferLast
  <2>3. /\ \A e \in Ids : e # a => got'[e] = got[e]
        /\ got'[a] = IF l \in AutoAccept
                     THEN [Received(f) EXCEPT !.state = "accepted",
                                              !.settled = l \notin SettlesSecond,
                                              !.updates = 1]
                     ELSE Received(f)
    BY <1>6, <1>10, <2>2
  <2>4. \/ got'[a].state = NoState /\ got'[a].updates = 0 /\ ~ got'[a].settled
        \/ got'[a].state = "accepted" /\ got'[a].updates = 1
    BY <1>9, <2>3 DEF GotDelivery
  <2>5. \A h \in Links : rcv'[h].incomplete = Undefined
    <3>1. rcv'[l].incomplete = Undefined /\ \A h \in Links : h # l => rcv'[h] = rcv[h]
        BY <1>6, <1>10, <2>2
    <3> QED BY <1>6, <3>1
  <2>6. Arrived' = a + 1 /\ ~ Partial'
    BY <1>10, <2>2, <2>5 DEF Arrived, Partial
  <2> QED BY <1>5, <1>6, <1>7, <1>8, <1>11, <1>13, <2>2, <2>3, <2>4, <2>6
<1> QED BY <1>12, <1>13

LEMMA ReceiverOnTransferTruthful ==
    ASSUME Typed, Typed', Ordered, Truthful, NeverOverflows', ReceiverOnTransfer
    PROVE  Truthful'
<1>1. PICK f : f = Head(s2r)
    OBVIOUS
<1>2. PICK a : a = Arrived
    OBVIOUS
<1>3. /\ Fault(f) = "none" /\ a \in Ids /\ a = f.delivery_id /\ a < out.next_delivery_id
      /\ \A k \in DOMAIN s2r' : k + 1 \in DOMAIN s2r /\ s2r'[k] = s2r[k + 1]
      /\ inbuf' = BufferWith(f) /\ (Continues(f) <=> Partial)
      /\ \A e \in Ids : e # a => got'[e] = got[e]
      /\ got[a].updates = 0 /\ ~ got[a].settled
      /\ \/ Arrived' = a /\ Partial' /\ got'[a].updates = 0
         \/ Arrived' = a + 1 /\ ~ Partial'
      /\ \/ got'[a].state = NoState /\ got'[a].updates = 0 /\ ~ got'[a].settled
         \/ got'[a].state = "accepted" /\ got'[a].updates = 1
    BY <1>1, <1>2, TransferTaken DEF Truthful
<1>4. Basics /\ StreamShape /\ FlowsShape /\ a \in Nat
    BY <1>2, BasicsHold, Shapes DEF Basics, Counts
<1>5. sent' = sent /\ out' = out /\ r2s' = r2s
    BY DEF ReceiverOnTransfer, sender
<1>6. Begun' = a + 1
    BY <1>3 DEF Begun
<1>7. Held'
  <2>1. inbuf \in Buffer(InCapacity, Ids) /\ inbuf.size \in Nat /\ Begun \in Int
    <3>1. inbuf \in Buffer(InCapacity, Ids)
        BY DEF Typed, TypeOK
    <3>2. inbuf.size \in 0..InCapacity
        BY <3>1 DEF Buffer
    <3> QED BY <1>2, <1>4, <3>1, <3>2 DEF Begun
  <2>2. First \in Int /\ InOrder(inbuf, First) /\ 0 <= First /\ First <= a
    BY <1>2, <2>1 DEF First, Truthful, Held
  <2>3. InOrder(inbuf', First) /\ First' = First
    <3>1. CASE Continues(f)
      <4>1. inbuf' = inbuf /\ Begun = a + 1
        BY <1>2, <1>3, <3>1 DEF BufferWith, Begun
      <4> QED BY <1>6, <2>2, <4>1 DEF First
    <3>2. CASE ~ Continues(f)
      <4>1. inbuf' = Push(inbuf, a) /\ Begun = a
        BY <1>2, <1>3, <3>2 DEF BufferWith, Begun
      <4>2. Available(inbuf) > 0
        <5>1. Available(inbuf) # 0
            BY <1>3, <3>2 DEF Fault
        <5>2. Available(inbuf) \in Nat
            BY Shapes DEF Numbers
        <5> QED BY <5>1, <5>2
      <4>3. a = First + inbuf.size
        BY <1>4, <2>1, <4>1 DEF First
      <4>4. InOrder(Push(inbuf, a), First) /\ Push(inbuf, a).size = inbuf.size + 1
        BY <2>1, <2>2, <4>2, <4>3, Capacities, PushInOrder
      <4>5. First' = First
        BY <1>4, <1>6, <2>1, <4>1, <4>4 DEF First
      <4> QED BY <4>1, <4>4, <4>5
    <3> QED BY <3>1, <3>2
  <2>4. First <= Arrived'
    BY <1>3, <1>4, <2>2
  <2>5. ASSUME NEW e \in Ids, e < First PROVE got'[e].settled
    <3>1. e # a
        BY <1>4, <2>2, <2>5 DEF Basics, Counts
    <3> QED BY <1>3, <2>5, <3>1 DEF Truthful, Held
  <2>6. InOrder(inbuf, First)'
    BY <2>3 DEF InOrder, Slot
  <2> QED BY <2>2, <2>3, <2>4, <2>5, <2>6 DEF Held
<1>8. GivenOnce'
  <2>1. SUFFICES ASSUME NEW e \in Ids
                 PROVE  /\ got'[e].state = IF got'[e].updates > 0 THEN "accepted" ELSE NoState
                        /\ got'[e].updates > 0 => e < Arrived'
                        /\ got'[e].settled => got'[e].updates > 0
    BY DEF GivenOnce
  <2>2. CASE e = a
    BY <1>3, <1>4, <2>2
  <2>3. CASE e # a
    <3>1. e < Arrived => e < Arrived'
        BY <1>2, <1>3, <1>4 DEF Basics, Counts
    <3> QED BY <1>3, <2>3, <3>1 DEF Truthful, GivenOnce
  <2> QED BY <2>2, <2>3
<1>9. ~ Given(a)
    BY <1>3 DEF Given
<1>10. Silent(a) /\ ~ OnItsWay(a)
    BY <1>3, <1>4, <1>9 DEF Ordered, OutcomesInOrder
<1>11. TellsTrue'
  <2>1. \A k \in DOMAIN r2s' : k + 0 \in DOMAIN r2s /\ r2s'[k] = r2s[k + 0]
    BY <1>4, <1>5 DEF FlowsShape
  <2>2. \A e \in Ids : OnItsWay(e) => (got'[e].settled <=> got[e].settled)
    BY <1>3, <1>10
  <2> QED BY <2>1, <2>2, TellsStay DEF Truthful
<1>12. HeardTrue' /\ Unsent'
    BY <1>3, <1>5, <1>10 DEF Truthful, HeardTrue, Unsent, Silent
<1>13. AnswersTrue'
  <2>1. \A e \in Ids : Answered(e) => Answered(e)'
    BY <1>3, <1>5, <1>10 DEF Answered, Silent
  <2> QED BY <1>3, <1>5, <2>1, AnswersStay DEF Truthful
<1> QED BY <1>7, <1>8, <1>11, <1>12, <1>13 DEF Truthful

\* What is written of the deliveries is so.
LEMMA AnnouncedTrue ==
    ASSUME Typed, Ordered, GivenOnce, NEW k \in DOMAIN Announced
    PROVE  /\ Announced[k].state = "accepted"
           /\ \A x \in Covered(Announced[k]) : Announced[k].settled <=> got[x].settled
<1> DEFINE ds == UpdatedIncoming
<1>1. Basics
    BY BasicsHold
<1>2. inc.updated \in Seq(Ids)
    BY <1>1 DEF Basics, Fields
<1>3. /\ Len(ds) = Len(inc.updated)
      /\ \A i \in 1..Len(inc.updated) : /\ ds[i].id = inc.updated[i]
                                        /\ ds[i].state = got[inc.updated[i]].state
                                        /\ ds[i].settled = got[inc.updated[i]].settled
    BY <1>2 DEF UpdatedIncoming
<1>4. \A i, j \in 1..Len(ds) : ds[i].id = ds[j].id => i = j
    BY <1>2, <1>3 DEF Ordered, OutcomesInOrder, ToldOnce
<1>5. ds \in Seq(Deliveries(Ids, States)) /\ Ids \in SUBSET Int
    BY <1>1, UpdatedIncomingType DEF Basics, Counts
<1>6. Announced = WriteDispositions(ds, "receiver")
    BY DEF Announced
<1> HIDE DEF ds
<1>7. /\ \E i \in 1..Len(ds) : Announced[k].state = ds[i].state
      /\ \A x \in Covered(Announced[k]) :
             \E i \in 1..Len(ds) : ds[i].id = x /\ ds[i].settled = Announced[k].settled
    BY <1>4, <1>5, <1>6, FramesAgree
<1>8. ASSUME NEW i \in 1..Len(ds) PROVE ds[i].state = "accepted"
  <2>1. inc.updated[i] \in Ids /\ Waiting(inc.updated[i]) /\ inc.updated[i] \in Int
    BY <1>1, <1>2, <1>3 DEF Waiting, Basics, Counts
  <2>2. got[inc.updated[i]].updates > 0
    BY <2>1 DEF Ordered, OutcomesInOrder, Given
  <2> QED BY <1>3, <2>1, <2>2 DEF GivenOnce
<1>9. \A x \in Covered(Announced[k]) : Announced[k].settled <=> got[x].settled
    BY <1>3, <1>7
<1> QED BY <1>7, <1>8, <1>9

LEMMA ReceiverProcessTruthful ==
    ASSUME Typed, Typed', Ordered, Truthful, ReceiverProcess
    PROVE  Truthful'
<1>1. Basics /\ StreamShape
    BY BasicsHold, Shapes
<1>2. /\ delivered' = delivered /\ got' = got /\ s2r' = s2r /\ inbuf' = Freed
      /\ inbuf \in Buffer(InCapacity, Ids) /\ rcv \in [Links -> ReceiverLink]
      /\ rcv' = [l \in Links |-> [rcv[l] EXCEPT !.issue_flow = FALSE]]
    BY DEF ReceiverProcess, Typed, TypeOK
<1>3. sent' = sent /\ out' = out
    BY DEF ReceiverProcess, sender
<1>4. Begun' = Begun /\ Arrived' = Arrived
  <2>1. \A l \in Links : rcv'[l].incomplete = rcv[l].incomplete
    BY <1>2 DEF ReceiverLink
  <2> QED BY <1>2, <2>1 DEF Begun, Arrived, Partial
<1>5. Held'
  <2>1. inbuf.size \in Nat /\ Begun \in Int /\ Arrived \in Nat
    <3>1. inbuf.size \in 0..InCapacity
        BY <1>2 DEF Buffer
    <3> QED BY <1>1, <3>1 DEF Begun, Basics, Counts
  <2>2. First \in Int /\ InOrder(inbuf, First) /\ 0 <= First /\ First <= Arrived
    BY <2>1 DEF First, Truthful, Held
  <2>3. PICK done : done = {id \in Ids : got[id].settled}
    OBVIOUS
  <2>4. PICK n \in 0..inbuf.size :
            /\ InOrder(PopIf(inbuf, done), First + n) /\ PopIf(inbuf, done).size = inbuf.size - n
            /\ \A id \in First..(First + n - 1) : id \in done
    BY <1>2, <2>2, Capacities, PopIfInOrder
  <2>5. InOrder(inbuf', First + n) /\ inbuf'.size = inbuf.size - n
    BY <1>2, <2>3, <2>4 DEF Freed
  <2>6. First' = First + n
    BY <1>4, <2>1, <2>4, <2>5 DEF First
  <2>7. First + n <= Arrived
    <3>1. CASE n = 0
        BY <2>2, <3>1
    <3>2. CASE n # 0
      <4>1. First + n - 1 \in First..(First + n - 1)
        BY <2>1, <2>2, <2>4, <3>2
      <4>2. First + n - 1 \in Ids /\ got[First + n - 1].settled
        BY <2>3, <2>4, <4>1
      <4>3. First + n - 1 < Arrived
        BY <4>2 DEF Truthful, GivenOnce
      <4> QED BY <2>1, <2>2, <4>3
    <3> QED BY <3>1, <3>2
  <2>8. ASSUME NEW e \in Ids, e < First + n PROVE got[e].settled
    <3>1. e \in Int
        BY <1>1 DEF Basics, Counts
    <3>2. CASE e < First
        BY <3>2 DEF Truthful, Held
    <3>3. CASE ~ (e < First)
      <4>1. e \in First..(First + n - 1)
        BY <2>1, <2>2, <2>8, <3>1, <3>3
      <4> QED BY <2>3, <2>4, <4>1
    <3> QED BY <3>2, <3>3
  <2>9. 0 <= First + n
    BY <2>1, <2>2
  <2>10. InOrder(inbuf, First)'
    BY <2>5, <2>6 DEF InOrder, Slot
  <2> QED BY <1>2, <1>4, <2>6, <2>7, <2>8, <2>9, <2>10 DEF Held
<1>6. GivenOnce' /\ HeardTrue' /\ Unsent'
    BY <1>2, <1>3, <1>4 DEF Truthful, GivenOnce, HeardTrue, Unsent
<1>7. TellsTrue'
  <2>1. SUFFICES ASSUME NEW k \in DOMAIN r2s', r2s'[k].type = "disposition"
                 PROVE  /\ r2s'[k].state = "accepted"
                        /\ \A x \in Covered(r2s'[k]) : r2s'[k].settled <=> got[x].settled
    BY <1>2 DEF TellsTrue, Covered
  <2>2. CASE k \in DOMAIN r2s /\ r2s'[k] = r2s[k]
    BY <2>1, <2>2 DEF Truthful, TellsTrue
  <2>3. CASE k - Len(r2s) \in DOMAIN Announced /\ r2s'[k] = Announced[k - Len(r2s)]
    BY <2>3, AnnouncedTrue DEF Truthful
  <2> QED BY <2>1, <2>2, <2>3, OutcomesWritten
<1>8. AnswersTrue'
  <2>1. \A k \in DOMAIN s2r' : k + 0 \in DOMAIN s2r /\ s2r'[k] = s2r[k + 0]
    BY <1>1, <1>2 DEF StreamShape
  <2>2. \A e \in Ids : Answered(e) => Answered(e)'
    BY <1>2, <1>3 DEF Answered
  <2> QED BY <1>3, <2>1, <2>2, AnswersStay DEF Truthful
<1> QED BY <1>5, <1>6, <1>7, <1>8 DEF Truthful

-----------------------------------------------------------------------------
(* Truthful holds.                                                          *)

LEMMA StepTruthful ==
    Usual /\ OnlyAccepted /\ Typed /\ Typed' /\ NeverOverflows' /\ Ordered /\ Truthful
        /\ [Next]_vars => Truthful'
<1> SUFFICES ASSUME Usual, OnlyAccepted, Typed, Typed', NeverOverflows', Ordered, Truthful,
                    [Next]_vars
             PROVE  Truthful'
    OBVIOUS
<1>1. CASE UNCHANGED vars
    BY <1>1, RestTruthful DEF vars, sender, receiver, SenderRests
<1>2. ASSUME NEW l \in Links, NEW n \in 1..MaxFrames, Send(l, n) PROVE Truthful'
    BY <1>2, SendTruthful
<1>3. ASSUME NEW id \in Ids, Settle(id) PROVE Truthful'
    BY <1>3, SettleTruthful
<1>4. ASSUME NEW id \in Ids, NEW outcome \in Outcomes, GiveOutcome(id, outcome)
      PROVE  Truthful'
    BY <1>4, GiveOutcomeTruthful
<1>5. ASSUME NEW l \in Links, AddCredit(l) PROVE Truthful'
    BY <1>5, AddCreditTruthful
<1>6. CASE SendPending
    BY <1>6, SendPendingTruthful
<1>7. CASE FinishProcess
    BY <1>7, FinishProcessTruthful
<1>8. CASE SenderOnFlow
    BY <1>8, SenderOnFlowTruthful
<1>9. CASE SenderOnDisposition
    BY <1>9, SenderOnDispositionTruthful
<1>10. CASE ReceiverOnTransfer
    BY <1>10, ReceiverOnTransferTruthful
<1>11. CASE ReceiverOnDisposition
    BY <1>11, ReceiverOnDispositionTruthful
<1>12. CASE ReceiverProcess
    BY <1>12, ReceiverProcessTruthful
<1> QED
    BY <1>1, <1>2, <1>3, <1>4, <1>5, <1>6, <1>7, <1>8, <1>9, <1>10, <1>11, <1>12
    DEF Next, SenderApplication, ReceiverApplication, SenderPeer, ReceiverPeer

\* All that is known of a state of the session.
Known == Typed /\ NeverOverflows /\ Ordered /\ Unfailed /\ Truthful

LEMMA TruthHolds == Usual /\ OnlyAccepted => (Spec => []Known)
<1> SUFFICES ASSUME Usual, OnlyAccepted PROVE Spec => []Known
    OBVIOUS
<1>1. Typed /\ Typed' /\ NeverOverflows' /\ Ordered /\ Truthful /\ [Next]_vars => Truthful'
    BY StepTruthful
<1>2. Init => Truthful
    BY InitTruthful
<1>3. Spec => [](Typed /\ Ordered /\ Unfailed)
    BY OrderHolds
<1> HIDE DEF Usual, OnlyAccepted
<1> QED BY <1>1, <1>2, <1>3, RingNeverOverflows, PTL DEF Spec, Known

-----------------------------------------------------------------------------
(* What an outcome event of the sender says.                                *)

\* An outcome event says what the receiver's application gave that very message.
THEOREM OutcomesAreGiven == Usual /\ OnlyAccepted => (Spec => []OutcomeIsGiven)
<1> SUFFICES ASSUME Usual, OnlyAccepted PROVE Spec => []OutcomeIsGiven
    OBVIOUS
<1>1. Known => OutcomeIsGiven
    BY DEF Known, Truthful, HeardTrue, OutcomeIsGiven
<1>2. Spec => []Known
    BY TruthHolds
<1> QED BY <1>1, <1>2, PTL

-----------------------------------------------------------------------------
(* The refinement of TransferContract: what its variables stand for ...     *)

AllMessages ==
    {[link |-> l, parts |-> [k \in 1..n |-> k - 1]] : l \in Links, n \in 1..MaxFrames}

Outbox == [k \in 1..out.next_delivery_id |-> Message(k - 1)]
Inbox ==
    [k \in DOMAIN delivered |->
        [link |-> got[delivered[k]].link, parts |-> got[delivered[k]].parts]]
Presettled == {id \in Ids : sent[id].link \in SettledFirst}
OutcomeGiven == [id \in Ids |-> got[id].state]
SettledThere == {id \in Ids : got[id].settled}
OutcomeKnown == [id \in Ids |-> sent[id].remote_state]
SettledRemotely == {id \in Ids : sent[id].remote_settled}

\* ... the halves of them that a step may leave alone, ...
SentSame == Outbox' = Outbox /\ Presettled' = Presettled
HeardSame == OutcomeKnown' = OutcomeKnown /\ SettledRemotely' = SettledRemotely
InboxSame == Inbox' = Inbox
GivenSame == OutcomeGiven' = OutcomeGiven /\ SettledThere' = SettledThere

\* ... and a step of the contract, or none.
Keeps == Contract!Next \/ UNCHANGED Contract!vars

LEMMA StutterKeeps ==
    ASSUME SentSame, HeardSame, InboxSame, GivenSame
    PROVE  Keeps
BY DEF Keeps, Contract!vars, SentSame, HeardSame, InboxSame, GivenSame, Outbox, Inbox,
       Presettled, OutcomeGiven, SettledThere, OutcomeKnown, SettledRemotely

LEMMA SendKeeps ==
    ASSUME NEW message \in AllMessages, Len(Outbox) \in Ids,
           Outbox' = Append(Outbox, message),
           Presettled' \in {Presettled, Presettled \cup {Len(Outbox)}},
           HeardSame, InboxSame, GivenSame
    PROVE  Keeps
<1>1. Contract!Send(message)
    BY DEF Contract!Send, HeardSame, InboxSame, GivenSame, Outbox, Inbox,
           Presettled, OutcomeGiven, SettledThere, OutcomeKnown, SettledRemotely
<1> QED BY <1>1 DEF Keeps, Contract!Next, AllMessages

LEMMA ArriveKeeps ==
    ASSUME Len(Inbox) < Len(Outbox), Inbox' = Append(Inbox, Outbox[Len(Inbox) + 1]),
           \/ GivenSame
           \/ /\ OutcomeGiven' = [OutcomeGiven EXCEPT ![Len(Inbox)] = "accepted"]
              /\ SettledThere' \in {SettledThere, SettledThere \cup {Len(Inbox)}},
           SentSame, HeardSame
    PROVE  Keeps
<1>1. Contract!Arrive
    BY DEF Contract!Arrive, SentSame, HeardSame, GivenSame, Outbox, Inbox,
           Presettled, OutcomeGiven, SettledThere, OutcomeKnown, SettledRemotely
<1> QED BY <1>1 DEF Keeps, Contract!Next

LEMMA GiveKeeps ==
    ASSUME NEW id \in Ids, NEW outcome \in Outcomes, id < Len(Inbox),
           OutcomeGiven' = [OutcomeGiven EXCEPT ![id] = outcome],
           SettledThere' \in {SettledThere, SettledThere \cup {id}},
           SentSame, HeardSame, InboxSame
    PROVE  Keeps
<1>1. Contract!Give(id, outcome)
    BY DEF Contract!Give, SentSame, HeardSame, InboxSame, Outbox, Inbox,
           Presettled, OutcomeGiven, SettledThere, OutcomeKnown, SettledRemotely
<1> QED BY <1>1 DEF Keeps, Contract!Next

LEMMA SettleThereKeeps ==
    ASSUME NEW ids \in SUBSET Ids, \A id \in ids : id < Len(Outbox),
           SettledThere' = SettledThere \cup ids, OutcomeGiven' = OutcomeGiven,
           SentSame, HeardSame, InboxSame
    PROVE  Keeps
<1>1. Contract!SettleThere(ids)
    BY DEF Contract!SettleThere, SentSame, HeardSame, InboxSame, Outbox, Inbox,
           Presettled, OutcomeGiven, SettledThere, OutcomeKnown, SettledRemotely
<1> QED BY <1>1 DEF Keeps, Contract!Next

LEMMA HearKeeps ==
    ASSUME NEW ids \in SUBSET Ids, \A id \in ids : OutcomeGiven[id] # NoState,
           OutcomeKnown' = [id \in Ids |-> IF id \in ids THEN OutcomeGiven[id]
                                           ELSE OutcomeKnown[id]],
           SettledRemotely' \in {SettledRemotely,
                                 SettledRemotely \cup (ids \cap SettledThere)},
           SentSame, InboxSame, GivenSame
    PROVE  Keeps
<1>1. Contract!Hear(ids)
    BY DEF Contract!Hear, SentSame, InboxSame, GivenSame, Outbox, Inbox,
           Presettled, OutcomeGiven, SettledThere, OutcomeKnown, SettledRemotely
<1> QED BY <1>1 DEF Keeps, Contract!Next

LEMMA LetGoKeeps ==
    ASSUME NEW id \in Presettled, SettledRemotely' = SettledRemotely \cup {id},
           OutcomeKnown' = OutcomeKnown, SentSame, InboxSame, GivenSame
    PROVE  Keeps
<1>1. id \in Ids /\ Contract!LetGo(id)
    BY DEF Contract!LetGo, SentSame, InboxSame, GivenSame, Outbox, Inbox,
           Presettled, OutcomeGiven, SettledThere, OutcomeKnown, SettledRemotely
<1> QED BY <1>1 DEF Keeps, Contract!Next

-----------------------------------------------------------------------------
(* What a step leaves of them.                                              *)

LEMMA ItemOf ==
    ASSUME NEW S, NEW s \in Seq(S), NEW k \in DOMAIN s
    PROVE  s[k] \in S
OBVIOUS

LEMMA AppendIs ==
    ASSUME NEW s, NEW n \in Nat, s = [k \in 1..n |-> s[k]], NEW e
    PROVE  Append(s, e) = [k \in 1..(n + 1) |-> IF k = n + 1 THEN e ELSE s[k]]
<1> DEFINE S == {s[k] : k \in 1..n} \cup {e}
<1>1. s \in [1..n -> S]
    OBVIOUS
<1>2. s \in Seq(S) /\ Len(s) = n /\ e \in S
    BY <1>1
<1> HIDE DEF S
<1> QED BY <1>2

\* Two sets that agree but for one element.
LEMMA OneMore ==
    ASSUME NEW U, NEW S, NEW T, NEW a \in U, S \subseteq U, T \subseteq U, a \notin S,
           \A e \in U : e # a => (e \in T <=> e \in S)
    PROVE  T \in {S, S \cup {a}}
<1>1. CASE a \in T
  <2>1. T = S \cup {a}
    BY <1>1
  <2> QED BY <2>1
<1>2. CASE a \notin T
  <2>1. T = S
    BY <1>2
  <2> QED BY <2>1
<1> QED BY <1>1, <1>2

\* The ids that have been given out are ids.
LEMMA GivenOut ==
    ASSUME Typed, Ordered
    PROVE  /\ out.next_delivery_id \in Nat /\ Arrived \in Nat
           /\ Arrived <= out.next_delivery_id /\ Len(Outbox) = out.next_delivery_id
           /\ Len(Inbox) = Arrived
           /\ \A k \in 1..out.next_delivery_id : k - 1 \in Ids
<1>1. Basics
    BY BasicsHold
<1>2. /\ out.next_delivery_id \in Nat /\ Arrived \in Nat /\ Arrived <= out.next_delivery_id
      /\ \A k \in 1..out.next_delivery_id : k - 1 \in Ids
    BY <1>1 DEF Basics, Counts, Ordered, Buffered
<1>3. Len(Outbox) = out.next_delivery_id
    BY <1>2 DEF Outbox
<1>4. Len(Inbox) = Arrived
    BY <1>1 DEF Inbox, Basics, Counts
<1> QED BY <1>2, <1>3, <1>4

LEMMA GivenOutNext ==
    Typed' /\ Ordered' => (Len(Inbox) = Arrived)'
<1>1. Typed /\ Ordered => Len(Inbox) = Arrived
    BY GivenOut
<1> QED BY <1>1, PTL

LEMMA SentStays ==
    ASSUME Typed, Ordered, out'.next_delivery_id = out.next_delivery_id,
           \A e \in Ids : sent'[e].link = sent[e].link /\ sent'[e].frames = sent[e].frames
    PROVE  SentSame
<1>1. Presettled' = Presettled
    BY DEF Presettled
<1>2. \A k \in 1..out.next_delivery_id : Message(k - 1)' = Message(k - 1)
    BY GivenOut DEF Message
<1>3. Outbox' = Outbox
    BY <1>2 DEF Outbox
<1> QED BY <1>1, <1>3 DEF SentSame

LEMMA HeardStays ==
    ASSUME \A e \in Ids : /\ sent'[e].remote_state = sent[e].remote_state
                          /\ sent'[e].remote_settled <=> sent[e].remote_settled
    PROVE  HeardSame
BY DEF HeardSame, OutcomeKnown, SettledRemotely

LEMMA InboxStays ==
    ASSUME Typed, delivered' = delivered,
           \A e \in Ids : got'[e].link = got[e].link /\ got'[e].parts = got[e].parts
    PROVE  InboxSame
<1>1. delivered \in Seq(Ids)
    BY DEF Typed, TypeOK
<1>2. \A k \in DOMAIN delivered : delivered[k] \in Ids
    BY <1>1, ItemOf
<1> QED BY <1>2 DEF InboxSame, Inbox

LEMMA ReceiverSame ==
    ASSUME got' = got, delivered' = delivered
    PROVE  InboxSame /\ GivenSame
BY DEF InboxSame, Inbox, GivenSame, OutcomeGiven, SettledThere

LEMMA SenderSame ==
    ASSUME sent' = sent, out' = out
    PROVE  SentSame /\ HeardSame
BY DEF SentSame, Outbox, Message, Presettled, HeardSame, OutcomeKnown, SettledRemotely

\* The kth message that has arrived is of the kth delivery.
LEMMA ArrivedIs ==
    ASSUME Typed, Ordered, NEW k \in 1..Arrived
    PROVE  /\ k - 1 \in Ids /\ delivered[k] = k - 1
           /\ Inbox[k] = [link |-> got[k - 1].link, parts |-> got[k - 1].parts]
<1>1. Basics
    BY BasicsHold
<1>2. delivered[k] = k - 1 /\ k \in DOMAIN delivered /\ k \in Int /\ k >= 1 /\ k <= Arrived
    BY <1>1 DEF Ordered, ArrivedInOrder, Parts, Basics, Counts
<1>3. delivered[k] \in Ids
  <2>1. delivered \in Seq(Ids)
    BY DEF Typed, TypeOK
  <2> QED BY <1>2, <2>1, ItemOf
<1> QED BY <1>2, <1>3 DEF Inbox

-----------------------------------------------------------------------------
(* Each step of the session is a step of the contract, or none.             *)

LEMMA SendIsKept ==
    ASSUME Usual, Typed, Typed', Ordered, Truthful, NEW l \in Links, NEW n \in 1..MaxFrames,
           Send(l, n)
    PROVE  Keeps
<1>1. PICK id : id = out.next_delivery_id
    OBVIOUS
<1>2. PICK message : message = [link |-> l, parts |-> [k \in 1..n |-> k - 1]]
    OBVIOUS
<1>3. /\ id \in Ids /\ id \in Nat /\ Available(outbuf) > 0
    BY <1>1, BasicsHold DEF Basics, Counts, Send, Usual
<1>4. /\ out \in Outgoing /\ sent \in [Ids -> SentDelivery]
      /\ out' = [out EXCEPT !.next_delivery_id = id + 1]
      /\ sent' = [sent EXCEPT ![id] =
                     [link |-> l, frames |-> n, next_to_send |-> 0,
                      settled |-> l \in SettledFirst,
                      remote_settled |-> FALSE, remote_state |-> NoState]]
      /\ got' = got /\ delivered' = delivered
    BY <1>1, <1>3 DEF Send, receiver, Typed, TypeOK
<1>5. /\ out'.next_delivery_id = id + 1
      /\ \A e \in Ids : e # id => sent'[e] = sent[e]
      /\ sent'[id].link = l /\ sent'[id].frames = n
      /\ sent'[id].remote_state = NoState /\ ~ sent'[id].remote_settled
    BY <1>3, <1>4 DEF Outgoing
<1>6. sent[id].link \notin SettledFirst
    BY <1>1, <1>3 DEF Truthful, Unsent
<1>7. sent[id].remote_state = NoState /\ ~ sent[id].remote_settled
  <2>1. ~ Given(id)
    BY <1>1, <1>3, BasicsHold DEF Given, Ordered, Buffered, Basics, Counts
  <2>2. Silent(id)
    BY <1>3, <2>1 DEF Ordered, OutcomesInOrder
  <2> QED BY <1>6, <2>2 DEF Silent
<1>8. HeardSame
  <2>1. \A e \in Ids : /\ sent'[e].remote_state = sent[e].remote_state
                       /\ sent'[e].remote_settled <=> sent[e].remote_settled
    BY <1>5, <1>7
  <2> QED BY <2>1, HeardStays
<1>9. InboxSame /\ GivenSame
    BY <1>4, ReceiverSame
<1>10. message \in AllMessages
    BY <1>2 DEF AllMessages
<1>11. Len(Outbox) = id
    BY <1>1, GivenOut
<1>12. Presettled' \in {Presettled, Presettled \cup {id}}
  <2>1. \A e \in Ids : e # id => (e \in Presettled' <=> e \in Presettled)
    BY <1>5 DEF Presettled
  <2>2. Presettled \subseteq Ids /\ Presettled' \subseteq Ids /\ id \notin Presettled
    BY <1>6 DEF Presettled
  <2> QED BY <1>3, <2>1, <2>2, OneMore
<1>13. Outbox' = Append(Outbox, message)
  <2>1. Message(id)' = message
    BY <1>2, <1>5 DEF Message
  <2>2. \A k \in 1..id : Message(k - 1)' = Message(k - 1)
    <3>1. \A k \in 1..id : k - 1 \in Ids /\ k - 1 # id
        BY <1>1, <1>3, GivenOut
    <3> QED BY <1>5, <3>1 DEF Message
  <2>3. Outbox' = [k \in 1..(id + 1) |-> Message(k - 1)']
    BY <1>5 DEF Outbox
  <2>4. Outbox = [k \in 1..id |-> Message(k - 1)]
    BY <1>1 DEF Outbox
  <2>5. (id + 1) - 1 = id
    BY <1>3
  <2>6. Append(Outbox, message) = [k \in 1..(id + 1) |-> IF k = id + 1 THEN message ELSE Outbox[k]]
    <3>1. Outbox = [k \in 1..id |-> Outbox[k]]
        BY <2>4
    <3> QED BY <1>3, <3>1, AppendIs
  <2>7. \A k \in 1..(id + 1) : k # id + 1 => k \in 1..id
    BY <1>3
  <2>8. \A k \in 1..(id + 1) : Message(k - 1)' = IF k = id + 1 THEN message ELSE Outbox[k]
    BY <2>1, <2>2, <2>4, <2>5, <2>7
  <2> QED BY <2>3, <2>6, <2>8
<1> QED BY <1>3, <1>8, <1>9, <1>10, <1>11, <1>12, <1>13, SendKeeps

LEMMA SettleIsKept ==
    ASSUME Typed, Ordered, NEW id \in Ids, Settle(id)
    PROVE  Keeps
<1>1. /\ sent \in [Ids -> SentDelivery] /\ out \in Outgoing
      /\ sent' = [sent EXCEPT ![id] = [sent[id] EXCEPT !.settled = TRUE]]
      /\ \E p : out' = IF sent[id].remote_settled THEN out
                       ELSE [out EXCEPT !.pending_dispositions = p]
      /\ got' = got /\ delivered' = delivered
    BY DEF Settle, receiver, Typed, TypeOK
<1>2. out'.next_delivery_id = out.next_delivery_id
    BY <1>1 DEF Outgoing
<1>3. \A e \in Ids : /\ sent'[e].link = sent[e].link /\ sent'[e].frames = sent[e].frames
                     /\ sent'[e].remote_state = sent[e].remote_state
                     /\ sent'[e].remote_settled = sent[e].remote_settled
  <2>1. sent'[id] = [sent[id] EXCEPT !.settled = TRUE] /\ sent[id] \in SentDelivery
    BY <1>1
  <2>2. \A e \in Ids : e # id => sent'[e] = sent[e]
    BY <1>1
  <2> QED BY <2>1, <2>2 DEF SentDelivery
<1> QED BY <1>1, <1>2, <1>3, SentStays, HeardStays, ReceiverSame, StutterKeeps

LEMMA FinishProcessIsKept ==
    ASSUME Typed, Ordered, FinishProcess
    PROVE  Keeps
<1>1. /\ sent \in [Ids -> SentDelivery] /\ out \in Outgoing /\ sent' = Notified
      /\ out' = [out EXCEPT !.updated = {}, !.pending_dispositions = << >>]
      /\ got' = got /\ delivered' = delivered
    BY DEF FinishProcess, receiver, Typed, TypeOK
<1>2. out'.next_delivery_id = out.next_delivery_id
    BY <1>1 DEF Outgoing
<1>3. ASSUME NEW e \in Ids
      PROVE  /\ sent'[e].link = sent[e].link /\ sent'[e].frames = sent[e].frames
             /\ sent'[e].remote_state = sent[e].remote_state
             /\ sent'[e].remote_settled = sent[e].remote_settled
  <2>1. sent[e] \in SentDelivery
    BY <1>1
  <2>2. sent'[e] = sent[e] \/ sent'[e] = [sent[e] EXCEPT !.settled = TRUE]
    BY <1>1 DEF Notified
  <2> QED BY <2>1, <2>2 DEF SentDelivery
<1> QED BY <1>1, <1>2, <1>3, SentStays, HeardStays, ReceiverSame, StutterKeeps

LEMMA SenderOnFlowIsKept ==
    ASSUME Typed, Ordered, SenderOnFlow
    PROVE  Keeps
<1>1. /\ out \in Outgoing /\ sent' = sent /\ got' = got /\ delivered' = delivered
      /\ \E a, b : out' = [out EXCEPT !.remote_next_transfer_id = a, !.remote_window = b]
    BY DEF SenderOnFlow, receiver, Typed, TypeOK
<1>2. out'.next_delivery_id = out.next_delivery_id
    BY <1>1 DEF Outgoing
<1> QED BY <1>1, <1>2, SentStays, HeardStays, ReceiverSame, StutterKeeps

LEMMA SendPendingIsKept ==
    ASSUME Typed, Ordered, Truthful, SendPending
    PROVE  Keeps
<1>1. PICK p : p = out.next_pending_delivery
    OBVIOUS
<1>2. CanSend
    BY DEF SendPending
<1>3. p \in Ids /\ p \in Nat /\ Arrived <= p /\ Arrived \in Nat
    BY <1>1, <1>2, BasicsHold DEF CanSend, Basics, Counts, Ordered, Buffered
<1>4. Pending = p
  <2>1. p \in out.next_pending_delivery..(out.next_delivery_id - 1)
    BY <1>1, <1>2, <1>3, BasicsHold DEF CanSend, Basics, Counts
  <2> QED BY <1>1, <2>1, PendingFound DEF Pending
<1>5. /\ out \in Outgoing /\ sent \in [Ids -> SentDelivery]
      /\ got' = got /\ delivered' = delivered
      /\ \E t, u : out' = [out EXCEPT !.next_transfer_id = t, !.next_pending_delivery = u]
      /\ \/ sent' = [sent EXCEPT ![p] = [sent[p] EXCEPT !.remote_settled =
                                            sent[p].remote_settled \/ sent[p].settled]]
         \/ \E r : sent' = [sent EXCEPT ![p] = [sent[p] EXCEPT !.next_to_send = r]]
    BY <1>4 DEF SendPending, receiver, Typed, TypeOK
<1>6. out'.next_delivery_id = out.next_delivery_id
    BY <1>5 DEF Outgoing
<1>7. /\ sent[p] \in SentDelivery
      /\ \A e \in Ids : e # p => sent'[e] = sent[e]
      /\ \/ sent'[p] = [sent[p] EXCEPT !.remote_settled =
                            sent[p].remote_settled \/ sent[p].settled]
         \/ \E r : sent'[p] = [sent[p] EXCEPT !.next_to_send = r]
    BY <1>3, <1>5
<1>8. \A e \in Ids : /\ sent'[e].link = sent[e].link /\ sent'[e].frames = sent[e].frames
                     /\ sent'[e].remote_state = sent[e].remote_state
  <2>1. /\ sent'[p].link = sent[p].link /\ sent'[p].frames = sent[p].frames
        /\ sent'[p].remote_state = sent[p].remote_state
    BY <1>7 DEF SentDelivery
  <2> QED BY <1>7, <2>1
<1>9. SentSame /\ InboxSame /\ GivenSame
    BY <1>5, <1>6, <1>8, SentStays, ReceiverSame
<1>10. OutcomeKnown' = OutcomeKnown
    BY <1>8 DEF OutcomeKnown
<1>11. CASE sent'[p].remote_settled = sent[p].remote_settled
  <2>1. \A e \in Ids : sent'[e].remote_settled = sent[e].remote_settled
    BY <1>7, <1>11
  <2> QED BY <1>8, <1>9, <2>1, HeardStays, StutterKeeps
<1>12. CASE sent'[p].remote_settled # sent[p].remote_settled
  <2>1. sent'[p] = [sent[p] EXCEPT !.remote_settled = sent[p].remote_settled \/ sent[p].settled]
    BY <1>7, <1>12 DEF SentDelivery
  <2>2. sent'[p].remote_settled = (sent[p].remote_settled \/ sent[p].settled)
    BY <1>7, <2>1 DEF SentDelivery
  <2>3. sent[p].remote_settled \in BOOLEAN /\ sent[p].settled \in BOOLEAN
    BY <1>7 DEF SentDelivery
  <2>4. sent'[p].remote_settled /\ sent[p].settled
    BY <1>12, <2>2, <2>3
  <2>5. sent[p].link \in SettledFirst
    <3>1. ~ (p < Arrived)
        BY <1>3
    <3> QED BY <1>3, <2>4, <3>1 DEF Ordered, SettledInOrder
  <2>6. p \in Presettled
    BY <1>3, <2>5 DEF Presettled
  <2>7. SettledRemotely' = SettledRemotely \cup {p}
    BY <1>3, <1>7, <2>4 DEF SettledRemotely
  <2> QED BY <1>9, <1>10, <2>6, <2>7, LetGoKeeps
<1> QED BY <1>11, <1>12

LEMMA SenderOnDispositionIsKept ==
    ASSUME Typed, Ordered, Truthful, SenderOnDisposition
    PROVE  Keeps
<1>1. PICK f : f = Head(r2s)
    OBVIOUS
<1>2. /\ f = r2s[1] /\ 1 \in DOMAIN r2s /\ f.type = "disposition"
      /\ \A i \in Covered(f) : i \in Ids /\ Given(i) /\ Silent(i) /\ ~ sent[i].remote_settled
      /\ sent' = [id \in Ids |->
                     IF id \notin Covered(f) THEN sent[id]
                     ELSE [sent[id] EXCEPT !.remote_settled = f.settled,
                                           !.remote_state = "accepted"]]
    BY <1>1, OutcomeHeard DEF Truthful
<1>3. /\ out \in Outgoing /\ sent \in [Ids -> SentDelivery]
      /\ \E u : out' = [out EXCEPT !.updated = u]
      /\ got' = got /\ delivered' = delivered
    BY DEF SenderOnDisposition, receiver, Typed, TypeOK
<1>4. out'.next_delivery_id = out.next_delivery_id
    BY <1>3 DEF Outgoing
<1>5. ASSUME NEW e \in Ids
      PROVE  /\ sent'[e].link = sent[e].link /\ sent'[e].frames = sent[e].frames
             /\ e \notin Covered(f) => sent'[e] = sent[e]
             /\ e \in Covered(f) => /\ sent'[e].remote_state = "accepted"
                                    /\ sent'[e].remote_settled = f.settled
  <2>1. sent[e] \in SentDelivery
    BY <1>3
  <2>2. sent'[e] = IF e \notin Covered(f) THEN sent[e]
                   ELSE [sent[e] EXCEPT !.remote_settled = f.settled,
                                        !.remote_state = "accepted"]
    BY <1>2
  <2> QED BY <2>1, <2>2 DEF SentDelivery
<1>6. SentSame /\ InboxSame /\ GivenSame
    BY <1>3, <1>4, <1>5, SentStays, ReceiverSame
<1>7. \A i \in Covered(f) : got[i].state = "accepted" /\ (f.settled <=> got[i].settled)
  <2>1. \A i \in Covered(f) : got[i].state = "accepted"
    BY <1>2 DEF Given, Truthful, GivenOnce
  <2>2. \A i \in Covered(f) : f.settled <=> got[i].settled
    BY <1>2 DEF Truthful, TellsTrue
  <2> QED BY <2>1, <2>2
<1>8. Covered(f) \in SUBSET Ids
    BY <1>2
<1>9. \A i \in Covered(f) : OutcomeGiven[i] # NoState
    BY <1>7, <1>8 DEF OutcomeGiven, NoState
<1>10. OutcomeKnown' = [id \in Ids |-> IF id \in Covered(f) THEN OutcomeGiven[id]
                                       ELSE OutcomeKnown[id]]
  <2>1. \A id \in Ids : sent'[id].remote_state = IF id \in Covered(f) THEN got[id].state
                                                 ELSE sent[id].remote_state
    BY <1>5, <1>7
  <2> QED BY <2>1 DEF OutcomeKnown, OutcomeGiven
<1>11. SettledRemotely' \in {SettledRemotely,
                             SettledRemotely \cup (Covered(f) \cap SettledThere)}
  <2>1. CASE f.settled
    <3>1. \A id \in Ids : sent'[id].remote_settled
                              <=> sent[id].remote_settled \/ (id \in Covered(f) /\ got[id].settled)
        BY <1>5, <1>7, <2>1
    <3>2. SettledRemotely' = SettledRemotely \cup (Covered(f) \cap SettledThere)
        BY <3>1 DEF SettledRemotely, SettledThere
    <3> QED BY <3>2
  <2>2. CASE ~ f.settled
    <3>1. \A id \in Ids : sent'[id].remote_settled <=> sent[id].remote_settled
        BY <1>2, <1>5, <2>2
    <3>2. SettledRemotely' = SettledRemotely
        BY <3>1 DEF SettledRemotely
    <3> QED BY <3>2
  <2> QED BY <2>1, <2>2
<1> QED BY <1>6, <1>8, <1>9, <1>10, <1>11, HearKeeps

LEMMA GiveOutcomeIsKept ==
    ASSUME Usual, Typed, Ordered, Truthful, NEW id \in Ids, NEW outcome \in Outcomes,
           GiveOutcome(id, outcome)
    PROVE  Keeps
<1>1. id < Arrived /\ got[id].updates = 0
    BY OutcomeFirst
<1>2. /\ got \in [Ids -> GotDelivery] /\ got[id] \in GotDelivery
      /\ got' = [got EXCEPT ![id] = [got[id] EXCEPT !.state = outcome,
                                       !.updates = got[id].updates + 1,
                                       !.settled = got[id].link \notin SettlesSecond]]
      /\ sent' = sent /\ out' = out /\ delivered' = delivered
    BY DEF GiveOutcome, sender, Typed, TypeOK
<1>3. /\ \A e \in Ids : e # id => got'[e] = got[e]
      /\ got'[id].state = outcome
      /\ got'[id].link = got[id].link /\ got'[id].parts = got[id].parts
  <2>1. got'[id] = [got[id] EXCEPT !.state = outcome, !.updates = got[id].updates + 1,
                                   !.settled = got[id].link \notin SettlesSecond]
    BY <1>2
  <2>2. \A e \in Ids : e # id => got'[e] = got[e]
    BY <1>2
  <2> QED BY <1>2, <2>1, <2>2 DEF GotDelivery
<1>4. ~ got[id].settled
    BY <1>1 DEF Truthful, GivenOnce
<1>5. SentSame /\ HeardSame
    BY <1>2, SenderSame
<1>6. InboxSame
    BY <1>2, <1>3, InboxStays
<1>7. OutcomeGiven' = [OutcomeGiven EXCEPT ![id] = outcome]
    BY <1>3 DEF OutcomeGiven
<1>8. SettledThere' \in {SettledThere, SettledThere \cup {id}}
  <2>1. \A e \in Ids : e # id => (e \in SettledThere' <=> e \in SettledThere)
    BY <1>3 DEF SettledThere
  <2>2. SettledThere \subseteq Ids /\ SettledThere' \subseteq Ids /\ id \notin SettledThere
    BY <1>4 DEF SettledThere
  <2> QED BY <2>1, <2>2, OneMore
<1>9. id < Len(Inbox)
    BY <1>1, GivenOut
<1> QED BY <1>5, <1>6, <1>7, <1>8, <1>9, GiveKeeps

LEMMA AddCreditIsKept ==
    ASSUME NEW l \in Links, AddCredit(l)
    PROVE  Keeps
<1>1. got' = got /\ delivered' = delivered /\ sent' = sent /\ out' = out
    BY DEF AddCredit, sender
<1> QED BY <1>1, SenderSame, ReceiverSame, StutterKeeps

LEMMA ReceiverProcessIsKept == ReceiverProcess => Keeps
<1> SUFFICES ASSUME ReceiverProcess PROVE Keeps
    OBVIOUS
<1>1. got' = got /\ delivered' = delivered /\ sent' = sent /\ out' = out
    BY DEF ReceiverProcess, sender
<1> QED BY <1>1, SenderSame, ReceiverSame, StutterKeeps

LEMMA ReceiverOnDispositionIsKept ==
    ASSUME Typed, Ordered, Truthful, ReceiverOnDisposition
    PROVE  Keeps
<1>1. PICK f : f = Head(s2r)
    OBVIOUS
<1>2. /\ \A i \in Covered(f) : i \in Ids /\ Given(i)
      /\ \A e \in Ids : /\ got'[e].link = got[e].link /\ got'[e].parts = got[e].parts
                        /\ got'[e].state = got[e].state
                        /\ got[e].settled => got'[e].settled
                        /\ e \notin Covered(f) => got'[e] = got[e]
    BY <1>1, AnswerHeard
<1>3. sent' = sent /\ out' = out /\ delivered' = delivered
    BY DEF ReceiverOnDisposition, sender
<1>4. PICK ids : ids = {e \in Covered(f) : got'[e].settled}
    OBVIOUS
<1>5. ids \in SUBSET Ids /\ \A id \in ids : Given(id)
    BY <1>2, <1>4
<1>6. \A id \in ids : id < Len(Outbox)
    BY <1>5, GivenOut, BasicsHold DEF Given, Basics, Counts
<1>7. SettledThere' = SettledThere \cup ids
  <2>1. ASSUME NEW e \in Ids
        PROVE  got'[e].settled <=> got[e].settled \/ e \in ids
    <3>1. CASE e \in Covered(f)
        BY <1>2, <1>4, <3>1
    <3>2. CASE e \notin Covered(f)
        BY <1>2, <1>4, <3>2
    <3> QED BY <3>1, <3>2
  <2> QED BY <1>5, <2>1 DEF SettledThere
<1>8. OutcomeGiven' = OutcomeGiven
    BY <1>2 DEF OutcomeGiven
<1>9. InboxSame
    BY <1>2, <1>3, InboxStays
<1>10. SentSame /\ HeardSame
    BY <1>3, SenderSame
<1> QED BY <1>5, <1>6, <1>7, <1>8, <1>9, <1>10, SettleThereKeeps

LEMMA ReceiverOnTransferIsKept ==
    ASSUME Typed, Typed', Ordered, Ordered', Truthful, NeverOverflows', ReceiverOnTransfer
    PROVE  Keeps
<1>1. PICK f : f = Head(s2r)
    OBVIOUS
<1>2. PICK a : a = Arrived
    OBVIOUS
<1>3. /\ a \in Ids /\ a < out.next_delivery_id
      /\ \A e \in Ids : e # a => got'[e] = got[e]
      /\ got[a].state = NoState /\ ~ got[a].settled
      /\ f.more => /\ delivered' = delivered
                   /\ got'[a].state = NoState /\ ~ got'[a].settled
      /\ ~ f.more =>
             /\ Arrived' = a + 1 /\ ~ Partial' /\ delivered' = Append(delivered, a)
             /\ \/ got'[a].state = NoState /\ ~ got'[a].settled
                \/ got'[a].state = "accepted"
    BY <1>1, <1>2, TransferTaken DEF Truthful
<1>4. sent' = sent /\ out' = out
    BY DEF ReceiverOnTransfer, sender
<1>5. SentSame /\ HeardSame
    BY <1>4, SenderSame
<1>6. a \in Nat /\ Len(Inbox) = a /\ Len(Outbox) = out.next_delivery_id
      /\ out.next_delivery_id \in Nat
    BY <1>2, GivenOut
\* The deliveries that have arrived keep what they are made of.
<1>7. ASSUME NEW k \in 1..a
      PROVE  /\ k - 1 \in Ids /\ k - 1 # a /\ delivered[k] = k - 1
             /\ Inbox[k] = [link |-> got'[k - 1].link, parts |-> got'[k - 1].parts]
  <2>1. k \in 1..Arrived /\ k - 1 # a
    BY <1>2, <1>6
  <2>2. /\ k - 1 \in Ids /\ delivered[k] = k - 1
        /\ Inbox[k] = [link |-> got[k - 1].link, parts |-> got[k - 1].parts]
    BY <2>1, ArrivedIs
  <2> QED BY <1>3, <2>1, <2>2
<1>8. DOMAIN delivered = 1..a
    BY <1>2, BasicsHold DEF Basics, Counts
<1>9. GivenSame \/
      /\ OutcomeGiven' = [OutcomeGiven EXCEPT ![a] = "accepted"]
      /\ SettledThere' \in {SettledThere, SettledThere \cup {a}}
  <2>1. \A e \in Ids : e # a => (e \in SettledThere' <=> e \in SettledThere)
    BY <1>3 DEF SettledThere
  <2>2. SettledThere \subseteq Ids /\ SettledThere' \subseteq Ids /\ a \notin SettledThere
    BY <1>3 DEF SettledThere
  <2>3. SettledThere' \in {SettledThere, SettledThere \cup {a}}
    BY <1>3, <2>1, <2>2, OneMore
  <2>4. CASE got'[a].state = NoState /\ ~ got'[a].settled
    <3>1. \A e \in Ids : got'[e].state = got[e].state /\ (got'[e].settled <=> got[e].settled)
        BY <1>3, <2>4
    <3>2. GivenSame
        BY <3>1 DEF GivenSame, OutcomeGiven, SettledThere
    <3> QED BY <3>2
  <2>5. CASE got'[a].state = "accepted"
    <3>1. OutcomeGiven' = [OutcomeGiven EXCEPT ![a] = "accepted"]
        BY <1>3, <2>5 DEF OutcomeGiven
    <3> QED BY <2>3, <3>1
  <2> QED BY <1>3, <2>4, <2>5
<1>10. CASE f.more
  <2>1. Inbox' = [k \in 1..a |-> [link |-> got'[delivered[k]].link,
                                  parts |-> got'[delivered[k]].parts]]
    BY <1>3, <1>8, <1>10 DEF Inbox
  <2>2. Inbox = [k \in 1..a |-> Inbox[k]]
    BY <1>8 DEF Inbox
  <2>3. InboxSame
    BY <1>7, <2>1, <2>2 DEF InboxSame
  <2>4. GivenSame
    <3>1. \A e \in Ids : got'[e].state = got[e].state /\ (got'[e].settled <=> got[e].settled)
        BY <1>3, <1>10
    <3> QED BY <3>1 DEF GivenSame, OutcomeGiven, SettledThere
  <2> QED BY <1>5, <2>3, <2>4, StutterKeeps
<1>11. CASE ~ f.more
  <2>1. /\ Arrived' = a + 1 /\ ~ Partial' /\ a + 1 \in 1..Arrived' /\ (a + 1) - 1 = a
        /\ Len(Inbox)' = a + 1
    <3>1. (Len(Inbox) = Arrived)'
        BY GivenOutNext
    <3> QED BY <1>3, <1>6, <1>11, <3>1
  <2>2. delivered' = Append(delivered, a) /\ delivered \in Seq(Ids)
    BY <1>3, <1>11 DEF Typed, TypeOK
  <2>3. Outbox[a + 1] = Message(a)
    BY <1>3, <1>6 DEF Outbox
  <2>4. got'[a].link = sent[a].link /\ got'[a].parts = Parts(sent[a].frames)
    <3>1. a \in 0..(Arrived' - 1)
        BY <1>6, <2>1
    <3>2. (SameMessage(a) /\ got[a].parts = Parts(sent[a].frames))'
        BY <3>1 DEF Ordered, ArrivedInOrder
    <3> QED BY <1>4, <3>2 DEF SameMessage, Parts
  <2>5. Outbox[a + 1] = [link |-> got'[a].link, parts |-> got'[a].parts]
    BY <2>3, <2>4 DEF Message, Parts
  <2>6. Inbox' = [k \in 1..(a + 1) |-> [link |-> got'[delivered'[k]].link,
                                        parts |-> got'[delivered'[k]].parts]]
    <3>1. DOMAIN delivered' = 1..(a + 1)
        BY <1>2, <1>6, <2>2 DEF Arrived
    <3> QED BY <3>1 DEF Inbox
  <2>7. Append(Inbox, Outbox[a + 1]) =
            [k \in 1..(a + 1) |-> IF k = a + 1 THEN Outbox[a + 1] ELSE Inbox[k]]
    <3>1. Inbox = [k \in 1..a |-> Inbox[k]]
        BY <1>8 DEF Inbox
    <3> QED BY <1>6, <3>1, AppendIs
  <2>8. ASSUME NEW k \in 1..(a + 1)
        PROVE  [link |-> got'[delivered'[k]].link, parts |-> got'[delivered'[k]].parts]
                   = IF k = a + 1 THEN Outbox[a + 1] ELSE Inbox[k]
    <3>1. CASE k = a + 1
      <4>1. delivered'[a + 1] = a
        BY <1>2, <1>6, <2>2 DEF Arrived
      <4> QED BY <2>5, <3>1, <4>1
    <3>2. CASE k # a + 1
      <4>1. k \in 1..a
        BY <1>6, <3>2
      <4>2. delivered'[k] = delivered[k]
        BY <1>2, <1>6, <2>2, <4>1 DEF Arrived
      <4> QED BY <1>7, <3>2, <4>1, <4>2
    <3> QED BY <3>1, <3>2
  <2>9. Inbox' = Append(Inbox, Outbox[a + 1])
    BY <2>6, <2>7, <2>8
  <2>10. Len(Inbox) < Len(Outbox)
    BY <1>3, <1>6
  <2> QED BY <1>5, <1>6, <1>9, <2>9, <2>10, ArriveKeeps
<1> QED BY <1>10, <1>11

LEMMA StepIsKept ==
    Usual /\ Known /\ Known' /\ [Next]_vars => Keeps
<1> SUFFICES ASSUME Usual, Known, Known', [Next]_vars
             PROVE  Keeps
    OBVIOUS
<1>1. Typed /\ Typed' /\ Ordered /\ Ordered' /\ Truthful /\ NeverOverflows'
    BY DEF Known
<1>2. CASE UNCHANGED vars
  <2>1. got' = got /\ delivered' = delivered /\ sent' = sent /\ out' = out
    BY <1>2 DEF vars, sender, receiver
  <2> QED BY <2>1, SenderSame, ReceiverSame, StutterKeeps
<1>3. ASSUME NEW l \in Links, NEW n \in 1..MaxFrames, Send(l, n) PROVE Keeps
    BY <1>1, <1>3, SendIsKept
<1>4. ASSUME NEW id \in Ids, Settle(id) PROVE Keeps
    BY <1>1, <1>4, SettleIsKept
<1>5. ASSUME NEW id \in Ids, NEW outcome \in Outcomes, GiveOutcome(id, outcome)
      PROVE  Keeps
    BY <1>1, <1>5, GiveOutcomeIsKept
<1>6. ASSUME NEW l \in Links, AddCredit(l) PROVE Keeps
    BY <1>6, AddCreditIsKept
<1>7. CASE SendPending
    BY <1>1, <1>7, SendPendingIsKept
<1>8. CASE FinishProcess
    BY <1>1, <1>8, FinishProcessIsKept
<1>9. CASE SenderOnFlow
    BY <1>1, <1>9, SenderOnFlowIsKept
<1>10. CASE SenderOnDisposition
    BY <1>1, <1>10, SenderOnDispositionIsKept
<1>11. CASE ReceiverOnTransfer
    BY <1>1, <1>11, ReceiverOnTransferIsKept
<1>12. CASE ReceiverOnDisposition
    BY <1>1, <1>12, ReceiverOnDispositionIsKept
<1>13. CASE ReceiverProcess
    BY <1>13, ReceiverProcessIsKept
<1> QED
    BY <1>2, <1>3, <1>4, <1>5, <1>6, <1>7, <1>8, <1>9, <1>10, <1>11, <1>12, <1>13
    DEF Next, SenderApplication, ReceiverApplication, SenderPeer, ReceiverPeer

LEMMA InitIsKept == Init => Contract!Init
<1> SUFFICES ASSUME Init PROVE Contract!Init
    OBVIOUS
<1>1. Outbox = << >>
    BY DEF Init, Outbox
<1>2. Inbox = << >>
    BY DEF Init, Inbox
<1>3. \A id \in Ids : sent[id].link \notin SettledFirst
  <2>1. NoHandle \notin SettledFirst
    BY LinkOptions DEF NoHandle, Undefined
  <2> QED BY <2>1 DEF Init
<1>4. \A id \in Ids : /\ ~ sent[id].remote_settled /\ sent[id].remote_state = NoState
                      /\ ~ got[id].settled /\ got[id].state = NoState
    BY DEF Init
<1>5. /\ Presettled = {} /\ OutcomeGiven = [id \in Ids |-> NoState] /\ SettledThere = {}
      /\ OutcomeKnown = [id \in Ids |-> NoState] /\ SettledRemotely = {}
    BY <1>3, <1>4 DEF Presettled, OutcomeGiven, SettledThere, OutcomeKnown, SettledRemotely
<1> QED BY <1>1, <1>2, <1>5 DEF Contract!Init, Outbox, Inbox, Presettled, OutcomeGiven,
                               SettledThere, OutcomeKnown, SettledRemotely

\* The session keeps its contract: buffers, windows, credit and frames taken away, what
\* is left is that messages arrive whole, once and in the order they were sent, and that
\* outcomes and settlement are told of the message they were given to.
THEOREM ContractIsKept == Usual /\ OnlyAccepted => (Spec => KeepsContract)
<1> SUFFICES ASSUME Usual, OnlyAccepted PROVE Spec => KeepsContract
    OBVIOUS
<1>1. Known /\ Known' /\ [Next]_vars => [Contract!Next]_(Contract!vars)
    BY StepIsKept DEF Keeps
<1>2. Init => Contract!Init
    BY InitIsKept
<1>3. Spec => []Known
    BY TruthHolds
<1> HIDE DEF Usual, OnlyAccepted
<1> QED BY <1>1, <1>2, <1>3, PTL DEF Spec, KeepsContract, Contract!Spec

=============================================================================
