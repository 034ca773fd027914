-------------------------- MODULE SessionOrder_proof --------------------------
(***************************************************************************)
(* Order in SessionTransfer, for every number of links, capacity and       *)
(* window: the receiver never finds a delivery skipped, repeated or cut    *)
(* short, by_id always finds the delivery Outgoing.process comes to, and   *)
(* pop_if frees no slot too early.  The applications are held to Usual: no *)
(* liberty is taken (with "overrun" a send overwrites a live slot, with    *)
(* "repeat" or "forget" a disposition arrives for a delivery whose slot a  *)
(* newer one has got).                                                     *)
(*                                                                         *)
(* The three need one another.  Ordered is inductive: the sending buffer   *)
(* holds the ids from the oldest to the next to be given (Buffered), the   *)
(* frames under way lead from the place the receiver has got to, to the    *)
(* place the sender has got to (StreamInOrder), what has arrived is whole  *)
(* (ArrivedInOrder), each outcome is told once (OutcomesInOrder), and what *)
(* has left the buffer is settled on both sides (SettledInOrder).          *)
(***************************************************************************)
EXTENDS SessionTransfer_proof

\* How many messages have arrived, and the oldest delivery in the sending buffer.
Arrived == Len(delivered)
Oldest == out.next_delivery_id - outbuf.size

\* The sending buffer holds the ids from the oldest up to the next to be given.
Buffered ==
    /\ InOrder(outbuf, Oldest)
    /\ 0 <= Oldest /\ Oldest <= out.next_pending_delivery
    /\ out.next_pending_delivery <= out.next_delivery_id
    /\ out.next_delivery_id <= MaxDeliveries
    /\ Arrived <= out.next_pending_delivery

\* A place in the sequence of all frames: a part of a delivery.
Places == [id : Nat, part : Nat]

\* The frame the sender will send next, and the frame the receiver has to get next.
SenderAt ==
    [id |-> out.next_pending_delivery,
     part |-> IF out.next_pending_delivery < out.next_delivery_id
              THEN sent[out.next_pending_delivery].next_to_send ELSE 0]

Partial == \E l \in Links : rcv[l].incomplete # Undefined

ReceiverAt ==
    [id |-> Arrived, part |-> IF Partial THEN Len(got[Arrived].parts) ELSE 0]

\* The place after a transfer.
After(f) ==
    IF f.more THEN [id |-> f.delivery_id, part |-> f.part + 1]
    ELSE [id |-> f.delivery_id + 1, part |-> 0]

\* A frame takes the place it is at to the next.
Passes(at, f, next) ==
    IF f.type = "transfer"
    THEN at = [id |-> f.delivery_id, part |-> f.part] /\ next = After(f)
    ELSE next = at

\* The frames lead from one place to another, with no part missing, repeated or moved.
Leads(from, frames, to) ==
    \E at \in [0..Len(frames) -> Places] :
        /\ at[0] = from /\ at[Len(frames)] = to
        /\ \A k \in 1..Len(frames) : Passes(at[k - 1], frames[k], at[k])

\* What a transfer says of the delivery it is a part of.
TrueTo(f) ==
    LET d == sent[f.delivery_id]
    IN  /\ f.delivery_id < out.next_delivery_id
        /\ f.handle = d.link
        /\ f.part < d.frames /\ (f.more <=> f.part + 1 < d.frames)
        /\ ~ f.more => f.delivery_id < out.next_pending_delivery
        /\ f.handle \in SettledFirst => f.settled

StreamInOrder ==
    /\ Leads(ReceiverAt, s2r, SenderAt)
    /\ \A k \in DOMAIN s2r : s2r[k].type = "transfer" => TrueTo(s2r[k])

\* The parts of a message, and what the receiver makes of them.
Parts(n) == [k \in 1..n |-> k - 1]

SameMessage(id) ==
    /\ got[id].link = sent[id].link
    /\ got[id].link \in SettledFirst => got[id].remote_settled

ArrivedInOrder ==
    /\ delivered = Parts(Arrived)
    /\ \A id \in 0..(Arrived - 1) : SameMessage(id) /\ got[id].parts = Parts(sent[id].frames)
    /\ IF Partial
       THEN /\ Arrived < out.next_delivery_id /\ SameMessage(Arrived)
            /\ got[Arrived].parts = Parts(Len(got[Arrived].parts))
            /\ \A l \in Links : rcv[l].incomplete =
                   IF l = sent[Arrived].link THEN Arrived ELSE Undefined
            /\ inc.next_delivery_id = Arrived + 1
       ELSE inc.next_delivery_id \in {Arrived, IF Arrived = 0 THEN Undefined ELSE Arrived}

\* The outcomes: what the receiver may still tell the sender, ...
Given(id) == id < Arrived /\ got[id].updates > 0

Waiting(id) == \E k \in DOMAIN inc.updated : inc.updated[k] = id
OnItsWay(id) ==
    \E k \in DOMAIN r2s : r2s[k].type = "disposition" /\ id \in Covered(r2s[k])

\* ... and a delivery of which the sender has been told nothing.
Silent(id) ==
    /\ sent[id].remote_state = NoState
    /\ sent[id].remote_settled => sent[id].link \in SettledFirst

ToldOnce ==
    /\ \A j, k \in DOMAIN inc.updated : inc.updated[j] = inc.updated[k] => j = k
    /\ \A j, k \in DOMAIN r2s :
           j # k /\ r2s[j].type = "disposition" /\ r2s[k].type = "disposition"
               => Covered(r2s[j]) \cap Covered(r2s[k]) = {}
    /\ \A id \in Ids : ~ (Waiting(id) /\ OnItsWay(id))

OutcomesInOrder ==
    /\ ToldOnce
    /\ \A id \in Int : Waiting(id) \/ OnItsWay(id) =>
           id \in Ids /\ Given(id) /\ sent[id].link \notin SettledFirst
    /\ \A id \in Ids : ~ Given(id) \/ Waiting(id) \/ OnItsWay(id) => Silent(id)

\* What becomes of a delivery at the sender.
SettledInOrder ==
    \A id \in Ids :
        /\ sent[id].link \in SettledFirst => sent[id].settled
        /\ sent[id].settled => sent[id].link \in SettledFirst \/ id < Arrived
        /\ id >= out.next_pending_delivery => ~ sent[id].remote_settled
        /\ id > out.next_pending_delivery => sent[id].next_to_send = 0
        /\ id < Oldest => sent[id].settled /\ sent[id].remote_settled

Ordered ==
    Buffered /\ StreamInOrder /\ ArrivedInOrder /\ OutcomesInOrder /\ SettledInOrder

-----------------------------------------------------------------------------
(* Frames that lead from place to place.                                    *)

\* The head of the stream takes the place it is at to that of the rest.
LEMMA LeadsTail ==
    ASSUME NEW S, NEW frames \in Seq(S), frames # << >>, NEW from, NEW to,
           Leads(from, frames, to)
    PROVE  \E next \in Places : Passes(from, Head(frames), next) /\ Leads(next, Tail(frames), to)
<1> DEFINE n == Len(frames)
<1>1. PICK at \in [0..n -> Places] :
          /\ at[0] = from /\ at[n] = to
          /\ \A k \in 1..n : Passes(at[k - 1], frames[k], at[k])
    BY DEF Leads
<1>2. /\ n \in Nat \ {0} /\ Head(frames) = frames[1] /\ Len(Tail(frames)) = n - 1
      /\ \A k \in 1..(n - 1) : Tail(frames)[k] = frames[k + 1]
    OBVIOUS
<1> HIDE DEF n
<1> DEFINE rest == [k \in 0..(n - 1) |-> at[k + 1]]
<1>3. rest \in [0..(n - 1) -> Places] /\ rest[0] = at[1] /\ rest[n - 1] = to
    BY <1>1, <1>2
<1>4. ASSUME NEW k \in 1..(n - 1)
      PROVE  Passes(rest[k - 1], Tail(frames)[k], rest[k])
  <2>1. /\ k + 1 \in 1..n /\ rest[k - 1] = at[(k + 1) - 1] /\ rest[k] = at[k + 1]
        /\ Tail(frames)[k] = frames[k + 1]
    BY <1>1, <1>2
  <2> HIDE DEF rest
  <2> QED BY <1>1, <2>1
<1> HIDE DEF rest
<1>5. Leads(at[1], Tail(frames), to)
    BY <1>2, <1>3, <1>4 DEF Leads
<1>6. at[1] \in Places /\ Passes(from, Head(frames), at[1])
  <2>1. 1 \in 1..n /\ 1 \in 0..n /\ at[1 - 1] = from
    BY <1>1, <1>2
  <2> QED BY <1>1, <1>2, <2>1
<1> QED BY <1>5, <1>6

\* What leads to a place and what leads on from there lead there one after the other.
LEMMA LeadsOn ==
    ASSUME NEW S, NEW s \in Seq(S), NEW t \in Seq(S), NEW from, NEW mid, NEW to,
           Leads(from, s, mid), Leads(mid, t, to)
    PROVE  Leads(from, s \o t, to)
<1> DEFINE n == Len(s)
           m == Len(t)
<1>1. PICK a \in [0..n -> Places] :
          a[0] = from /\ a[n] = mid /\ \A k \in 1..n : Passes(a[k - 1], s[k], a[k])
    BY DEF Leads
<1>2. PICK b \in [0..m -> Places] :
          b[0] = mid /\ b[m] = to /\ \A k \in 1..m : Passes(b[k - 1], t[k], b[k])
    BY DEF Leads
<1>3. /\ n \in Nat /\ m \in Nat /\ Len(s \o t) = n + m
      /\ \A k \in 1..(n + m) : (s \o t)[k] = IF k <= n THEN s[k] ELSE t[k - n]
    OBVIOUS
<1> HIDE DEF n, m
<1> DEFINE at == [k \in 0..(n + m) |-> IF k <= n THEN a[k] ELSE b[k - n]]
<1>4. at \in [0..(n + m) -> Places] /\ at[0] = from
    BY <1>1, <1>2, <1>3
<1>5. at[n + m] = to
  <2>1. CASE m = 0
    BY <1>1, <1>2, <1>3, <2>1
  <2>2. CASE m # 0
    BY <1>2, <1>3, <2>2
  <2> QED BY <2>1, <2>2
<1>6. ASSUME NEW k \in 1..(n + m)
      PROVE  Passes(at[k - 1], (s \o t)[k], at[k])
  <2>1. CASE k <= n
    <3>1. k \in 1..n /\ at[k - 1] = a[k - 1] /\ at[k] = a[k] /\ (s \o t)[k] = s[k]
        BY <1>3, <2>1
    <3> HIDE DEF at
    <3> QED BY <1>1, <3>1
  <2>2. CASE k = n + 1
    <3>1. 1 \in 1..m /\ at[k - 1] = a[n] /\ at[k] = b[1] /\ (s \o t)[k] = t[1]
        BY <1>3, <2>2
    <3>2. Passes(b[1 - 1], t[1], b[1]) /\ b[1 - 1] = a[n]
        BY <1>1, <1>2, <3>1
    <3> HIDE DEF at
    <3> QED BY <3>1, <3>2
  <2>3. CASE k > n + 1
    <3>1. /\ k - n \in 1..m /\ at[k - 1] = b[(k - n) - 1] /\ at[k] = b[k - n]
          /\ (s \o t)[k] = t[k - n]
        BY <1>3, <2>3
    <3> HIDE DEF at
    <3> QED BY <1>2, <3>1
  <2> QED BY <1>3, <2>1, <2>2, <2>3
<1> HIDE DEF at
<1> QED BY <1>3, <1>4, <1>5, <1>6 DEF Leads

\* Frames that are no transfers lead nowhere.
LEMMA LeadsNowhere ==
    ASSUME NEW S, NEW frames \in Seq(S), \A k \in DOMAIN frames : frames[k].type # "transfer",
           NEW from \in Places
    PROVE  Leads(from, frames, from)
<1> DEFINE at == [k \in 0..Len(frames) |-> from]
<1>1. Len(frames) \in Nat /\ DOMAIN frames = 1..Len(frames)
    OBVIOUS
<1>2. at \in [0..Len(frames) -> Places] /\ at[0] = from /\ at[Len(frames)] = from
    BY <1>1
<1>3. \A k \in 1..Len(frames) : Passes(at[k - 1], frames[k], at[k])
    BY <1>1 DEF Passes
<1> HIDE DEF at
<1> QED BY <1>2, <1>3 DEF Leads

\* A place that frames lead from, or to, is one.
LEMMA LeadsPlaces ==
    ASSUME NEW S, NEW frames \in Seq(S), NEW from, NEW to, Leads(from, frames, to)
    PROVE  from \in Places /\ to \in Places
<1>1. Len(frames) \in Nat
    OBVIOUS
<1> QED BY <1>1 DEF Leads

-----------------------------------------------------------------------------
(* What the types say, and what keeps each part of the invariant.           *)

Counts ==
    /\ MaxDeliveries \in Nat /\ Ids = 0..(MaxDeliveries - 1)
    /\ out.next_delivery_id \in Nat /\ out.next_pending_delivery \in Nat
    /\ outbuf \in Buffer(OutCapacity, Ids) /\ outbuf.size \in Nat /\ Oldest \in Int
    /\ Arrived \in Nat /\ DOMAIN delivered = 1..Arrived

Fields ==
    /\ \A id \in Ids :
           /\ sent[id].frames \in Nat /\ sent[id].next_to_send \in Nat
           /\ sent[id].settled \in BOOLEAN /\ sent[id].remote_settled \in BOOLEAN
           /\ got[id].parts \in Seq(Nat) /\ Len(got[id].parts) \in Nat
           /\ got[id].updates \in Nat /\ got[id].remote_settled \in BOOLEAN
    /\ \A l \in Links : rcv[l].incomplete \in Ids \cup {Undefined}
    /\ delivered \in Seq(Ids)
    /\ inc.updated \in Seq(Ids) /\ inc.next_delivery_id \in Nat \cup {Undefined}

Basics == Counts /\ Fields

LEMMA BasicsHold == Typed => Basics
<1> SUFFICES ASSUME Typed PROVE Basics
    OBVIOUS
<1>1. MaxDeliveries \in Nat /\ Ids = 0..(MaxDeliveries - 1)
    BY Bounds DEF Ids
<1>2. out.next_delivery_id \in Nat /\ out.next_pending_delivery \in Nat
    BY DEF Typed, TypeOK, Outgoing
<1>3. outbuf \in Buffer(OutCapacity, Ids) /\ outbuf.size \in Nat
  <2>1. outbuf \in Buffer(OutCapacity, Ids)
    BY DEF Typed, TypeOK
  <2>2. outbuf.size \in 0..OutCapacity
    BY <2>1 DEF Buffer
  <2> QED BY <2>1, <2>2
<1>4. delivered \in Seq(Ids) /\ Arrived \in Nat /\ DOMAIN delivered = 1..Arrived
  <2>1. delivered \in Seq(Ids)
    BY DEF Typed, TypeOK
  <2> QED BY <2>1 DEF Arrived
<1>5. ASSUME NEW id \in Ids
      PROVE  /\ sent[id].frames \in Nat /\ sent[id].next_to_send \in Nat
             /\ sent[id].settled \in BOOLEAN /\ sent[id].remote_settled \in BOOLEAN
             /\ got[id].parts \in Seq(Nat) /\ Len(got[id].parts) \in Nat
             /\ got[id].updates \in Nat /\ got[id].remote_settled \in BOOLEAN
  <2>1. sent[id] \in SentDelivery /\ got[id] \in GotDelivery
    BY DEF Typed, TypeOK
  <2> QED BY <2>1, Bounds DEF SentDelivery, GotDelivery
<1>6. \A l \in Links : rcv[l].incomplete \in Ids \cup {Undefined}
    BY DEF Typed, TypeOK, ReceiverLink
<1>7. inc.updated \in Seq(Ids) /\ inc.next_delivery_id \in Nat \cup {Undefined}
    BY DEF Typed, TypeOK, Incoming
<1>8. Oldest \in Int
    BY <1>2, <1>3 DEF Oldest
<1> QED BY <1>1, <1>2, <1>3, <1>4, <1>5, <1>6, <1>7, <1>8 DEF Basics, Counts, Fields

LEMMA BasicsNext == Typed' => Basics'
BY BasicsHold, PTL

\* A frame that was true stays so while the sender gets on.
LEMMA StaysTrue ==
    ASSUME Typed, Typed', NEW f, f.delivery_id \in Ids, TrueTo(f),
           out.next_delivery_id <= out'.next_delivery_id,
           out.next_pending_delivery <= out'.next_pending_delivery,
           sent'[f.delivery_id].link = sent[f.delivery_id].link,
           sent'[f.delivery_id].frames = sent[f.delivery_id].frames
    PROVE  TrueTo(f)'
<1>1. Basics /\ Basics' /\ f.delivery_id \in Int
    BY BasicsHold, BasicsNext DEF Basics, Counts
<1> QED BY <1>1 DEF TrueTo, Basics, Counts

\* The deliveries on the stream keep what the frames say of them.
SaysTrue ==
    \A id \in Ids : id < out.next_delivery_id =>
        sent'[id].link = sent[id].link /\ sent'[id].frames = sent[id].frames

\* A transfer on the stream.
LEMMA OnStream ==
    ASSUME Typed, StreamInOrder, NEW k \in DOMAIN s2r, s2r[k].type = "transfer"
    PROVE  s2r[k] \in TransferFrames /\ s2r[k].delivery_id \in Ids /\ TrueTo(s2r[k])
<1>1. StreamShape
    BY Shapes
<1>2. s2r[k] \in TransferFrames
    BY <1>1 DEF StreamShape, DispositionFrames
<1> QED BY <1>2 DEF StreamInOrder, TransferFrames

\* Neither end moves: frames that are no transfers leave the stream or come on it.
LEMMA StreamStays ==
    ASSUME Typed, Typed', StreamInOrder, ReceiverAt' = ReceiverAt, SenderAt' = SenderAt,
           out.next_delivery_id <= out'.next_delivery_id,
           out.next_pending_delivery <= out'.next_pending_delivery, SaysTrue,
           \/ s2r' = s2r
           \/ s2r # << >> /\ Head(s2r).type # "transfer" /\ s2r' = Tail(s2r)
           \/ \E told \in Seq(ToReceiver) :
                  s2r' = s2r \o told /\ \A k \in DOMAIN told : told[k].type # "transfer"
    PROVE  StreamInOrder'
<1>1. s2r \in Seq(ToReceiver)
    BY DEF Typed
<1>2. Leads(ReceiverAt, s2r, SenderAt)
    BY DEF StreamInOrder
<1>3. /\ Leads(ReceiverAt, s2r', SenderAt)
      /\ \A k \in DOMAIN s2r' : s2r'[k].type = "transfer" =>
             \E j \in DOMAIN s2r : s2r'[k] = s2r[j]
  <2>1. CASE s2r' = s2r
    BY <1>2, <2>1
  <2>2. CASE s2r # << >> /\ Head(s2r).type # "transfer" /\ s2r' = Tail(s2r)
    <3>1. PICK next \in Places :
              Passes(ReceiverAt, Head(s2r), next) /\ Leads(next, Tail(s2r), SenderAt)
        BY <1>1, <1>2, <2>2, LeadsTail
    <3>2. next = ReceiverAt
        BY <2>2, <3>1 DEF Passes
    <3>3. \A k \in DOMAIN s2r' : k + 1 \in DOMAIN s2r /\ s2r'[k] = s2r[k + 1]
        BY <2>2, HeadTaken
    <3> QED BY <2>2, <3>1, <3>2, <3>3
  <2>3. ASSUME NEW told \in Seq(ToReceiver), s2r' = s2r \o told,
               \A k \in DOMAIN told : told[k].type # "transfer"
        PROVE  /\ Leads(ReceiverAt, s2r', SenderAt)
               /\ \A k \in DOMAIN s2r' : s2r'[k].type = "transfer" =>
                      \E j \in DOMAIN s2r : s2r'[k] = s2r[j]
    <3>1. SenderAt \in Places
        BY <1>1, <1>2, LeadsPlaces
    <3>2. Leads(SenderAt, told, SenderAt)
        BY <2>3, <3>1, LeadsNowhere
    <3>3. Leads(ReceiverAt, s2r', SenderAt)
        BY <1>1, <1>2, <2>3, <3>2, LeadsOn
    <3>4. \A k \in DOMAIN s2r' :
              \/ k \in DOMAIN s2r /\ s2r'[k] = s2r[k]
              \/ k - Len(s2r) \in DOMAIN told /\ s2r'[k] = told[k - Len(s2r)]
        BY <1>1, <2>3, Appended
    <3> QED BY <2>3, <3>3, <3>4
  <2> QED BY <2>1, <2>2, <2>3
<1>4. ASSUME NEW k \in DOMAIN s2r', s2r'[k].type = "transfer"
      PROVE  TrueTo(s2r[k])'
  <2>1. PICK f : f = s2r'[k]
    OBVIOUS
  <2>2. f.delivery_id \in Ids /\ TrueTo(f)
    <3>1. PICK j \in DOMAIN s2r : s2r'[k] = s2r[j]
        BY <1>3, <1>4
    <3> QED BY <1>4, <2>1, <3>1, OnStream
  <2>3. f.delivery_id < out.next_delivery_id
    BY <2>2 DEF TrueTo
  <2>5. sent'[f.delivery_id].link = sent[f.delivery_id].link
        /\ sent'[f.delivery_id].frames = sent[f.delivery_id].frames
    BY <2>2, <2>3 DEF SaysTrue
  <2>6. TrueTo(f)'
    BY <2>2, <2>5, StaysTrue
  <2> QED BY <2>1, <2>6 DEF TrueTo
<1>5. Leads(ReceiverAt, s2r, SenderAt)'
    BY <1>3 DEF Leads, Passes
<1> QED BY <1>4, <1>5 DEF StreamInOrder

\* What the receiver has made of the frames it read does not change.
ReceivedStays ==
    /\ delivered' = delivered /\ inc'.next_delivery_id = inc.next_delivery_id
    /\ \A l \in Links : rcv'[l].incomplete = rcv[l].incomplete
    /\ \A id \in Ids :
           /\ got'[id].link = got[id].link /\ got'[id].parts = got[id].parts
           /\ got[id].remote_settled => got'[id].remote_settled

LEMMA ArrivedStays ==
    ASSUME Typed, Typed', Buffered, ArrivedInOrder, SaysTrue, ReceivedStays,
           out.next_delivery_id <= out'.next_delivery_id
    PROVE  ArrivedInOrder' /\ ReceiverAt' = ReceiverAt /\ Arrived' = Arrived
<1>1. Basics /\ Basics'
    BY BasicsHold, BasicsNext
<1>2. Arrived' = Arrived /\ (Partial' <=> Partial)
    BY DEF ReceivedStays, Arrived, Partial
<1>3. ASSUME NEW id \in Int, 0 <= id, id <= Arrived, id < out.next_delivery_id, SameMessage(id)
      PROVE  id \in Ids /\ SameMessage(id)' /\ sent'[id].link = sent[id].link
             /\ sent'[id].frames = sent[id].frames
  <2>1. id \in Ids
    BY <1>1, <1>3 DEF Basics, Counts, Buffered
  <2> QED BY <1>3, <2>1 DEF SameMessage, SaysTrue, ReceivedStays
<1>4. delivered' = Parts(Arrived')
    BY <1>2 DEF ArrivedInOrder, ReceivedStays
<1>5. ASSUME NEW id \in 0..(Arrived' - 1)
      PROVE  SameMessage(id)' /\ got'[id].parts = Parts(sent'[id].frames)
  <2>1. id \in 0..(Arrived - 1) /\ id \in Int /\ 0 <= id /\ id <= Arrived
        /\ id < out.next_delivery_id
    <3>1. /\ Arrived \in Nat /\ out.next_delivery_id \in Nat
          /\ out.next_pending_delivery \in Nat
        BY <1>1 DEF Basics, Counts
    <3>2. Arrived <= out.next_pending_delivery /\ out.next_pending_delivery <= out.next_delivery_id
        BY DEF Buffered
    <3>3. id \in 0..(Arrived - 1)
        BY <1>2, <1>5
    <3> QED BY <3>1, <3>2, <3>3
  <2>2. SameMessage(id) /\ got[id].parts = Parts(sent[id].frames)
    BY <2>1 DEF ArrivedInOrder
  <2>3. id \in Ids /\ SameMessage(id)' /\ sent'[id].frames = sent[id].frames
    BY <1>3, <2>1, <2>2
  <2> QED BY <2>2, <2>3 DEF ReceivedStays
<1>6. CASE Partial
  <2>1. /\ Arrived \in Int /\ 0 <= Arrived /\ Arrived < out.next_delivery_id /\ SameMessage(Arrived)
        /\ got[Arrived].parts = Parts(Len(got[Arrived].parts))
        /\ \A l \in Links : rcv[l].incomplete =
               IF l = sent[Arrived].link THEN Arrived ELSE Undefined
        /\ inc.next_delivery_id = Arrived + 1
    BY <1>1, <1>6 DEF ArrivedInOrder, Basics, Counts
  <2>2. PICK a : a = Arrived
    OBVIOUS
  <2>3. /\ a \in Int /\ 0 <= a /\ a <= Arrived /\ a < out.next_delivery_id /\ SameMessage(a)
    BY <2>1, <2>2
  <2>4. a \in Ids /\ SameMessage(a)' /\ sent'[a].link = sent[a].link
    BY <1>3, <2>3
  <2>5. got'[a].parts = got[a].parts
    BY <2>4 DEF ReceivedStays
  <2>6. ReceiverAt' = ReceiverAt
    BY <1>2, <1>6, <2>2, <2>5 DEF ReceiverAt
  <2>7. Arrived' < out'.next_delivery_id
    BY <1>1, <1>2, <2>1 DEF Basics, Counts
  <2>8. SameMessage(Arrived)'
    BY <1>2, <2>2, <2>4 DEF SameMessage
  <2>9. /\ got'[Arrived'].parts = Parts(Len(got'[Arrived'].parts))
        /\ \A l \in Links : rcv'[l].incomplete =
               IF l = sent'[Arrived'].link THEN Arrived' ELSE Undefined
        /\ inc'.next_delivery_id = Arrived' + 1
    BY <1>2, <2>1, <2>2, <2>4, <2>5 DEF ReceivedStays
  <2>10. ArrivedInOrder'
    BY <1>2, <1>4, <1>5, <1>6, <2>7, <2>8, <2>9 DEF ArrivedInOrder
  <2> QED BY <1>2, <2>6, <2>10
<1>7. CASE ~ Partial
  <2>1. inc'.next_delivery_id \in {Arrived', IF Arrived' = 0 THEN Undefined ELSE Arrived'}
    BY <1>2, <1>7 DEF ArrivedInOrder, ReceivedStays
  <2>2. ArrivedInOrder'
    BY <1>2, <1>4, <1>5, <1>7, <2>1 DEF ArrivedInOrder
  <2> QED BY <1>2, <1>7, <2>2 DEF ReceiverAt
<1> QED BY <1>6, <1>7

\* No new outcome, no new frame: what the sender has been told of stays as it is.
LEMMA OutcomesStay ==
    ASSUME Typed, Typed', OutcomesInOrder, NEW shift \in {0, 1},
           inc'.updated = inc.updated,
           \A k \in DOMAIN r2s' : k + shift \in DOMAIN r2s /\ r2s'[k] = r2s[k + shift],
           \A id \in Ids : Given(id)' <=> Given(id),
           \A id \in Ids : Given(id) => sent'[id].link = sent[id].link,
           \A id \in Ids : Silent(id) => Silent(id)'
    PROVE  OutcomesInOrder'
<1>0. FlowsShape /\ FlowsShape' /\ \A k \in DOMAIN r2s' : k \in Int
  <2>1. FlowsShape /\ FlowsShape'
    BY Shapes, ShapesNext
  <2> QED BY <2>1 DEF FlowsShape
<1>1. \A id \in Int : (Waiting(id)' => Waiting(id)) /\ (OnItsWay(id)' => OnItsWay(id))
    BY DEF Waiting, OnItsWay
<1>2. ToldOnce'
  <2>1. \A j, k \in DOMAIN inc'.updated : inc'.updated[j] = inc'.updated[k] => j = k
    BY DEF OutcomesInOrder, ToldOnce
  <2>2. ASSUME NEW j \in DOMAIN r2s', NEW k \in DOMAIN r2s', j # k,
               r2s'[j].type = "disposition", r2s'[k].type = "disposition"
        PROVE  Covered(r2s'[j]) \cap Covered(r2s'[k]) = {}
    <3>1. j + shift # k + shift /\ r2s'[j] = r2s[j + shift] /\ r2s'[k] = r2s[k + shift]
          /\ j + shift \in DOMAIN r2s /\ k + shift \in DOMAIN r2s
        BY <1>0, <2>2
    <3> QED BY <2>2, <3>1 DEF OutcomesInOrder, ToldOnce
  <2>3. \A id \in Ids : ~ (Waiting(id)' /\ OnItsWay(id)')
    <3>1. \A id \in Ids : id \in Int
        BY BasicsHold DEF Basics, Counts
    <3> QED BY <1>1, <3>1 DEF OutcomesInOrder, ToldOnce
  <2> QED BY <2>1, <2>2, <2>3 DEF ToldOnce, Covered
<1>3. ASSUME NEW id \in Int, Waiting(id)' \/ OnItsWay(id)'
      PROVE  id \in Ids /\ Given(id)' /\ sent'[id].link \notin SettledFirst
    BY <1>1, <1>3 DEF OutcomesInOrder
<1>4. ASSUME NEW id \in Ids, ~ Given(id)' \/ Waiting(id)' \/ OnItsWay(id)'
      PROVE  Silent(id)'
  <2>1. id \in Int
    BY BasicsHold DEF Basics, Counts
  <2> QED BY <1>1, <1>4, <2>1 DEF OutcomesInOrder
<1> QED BY <1>2, <1>3, <1>4 DEF OutcomesInOrder

-----------------------------------------------------------------------------
(* The steps of the sending peer.                                           *)

\* An application that sends only when there is room, settles a delivery only when
\* its outcome is in, and gives a message one outcome.
Usual == Liberties = {}

\* The part of a step that the receiver takes no part in.
ReceiverIdle ==
    /\ inc' = inc /\ got' = got /\ rcv' = rcv /\ delivered' = delivered /\ failed' = failed

LEMMA IdleStays ==
    ASSUME ReceiverIdle
    PROVE  ReceivedStays /\ Arrived' = Arrived /\ \A id \in Ids : Given(id)' <=> Given(id)
BY DEF ReceiverIdle, ReceivedStays, Arrived, Given

LEMMA SendOrdered ==
    ASSUME Usual, Typed, Typed', Ordered, NEW l \in Links, NEW n \in 1..MaxFrames, Send(l, n)
    PROVE  Ordered'
<1>1. Basics /\ Basics'
    BY BasicsHold, BasicsNext
<1>2. PICK id : id = out.next_delivery_id
    OBVIOUS
<1>3. id \in Ids /\ id \in Nat /\ Available(outbuf) > 0
    BY <1>1, <1>2 DEF Basics, Counts, Send, Usual
<1>4. /\ out' = [out EXCEPT !.next_delivery_id = id + 1]
      /\ sent' = [sent EXCEPT ![id] = [link |-> l, frames |-> n, next_to_send |-> 0,
                     settled |-> l \in SettledFirst, remote_settled |-> FALSE,
                     remote_state |-> NoState]]
      /\ outbuf' = Push(outbuf, id) /\ s2r' = s2r /\ r2s' = r2s
    BY <1>2, <1>3 DEF Send
<1>5. ReceiverIdle
    BY DEF Send, receiver, ReceiverIdle
<1>6. /\ out'.next_delivery_id = id + 1
      /\ out'.next_pending_delivery = out.next_pending_delivery
  <2>1. out \in Outgoing
    BY DEF Typed, TypeOK
  <2> QED BY <1>4, <2>1 DEF Outgoing
<1>7. /\ sent'[id].link = l /\ sent'[id].next_to_send = 0
      /\ sent'[id].settled = (l \in SettledFirst)
      /\ sent'[id].remote_settled = FALSE /\ sent'[id].remote_state = NoState
      /\ \A e \in Ids : e # id => sent'[e] = sent[e]
  <2>1. sent \in [Ids -> SentDelivery]
    BY DEF Typed, TypeOK
  <2> QED BY <1>3, <1>4, <2>1
<1>8. InOrder(outbuf', Oldest) /\ outbuf'.size = outbuf.size + 1
  <2>1. id = Oldest + outbuf.size
    BY <1>1, <1>2 DEF Oldest, Basics, Counts
  <2> QED BY <1>1, <1>3, <1>4, <2>1, Capacities, PushInOrder DEF Ordered, Buffered, Basics, Counts
<1>9. Oldest' = Oldest
  <2>1. outbuf.size \in Nat
    BY <1>1 DEF Basics, Counts
  <2>2. Oldest' = (id + 1) - (outbuf.size + 1)
    BY <1>6, <1>8 DEF Oldest
  <2> QED BY <1>2, <1>3, <2>1, <2>2 DEF Oldest
<1>10. /\ Arrived <= out.next_pending_delivery /\ out.next_pending_delivery <= id
       /\ Arrived \in Nat /\ out.next_pending_delivery \in Nat
       /\ 0 <= Oldest /\ Oldest <= out.next_pending_delivery /\ Oldest \in Int
       /\ id + 1 <= MaxDeliveries
    BY <1>1, <1>2, <1>3 DEF Ordered, Buffered, Basics, Counts
<1>11. Buffered'
  <2>1. InOrder(outbuf, Oldest)'
    BY <1>8, <1>9 DEF InOrder, Slot
  <2>2. Arrived' = Arrived
    BY <1>5, IdleStays
  <2> QED BY <1>3, <1>6, <1>9, <1>10, <2>1, <2>2 DEF Buffered
<1>12. SaysTrue /\ out.next_delivery_id <= out'.next_delivery_id
  <2>1. \A e \in Ids : e < out.next_delivery_id => e # id
    BY <1>1, <1>2 DEF Basics, Counts
  <2> QED BY <1>2, <1>3, <1>6, <1>7, <2>1 DEF SaysTrue
<1>13. SenderAt' = SenderAt
  <2>1. CASE out.next_pending_delivery < id
    <3>1. out.next_pending_delivery \in Ids /\ out.next_pending_delivery # id
          /\ out.next_pending_delivery < id + 1
        BY <1>1, <1>3, <1>10, <2>1 DEF Basics, Counts
    <3>2. sent'[out.next_pending_delivery] = sent[out.next_pending_delivery]
        BY <1>7, <3>1
    <3> QED BY <1>2, <1>6, <2>1, <3>1, <3>2 DEF SenderAt
  <2>2. CASE ~ (out.next_pending_delivery < id)
    <3>1. out.next_pending_delivery = id /\ id < id + 1
        BY <1>3, <1>10, <2>2
    <3> QED BY <1>2, <1>6, <1>7, <2>2, <3>1 DEF SenderAt
  <2> QED BY <2>1, <2>2
<1>14. ArrivedInOrder' /\ ReceiverAt' = ReceiverAt
    BY <1>5, <1>12, IdleStays, ArrivedStays DEF Ordered
<1>15. StreamInOrder'
  <2>1. out.next_pending_delivery <= out'.next_pending_delivery
    BY <1>6, <1>10
  <2> QED BY <1>4, <1>12, <1>13, <1>14, <2>1, StreamStays DEF Ordered
<1>16. OutcomesInOrder'
  <2>1. \A e \in Ids : Given(e) => sent'[e].link = sent[e].link
    <3>1. \A e \in Ids : Given(e) => e # id
        BY <1>1, <1>3, <1>10 DEF Given, Basics, Counts
    <3> QED BY <1>7, <3>1
  <2>2. \A e \in Ids : Silent(e) => Silent(e)'
    BY <1>7 DEF Silent
  <2>3. \A k \in DOMAIN r2s' : k + 0 \in DOMAIN r2s /\ r2s'[k] = r2s[k + 0]
    BY <1>4, Shapes DEF FlowsShape
  <2>4. inc'.updated = inc.updated
    BY <1>5 DEF ReceiverIdle
  <2> QED BY <1>5, <2>1, <2>2, <2>3, <2>4, IdleStays, OutcomesStay DEF Ordered
<1>17. SettledInOrder'
  <2>1. SUFFICES ASSUME NEW e \in Ids
                 PROVE  /\ sent'[e].link \in SettledFirst => sent'[e].settled
                        /\ sent'[e].settled => sent'[e].link \in SettledFirst \/ e < Arrived'
                        /\ e >= out'.next_pending_delivery => ~ sent'[e].remote_settled
                        /\ e > out'.next_pending_delivery => sent'[e].next_to_send = 0
                        /\ e < Oldest' => sent'[e].settled /\ sent'[e].remote_settled
    BY DEF SettledInOrder
  <2>2. CASE e = id
    <3>1. ~ (e < Oldest')
        BY <1>3, <1>9, <1>10, <2>2
    <3> QED BY <1>7, <2>2, <3>1
  <2>3. CASE e # id
    <3>1. sent'[e] = sent[e] /\ Arrived' = Arrived
        BY <1>5, <1>7, <2>3, IdleStays
    <3> QED BY <1>6, <1>9, <3>1 DEF Ordered, SettledInOrder
  <2> QED BY <2>2, <2>3
<1> QED BY <1>11, <1>14, <1>15, <1>16, <1>17 DEF Ordered

\* The deliveries in the sending buffer, and what is to be sent, stay the same.
LEMMA BufferStays ==
    ASSUME Ordered, ReceiverIdle, outbuf' = outbuf,
           out'.next_delivery_id = out.next_delivery_id,
           out'.next_pending_delivery = out.next_pending_delivery
    PROVE  Buffered' /\ Oldest' = Oldest
<1>1. Oldest' = Oldest /\ Arrived' = Arrived
    BY IdleStays DEF Oldest
<1> QED BY <1>1 DEF Ordered, Buffered, InOrder, Slot

\* Nothing but the settled flag of deliveries changes, and only that of one that was
\* sent settled or that the sender has been told of.
OnlySettles ==
    \A e \in Ids :
        /\ sent'[e].link = sent[e].link /\ sent'[e].frames = sent[e].frames
        /\ sent'[e].next_to_send = sent[e].next_to_send
        /\ sent'[e].remote_settled = sent[e].remote_settled
        /\ sent'[e].remote_state = sent[e].remote_state
        /\ sent[e].settled => sent'[e].settled
        /\ sent'[e].settled => sent[e].settled \/ sent[e].link \in SettledFirst \/ ~ Silent(e)

LEMMA SettlingOrdered ==
    ASSUME Typed, Typed', Ordered, ReceiverIdle, OnlySettles, Buffered', NEW shift \in {0, 1},
           out'.next_delivery_id = out.next_delivery_id,
           out'.next_pending_delivery = out.next_pending_delivery,
           \A e \in Ids : e < Oldest' => sent'[e].settled /\ sent'[e].remote_settled,
           \A k \in DOMAIN r2s' : k + shift \in DOMAIN r2s /\ r2s'[k] = r2s[k + shift],
           \/ s2r' = s2r
           \/ \E told \in Seq(ToReceiver) :
                  s2r' = s2r \o told /\ \A k \in DOMAIN told : told[k].type # "transfer"
    PROVE  Ordered'
<1>1. Basics /\ Basics'
    BY BasicsHold, BasicsNext
<1>2. SaysTrue /\ out.next_delivery_id <= out'.next_delivery_id
      /\ out.next_pending_delivery <= out'.next_pending_delivery
    BY <1>1 DEF SaysTrue, OnlySettles, Basics, Counts
<1>3. Arrived' = Arrived
    BY IdleStays
<1>4. SenderAt' = SenderAt
  <2>1. CASE out.next_pending_delivery < out.next_delivery_id
    <3>1. out.next_pending_delivery \in Ids
        BY <1>1, <2>1 DEF Ordered, Buffered, Basics, Counts
    <3>2. sent'[out.next_pending_delivery].next_to_send
              = sent[out.next_pending_delivery].next_to_send
        BY <3>1 DEF OnlySettles
    <3> QED BY <2>1, <3>2 DEF SenderAt
  <2>2. CASE ~ (out.next_pending_delivery < out.next_delivery_id)
    BY <2>2 DEF SenderAt
  <2> QED BY <2>1, <2>2
<1>5. ArrivedInOrder' /\ ReceiverAt' = ReceiverAt
    BY <1>2, IdleStays, ArrivedStays DEF Ordered
<1>6. StreamInOrder'
    BY <1>2, <1>4, <1>5, StreamStays DEF Ordered
<1>7. OutcomesInOrder'
  <2>1. \A e \in Ids : Silent(e) => Silent(e)'
    BY DEF OnlySettles, Silent
  <2>2. \A e \in Ids : Given(e) => sent'[e].link = sent[e].link
    BY DEF OnlySettles
  <2>3. inc'.updated = inc.updated
    BY DEF ReceiverIdle
  <2> QED BY <2>1, <2>2, <2>3, IdleStays, OutcomesStay DEF Ordered
<1>8. SettledInOrder'
  <2>1. SUFFICES ASSUME NEW e \in Ids
                 PROVE  /\ sent'[e].link \in SettledFirst => sent'[e].settled
                        /\ sent'[e].settled => sent'[e].link \in SettledFirst \/ e < Arrived'
                        /\ e >= out'.next_pending_delivery => ~ sent'[e].remote_settled
                        /\ e > out'.next_pending_delivery => sent'[e].next_to_send = 0
                        /\ e < Oldest' => sent'[e].settled /\ sent'[e].remote_settled
    BY DEF SettledInOrder
  <2>2. ~ Silent(e) => e < Arrived
    BY DEF Ordered, OutcomesInOrder, Given
  <2> QED BY <1>3, <2>2 DEF Ordered, SettledInOrder, OnlySettles
<1> QED BY <1>5, <1>6, <1>7, <1>8 DEF Ordered

LEMMA SettleOrdered ==
    ASSUME Usual, Typed, Typed', Ordered, NEW id \in Ids, Settle(id)
    PROVE  Ordered'
<1>1. /\ outbuf' = outbuf /\ s2r' = s2r /\ r2s' = r2s /\ out \in Outgoing
      /\ sent \in [Ids -> SentDelivery] /\ sent' = [sent EXCEPT ![id].settled = TRUE]
      /\ sent[id].remote_state # NoState
      /\ out' = out \/ out' = [out EXCEPT !.pending_dispositions = Append(@, id)]
    BY DEF Settle, Typed, TypeOK, Usual
<1>2. ReceiverIdle
    BY DEF Settle, receiver, ReceiverIdle
<1>3. /\ out'.next_delivery_id = out.next_delivery_id
      /\ out'.next_pending_delivery = out.next_pending_delivery
    BY <1>1 DEF Outgoing
<1>4. OnlySettles
  <2>1. ~ Silent(id)
    BY <1>1 DEF Silent
  <2>2. /\ \A e \in Ids : e # id => sent'[e] = sent[e]
        /\ sent'[id] = [sent[id] EXCEPT !.settled = TRUE] /\ sent[id] \in SentDelivery
    BY <1>1
  <2> QED BY <2>1, <2>2 DEF OnlySettles, SentDelivery
<1>5. Buffered' /\ Oldest' = Oldest
    BY <1>1, <1>2, <1>3, BufferStays
<1>6. \A e \in Ids : e < Oldest' => sent'[e].settled /\ sent'[e].remote_settled
    BY <1>4, <1>5 DEF Ordered, SettledInOrder, OnlySettles
<1>7. \A k \in DOMAIN r2s' : k + 0 \in DOMAIN r2s /\ r2s'[k] = r2s[k + 0]
    BY <1>1, Shapes DEF FlowsShape
<1> QED BY <1>1, <1>2, <1>3, <1>4, <1>5, <1>6, <1>7, SettlingOrdered

LEMMA SenderOnFlowOrdered ==
    ASSUME Typed, Typed', Ordered, SenderOnFlow
    PROVE  Ordered'
<1>1. /\ outbuf' = outbuf /\ s2r' = s2r /\ r2s # << >> /\ r2s' = Tail(r2s) /\ sent' = sent
      /\ out \in Outgoing
      /\ \E n, w : out' = [out EXCEPT !.remote_next_transfer_id = n, !.remote_window = w]
    BY DEF SenderOnFlow, SenderReads, Typed, TypeOK
<1>2. ReceiverIdle
    BY DEF SenderOnFlow, receiver, ReceiverIdle
<1>3. /\ out'.next_delivery_id = out.next_delivery_id
      /\ out'.next_pending_delivery = out.next_pending_delivery
    BY <1>1 DEF Outgoing
<1>4. OnlySettles
    BY <1>1 DEF OnlySettles
<1>5. Buffered' /\ Oldest' = Oldest
    BY <1>1, <1>2, <1>3, BufferStays
<1>6. \A e \in Ids : e < Oldest' => sent'[e].settled /\ sent'[e].remote_settled
    BY <1>1, <1>5 DEF Ordered, SettledInOrder
<1>7. \A k \in DOMAIN r2s' : k + 1 \in DOMAIN r2s /\ r2s'[k] = r2s[k + 1]
    BY <1>1, FlowTaken
<1> QED BY <1>1, <1>2, <1>3, <1>4, <1>5, <1>6, <1>7, SettlingOrdered

LEMMA FinishProcessOrdered ==
    ASSUME Typed, Typed', Ordered, FinishProcess
    PROVE  Ordered'
<1> DEFINE told == WriteDispositions(UpdatedOutgoing, "sender")
           done == {id \in Ids : FullySettled(Notified[id])}
<1>1. /\ s2r' = s2r \o told /\ r2s' = r2s /\ outbuf' = PopIf(outbuf, done)
      /\ out \in Outgoing /\ out' = [out EXCEPT !.updated = {}, !.pending_dispositions = <<>>]
      /\ sent' = Notified /\ sent \in [Ids -> SentDelivery]
    BY DEF FinishProcess, Typed, TypeOK
<1>2. ReceiverIdle
    BY DEF FinishProcess, receiver, ReceiverIdle
<1>3. /\ out'.next_delivery_id = out.next_delivery_id
      /\ out'.next_pending_delivery = out.next_pending_delivery
    BY <1>1 DEF Outgoing
<1>4. OnlySettles
  <2>1. SUFFICES ASSUME NEW e \in Ids
                 PROVE  /\ sent'[e].link = sent[e].link /\ sent'[e].frames = sent[e].frames
                        /\ sent'[e].next_to_send = sent[e].next_to_send
                        /\ sent'[e].remote_settled = sent[e].remote_settled
                        /\ sent'[e].remote_state = sent[e].remote_state
                        /\ sent[e].settled => sent'[e].settled
                        /\ sent'[e].settled =>
                               sent[e].settled \/ sent[e].link \in SettledFirst \/ ~ Silent(e)
    BY DEF OnlySettles
  <2>2. sent[e] \in SentDelivery
    BY <1>1
  <2>3. CASE e \in out.updated /\ sent[e].remote_settled
    <3>1. sent'[e] = [sent[e] EXCEPT !.settled = TRUE]
        BY <1>1, <2>3 DEF Notified
    <3>2. sent[e].link \in SettledFirst \/ ~ Silent(e)
        BY <2>3 DEF Silent
    <3> QED BY <2>2, <3>1, <3>2 DEF SentDelivery
  <2>4. CASE ~ (e \in out.updated /\ sent[e].remote_settled)
    <3>1. sent'[e] = sent[e]
        BY <1>1, <2>4 DEF Notified
    <3> QED BY <3>1
  <2> QED BY <2>3, <2>4
<1>5. told \in Seq(ToReceiver) /\ \A k \in DOMAIN told : told[k].type # "transfer"
  <2>1. told \in Seq(DispositionFrames(Ids, States))
    BY UpdatedOutgoingType, WriteDispositionsType
  <2>2. told \in Seq(ToReceiver)
    BY <2>1, SeqMonotonic DEF ToReceiver
  <2> HIDE DEF told
  <2>3. \A k \in DOMAIN told : told[k] \in DispositionFrames(Ids, States)
    BY <2>1
  <2> QED BY <2>2, <2>3 DEF DispositionFrames
<1> HIDE DEF told
<1>6. Basics /\ Basics'
    BY BasicsHold, BasicsNext
<1>7. PICK n \in 0..outbuf.size :
          /\ InOrder(outbuf', Oldest + n) /\ outbuf'.size = outbuf.size - n
          /\ \A id \in Oldest..(Oldest + n - 1) : id \in done
  <2> HIDE DEF done
  <2> QED BY <1>1, <1>6, Capacities, PopIfInOrder DEF Ordered, Buffered, Basics, Counts
<1>8. /\ Oldest \in Nat /\ Oldest <= out.next_pending_delivery
      /\ out.next_pending_delivery \in Nat /\ outbuf.size \in Nat
      /\ out.next_delivery_id \in Nat /\ Oldest = out.next_delivery_id - outbuf.size
  <2>1. 0 <= Oldest /\ Oldest <= out.next_pending_delivery
    BY DEF Ordered, Buffered
  <2> QED BY <1>6, <2>1 DEF Basics, Counts, Oldest
<1>9. Oldest' = Oldest + n
    BY <1>3, <1>7, <1>8 DEF Oldest
<1>10. \A id \in done : id \in Ids /\ sent'[id].settled /\ sent'[id].remote_settled
    BY <1>1 DEF FullySettled
<1> HIDE DEF done
<1>11. Oldest + n <= out.next_pending_delivery
  <2>1. CASE n = 0
    BY <1>8, <2>1
  <2>2. CASE n # 0
    <3>1. PICK id : id = Oldest + n - 1
        OBVIOUS
    <3>2. id \in Oldest..(Oldest + n - 1) /\ id \in Int /\ Oldest + n = id + 1
        BY <1>7, <1>8, <2>2, <3>1
    <3>3. id \in Ids /\ sent'[id].remote_settled
        BY <1>7, <1>10, <3>2
    <3>4. sent[id].remote_settled
        BY <1>4, <3>3 DEF OnlySettles
    <3>5. ~ (id >= out.next_pending_delivery)
        BY <3>3, <3>4 DEF Ordered, SettledInOrder
    <3> QED BY <1>8, <3>2, <3>5
  <2> QED BY <2>1, <2>2
<1>12. Buffered'
  <2>1. InOrder(outbuf, Oldest)'
    BY <1>7, <1>9 DEF InOrder, Slot
  <2>2. 0 <= Oldest' /\ Oldest' <= out'.next_pending_delivery
    BY <1>3, <1>7, <1>8, <1>9, <1>11
  <2>3. Arrived' = Arrived
    BY <1>2, IdleStays
  <2> QED BY <1>3, <2>1, <2>2, <2>3 DEF Ordered, Buffered
<1>13. ASSUME NEW e \in Ids, e < Oldest'
       PROVE  sent'[e].settled /\ sent'[e].remote_settled
  <2>1. CASE e < Oldest
    BY <1>4, <2>1 DEF Ordered, SettledInOrder, OnlySettles
  <2>2. CASE ~ (e < Oldest)
    <3>1. e \in Int
        BY <1>6 DEF Basics, Counts
    <3>2. e \in Oldest..(Oldest + n - 1)
        BY <1>7, <1>8, <1>9, <1>13, <2>2, <3>1
    <3> QED BY <1>7, <1>10, <3>2
  <2> QED BY <2>1, <2>2
<1>14. \A k \in DOMAIN r2s' : k + 0 \in DOMAIN r2s /\ r2s'[k] = r2s[k + 0]
    BY <1>1, Shapes DEF FlowsShape
<1> QED BY <1>1, <1>2, <1>3, <1>4, <1>5, <1>12, <1>13, <1>14, SettlingOrdered

\* The delivery that process looks at is the next one that is pending.
LEMMA PendingFound ==
    ASSUME Typed, Ordered, NEW id \in out.next_pending_delivery..(out.next_delivery_id - 1)
    PROVE  ById(outbuf, id) = id
<1>1. Basics
    BY BasicsHold
<1>2. id \in Oldest..(Oldest + outbuf.size - 1)
    BY <1>1 DEF Ordered, Buffered, Basics, Counts, Oldest
<1> QED BY <1>1, <1>2, Capacities, ByIdFinds DEF Ordered, Buffered, Basics, Counts

\* The frames of parts s to s + m - 1 of a message of n frames.
Burst(burst, d, s, m, n) ==
    /\ d \in Nat /\ s \in Nat /\ m \in Nat \ {0} /\ n \in Nat /\ s + m <= n
    /\ Len(burst) = m
    /\ \A k \in 1..m : /\ burst[k].type = "transfer" /\ burst[k].delivery_id = d
                       /\ burst[k].part = s + k - 1
                       /\ burst[k].more <=> s + k < n

\* The frames the loop sends lead from the next frame to the one after them.
LEMMA BurstLeads ==
    ASSUME NEW d, NEW s, NEW m, NEW n, NEW burst, Burst(burst, d, s, m, n),
           NEW from, from = [id |-> d, part |-> s],
           NEW to, to = IF s + m = n THEN [id |-> d + 1, part |-> 0]
                        ELSE [id |-> d, part |-> s + m]
    PROVE  Leads(from, burst, to)
<1> DEFINE Place(k) == IF s + k = n THEN [id |-> d + 1, part |-> 0] ELSE [id |-> d, part |-> s + k]
           at == [k \in 0..m |-> Place(k)]
<1>1. /\ d \in Nat /\ s \in Nat /\ m \in Nat \ {0} /\ n \in Nat /\ s + m <= n
      /\ Len(burst) = m
    BY DEF Burst
<1>2. at \in [0..m -> Places]
    BY <1>1 DEF Places
<1>3. at[0] = from /\ at[m] = to
    BY <1>1
<1>4. ASSUME NEW k \in 1..m
      PROVE  Passes(at[k - 1], burst[k], at[k])
  <2>1. at[k - 1] = [id |-> d, part |-> s + k - 1]
    BY <1>1
  <2>2. at[k] = Place(k)
    OBVIOUS
  <2> HIDE DEF at
  <2>3. /\ burst[k].type = "transfer" /\ burst[k].delivery_id = d
        /\ burst[k].part = s + k - 1 /\ (burst[k].more <=> s + k < n)
    BY DEF Burst
  <2>4. After(burst[k]) = Place(k)
    BY <1>1, <2>3 DEF After
  <2> QED BY <2>1, <2>2, <2>3, <2>4 DEF Passes
<1> HIDE DEF at
<1> QED BY <1>1, <1>2, <1>3, <1>4 DEF Leads

LEMMA SendPendingOrdered ==
    ASSUME Typed, Typed', Ordered, SendPending
    PROVE  Ordered'
<1>1. Basics /\ Basics'
    BY BasicsHold, BasicsNext
<1>2. PICK p : p = out.next_pending_delivery
    OBVIOUS
<1>3. CanSend
    BY DEF SendPending
<1>4. /\ p \in Ids /\ p \in Nat /\ p < out.next_delivery_id /\ Arrived \in Nat /\ Arrived <= p
      /\ out.next_delivery_id \in Nat
    BY <1>1, <1>2, <1>3 DEF CanSend, Basics, Counts, Ordered, Buffered
<1>5. Pending = p
  <2>1. p \in out.next_pending_delivery..(out.next_delivery_id - 1)
    BY <1>2, <1>4
  <2> QED BY <1>2, <2>1, PendingFound DEF Pending
<1>6. PICK m : m = NumToSend
    OBVIOUS
<1>7. PICK s : s = sent[p].next_to_send
    OBVIOUS
<1>8. PICK n : n = sent[p].frames
    OBVIOUS
<1>9. m \in Nat \ {0} /\ s \in Nat /\ n \in Nat /\ s + m <= n
  <2>1. m \in Nat \ {0} /\ m <= n - s
    BY <1>3, <1>5, <1>6, <1>7, <1>8, PendingType
  <2>2. s \in Nat /\ n \in Nat
    BY <1>1, <1>4, <1>7, <1>8 DEF Basics, Fields
  <2> QED BY <2>1, <2>2
<1>10. PICK burst : burst = [k \in 1..m |-> Transfer(p, k)]
    OBVIOUS
<1>11. /\ s2r' = s2r \o burst /\ r2s' = r2s /\ outbuf' = outbuf
       /\ out' = [out EXCEPT !.next_transfer_id = @ + m,
                             !.next_pending_delivery = IF s + m = n THEN @ + 1 ELSE @]
       /\ sent' = IF s + m = n THEN [sent EXCEPT ![p].remote_settled = @ \/ sent[p].settled]
                  ELSE [sent EXCEPT ![p].next_to_send = @ + m]
  <2>1. /\ s2r' = s2r \o [k \in 1..NumToSend |-> Transfer(Pending, k)]
        /\ r2s' = r2s /\ outbuf' = outbuf
        /\ out' = [out EXCEPT !.next_transfer_id = @ + NumToSend,
                 !.next_pending_delivery =
                     IF sent[Pending].next_to_send + NumToSend = sent[Pending].frames
                     THEN @ + 1 ELSE @]
        /\ sent' = IF sent[Pending].next_to_send + NumToSend = sent[Pending].frames
                   THEN [sent EXCEPT ![Pending].remote_settled = @ \/ sent[Pending].settled]
                   ELSE [sent EXCEPT ![Pending].next_to_send = @ + NumToSend]
    BY DEF SendPending
  <2> QED BY <1>5, <1>6, <1>7, <1>8, <1>10, <2>1
<1>12. ReceiverIdle
    BY DEF SendPending, receiver, ReceiverIdle
<1>13. /\ out'.next_delivery_id = out.next_delivery_id
       /\ out'.next_pending_delivery = IF s + m = n THEN p + 1 ELSE p
  <2>1. out \in Outgoing
    BY DEF Typed, TypeOK
  <2> QED BY <1>2, <1>11, <2>1 DEF Outgoing
<1>14. /\ \A e \in Ids : e # p => sent'[e] = sent[e]
       /\ sent'[p].link = sent[p].link /\ sent'[p].frames = n
       /\ sent'[p].settled = sent[p].settled /\ sent'[p].remote_state = sent[p].remote_state
       /\ s + m = n => sent'[p].remote_settled = (sent[p].remote_settled \/ sent[p].settled)
       /\ s + m # n => /\ sent'[p].remote_settled = sent[p].remote_settled
                       /\ sent'[p].next_to_send = s + m
  <2>1. sent \in [Ids -> SentDelivery] /\ sent[p] \in SentDelivery
    BY <1>4 DEF Typed, TypeOK
  <2>2. CASE s + m = n
    <3>1. /\ \A e \in Ids : e # p => sent'[e] = sent[e]
          /\ sent'[p] = [sent[p] EXCEPT !.remote_settled = sent[p].remote_settled \/ sent[p].settled]
        BY <1>4, <1>11, <2>1, <2>2
    <3> QED BY <1>8, <2>1, <2>2, <3>1 DEF SentDelivery
  <2>3. CASE s + m # n
    <3>1. /\ \A e \in Ids : e # p => sent'[e] = sent[e]
          /\ sent'[p] = [sent[p] EXCEPT !.next_to_send = sent[p].next_to_send + m]
        BY <1>4, <1>11, <2>1, <2>3
    <3> QED BY <1>7, <1>8, <2>1, <2>3, <3>1 DEF SentDelivery
  <2> QED BY <2>2, <2>3
<1>15. SaysTrue /\ out.next_delivery_id <= out'.next_delivery_id
       /\ out.next_pending_delivery <= out'.next_pending_delivery
    BY <1>2, <1>4, <1>8, <1>13, <1>14 DEF SaysTrue
<1>16. ArrivedInOrder' /\ ReceiverAt' = ReceiverAt /\ Arrived' = Arrived
    BY <1>12, <1>15, IdleStays, ArrivedStays DEF Ordered
<1>17. Oldest' = Oldest
    BY <1>11, <1>13 DEF Oldest
<1>18. Buffered'
  <2>1. InOrder(outbuf, Oldest)'
    BY <1>11, <1>17 DEF Ordered, Buffered, InOrder, Slot
  <2>2. 0 <= Oldest /\ Oldest <= p /\ out.next_delivery_id <= MaxDeliveries /\ Oldest \in Int
        /\ MaxDeliveries \in Nat
    BY <1>1, <1>2 DEF Ordered, Buffered, Basics, Counts
  <2> QED BY <1>4, <1>13, <1>16, <1>17, <2>1, <2>2 DEF Buffered
<1>19. \A k \in 1..m :
           /\ burst[k].type = "transfer" /\ burst[k].delivery_id = p /\ burst[k].part = s + k - 1
           /\ (burst[k].more <=> s + k < n)
           /\ burst[k].handle = sent[p].link /\ burst[k].settled = sent[p].settled
  <2>1. SUFFICES ASSUME NEW k \in 1..m
                 PROVE  /\ burst[k].type = "transfer" /\ burst[k].delivery_id = p
                        /\ burst[k].part = s + k - 1 /\ (burst[k].more <=> s + k < n)
                        /\ burst[k].handle = sent[p].link
                        /\ burst[k].settled = sent[p].settled
    OBVIOUS
  <2>2. burst[k] = Transfer(p, k)
    BY <1>10
  <2>3. /\ Transfer(p, k).type = "transfer" /\ Transfer(p, k).delivery_id = p
        /\ Transfer(p, k).part = s + k - 1
        /\ (Transfer(p, k).more <=> (s + k - 1) + 1 < n)
        /\ Transfer(p, k).handle = sent[p].link /\ Transfer(p, k).settled = sent[p].settled
    BY <1>7, <1>8 DEF Transfer
  <2>4. (s + k - 1) + 1 = s + k
    BY <1>9
  <2> QED BY <2>2, <2>3, <2>4
<1>20. Len(burst) = m /\ DOMAIN burst = 1..m
    BY <1>9, <1>10
<1>21. SenderAt = [id |-> p, part |-> s]
    BY <1>2, <1>4, <1>7 DEF SenderAt
<1>22. SenderAt' = IF s + m = n THEN [id |-> p + 1, part |-> 0] ELSE [id |-> p, part |-> s + m]
  <2>1. CASE s + m = n
    <3>1. CASE p + 1 < out.next_delivery_id
      <4>1. p + 1 \in Ids /\ p + 1 # p /\ p + 1 > p
        BY <1>1, <1>4, <3>1 DEF Ordered, Buffered, Basics, Counts
      <4>2. sent[p + 1].next_to_send = 0
        BY <1>2, <4>1 DEF Ordered, SettledInOrder
      <4>3. sent'[p + 1].next_to_send = 0
        BY <1>14, <4>1, <4>2
      <4> QED BY <1>13, <2>1, <3>1, <4>3 DEF SenderAt
    <3>2. CASE ~ (p + 1 < out.next_delivery_id)
        BY <1>13, <2>1, <3>2 DEF SenderAt
    <3> QED BY <3>1, <3>2
  <2>2. CASE s + m # n
    BY <1>4, <1>13, <1>14, <2>2 DEF SenderAt
  <2> QED BY <2>1, <2>2
<1>23. Leads(ReceiverAt, s2r', SenderAt')
  <2>1. Leads(SenderAt, burst, SenderAt')
    <3>1. Burst(burst, p, s, m, n)
        BY <1>4, <1>9, <1>19, <1>20 DEF Burst
    <3> QED BY ONLY <1>21, <1>22, <3>1, BurstLeads
  <2>2. PICK S : S = ToReceiver \cup {burst[k] : k \in 1..m}
    OBVIOUS
  <2>3. s2r \in Seq(S)
    <3>1. s2r \in Seq(ToReceiver)
        BY DEF Typed
    <3> QED BY <2>2, <3>1, SeqMonotonic
  <2>4. burst \in Seq(S)
    <3>1. \A k \in 1..m : burst[k] \in S
        BY <2>2
    <3> QED BY <1>9, <1>10, <3>1
  <2>5. Leads(ReceiverAt, s2r, SenderAt)
    BY DEF Ordered, StreamInOrder
  <2> QED BY <1>11, <2>1, <2>3, <2>4, <2>5, LeadsOn
<1>24. StreamInOrder'
  <2>1. Leads(ReceiverAt, s2r, SenderAt)'
    BY <1>16, <1>23 DEF Leads, Passes
  <2>2. ASSUME NEW k \in DOMAIN s2r', s2r'[k].type = "transfer"
        PROVE  TrueTo(s2r[k])'
    <3>1. PICK f : f = s2r'[k]
        OBVIOUS
    <3>2. \/ k \in DOMAIN s2r /\ f = s2r[k]
          \/ \E i \in 1..m : f = burst[i]
      <4>1. s2r \in Seq(ToReceiver) /\ k \in DOMAIN (s2r \o burst) /\ f = (s2r \o burst)[k]
        BY <1>11, <3>1 DEF Typed
      <4>2. DOMAIN (s2r \o burst) = 1..(Len(s2r) + m) /\ Len(s2r) \in Nat
            /\ DOMAIN s2r = 1..Len(s2r)
        BY <1>9, <1>20, <4>1
      <4>3. CASE k <= Len(s2r)
        BY <4>1, <4>2, <4>3
      <4>4. CASE ~ (k <= Len(s2r))
        <5>1. f = burst[k - Len(s2r)] /\ k - Len(s2r) \in 1..m
            BY <1>9, <1>20, <4>1, <4>2, <4>4
        <5> QED BY <5>1
      <4> QED BY <4>3, <4>4
    <3>3. CASE k \in DOMAIN s2r /\ f = s2r[k]
      <4>1. f.delivery_id \in Ids /\ TrueTo(f)
        BY <2>2, <3>1, <3>3, OnStream DEF Ordered
      <4>2. f.delivery_id < out.next_delivery_id
        BY <4>1 DEF TrueTo
      <4>3. TrueTo(f)'
        BY <1>15, <4>1, <4>2, StaysTrue DEF SaysTrue
      <4> QED BY <3>1, <4>3 DEF TrueTo
    <3>4. ASSUME NEW i \in 1..m, f = burst[i]
          PROVE  TrueTo(s2r[k])'
      <4>1. /\ f.delivery_id = p /\ f.part = s + i - 1 /\ (f.more <=> s + i < n)
            /\ f.handle = sent[p].link /\ f.settled = sent[p].settled
        BY <1>19, <3>4
      <4>2. f.part < n /\ f.part + 1 = s + i /\ (~ f.more => s + m = n)
        BY <1>9, <4>1
      <4>3. f.handle \in SettledFirst => f.settled
        BY <1>4, <4>1 DEF Ordered, SettledInOrder
      <4>4. p < out'.next_delivery_id /\ (s + m = n => p < out'.next_pending_delivery)
        BY <1>4, <1>13
      <4>5. TrueTo(f)'
        BY <1>14, <4>1, <4>2, <4>3, <4>4 DEF TrueTo
      <4> QED BY <3>1, <4>5 DEF TrueTo
    <3> QED BY <3>2, <3>3, <3>4
  <2> QED BY <2>1, <2>2 DEF StreamInOrder
<1>25. p >= out.next_pending_delivery /\ ~ (p < Arrived)
    BY <1>2, <1>4
<1>26. OutcomesInOrder'
  <2>1. ASSUME NEW e \in Ids, Silent(e) PROVE Silent(e)'
    <3>1. CASE e = p
      <4>1. sent[p].settled => sent[p].link \in SettledFirst
        BY <1>4, <1>25 DEF Ordered, SettledInOrder
      <4> QED BY <1>14, <2>1, <3>1, <4>1 DEF Silent
    <3>2. CASE e # p
        BY <1>14, <2>1, <3>2 DEF Silent
    <3> QED BY <3>1, <3>2
  <2>2. \A e \in Ids : Given(e) => sent'[e].link = sent[e].link
    BY <1>14
  <2>3. \A k \in DOMAIN r2s' : k + 0 \in DOMAIN r2s /\ r2s'[k] = r2s[k + 0]
    BY <1>11, Shapes DEF FlowsShape
  <2>4. inc'.updated = inc.updated
    BY <1>12 DEF ReceiverIdle
  <2> QED BY <1>12, <2>1, <2>2, <2>3, <2>4, IdleStays, OutcomesStay DEF Ordered
<1>27. SettledInOrder'
  <2>1. SUFFICES ASSUME NEW e \in Ids
                 PROVE  /\ sent'[e].link \in SettledFirst => sent'[e].settled
                        /\ sent'[e].settled => sent'[e].link \in SettledFirst \/ e < Arrived'
                        /\ e >= out'.next_pending_delivery => ~ sent'[e].remote_settled
                        /\ e > out'.next_pending_delivery => sent'[e].next_to_send = 0
                        /\ e < Oldest' => sent'[e].settled /\ sent'[e].remote_settled
    BY DEF SettledInOrder
  <2>2. e \in Int
    BY <1>1 DEF Basics, Counts
  <2>3. /\ sent[e].link \in SettledFirst => sent[e].settled
        /\ sent[e].settled => sent[e].link \in SettledFirst \/ e < Arrived
        /\ e >= p => ~ sent[e].remote_settled
        /\ e > p => sent[e].next_to_send = 0
        /\ e < Oldest => sent[e].settled /\ sent[e].remote_settled
    BY <1>2 DEF Ordered, SettledInOrder
  <2>4. CASE e = p
    <3>1. ~ (e < Oldest) /\ ~ (e > out'.next_pending_delivery)
          /\ (e >= out'.next_pending_delivery => s + m # n)
        BY <1>1, <1>2, <1>4, <1>13, <2>4 DEF Ordered, Buffered, Basics, Counts
    <3>2. sent'[p].settled => sent'[p].link \in SettledFirst \/ p < Arrived'
        BY <1>14, <1>16, <2>3, <2>4
    <3>3. sent'[p].link \in SettledFirst => sent'[p].settled
        BY <1>14, <2>3, <2>4
    <3>4. s + m # n => ~ sent'[p].remote_settled
        BY <1>2, <1>14, <1>25, <2>3, <2>4
    <3> QED BY <1>17, <2>4, <3>1, <3>2, <3>3, <3>4
  <2>5. CASE e # p
    <3>1. (e >= out'.next_pending_delivery => e >= p) /\ (e > out'.next_pending_delivery => e > p)
        BY <1>4, <1>13, <2>2
    <3>2. sent'[e] = sent[e]
        BY <1>14, <2>5
    <3> QED BY <1>16, <1>17, <2>3, <3>1, <3>2
  <2> QED BY <2>4, <2>5
<1> QED BY <1>16, <1>18, <1>24, <1>26, <1>27 DEF Ordered

\* The deliveries of which a disposition speaks wait in the sending buffer for it.
LEMMA DispositionFinds ==
    ASSUME Typed, Ordered, r2s # << >>, NEW f, f = Head(r2s), f.type = "disposition"
    PROVE  \A i \in Covered(f) :
               /\ i \in Ids /\ OnItsWay(i) /\ Given(i) /\ Silent(i) /\ i < out.next_pending_delivery
               /\ ~ Waiting(i) /\ i >= Oldest /\ sent[i].link \notin SettledFirst
               /\ ~ sent[i].remote_settled /\ ById(outbuf, i) = i
<1>1. Basics
    BY BasicsHold
<1>2. f = r2s[1] /\ 1 \in DOMAIN r2s
  <2>1. r2s \in Seq(ToSender)
    BY DEF Typed
  <2> QED BY <2>1
<1> SUFFICES ASSUME NEW i \in Covered(f)
             PROVE  /\ i \in Ids /\ OnItsWay(i) /\ Given(i) /\ Silent(i) /\ i < out.next_pending_delivery
                    /\ ~ Waiting(i) /\ i >= Oldest /\ sent[i].link \notin SettledFirst
                    /\ ~ sent[i].remote_settled /\ ById(outbuf, i) = i
    OBVIOUS
<1>3. i \in Int /\ OnItsWay(i)
  <2>1. i \in Int
    BY DEF Covered
  <2> QED BY <1>2, <2>1 DEF OnItsWay
<1>4. i \in Ids /\ Given(i) /\ sent[i].link \notin SettledFirst
    BY <1>3 DEF Ordered, OutcomesInOrder
<1>5. Silent(i) /\ ~ Waiting(i)
    BY <1>3, <1>4 DEF Ordered, OutcomesInOrder, ToldOnce
<1>6. ~ sent[i].remote_settled
    BY <1>4, <1>5 DEF Silent
<1>7. ~ (i < Oldest)
    BY <1>4, <1>6 DEF Ordered, SettledInOrder
<1>8. /\ i < Arrived /\ Arrived <= out.next_pending_delivery
      /\ out.next_pending_delivery <= out.next_delivery_id
      /\ Arrived \in Nat /\ out.next_pending_delivery \in Nat /\ out.next_delivery_id \in Nat
      /\ Oldest \in Int /\ Oldest = out.next_delivery_id - outbuf.size /\ outbuf.size \in Nat
    BY <1>1, <1>4 DEF Ordered, Buffered, Given, Basics, Counts, Oldest
<1>9. i \in Oldest..(Oldest + outbuf.size - 1) /\ i >= Oldest /\ i < out.next_pending_delivery
    BY <1>3, <1>7, <1>8
<1>10. ById(outbuf, i) = i
    BY <1>1, <1>8, <1>9, Capacities, ByIdFinds DEF Ordered, Buffered, Basics, Counts
<1> QED BY <1>3, <1>4, <1>5, <1>6, <1>9, <1>10

LEMMA SenderOnDispositionOrdered ==
    ASSUME Typed, Typed', Ordered, SenderOnDisposition
    PROVE  Ordered'
<1>1. Basics /\ Basics' /\ FlowsShape /\ FlowsShape'
    BY BasicsHold, BasicsNext, Shapes, ShapesNext
<1>2. PICK f : f = Head(r2s)
    OBVIOUS
<1> DEFINE found == {ById(outbuf, i) : i \in f.first..f.last} \ {Undefined}
           hit == {d \in found : ~ sent[d].remote_settled /\ (f.settled \/ f.state # NoState)}
<1>3. /\ r2s # << >> /\ f.type = "disposition" /\ r2s' = Tail(r2s) /\ s2r' = s2r
      /\ outbuf' = outbuf /\ out \in Outgoing
      /\ out' = [out EXCEPT !.updated = @ \cup hit]
      /\ sent \in [Ids -> SentDelivery]
      /\ sent' = [id \in Ids |->
                     IF id \notin hit THEN sent[id]
                     ELSE [sent[id] EXCEPT
                             !.remote_settled = f.settled,
                             !.remote_state = IF f.state = NoState THEN @ ELSE f.state]]
    BY <1>2 DEF SenderOnDisposition, SenderReads, Typed, TypeOK
<1>4. /\ f = r2s[1] /\ 1 \in DOMAIN r2s
      /\ \A k \in DOMAIN r2s' : k + 1 \in DOMAIN r2s /\ r2s'[k] = r2s[k + 1]
    BY <1>2, <1>3, FlowTaken
<1>5. ASSUME NEW i \in Covered(f)
      PROVE  /\ i \in Ids /\ OnItsWay(i) /\ Given(i) /\ Silent(i) /\ i < out.next_pending_delivery
             /\ ~ Waiting(i) /\ i >= Oldest /\ sent[i].link \notin SettledFirst
             /\ ~ sent[i].remote_settled /\ ById(outbuf, i) = i
    BY <1>2, <1>3, <1>5, DispositionFinds
<1>6. found = Covered(f)
  <2>1. \A i \in Covered(f) : ById(outbuf, i) = i /\ i # Undefined
    BY <1>1, <1>5 DEF Basics, Counts, Undefined
  <2> QED BY <2>1 DEF Covered
<1>7. \A d \in hit : d \in Covered(f)
    BY <1>6
<1> HIDE DEF found
<1>8. /\ \A e \in Ids : e \notin hit => sent'[e] = sent[e]
      /\ \A e \in Ids : /\ sent'[e].link = sent[e].link /\ sent'[e].frames = sent[e].frames
                        /\ sent'[e].next_to_send = sent[e].next_to_send
                        /\ sent'[e].settled = sent[e].settled
  <2>1. \A e \in Ids : sent[e] \in SentDelivery
    BY <1>3
  <2> HIDE DEF hit
  <2>2. \A e \in Ids : \/ sent'[e] = sent[e]
                       \/ \E t, u : sent'[e] = [sent[e] EXCEPT !.remote_settled = t, !.remote_state = u]
    BY <1>3
  <2>3. \A e \in Ids : e \notin hit => sent'[e] = sent[e]
    BY <1>3
  <2> QED BY <2>1, <2>2, <2>3 DEF SentDelivery
<1> HIDE DEF hit
<1>9. ReceiverIdle
    BY DEF SenderOnDisposition, receiver, ReceiverIdle
<1>10. /\ out'.next_delivery_id = out.next_delivery_id
       /\ out'.next_pending_delivery = out.next_pending_delivery
    BY <1>3 DEF Outgoing
<1>11. Buffered' /\ Oldest' = Oldest
    BY <1>3, <1>9, <1>10, BufferStays
<1>12. SaysTrue /\ out.next_delivery_id <= out'.next_delivery_id
       /\ out.next_pending_delivery <= out'.next_pending_delivery
  <2>1. SaysTrue
    BY <1>8 DEF SaysTrue
  <2> QED BY <1>1, <1>10, <2>1 DEF Basics, Counts
<1>13. ArrivedInOrder' /\ ReceiverAt' = ReceiverAt /\ Arrived' = Arrived
    BY <1>9, <1>12, IdleStays, ArrivedStays DEF Ordered
<1>14. SenderAt' = SenderAt
  <2>1. CASE out.next_pending_delivery < out.next_delivery_id
    <3>1. out.next_pending_delivery \in Ids
        BY <1>1, <2>1 DEF Ordered, Buffered, Basics, Counts
    <3>2. sent'[out.next_pending_delivery].next_to_send
              = sent[out.next_pending_delivery].next_to_send
        BY <1>8, <3>1
    <3> QED BY <1>10, <2>1, <3>2 DEF SenderAt
  <2>2. CASE ~ (out.next_pending_delivery < out.next_delivery_id)
    BY <1>10, <2>2 DEF SenderAt
  <2> QED BY <2>1, <2>2
<1>15. StreamInOrder'
    BY <1>3, <1>12, <1>13, <1>14, StreamStays DEF Ordered
<1>16. inc'.updated = inc.updated /\ \A e \in Ids : Given(e)' <=> Given(e)
    BY <1>9, IdleStays DEF ReceiverIdle
<1>17. ASSUME NEW e \in Int
       PROVE  (Waiting(e)' => Waiting(e)) /\ (OnItsWay(e)' => OnItsWay(e) /\ e \notin Covered(f))
  <2>1. Waiting(e)' => Waiting(e)
    BY <1>16 DEF Waiting
  <2>2. ASSUME OnItsWay(e)' PROVE OnItsWay(e) /\ e \notin Covered(f)
    <3>1. PICK k \in DOMAIN r2s' : r2s'[k].type = "disposition" /\ e \in Covered(r2s'[k])
        BY <2>2 DEF OnItsWay, Covered
    <3>2. k + 1 \in DOMAIN r2s /\ r2s'[k] = r2s[k + 1] /\ k + 1 # 1
        BY <1>1, <1>4, <3>1 DEF FlowsShape
    <3>3. Covered(r2s[k + 1]) \cap Covered(r2s[1]) = {}
        BY <1>3, <1>4, <3>1, <3>2 DEF Ordered, OutcomesInOrder, ToldOnce
    <3> QED BY <1>4, <3>1, <3>2, <3>3 DEF OnItsWay
  <2> QED BY <2>1, <2>2
<1>18. OutcomesInOrder'
  <2>1. ToldOnce'
    <3>1. \A j, k \in DOMAIN inc'.updated : inc'.updated[j] = inc'.updated[k] => j = k
        BY <1>16 DEF Ordered, OutcomesInOrder, ToldOnce
    <3>2. ASSUME NEW j \in DOMAIN r2s', NEW k \in DOMAIN r2s', j # k,
                 r2s'[j].type = "disposition", r2s'[k].type = "disposition"
          PROVE  Covered(r2s'[j]) \cap Covered(r2s'[k]) = {}
      <4>1. j + 1 # k + 1 /\ r2s'[j] = r2s[j + 1] /\ r2s'[k] = r2s[k + 1]
            /\ j + 1 \in DOMAIN r2s /\ k + 1 \in DOMAIN r2s
        BY <1>1, <1>4, <3>2 DEF FlowsShape
      <4> QED BY <3>2, <4>1 DEF Ordered, OutcomesInOrder, ToldOnce
    <3>3. \A e \in Ids : ~ (Waiting(e)' /\ OnItsWay(e)')
      <4>1. \A e \in Ids : e \in Int
        BY <1>1 DEF Basics, Counts
      <4> QED BY <1>17, <4>1 DEF Ordered, OutcomesInOrder, ToldOnce
    <3> QED BY <3>1, <3>2, <3>3 DEF ToldOnce, Covered
  <2>2. ASSUME NEW e \in Int, Waiting(e)' \/ OnItsWay(e)'
        PROVE  e \in Ids /\ Given(e)' /\ sent'[e].link \notin SettledFirst
    <3>1. e \in Ids /\ Given(e) /\ sent[e].link \notin SettledFirst
        BY <1>17, <2>2 DEF Ordered, OutcomesInOrder
    <3> QED BY <1>8, <1>16, <3>1
  <2>3. ASSUME NEW e \in Ids, ~ Given(e)' \/ Waiting(e)' \/ OnItsWay(e)'
        PROVE  Silent(e)'
    <3>1. e \in Int
        BY <1>1 DEF Basics, Counts
    <3>2. e \notin Covered(f)
        BY <1>5, <1>16, <1>17, <2>3, <3>1
    <3>3. sent'[e] = sent[e]
        BY <1>7, <1>8, <3>2
    <3>4. Silent(e)
        BY <1>16, <1>17, <2>3, <3>1 DEF Ordered, OutcomesInOrder
    <3> QED BY <3>3, <3>4 DEF Silent
  <2> QED BY <2>1, <2>2, <2>3 DEF OutcomesInOrder
<1>19. SettledInOrder'
  <2>1. SUFFICES ASSUME NEW e \in Ids
                 PROVE  /\ sent'[e].link \in SettledFirst => sent'[e].settled
                        /\ sent'[e].settled => sent'[e].link \in SettledFirst \/ e < Arrived'
                        /\ e >= out'.next_pending_delivery => ~ sent'[e].remote_settled
                        /\ e > out'.next_pending_delivery => sent'[e].next_to_send = 0
                        /\ e < Oldest' => sent'[e].settled /\ sent'[e].remote_settled
    BY DEF SettledInOrder
  <2>2. CASE e \in hit
    <3>1. e < out.next_pending_delivery /\ e >= Oldest
        BY <1>5, <1>7, <2>2
    <3>2. /\ e \in Int /\ Oldest \in Int /\ out.next_pending_delivery \in Int
        BY <1>1 DEF Basics, Counts
    <3>3. ~ (e >= out.next_pending_delivery) /\ ~ (e > out.next_pending_delivery) /\ ~ (e < Oldest)
        BY <3>1, <3>2
    <3> QED BY <1>8, <1>10, <1>11, <1>13, <3>3 DEF Ordered, SettledInOrder
  <2>3. CASE e \notin hit
    BY <1>8, <1>10, <1>11, <1>13, <2>3 DEF Ordered, SettledInOrder
  <2> QED BY <2>2, <2>3
<1> QED BY <1>11, <1>13, <1>15, <1>18, <1>19 DEF Ordered

-----------------------------------------------------------------------------
(* The steps of the receiving peer.                                         *)

\* The part of a step that the sender takes no part in.
SenderRests == out' = out /\ outbuf' = outbuf /\ sent' = sent

LEMMA RestStays ==
    ASSUME Typed, Typed', Ordered, SenderRests, Arrived <= Arrived',
           Arrived' <= out.next_pending_delivery
    PROVE  /\ Buffered' /\ SettledInOrder' /\ SenderAt' = SenderAt /\ SaysTrue
           /\ out.next_delivery_id <= out'.next_delivery_id
           /\ out.next_pending_delivery <= out'.next_pending_delivery
<1>1. Basics /\ Basics'
    BY BasicsHold, BasicsNext
<1>2. Oldest' = Oldest
    BY DEF SenderRests, Oldest
<1>3. Buffered'
    BY <1>2 DEF Ordered, Buffered, SenderRests, InOrder, Slot
<1>4. SettledInOrder'
  <2>1. \A e \in Ids : e < Arrived => e < Arrived'
    BY <1>1 DEF Basics, Counts
  <2> QED BY <1>2, <2>1 DEF Ordered, SettledInOrder, SenderRests
<1>5. SenderAt' = SenderAt /\ SaysTrue
    BY DEF SenderAt, SaysTrue, SenderRests
<1>6. out.next_delivery_id <= out'.next_delivery_id
      /\ out.next_pending_delivery <= out'.next_pending_delivery
    BY <1>1 DEF SenderRests, Basics, Counts
<1> QED BY <1>3, <1>4, <1>5, <1>6

\* The outcome of a message is given: it may have to be told.
LEMMA OutcomeTold ==
    ASSUME Typed, Typed', OutcomesInOrder, NEW id \in Ids, ~ Given(id), r2s' = r2s, sent' = sent,
           \A e \in Ids : e # id => (Given(e)' <=> Given(e)),
           \/ inc'.updated = inc.updated
           \/ /\ inc'.updated = Append(inc.updated, id)
              /\ Given(id)' /\ sent[id].link \notin SettledFirst
    PROVE  OutcomesInOrder'
<1>1. Basics /\ Basics'
    BY BasicsHold, BasicsNext
<1>2. id \in Int /\ \A e \in Ids : e \in Int
    BY <1>1 DEF Basics, Counts
<1>3. ~ Waiting(id) /\ ~ OnItsWay(id) /\ Silent(id)
    BY <1>2 DEF OutcomesInOrder
<1>4. \A e : OnItsWay(e)' <=> OnItsWay(e)
    BY DEF OnItsWay, Covered
<1>5. inc.updated \in Seq(Ids)
    BY <1>1 DEF Basics, Fields
<1>6. \A e : Waiting(e)' =>
          Waiting(e) \/ (e = id /\ inc'.updated = Append(inc.updated, id))
  <2>1. CASE inc'.updated = inc.updated
    BY <2>1 DEF Waiting
  <2>2. CASE inc'.updated = Append(inc.updated, id)
    BY <1>5, <2>2 DEF Waiting
  <2> QED BY <2>1, <2>2
<1>7. ToldOnce'
  <2>1. ASSUME NEW j \in DOMAIN inc'.updated, NEW k \in DOMAIN inc'.updated,
               inc'.updated[j] = inc'.updated[k]
        PROVE  j = k
    <3>1. CASE inc'.updated = inc.updated
        BY <2>1, <3>1 DEF OutcomesInOrder, ToldOnce
    <3>2. CASE inc'.updated = Append(inc.updated, id)
      <4>1. /\ Len(inc.updated) \in Nat /\ DOMAIN inc.updated = 1..Len(inc.updated)
            /\ DOMAIN inc'.updated = 1..(Len(inc.updated) + 1)
            /\ inc'.updated[Len(inc.updated) + 1] = id
            /\ \A i \in 1..Len(inc.updated) : inc'.updated[i] = inc.updated[i]
        BY <1>5, <3>2
      <4>2. \A i \in 1..Len(inc.updated) : inc'.updated[i] # id
        BY <1>3, <4>1 DEF Waiting
      <4>3. \A i, h \in 1..Len(inc.updated) : inc'.updated[i] = inc'.updated[h] => i = h
        BY <4>1 DEF OutcomesInOrder, ToldOnce
      <4>4. PICK m : m = Len(inc.updated)
        OBVIOUS
      <4>5. j \in 1..(m + 1) /\ k \in 1..(m + 1) /\ m \in Nat
        BY <2>1, <4>1, <4>4
      <4>6. CASE j = m + 1 \/ k = m + 1
        BY <2>1, <4>1, <4>2, <4>4, <4>5, <4>6
      <4>7. CASE j # m + 1 /\ k # m + 1
        <5>1. j \in 1..m /\ k \in 1..m
            BY <4>5, <4>7
        <5> QED BY <2>1, <4>3, <4>4, <5>1
      <4> QED BY <4>6, <4>7
    <3> QED BY <3>1, <3>2
  <2>2. \A j, k \in DOMAIN r2s' :
            j # k /\ r2s'[j].type = "disposition" /\ r2s'[k].type = "disposition"
                => Covered(r2s'[j]) \cap Covered(r2s'[k]) = {}
    BY DEF OutcomesInOrder, ToldOnce
  <2>3. \A e \in Ids : ~ (Waiting(e)' /\ OnItsWay(e)')
    BY <1>3, <1>4, <1>6 DEF OutcomesInOrder, ToldOnce
  <2> QED BY <2>1, <2>2, <2>3 DEF ToldOnce, Covered
<1>8. ASSUME NEW e \in Int, Waiting(e)' \/ OnItsWay(e)'
      PROVE  e \in Ids /\ Given(e)' /\ sent'[e].link \notin SettledFirst
  <2>1. CASE e = id
    BY <1>3, <1>4, <1>6, <1>8, <2>1
  <2>2. CASE e # id
    <3>1. Waiting(e) \/ OnItsWay(e)
        BY <1>4, <1>6, <1>8, <2>2
    <3>2. e \in Ids /\ Given(e) /\ sent[e].link \notin SettledFirst
        BY <3>1 DEF OutcomesInOrder
    <3> QED BY <2>2, <3>2
  <2> QED BY <2>1, <2>2
<1>9. ASSUME NEW e \in Ids, ~ Given(e)' \/ Waiting(e)' \/ OnItsWay(e)'
      PROVE  Silent(e)'
  <2>1. Silent(e)
    <3>1. CASE e = id
        BY <1>3, <3>1
    <3>2. CASE e # id
        BY <1>4, <1>6, <1>9, <3>2 DEF OutcomesInOrder
    <3> QED BY <3>1, <3>2
  <2> QED BY <2>1 DEF Silent
<1> QED BY <1>7, <1>8, <1>9 DEF OutcomesInOrder

LEMMA GiveOutcomeOrdered ==
    ASSUME Usual, Typed, Typed', Ordered, NEW id \in Ids, NEW outcome \in Outcomes,
           GiveOutcome(id, outcome)
    PROVE  Ordered'
<1>1. Basics /\ Basics'
    BY BasicsHold, BasicsNext
<1>2. /\ rcv' = rcv /\ delivered' = delivered /\ s2r' = s2r /\ r2s' = r2s
      /\ got[id].updates < 1 /\ Complete(id) /\ inc \in Incoming
      /\ got \in [Ids -> GotDelivery] /\ got[id] \in GotDelivery
      /\ got' = [got EXCEPT ![id] = [got[id] EXCEPT !.state = outcome,
                                       !.updates = got[id].updates + 1,
                                       !.settled = got[id].link \notin SettlesSecond]]
      /\ inc' = IF got[id].remote_settled THEN inc
                ELSE [inc EXCEPT !.updated = Append(inc.updated, id)]
    BY DEF GiveOutcome, Usual, Typed, TypeOK
<1>3. SenderRests
    BY DEF GiveOutcome, sender, SenderRests
<1>4. \A e \in Ids : e # id => got'[e] = got[e]
    BY <1>2
<1>5. /\ got'[id].link = got[id].link /\ got'[id].parts = got[id].parts
      /\ got'[id].remote_settled = got[id].remote_settled
      /\ got'[id].updates = got[id].updates + 1
  <2>1. got'[id] = [got[id] EXCEPT !.state = outcome, !.updates = got[id].updates + 1,
                                   !.settled = got[id].link \notin SettlesSecond]
    BY <1>2
  <2> QED BY <1>2, <2>1 DEF GotDelivery
<1>6. inc'.next_delivery_id = inc.next_delivery_id
    BY <1>2 DEF Incoming
<1>7. ReceivedStays
    BY <1>2, <1>4, <1>5, <1>6 DEF ReceivedStays
<1>8. Arrived' = Arrived /\ Arrived <= Arrived' /\ Arrived' <= out.next_pending_delivery
    BY <1>1, <1>2 DEF Arrived, Ordered, Buffered, Basics, Counts
<1>9. /\ Buffered' /\ SettledInOrder' /\ SenderAt' = SenderAt /\ SaysTrue
      /\ out.next_delivery_id <= out'.next_delivery_id
      /\ out.next_pending_delivery <= out'.next_pending_delivery
    BY <1>3, <1>8, RestStays
<1>10. ArrivedInOrder' /\ ReceiverAt' = ReceiverAt
    BY <1>7, <1>9, ArrivedStays DEF Ordered
<1>11. StreamInOrder'
    BY <1>2, <1>9, <1>10, StreamStays DEF Ordered
<1>12. OutcomesInOrder'
  <2>1. id < Arrived
    <3>1. PICK k \in DOMAIN delivered : delivered[k] = id
        BY <1>2 DEF Complete
    <3>2. k \in 1..Arrived /\ delivered[k] = k - 1 /\ Arrived \in Nat
        BY <1>1, <3>1 DEF Ordered, ArrivedInOrder, Parts, Basics, Counts
    <3> QED BY <3>1, <3>2
  <2>2. ~ Given(id) /\ Given(id)'
    <3>1. got[id].updates \in Nat
        BY <1>1 DEF Basics, Fields
    <3> QED BY <1>2, <1>5, <1>8, <2>1, <3>1 DEF Given
  <2>3. \A e \in Ids : e # id => (Given(e)' <=> Given(e))
    BY <1>4, <1>8 DEF Given
  <2>4. ~ got[id].remote_settled => sent[id].link \notin SettledFirst
    <3>1. id \in 0..(Arrived - 1)
        BY <1>1, <2>1 DEF Basics, Counts
    <3>2. SameMessage(id)
        BY <3>1 DEF Ordered, ArrivedInOrder
    <3> QED BY <3>2 DEF SameMessage
  <2>5. \/ inc'.updated = inc.updated
        \/ /\ inc'.updated = Append(inc.updated, id)
           /\ Given(id)' /\ sent[id].link \notin SettledFirst
    BY <1>2, <2>2, <2>4 DEF Incoming
  <2>6. sent' = sent
    BY <1>3 DEF SenderRests
  <2> QED BY <1>2, <2>2, <2>3, <2>5, <2>6, OutcomeTold DEF Ordered
<1> QED BY <1>9, <1>10, <1>11, <1>12 DEF Ordered

LEMMA AddCreditOrdered ==
    ASSUME Typed, Typed', Ordered, NEW l \in Links, AddCredit(l)
    PROVE  Ordered'
<1>1. Basics /\ Basics'
    BY BasicsHold, BasicsNext
<1>2. /\ inc' = inc /\ delivered' = delivered /\ s2r' = s2r /\ r2s' = r2s /\ got' = got
      /\ rcv \in [Links -> ReceiverLink]
      /\ rcv' = [rcv EXCEPT ![l] = [rcv[l] EXCEPT !.credit = rcv[l].credit + 1, !.issue_flow = TRUE]]
    BY DEF AddCredit, Typed, TypeOK
<1>3. SenderRests
    BY DEF AddCredit, sender, SenderRests
<1>4. \A h \in Links : rcv'[h].incomplete = rcv[h].incomplete
  <2>1. rcv'[l] = [rcv[l] EXCEPT !.credit = rcv[l].credit + 1, !.issue_flow = TRUE]
        /\ rcv[l] \in ReceiverLink /\ \A h \in Links : h # l => rcv'[h] = rcv[h]
    BY <1>2
  <2> QED BY <2>1 DEF ReceiverLink
<1>5. ReceivedStays
    BY <1>2, <1>4 DEF ReceivedStays
<1>6. Arrived' = Arrived /\ Arrived <= Arrived' /\ Arrived' <= out.next_pending_delivery
    BY <1>1, <1>2 DEF Arrived, Ordered, Buffered, Basics, Counts
<1>7. /\ Buffered' /\ SettledInOrder' /\ SenderAt' = SenderAt /\ SaysTrue
      /\ out.next_delivery_id <= out'.next_delivery_id
      /\ out.next_pending_delivery <= out'.next_pending_delivery
    BY <1>3, <1>6, RestStays
<1>8. ArrivedInOrder' /\ ReceiverAt' = ReceiverAt
    BY <1>5, <1>7, ArrivedStays DEF Ordered
<1>9. StreamInOrder'
    BY <1>2, <1>7, <1>8, StreamStays DEF Ordered
<1>10. OutcomesInOrder'
  <2>1. \A k \in DOMAIN r2s' : k + 0 \in DOMAIN r2s /\ r2s'[k] = r2s[k + 0]
    BY <1>2, Shapes DEF FlowsShape
  <2>2. /\ \A e \in Ids : Given(e)' <=> Given(e)
        /\ \A e \in Ids : Silent(e) => Silent(e)'
        /\ \A e \in Ids : sent'[e].link = sent[e].link
        /\ inc'.updated = inc.updated
    BY <1>2, <1>3, <1>6 DEF Given, Silent, SenderRests
  <2> QED BY <2>1, <2>2, OutcomesStay DEF Ordered
<1> QED BY <1>7, <1>8, <1>9, <1>10 DEF Ordered

LEMMA ReceiverOnDispositionOrdered ==
    ASSUME Typed, Typed', Ordered, ReceiverOnDisposition
    PROVE  Ordered'
<1>1. Basics /\ Basics'
    BY BasicsHold, BasicsNext
<1>2. /\ inc' = inc /\ delivered' = delivered /\ r2s' = r2s /\ rcv' = rcv
      /\ s2r # << >> /\ Head(s2r).type # "transfer" /\ s2r' = Tail(s2r)
      /\ got \in [Ids -> GotDelivery]
    BY DEF ReceiverOnDisposition, ReceiverReads, Typed, TypeOK
<1>3. SenderRests
    BY DEF ReceiverOnDisposition, sender, SenderRests
<1>4. \A id \in Ids : /\ got'[id].link = got[id].link /\ got'[id].parts = got[id].parts
                      /\ got'[id].updates = got[id].updates
                      /\ got[id].remote_settled => got'[id].remote_settled
  <2>1. \A id \in Ids :
            \/ got'[id] = got[id]
            \/ \E s : got'[id] = [got[id] EXCEPT !.remote_settled = TRUE, !.settled = s]
    BY DEF ReceiverOnDisposition
  <2>2. \A id \in Ids : got[id] \in GotDelivery
    BY <1>2
  <2> QED BY <2>1, <2>2 DEF GotDelivery
<1>5. ReceivedStays
    BY <1>2, <1>4 DEF ReceivedStays
<1>6. Arrived' = Arrived /\ Arrived <= Arrived' /\ Arrived' <= out.next_pending_delivery
    BY <1>1, <1>2 DEF Arrived, Ordered, Buffered, Basics, Counts
<1>7. /\ Buffered' /\ SettledInOrder' /\ SenderAt' = SenderAt /\ SaysTrue
      /\ out.next_delivery_id <= out'.next_delivery_id
      /\ out.next_pending_delivery <= out'.next_pending_delivery
    BY <1>3, <1>6, RestStays
<1>8. ArrivedInOrder' /\ ReceiverAt' = ReceiverAt
    BY <1>5, <1>7, ArrivedStays DEF Ordered
<1>9. StreamInOrder'
    BY <1>2, <1>7, <1>8, StreamStays DEF Ordered
<1>10. OutcomesInOrder'
  <2>1. \A k \in DOMAIN r2s' : k + 0 \in DOMAIN r2s /\ r2s'[k] = r2s[k + 0]
    BY <1>2, Shapes DEF FlowsShape
  <2>2. \A e \in Ids : Given(e)' <=> Given(e)
    BY <1>4, <1>6 DEF Given
  <2>3. /\ \A e \in Ids : Silent(e) => Silent(e)'
        /\ \A e \in Ids : sent'[e].link = sent[e].link
        /\ inc'.updated = inc.updated
    BY <1>2, <1>3 DEF Silent, SenderRests
  <2> QED BY <2>1, <2>2, <2>3, OutcomesStay DEF Ordered
<1> QED BY <1>7, <1>8, <1>9, <1>10 DEF Ordered

\* One more part.
LEMMA NextPart ==
    ASSUME NEW n \in Nat
    PROVE  /\ Append(Parts(n), n) = Parts(n + 1)
           /\ Len(Parts(n)) = n /\ Parts(n) \in Seq(Nat)
<1>1. Len(Parts(n)) = n /\ Parts(n) \in Seq(Nat)
    BY DEF Parts
<1>2. Append(Parts(n), n) = Parts(n + 1)
  <2>1. /\ Append(Parts(n), n) \in Seq(Nat) /\ Len(Append(Parts(n), n)) = n + 1
        /\ \A k \in 1..(n + 1) :
               Append(Parts(n), n)[k] = IF k <= n THEN Parts(n)[k] ELSE n
    BY <1>1
  <2>2. Parts(n + 1) \in Seq(Nat) /\ Len(Parts(n + 1)) = n + 1
    BY DEF Parts
  <2>3. \A k \in 1..(n + 1) : Append(Parts(n), n)[k] = Parts(n + 1)[k]
    BY <2>1 DEF Parts
  <2> QED BY <2>1, <2>2, <2>3, SeqEqual
<1> QED BY <1>1, <1>2

\* What on_transfer makes of the delivery that a frame is a part of.
Extended(f) ==
    /\ f.delivery_id \in Ids /\ f.delivery_id = Arrived /\ f.handle \in Links
    /\ f.handle = sent[f.delivery_id].link /\ f.part \in Nat
    /\ Received(f).link = f.handle
    /\ Received(f).parts = Parts(f.part + 1)
    /\ f.handle \in SettledFirst => Received(f).remote_settled
    /\ NextDelivery(f) = Arrived + 1
    /\ \A l \in Links : l # f.handle => rcv[l].incomplete = Undefined

\* The transfer at the head of the stream is the one the receiver has to get next.
LEMMA HeadInOrder ==
    ASSUME Typed, Ordered, NEW f, f = Head(s2r), s2r # << >>, f.type = "transfer"
    PROVE  /\ Fault(f) # "frame sequence error" /\ Extended(f) /\ TrueTo(f)
           /\ Leads(After(f), Tail(s2r), SenderAt)
<1>1. Basics
    BY BasicsHold
<1>2. f = s2r[1] /\ 1 \in DOMAIN s2r /\ s2r \in Seq(ToReceiver)
  <2>1. s2r \in Seq(ToReceiver)
    BY DEF Typed
  <2> QED BY <2>1
<1>3. f \in TransferFrames /\ f.delivery_id \in Ids /\ TrueTo(f)
    BY <1>2, OnStream DEF Ordered
<1>4. f.handle \in Links /\ f.part \in Nat /\ f.settled \in BOOLEAN
    BY <1>3 DEF TransferFrames
<1>5. ReceiverAt = [id |-> f.delivery_id, part |-> f.part] /\ Leads(After(f), Tail(s2r), SenderAt)
  <2>1. PICK next \in Places :
            Passes(ReceiverAt, Head(s2r), next) /\ Leads(next, Tail(s2r), SenderAt)
    BY <1>2, LeadsTail DEF Ordered, StreamInOrder
  <2> QED BY <2>1 DEF Passes
<1>6. f.delivery_id = Arrived /\ f.part = IF Partial THEN Len(got[Arrived].parts) ELSE 0
    BY <1>5 DEF ReceiverAt
<1>7. f.handle = sent[f.delivery_id].link /\ (f.handle \in SettledFirst => f.settled)
    BY <1>3 DEF TrueTo
<1>8. f.delivery_id \in Nat /\ f.delivery_id # Undefined
    BY <1>1, <1>3 DEF Basics, Counts, Undefined
<1>9. CASE Partial
  <2>1. /\ SameMessage(Arrived) /\ got[Arrived].parts = Parts(Len(got[Arrived].parts))
        /\ inc.next_delivery_id = Arrived + 1
        /\ \A l \in Links : rcv[l].incomplete =
               IF l = sent[Arrived].link THEN Arrived ELSE Undefined
    BY <1>9 DEF Ordered, ArrivedInOrder
  <2>2. rcv[f.handle].incomplete = f.delivery_id
        /\ \A l \in Links : l # f.handle => rcv[l].incomplete = Undefined
    BY <1>4, <1>6, <1>7, <2>1
  <2>3. Continues(f)
    BY <1>8, <2>2 DEF Continues
  <2>4. Fault(f) # "frame sequence error"
    BY <2>2, <2>3 DEF Fault
  <2>5. Received(f) = [got[f.delivery_id] EXCEPT !.parts = Append(got[f.delivery_id].parts, f.part)]
    BY <2>3 DEF Received
  <2>6. got[f.delivery_id] \in GotDelivery
    BY <1>3 DEF Typed, TypeOK
  <2>7. /\ Received(f).link = got[f.delivery_id].link
        /\ Received(f).parts = Append(got[f.delivery_id].parts, f.part)
        /\ Received(f).remote_settled = got[f.delivery_id].remote_settled
    BY <2>5, <2>6 DEF GotDelivery
  <2>8. Received(f).parts = Parts(f.part + 1)
    <3>1. got[f.delivery_id].parts = Parts(f.part)
        BY <1>6, <1>9, <2>1
    <3> QED BY <1>4, <2>7, <3>1, NextPart
  <2>9. Received(f).link = f.handle /\ (f.handle \in SettledFirst => Received(f).remote_settled)
    BY <1>6, <1>7, <2>1, <2>7 DEF SameMessage
  <2>10. NextDelivery(f) = Arrived + 1
    BY <2>1, <2>3 DEF NextDelivery
  <2> QED BY <1>3, <1>4, <1>5, <1>6, <1>7, <2>2, <2>4, <2>8, <2>9, <2>10 DEF Extended
<1>10. CASE ~ Partial
  <2>1. inc.next_delivery_id \in {Arrived, IF Arrived = 0 THEN Undefined ELSE Arrived}
        /\ \A l \in Links : rcv[l].incomplete = Undefined
    BY <1>10 DEF Ordered, ArrivedInOrder, Partial
  <2>2. ~ Continues(f)
    BY <1>4, <2>1 DEF Continues
  <2>3. Expected(f) = f.delivery_id
    BY <1>6, <2>1 DEF Expected
  <2>4. Fault(f) # "frame sequence error"
    BY <2>2, <2>3 DEF Fault
  <2>5. Received(f) = [link |-> f.handle, parts |-> <<f.part>>, settled |-> FALSE,
                       state |-> NoState, remote_settled |-> f.settled, updates |-> 0]
    BY <2>2 DEF Received
  <2>6. <<f.part>> = Parts(f.part + 1)
    <3>1. f.part = 0
        BY <1>6, <1>10
    <3>2. Parts(0) = << >>
        BY DEF Parts
    <3>3. Append(Parts(0), 0) = Parts(0 + 1)
        BY NextPart
    <3>4. Append(<< >>, 0) = <<0>>
        OBVIOUS
    <3> QED BY <3>1, <3>2, <3>3, <3>4
  <2>7. NextDelivery(f) = Arrived + 1
    BY <1>6, <2>2, <2>3 DEF NextDelivery
  <2>8. /\ Received(f).link = f.handle /\ Received(f).parts = Parts(f.part + 1)
        /\ f.handle \in SettledFirst => Received(f).remote_settled
    BY <1>4, <1>7, <2>5, <2>6
  <2>9. Extended(f)
    BY <1>3, <1>4, <1>6, <1>7, <2>1, <2>7, <2>8 DEF Extended
  <2> QED BY <1>3, <1>5, <2>4, <2>9
<1> QED BY <1>9, <1>10

LEMMA ReceiverOnTransferOrdered ==
    ASSUME Typed, Typed', Ordered, NeverOverflows', ReceiverOnTransfer
    PROVE  Ordered' /\ failed' = "none"
<1>1. Basics /\ Basics'
    BY BasicsHold, BasicsNext
<1>2. PICK f : f = Head(s2r)
    OBVIOUS
<1>3. PICK l : l = f.handle
    OBVIOUS
<1>4. PICK a : a = f.delivery_id
    OBVIOUS
<1>5. /\ failed = "none" /\ s2r # << >> /\ f.type = "transfer" /\ s2r' = Tail(s2r) /\ r2s' = r2s
      /\ IF Fault(f) # "none" THEN TransferFails(f)
         ELSE IF f.more THEN TransferMore(f) ELSE TransferLast(f)
    BY <1>2 DEF ReceiverOnTransfer, ReceiverReads
<1>6. SenderRests
    BY DEF ReceiverOnTransfer, sender, SenderRests
<1>7. /\ Fault(f) # "frame sequence error" /\ Extended(f) /\ TrueTo(f)
      /\ Leads(After(f), Tail(s2r), SenderAt)
    BY <1>2, <1>5, HeadInOrder
<1>8. Fault(f) = "none"
  <2>1. ASSUME Fault(f) # "none" PROVE FALSE
    <3>1. failed' = Fault(f)
        BY <1>5, <2>1 DEF TransferFails
    <3>2. Fault(f) = "circular buffer overflow"
        BY <1>7, <2>1 DEF Fault
    <3> QED BY <3>1, <3>2 DEF NeverOverflows
  <2> QED BY <2>1
<1>9. /\ a \in Ids /\ a \in Nat /\ a = Arrived /\ l \in Links /\ l = sent[a].link /\ f.part \in Nat
      /\ Received(f).link = l /\ Received(f).parts = Parts(f.part + 1)
      /\ l \in SettledFirst => Received(f).remote_settled
      /\ NextDelivery(f) = a + 1
      /\ \A h \in Links : h # l => rcv[h].incomplete = Undefined
    BY <1>1, <1>3, <1>4, <1>7 DEF Extended, Basics, Counts
<1>10. /\ a < out.next_delivery_id /\ f.part < sent[a].frames
       /\ (f.more <=> f.part + 1 < sent[a].frames)
       /\ ~ f.more => a < out.next_pending_delivery
    BY <1>4, <1>7 DEF TrueTo
<1>11. /\ inc \in Incoming /\ got \in [Ids -> GotDelivery] /\ rcv \in [Links -> ReceiverLink]
       /\ inc' \in Incoming /\ got' \in [Ids -> GotDelivery] /\ rcv' \in [Links -> ReceiverLink]
    BY DEF Typed, TypeOK
<1>12. sent[a].frames \in Nat /\ out.next_delivery_id \in Nat
       /\ out.next_pending_delivery \in Nat /\ Arrived \in Nat
    BY <1>1, <1>9 DEF Basics, Counts, Fields
\* What the two cases have to show.
<1>13. ASSUME Arrived <= Arrived', Arrived' <= out.next_pending_delivery, OutcomesInOrder',
              ArrivedInOrder', ReceiverAt' = After(f), failed' = failed
       PROVE  Ordered' /\ failed' = "none"
  <2>1. /\ Buffered' /\ SettledInOrder' /\ SenderAt' = SenderAt /\ SaysTrue
        /\ out.next_delivery_id <= out'.next_delivery_id
        /\ out.next_pending_delivery <= out'.next_pending_delivery
    BY <1>6, <1>13, RestStays
  <2>2. Leads(ReceiverAt, s2r, SenderAt)'
    BY <1>5, <1>7, <1>13, <2>1 DEF Leads, Passes
  <2>3. ASSUME NEW k \in DOMAIN s2r', s2r'[k].type = "transfer"
        PROVE  TrueTo(s2r[k])'
    <3>1. PICK g : g = s2r'[k]
        OBVIOUS
    <3>2. k + 1 \in DOMAIN s2r /\ g = s2r[k + 1]
        BY <1>5, <2>3, <3>1, HeadTaken
    <3>3. g.delivery_id \in Ids /\ TrueTo(g)
        BY <2>3, <3>1, <3>2, OnStream DEF Ordered
    <3>4. g.delivery_id < out.next_delivery_id
        BY <3>3 DEF TrueTo
    <3>5. TrueTo(g)'
        BY <2>1, <3>3, <3>4, StaysTrue DEF SaysTrue
    <3> QED BY <3>1, <3>5 DEF TrueTo
  <2>4. StreamInOrder'
    BY <2>2, <2>3 DEF StreamInOrder
  <2> QED BY <1>5, <1>13, <2>1, <2>4 DEF Ordered
\* The deliveries that have arrived before, and the message this frame is a part of.
<1>14. ASSUME \A e \in Ids : e # a => got'[e] = got[e]
       PROVE  \A e \in 0..(a - 1) : SameMessage(e)' /\ got'[e].parts = Parts(sent'[e].frames)
  <2>1. SUFFICES ASSUME NEW e \in 0..(a - 1)
                 PROVE  SameMessage(e)' /\ got'[e].parts = Parts(sent'[e].frames)
    OBVIOUS
  <2>2. e \in Ids /\ e # a /\ e \in 0..(Arrived - 1)
    BY <1>1, <1>9 DEF Basics, Counts
  <2>3. got'[e] = got[e] /\ SameMessage(e) /\ got[e].parts = Parts(sent[e].frames)
    BY <1>14, <2>2 DEF Ordered, ArrivedInOrder
  <2> QED BY <1>6, <2>3 DEF SameMessage, SenderRests
<1>15. ASSUME got'[a].link = Received(f).link, got'[a].parts = Received(f).parts,
              got'[a].remote_settled = Received(f).remote_settled
       PROVE  SameMessage(a)' /\ got'[a].parts = Parts(f.part + 1)
    BY <1>6, <1>9, <1>15 DEF SameMessage, SenderRests
<1>16. Len(Parts(f.part + 1)) = f.part + 1
  <2>1. f.part + 1 \in Nat
    BY <1>9
  <2> QED BY <2>1, NextPart
<1>17. CASE f.more
  <2>1. TransferMore(f)
    BY <1>5, <1>8, <1>17
  <2>2. /\ got' = [got EXCEPT ![a] = Received(f)] /\ delivered' = delivered /\ failed' = failed
        /\ rcv' = [rcv EXCEPT ![l] = [rcv[l] EXCEPT !.incomplete = a]]
        /\ inc' = [inc EXCEPT !.next_transfer_id = inc.next_transfer_id + 1,
                              !.next_delivery_id = a + 1]
    BY <1>3, <1>4, <1>9, <2>1 DEF TransferMore
  <2>3. /\ got'[a] = Received(f) /\ (\A e \in Ids : e # a => got'[e] = got[e])
        /\ inc'.next_delivery_id = a + 1 /\ inc'.updated = inc.updated
    BY <1>9, <1>11, <2>2 DEF Incoming
  <2>4. rcv'[l].incomplete = a /\ \A h \in Links : h # l => rcv'[h].incomplete = Undefined
    <3>1. rcv'[l] = [rcv[l] EXCEPT !.incomplete = a] /\ rcv[l] \in ReceiverLink
          /\ \A h \in Links : h # l => rcv'[h] = rcv[h]
        BY <1>9, <1>11, <2>2
    <3> QED BY <1>9, <3>1 DEF ReceiverLink
  <2>5. Arrived' = a /\ Partial'
    <3>1. a # Undefined
        BY <1>9 DEF Undefined
    <3> QED BY <1>9, <2>2, <2>4, <3>1 DEF Arrived, Partial
  <2>6. SameMessage(a)' /\ got'[a].parts = Parts(f.part + 1)
    BY <1>15, <2>3
  <2>7. ReceiverAt' = After(f)
    BY <1>4, <1>16, <1>17, <2>5, <2>6 DEF ReceiverAt, After
  <2>8. ArrivedInOrder'
    <3>1. delivered' = Parts(Arrived') /\ Arrived' < out'.next_delivery_id
        BY <1>6, <1>9, <1>10, <2>2, <2>5 DEF Ordered, ArrivedInOrder, SenderRests
    <3>2. SameMessage(Arrived)'
        BY <2>5, <2>6 DEF SameMessage
    <3>3. got'[Arrived'].parts = Parts(Len(got'[Arrived'].parts))
        BY <1>16, <2>5, <2>6
    <3>4. \A h \in Links : rcv'[h].incomplete =
              IF h = sent'[Arrived'].link THEN Arrived' ELSE Undefined
        BY <1>6, <1>9, <2>4, <2>5 DEF SenderRests
    <3>5. \A e \in 0..(Arrived' - 1) : SameMessage(e)' /\ got'[e].parts = Parts(sent'[e].frames)
        BY <1>14, <2>3, <2>5
    <3> QED BY <2>3, <2>5, <3>1, <3>2, <3>3, <3>4, <3>5 DEF ArrivedInOrder
  <2>9. OutcomesInOrder'
    <3>1. \A e \in Ids : Given(e)' <=> Given(e)
        BY <1>9, <1>12, <2>3, <2>5 DEF Given
    <3>2. \A k \in DOMAIN r2s' : k + 0 \in DOMAIN r2s /\ r2s'[k] = r2s[k + 0]
        BY <1>5, Shapes DEF FlowsShape
    <3>3. /\ \A e \in Ids : Silent(e) => Silent(e)'
          /\ \A e \in Ids : sent'[e].link = sent[e].link
        BY <1>6 DEF Silent, SenderRests
    <3> QED BY <2>3, <3>1, <3>2, <3>3, OutcomesStay DEF Ordered
  <2>10. Arrived <= Arrived' /\ Arrived' <= out.next_pending_delivery
    BY <1>9, <1>12, <2>5 DEF Ordered, Buffered
  <2> QED BY <1>13, <2>2, <2>7, <2>8, <2>9, <2>10
<1>18. CASE ~ f.more
  <2>1. TransferLast(f)
    BY <1>5, <1>8, <1>18
  <2>3. /\ got' = [got EXCEPT ![a] =
                      IF l \in AutoAccept
                      THEN [Received(f) EXCEPT !.state = "accepted",
                                               !.settled = l \notin SettlesSecond,
                                               !.updates = 1]
                      ELSE Received(f)]
        /\ delivered' = Append(delivered, a) /\ failed' = failed
        /\ \E c, i : rcv' = [rcv EXCEPT ![l] =
                      [credit |-> c, delivery_count |-> rcv[l].delivery_count + 1,
                       issue_flow |-> i, incomplete |-> Undefined]]
        /\ inc' = [inc EXCEPT !.next_transfer_id = inc.next_transfer_id + 1,
                              !.next_delivery_id = a + 1,
                              !.updated = IF l \in AutoAccept /\ ~ Received(f).remote_settled
                                          THEN Append(inc.updated, a) ELSE inc.updated]
    BY <1>3, <1>4, <1>9, <2>1 DEF TransferLast
  <2>4. /\ \A e \in Ids : e # a => got'[e] = got[e]
        /\ inc'.next_delivery_id = a + 1
        /\ inc'.updated = IF l \in AutoAccept /\ ~ Received(f).remote_settled
                          THEN Append(inc.updated, a) ELSE inc.updated
    BY <1>9, <1>11, <2>3 DEF Incoming
  <2>5. /\ got'[a].link = Received(f).link /\ got'[a].parts = Received(f).parts
        /\ got'[a].remote_settled = Received(f).remote_settled
        /\ l \in AutoAccept => got'[a].updates = 1
    <3>1. Received(f) \in GotDelivery
      <4>1. f \in TransferFrames
        <5>1. 1 \in DOMAIN s2r /\ f = s2r[1]
            BY <1>2, <1>5, HeadTaken
        <5> QED BY <1>5, <5>1, OnStream DEF Ordered
      <4> QED BY <1>8, <4>1, ReceivedType
    <3>2. got'[a] = IF l \in AutoAccept
                    THEN [Received(f) EXCEPT !.state = "accepted",
                                             !.settled = l \notin SettlesSecond, !.updates = 1]
                    ELSE Received(f)
        BY <1>9, <1>11, <2>3
    <3> QED BY <3>1, <3>2 DEF GotDelivery
  <2>6. SameMessage(a)' /\ got'[a].parts = Parts(f.part + 1)
    BY <1>15, <2>5
  <2>7. \A h \in Links : rcv'[h].incomplete = Undefined
    <3>1. rcv'[l].incomplete = Undefined /\ \A h \in Links : h # l => rcv'[h] = rcv[h]
        BY <1>9, <1>11, <2>3
    <3> QED BY <1>9, <3>1
  <2>8. Arrived' = a + 1 /\ ~ Partial' /\ delivered' = Parts(a + 1)
    <3>1. delivered \in Seq(Ids)
        BY <1>1 DEF Basics, Fields
    <3>2. Arrived' = a + 1
        BY <1>9, <2>3, <3>1 DEF Arrived
    <3>3. delivered = Parts(a)
        BY <1>9 DEF Ordered, ArrivedInOrder
    <3>4. delivered' = Parts(a + 1)
        BY <1>9, <2>3, <3>3, NextPart
    <3> QED BY <2>7, <3>2, <3>4 DEF Partial
  <2>9. ReceiverAt' = After(f)
    BY <1>4, <1>18, <2>8 DEF ReceiverAt, After
  <2>10. f.part + 1 = sent[a].frames
    BY <1>9, <1>10, <1>12, <1>18
  <2>11. ArrivedInOrder'
    <3>1. \A e \in 0..(a - 1) : SameMessage(e)' /\ got'[e].parts = Parts(sent'[e].frames)
        BY <1>14, <2>4
    <3>2. SameMessage(a)' /\ got'[a].parts = Parts(sent'[a].frames)
        BY <1>6, <2>6, <2>10 DEF SenderRests
    <3>3. ASSUME NEW e \in 0..(Arrived' - 1)
          PROVE  SameMessage(e)' /\ got'[e].parts = Parts(sent'[e].frames)
      <4>1. e \in 0..(a - 1) \/ e = a
        BY <1>9, <2>8, <3>3
      <4> QED BY <3>1, <3>2, <4>1
    <3> QED BY <2>4, <2>8, <3>3 DEF ArrivedInOrder
  <2>12. OutcomesInOrder'
    <3>1. ~ Given(a) /\ \A e \in Ids : e # a => (Given(e)' <=> Given(e))
        BY <1>1, <1>9, <1>12, <2>4, <2>8 DEF Given, Basics, Counts
    <3>2. \/ inc'.updated = inc.updated
          \/ /\ inc'.updated = Append(inc.updated, a)
             /\ Given(a)' /\ sent[a].link \notin SettledFirst
      <4>1. CASE l \in AutoAccept /\ ~ Received(f).remote_settled
        <5>1. Given(a)'
            BY <1>9, <2>5, <2>8, <4>1 DEF Given
        <5> QED BY <1>9, <2>4, <4>1, <5>1
      <4>2. CASE ~ (l \in AutoAccept /\ ~ Received(f).remote_settled)
        BY <2>4, <4>2
      <4> QED BY <4>1, <4>2
    <3>3. sent' = sent
        BY <1>6 DEF SenderRests
    <3> QED BY <1>5, <1>9, <3>1, <3>2, <3>3, OutcomeTold DEF Ordered
  <2>13. Arrived <= Arrived' /\ Arrived' <= out.next_pending_delivery
    BY <1>9, <1>10, <1>12, <1>18, <2>8
  <2> QED BY <1>13, <2>3, <2>9, <2>11, <2>12, <2>13
<1> QED BY <1>17, <1>18

\* The dispositions that a run of Incoming.process writes: each speaks of deliveries whose
\* outcome waits to be told, no two of the same one, and no other is added to the stream.
Announced == WriteDispositions(UpdatedIncoming, "receiver")

LEMMA OutcomesWritten ==
    ASSUME Typed, Typed', Ordered, ReceiverProcess
    PROVE  /\ \A k \in DOMAIN Announced : \A x \in Covered(Announced[k]) : Waiting(x)
           /\ \A j, k \in DOMAIN Announced :
                  j # k => Covered(Announced[j]) \cap Covered(Announced[k]) = {}
           /\ \A k \in DOMAIN r2s' : r2s'[k].type = "disposition" =>
                  \/ k \in DOMAIN r2s /\ r2s'[k] = r2s[k]
                  \/ k - Len(r2s) \in DOMAIN Announced /\ r2s'[k] = Announced[k - Len(r2s)]
<1> DEFINE count == Cardinality(Asking)
           opening == IF WindowLow THEN <<SessionFlow(Freed)>> ELSE <<>>
<1>1. PICK order \in [1..count -> Asking] :
          r2s' = r2s \o Announced \o opening \o [k \in 1..count |-> LinkFlow(Freed, order[k])]
    BY DEF ReceiverProcess, Announced
<1> DEFINE asked == [k \in 1..count |-> LinkFlow(Freed, order[k])]
<1>2. Basics
    BY BasicsHold
<1>3. inbuf \in Buffer(InCapacity, Ids) /\ r2s \in Seq(ToSender)
    BY DEF Typed, TypeOK
<1>4. /\ SessionFlow(Freed) \in FlowFrames
      /\ \A l \in Links : LinkFlow(Freed, l) \in FlowFrames
  <2>1. Freed \in Buffer(InCapacity, Ids)
    BY <1>3, Capacities, PopIfType DEF Freed
  <2> QED BY <2>1, FlowType
<1>5. count \in Nat /\ \A k \in 1..count : order[k] \in Links
  <2>1. IsFiniteSet(Asking)
    BY LinkOptions, FS_Subset DEF Asking
  <2>2. count \in Nat
    BY <2>1, FS_CardinalityType
  <2> QED BY <1>1, <2>2 DEF Asking
<1> HIDE DEF count
<1>6. /\ Announced \in Seq(ToSender) /\ opening \in Seq(ToSender) /\ asked \in Seq(ToSender)
      /\ \A k \in DOMAIN opening : opening[k].type = "flow"
      /\ \A k \in DOMAIN asked : asked[k].type = "flow"
  <2>1. Announced \in Seq(ToSender)
    BY UpdatedIncomingType, DispositionsFit DEF Announced
  <2>2. SessionFlow(Freed) \in ToSender /\ \A k \in 1..count : LinkFlow(Freed, order[k]) \in ToSender
    BY <1>4, <1>5 DEF ToSender
  <2>3. SessionFlow(Freed).type = "flow" /\ \A k \in 1..count : LinkFlow(Freed, order[k]).type = "flow"
    BY <1>4, <1>5 DEF FlowFrames
  <2>4. opening \in Seq(ToSender) /\ \A k \in DOMAIN opening : opening[k].type = "flow"
    BY <2>2, <2>3
  <2>5. asked \in Seq(ToSender) /\ \A k \in DOMAIN asked : asked[k].type = "flow"
    BY <1>5, <2>2, <2>3
  <2> QED BY <2>1, <2>4, <2>5
<1>7. /\ \A k \in DOMAIN Announced : \A x \in Covered(Announced[k]) : Waiting(x)
      /\ \A j, k \in DOMAIN Announced :
             j # k => Covered(Announced[j]) \cap Covered(Announced[k]) = {}
  <2> DEFINE ds == UpdatedIncoming
  <2>1. inc.updated \in Seq(Ids)
    BY <1>2 DEF Basics, Fields
  <2>2. Len(ds) = Len(inc.updated) /\ \A i \in 1..Len(inc.updated) : ds[i].id = inc.updated[i]
    BY <2>1 DEF UpdatedIncoming
  <2>3. \A i, j \in 1..Len(ds) : ds[i].id = ds[j].id => i = j
    BY <2>1, <2>2 DEF Ordered, OutcomesInOrder, ToldOnce
  <2>4. ds \in Seq(Deliveries(Ids, States)) /\ Ids \in SUBSET Int
    BY <1>2, UpdatedIncomingType DEF Basics, Counts
  <2> HIDE DEF ds
  <2>5. /\ \A k \in DOMAIN WriteDispositions(ds, "receiver") :
               \A x \in Covered(WriteDispositions(ds, "receiver")[k]) :
                   \E i \in 1..Len(ds) : ds[i].id = x
        /\ \A j, k \in DOMAIN WriteDispositions(ds, "receiver") : j # k =>
               Covered(WriteDispositions(ds, "receiver")[j])
                   \cap Covered(WriteDispositions(ds, "receiver")[k]) = {}
    BY <2>3, <2>4, FramesApart
  <2>6. Announced = WriteDispositions(ds, "receiver")
    BY DEF ds, Announced
  <2>7. \A i \in 1..Len(ds) : Waiting(ds[i].id)
    BY <2>1, <2>2 DEF Waiting
  <2> QED BY <2>5, <2>6, <2>7
<1> HIDE DEF opening, asked
<1>8. ASSUME NEW k \in DOMAIN r2s', r2s'[k].type = "disposition"
      PROVE  \/ k \in DOMAIN r2s /\ r2s'[k] = r2s[k]
             \/ k - Len(r2s) \in DOMAIN Announced /\ r2s'[k] = Announced[k - Len(r2s)]
  <2> DEFINE said == r2s \o Announced
             opened == said \o opening
  <2>1. said \in Seq(ToSender) /\ opened \in Seq(ToSender) /\ r2s' = opened \o asked
    BY <1>1, <1>3, <1>6 DEF asked
  <2>2. \/ k \in DOMAIN opened /\ r2s'[k] = opened[k]
        \/ k - Len(opened) \in DOMAIN asked /\ r2s'[k] = asked[k - Len(opened)]
    <3> HIDE DEF opened
    <3> QED BY <1>6, <1>8, <2>1, Appended
  <2>3. k \in DOMAIN opened /\ r2s'[k] = opened[k]
    <3> HIDE DEF opened
    <3> QED BY <1>6, <1>8, <2>2
  <2>4. \/ k \in DOMAIN said /\ opened[k] = said[k]
        \/ k - Len(said) \in DOMAIN opening /\ opened[k] = opening[k - Len(said)]
    <3> HIDE DEF said
    <3> QED BY <1>6, <2>1, <2>3, Appended
  <2>5. k \in DOMAIN said /\ r2s'[k] = said[k]
    <3> HIDE DEF said, opened
    <3> QED BY <1>6, <1>8, <2>3, <2>4
  <2> QED BY <1>3, <1>6, <2>5, Appended
<1> QED BY <1>7, <1>8

LEMMA ReceiverProcessOrdered ==
    ASSUME Typed, Typed', Ordered, ReceiverProcess
    PROVE  Ordered'
<1>1. Basics /\ Basics'
    BY BasicsHold, BasicsNext
<1>2. /\ delivered' = delivered /\ got' = got /\ s2r' = s2r
      /\ inbuf \in Buffer(InCapacity, Ids) /\ inc \in Incoming /\ rcv \in [Links -> ReceiverLink]
      /\ r2s \in Seq(ToSender)
      /\ inc' = [inc EXCEPT !.updated = <<>>, !.max_transfer_id =
                    IF WindowLow \/ Asking # {} THEN Uint(inc.next_transfer_id) + Available(Freed)
                    ELSE @]
      /\ rcv' = [l \in Links |-> [rcv[l] EXCEPT !.issue_flow = FALSE]]
    BY DEF ReceiverProcess, Typed, TypeOK
<1>3. SenderRests
    BY DEF ReceiverProcess, sender, SenderRests
<1>4. inc'.updated = <<>> /\ inc'.next_delivery_id = inc.next_delivery_id
    BY <1>2 DEF Incoming
<1>5. ReceivedStays
  <2>1. \A l \in Links : rcv'[l].incomplete = rcv[l].incomplete
    BY <1>2 DEF ReceiverLink
  <2> QED BY <1>2, <1>4, <2>1 DEF ReceivedStays
<1>6. Arrived' = Arrived /\ Arrived <= Arrived' /\ Arrived' <= out.next_pending_delivery
    BY <1>1, <1>2 DEF Arrived, Ordered, Buffered, Basics, Counts
<1>7. /\ Buffered' /\ SettledInOrder' /\ SenderAt' = SenderAt /\ SaysTrue
      /\ out.next_delivery_id <= out'.next_delivery_id
      /\ out.next_pending_delivery <= out'.next_pending_delivery
    BY <1>3, <1>6, RestStays
<1>8. ArrivedInOrder' /\ ReceiverAt' = ReceiverAt
    BY <1>5, <1>7, ArrivedStays DEF Ordered
<1>9. StreamInOrder'
    BY <1>2, <1>7, <1>8, StreamStays DEF Ordered
\* The frames that are written.
<1>10. /\ \A k \in DOMAIN Announced : \A x \in Covered(Announced[k]) : Waiting(x)
       /\ \A j, k \in DOMAIN Announced :
              j # k => Covered(Announced[j]) \cap Covered(Announced[k]) = {}
    BY OutcomesWritten
<1>11. ASSUME NEW k \in DOMAIN r2s', r2s'[k].type = "disposition"
       PROVE  \/ k \in DOMAIN r2s /\ r2s'[k] = r2s[k]
              \/ k - Len(r2s) \in DOMAIN Announced /\ r2s'[k] = Announced[k - Len(r2s)]
    BY <1>11, OutcomesWritten
<1>12. ASSUME NEW e, OnItsWay(e)' PROVE OnItsWay(e) \/ Waiting(e)
  <2>1. PICK k \in DOMAIN r2s' : r2s'[k].type = "disposition" /\ e \in Covered(r2s'[k])
    BY <1>12 DEF OnItsWay, Covered
  <2>2. CASE k \in DOMAIN r2s /\ r2s'[k] = r2s[k]
    BY <2>1, <2>2 DEF OnItsWay
  <2>3. CASE k - Len(r2s) \in DOMAIN Announced /\ r2s'[k] = Announced[k - Len(r2s)]
    BY <1>10, <2>1, <2>3
  <2> QED BY <1>11, <2>1, <2>2, <2>3
<1>13. \A e : ~ Waiting(e)'
    BY <1>4 DEF Waiting
<1>14. ToldOnce'
  <2>1. \A j, k \in DOMAIN inc'.updated : inc'.updated[j] = inc'.updated[k] => j = k
    BY <1>4
  <2>2. \A x \in Int : ~ (Waiting(x) /\ OnItsWay(x))
    BY DEF Ordered, OutcomesInOrder, ToldOnce
  <2>3. ASSUME NEW j \in DOMAIN r2s', NEW k \in DOMAIN r2s', j # k,
               r2s'[j].type = "disposition", r2s'[k].type = "disposition",
               NEW x \in Covered(r2s'[j]), x \in Covered(r2s'[k])
        PROVE  FALSE
    <3>1. x \in Int
        BY <2>3 DEF Covered
    <3>2. CASE j \in DOMAIN r2s /\ r2s'[j] = r2s[j]
      <4>1. OnItsWay(x)
        BY <2>3, <3>2 DEF OnItsWay
      <4>2. CASE k \in DOMAIN r2s /\ r2s'[k] = r2s[k]
        BY <2>3, <3>2, <4>2 DEF Ordered, OutcomesInOrder, ToldOnce
      <4>3. CASE k - Len(r2s) \in DOMAIN Announced /\ r2s'[k] = Announced[k - Len(r2s)]
        BY <1>10, <2>2, <2>3, <3>1, <4>1, <4>3
      <4> QED BY <1>11, <2>3, <4>2, <4>3
    <3>3. CASE j - Len(r2s) \in DOMAIN Announced /\ r2s'[j] = Announced[j - Len(r2s)]
      <4>1. Waiting(x)
        BY <1>10, <2>3, <3>3
      <4>2. CASE k \in DOMAIN r2s /\ r2s'[k] = r2s[k]
        <5>1. OnItsWay(x)
            BY <2>3, <4>2 DEF OnItsWay
        <5> QED BY <2>2, <3>1, <4>1, <5>1
      <4>3. CASE k - Len(r2s) \in DOMAIN Announced /\ r2s'[k] = Announced[k - Len(r2s)]
        <5>1. j - Len(r2s) # k - Len(r2s)
          <6>1. Len(r2s) \in Nat /\ j \in Int /\ k \in Int
            BY <1>2, ShapesNext DEF FlowsShape
          <6> QED BY <2>3, <6>1
        <5> QED BY <1>10, <2>3, <3>3, <4>3, <5>1
      <4> QED BY <1>11, <2>3, <4>2, <4>3
    <3> QED BY <1>11, <2>3, <3>2, <3>3
  <2>4. \A j, k \in DOMAIN r2s' :
            j # k /\ r2s'[j].type = "disposition" /\ r2s'[k].type = "disposition"
                => Covered(r2s'[j]) \cap Covered(r2s'[k]) = {}
    BY <2>3
  <2> QED BY <1>13, <2>1, <2>4 DEF ToldOnce, Covered
<1>15. OutcomesInOrder'
  <2>1. \A e \in Ids : e \in Int /\ (Given(e)' <=> Given(e)) /\ (Silent(e)' <=> Silent(e))
    BY <1>1, <1>2, <1>3, <1>6 DEF Given, Silent, SenderRests, Basics, Counts
  <2>2. ASSUME NEW e \in Int, Waiting(e)' \/ OnItsWay(e)'
        PROVE  e \in Ids /\ Given(e)' /\ sent'[e].link \notin SettledFirst
    <3>1. Waiting(e) \/ OnItsWay(e)
        BY <1>12, <1>13, <2>2
    <3>2. e \in Ids /\ Given(e) /\ sent[e].link \notin SettledFirst
        BY <3>1 DEF Ordered, OutcomesInOrder
    <3> QED BY <1>3, <2>1, <3>2 DEF SenderRests
  <2>3. ASSUME NEW e \in Ids, ~ Given(e)' \/ Waiting(e)' \/ OnItsWay(e)'
        PROVE  Silent(e)'
    <3>1. ~ Given(e) \/ Waiting(e) \/ OnItsWay(e)
        BY <1>12, <1>13, <2>1, <2>3
    <3> QED BY <2>1, <3>1 DEF Ordered, OutcomesInOrder
  <2> QED BY <1>14, <2>2, <2>3 DEF OutcomesInOrder
<1> QED BY <1>7, <1>8, <1>9, <1>15 DEF Ordered

-----------------------------------------------------------------------------
(* The theorems.                                                            *)

LEMMA InitOrdered == Init => Ordered /\ failed = "none"
<1> SUFFICES ASSUME Init PROVE Ordered
    BY DEF Init
<1>1. /\ out.next_delivery_id = 0 /\ out.next_pending_delivery = 0
      /\ outbuf = EmptyBuffer(OutCapacity) /\ s2r = <<>> /\ r2s = <<>> /\ delivered = <<>>
      /\ inc.updated = <<>> /\ inc.next_delivery_id = Undefined
      /\ \A l \in Links : rcv[l].incomplete = Undefined
      /\ \A id \in Ids : /\ sent[id].link = NoHandle /\ ~ sent[id].settled
                         /\ ~ sent[id].remote_settled /\ sent[id].remote_state = NoState
                         /\ sent[id].next_to_send = 0
    BY DEF Init
<1>2. MaxDeliveries \in Nat /\ Ids = 0..(MaxDeliveries - 1)
    BY Bounds DEF Ids
<1>3. Arrived = 0 /\ Oldest = 0 /\ ~ Partial
    BY <1>1 DEF Arrived, Oldest, Partial, EmptyBuffer
<1>4. Buffered
    BY <1>1, <1>2, <1>3, Capacities, EmptyInOrder DEF Buffered
<1>5. StreamInOrder
  <2>1. SenderAt = [id |-> 0, part |-> 0] /\ ReceiverAt = [id |-> 0, part |-> 0]
    BY <1>1, <1>3 DEF SenderAt, ReceiverAt
  <2>2. [id |-> 0, part |-> 0] \in Places /\ s2r \in Seq(ToReceiver)
        /\ \A k \in DOMAIN s2r : s2r[k].type # "transfer"
    BY <1>1 DEF Places
  <2>3. Leads(ReceiverAt, s2r, SenderAt)
    BY <2>1, <2>2, LeadsNowhere
  <2> QED BY <1>1, <2>3 DEF StreamInOrder
<1>6. ArrivedInOrder
    BY <1>1, <1>3 DEF ArrivedInOrder, Parts
<1>7. OutcomesInOrder
  <2>1. \A e : ~ Waiting(e) /\ ~ OnItsWay(e)
    BY <1>1 DEF Waiting, OnItsWay
  <2>2. \A e \in Ids : Silent(e)
    BY <1>1 DEF Silent
  <2>3. ToldOnce
    BY <1>1, <2>1 DEF ToldOnce
  <2> QED BY <2>1, <2>2, <2>3 DEF OutcomesInOrder
<1>8. NoHandle \notin SettledFirst
    BY LinkOptions DEF NoHandle, Undefined
<1>9. SettledInOrder
    BY <1>1, <1>2, <1>3, <1>8 DEF SettledInOrder
<1> QED BY <1>4, <1>5, <1>6, <1>7, <1>9 DEF Ordered

\* A stuttering step.
LEMMA StutterOrdered ==
    ASSUME Typed, Typed', Ordered, UNCHANGED vars
    PROVE  Ordered'
<1>1. Basics /\ Basics'
    BY BasicsHold, BasicsNext
<1>2. /\ inc' = inc /\ delivered' = delivered /\ s2r' = s2r /\ r2s' = r2s /\ got' = got
      /\ rcv' = rcv
    BY DEF vars, receiver
<1>3. SenderRests
    BY DEF vars, sender, SenderRests
<1>4. ReceivedStays
    BY <1>2 DEF ReceivedStays
<1>5. Arrived' = Arrived /\ Arrived <= Arrived' /\ Arrived' <= out.next_pending_delivery
    BY <1>1, <1>2 DEF Arrived, Ordered, Buffered, Basics, Counts
<1>6. /\ Buffered' /\ SettledInOrder' /\ SenderAt' = SenderAt /\ SaysTrue
      /\ out.next_delivery_id <= out'.next_delivery_id
      /\ out.next_pending_delivery <= out'.next_pending_delivery
    BY <1>3, <1>5, RestStays
<1>7. ArrivedInOrder' /\ ReceiverAt' = ReceiverAt
    BY <1>4, <1>6, ArrivedStays DEF Ordered
<1>8. StreamInOrder'
    BY <1>2, <1>6, <1>7, StreamStays DEF Ordered
<1>9. OutcomesInOrder'
  <2>1. \A k \in DOMAIN r2s' : k + 0 \in DOMAIN r2s /\ r2s'[k] = r2s[k + 0]
    BY <1>2, Shapes DEF FlowsShape
  <2>2. /\ \A e \in Ids : Given(e)' <=> Given(e)
        /\ \A e \in Ids : Silent(e) => Silent(e)'
        /\ \A e \in Ids : sent'[e].link = sent[e].link
        /\ inc'.updated = inc.updated
    BY <1>2, <1>3, <1>5 DEF Given, Silent, SenderRests
  <2> QED BY <2>1, <2>2, OutcomesStay DEF Ordered
<1> QED BY <1>6, <1>7, <1>8, <1>9 DEF Ordered

\* No handler has thrown.
Unfailed == failed = "none"

LEMMA StepOrdered ==
    Usual /\ Typed /\ Typed' /\ NeverOverflows' /\ Ordered /\ Unfailed /\ [Next]_vars
        => Ordered' /\ Unfailed'
<1> SUFFICES ASSUME Usual, Typed, Typed', NeverOverflows', Ordered, failed = "none", [Next]_vars
             PROVE  Ordered' /\ failed' = "none"
    BY DEF Unfailed
<1>1. CASE UNCHANGED vars
    BY <1>1, StutterOrdered DEF vars, receiver
<1>2. ASSUME NEW l \in Links, NEW n \in 1..MaxFrames, Send(l, n)
      PROVE  Ordered' /\ failed' = "none"
    BY <1>2, SendOrdered DEF Send, receiver
<1>3. ASSUME NEW id \in Ids, Settle(id)
      PROVE  Ordered' /\ failed' = "none"
    BY <1>3, SettleOrdered DEF Settle, receiver
<1>4. ASSUME NEW id \in Ids, NEW outcome \in Outcomes, GiveOutcome(id, outcome)
      PROVE  Ordered' /\ failed' = "none"
    BY <1>4, GiveOutcomeOrdered DEF GiveOutcome
<1>5. ASSUME NEW l \in Links, AddCredit(l)
      PROVE  Ordered' /\ failed' = "none"
    BY <1>5, AddCreditOrdered DEF AddCredit
<1>6. CASE SendPending
    BY <1>6, SendPendingOrdered DEF SendPending, receiver
<1>7. CASE FinishProcess
    BY <1>7, FinishProcessOrdered DEF FinishProcess, receiver
<1>8. CASE SenderOnFlow
    BY <1>8, SenderOnFlowOrdered DEF SenderOnFlow, receiver
<1>9. CASE SenderOnDisposition
    BY <1>9, SenderOnDispositionOrdered DEF SenderOnDisposition, receiver
<1>10. CASE ReceiverOnTransfer
    BY <1>10, ReceiverOnTransferOrdered
<1>11. CASE ReceiverOnDisposition
    BY <1>11, ReceiverOnDispositionOrdered DEF ReceiverOnDisposition
<1>12. CASE ReceiverProcess
    BY <1>12, ReceiverProcessOrdered DEF ReceiverProcess
<1> QED
    BY <1>1, <1>2, <1>3, <1>4, <1>5, <1>6, <1>7, <1>8, <1>9, <1>10, <1>11, <1>12
    DEF Next, SenderApplication, ReceiverApplication, SenderPeer, ReceiverPeer

\* The order of messages, frames and outcomes, and that no handler throws.
LEMMA OrderHolds == Usual => (Spec => [](Typed /\ Ordered /\ Unfailed))
<1> SUFFICES ASSUME Usual PROVE Spec => [](Typed /\ Ordered /\ Unfailed)
    OBVIOUS
<1>1. Typed /\ Typed' /\ NeverOverflows' /\ Ordered /\ Unfailed /\ [Next]_vars
          => Ordered' /\ Unfailed'
    BY StepOrdered
<1>2. Init => Ordered /\ Unfailed
    BY InitOrdered DEF Unfailed
<1> HIDE DEF Usual
<1> QED BY <1>1, <1>2, TypeCorrect, RingNeverOverflows, PTL DEF Spec

THEOREM FramesInSequence == Usual => (Spec => []InSequence)
<1>1. Unfailed => InSequence
    BY DEF Unfailed, InSequence
<1> QED BY <1>1, OrderHolds, PTL

\* A delivery that Outgoing.process has not got to is where by_id finds it: "Next
\* pending delivery not found" is never reported.
THEOREM PendingStaysFound == Usual => (Spec => []PendingIsFound)
<1>1. Typed /\ Ordered => PendingIsFound
    BY PendingFound DEF PendingIsFound
<1> QED BY <1>1, OrderHolds, PTL

\* pop_if frees a slot of the sending buffer only when both sides have settled and the
\* message has arrived, or was sent settled.
THEOREM SlotsAreFreedWhenSettled == Usual => (Spec => []FreedWhenSettled)
<1>1. ASSUME Typed, Ordered, NEW id \in 0..(out.next_delivery_id - 1), ~ InOutgoing(id)
      PROVE  /\ sent[id].settled /\ sent[id].remote_settled
             /\ sent[id].link \in SettledFirst \/ Complete(id)
  <2>1. Basics
    BY <1>1, BasicsHold
  <2>2. id \in Ids /\ id \in Int
    BY <1>1, <2>1 DEF Ordered, Buffered, Basics, Counts
  <2>3. id < Oldest
    <3>1. SUFFICES ASSUME id >= Oldest PROVE InOutgoing(id)
        BY <1>1, <2>1, <2>2 DEF Basics, Counts
    <3>2. PICK i : i = id - Oldest
        OBVIOUS
    <3>3. /\ id \in Int /\ Oldest \in Int /\ outbuf.size \in Nat
          /\ id < Oldest + outbuf.size /\ id >= Oldest
      <4>1. id < out.next_delivery_id /\ out.next_delivery_id = Oldest + outbuf.size
        BY <1>1, <2>1 DEF Basics, Counts, Oldest
      <4> QED BY <2>1, <2>2, <3>1, <4>1 DEF Basics, Counts
    <3>4. i \in 0..(outbuf.size - 1) /\ i + 1 \in 1..outbuf.size /\ Oldest + i = id
          /\ (i + 1) - 1 = i
        BY <3>2, <3>3
    <3>5. outbuf.entries[Slot(outbuf, i)] = id
        BY <1>1, <3>4 DEF Ordered, Buffered, InOrder
    <3> QED BY <3>4, <3>5 DEF InOutgoing, Contents
  <2>4. sent[id].settled /\ sent[id].remote_settled
        /\ (sent[id].link \in SettledFirst \/ id < Arrived)
    BY <1>1, <2>2, <2>3 DEF Ordered, SettledInOrder
  <2>5. ASSUME id < Arrived PROVE Complete(id)
    <3>1. id + 1 \in 1..Arrived /\ (id + 1) - 1 = id
        BY <1>1, <2>1, <2>5 DEF Basics, Counts
    <3>2. delivered[id + 1] = id /\ id + 1 \in DOMAIN delivered
        BY <1>1, <2>1, <3>1 DEF Ordered, ArrivedInOrder, Parts, Basics, Counts
    <3> QED BY <3>2 DEF Complete
  <2> QED BY <2>4, <2>5
<1>2. Typed /\ Ordered => FreedWhenSettled
    BY <1>1 DEF FreedWhenSettled
<1> QED BY <1>2, OrderHolds, PTL

=============================================================================
