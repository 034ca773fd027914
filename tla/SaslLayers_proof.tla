------------------------- MODULE SaslLayers_proof --------------------------
(***************************************************************************)
(* SaslLayers, for every set of mechanisms, size of frames, number of      *)
(* challenges and of heartbeats.                                           *)
(*                                                                         *)
(* Holds says of the two connections, the units that each has written, how *)
(* many bytes of them have come, and the promises of the mechanism, what   *)
(* they have to do with each other:                                        *)
(*   - OwnClient and OwnServer, what each is by itself;                    *)
(*   - Writing, what it has written: one header for each layer before its  *)
(*     frames, no SASL behind AMQP or behind an outcome;                   *)
(*   - Heard and Heeds (InParts for the server), what it has read: up to   *)
(*     the first byte of a unit that is not there to its last, with the    *)
(*     headers that it has got being those before that place;              *)
(*   - Turned, whose turn it is: of the question under way, the answer     *)
(*     under way and the open promise there is at most one;                *)
(*   - Agreed, who has left SASL: the server when the mechanism accepts,   *)
(*     and the client after it.                                            *)
(* They need one another: that nothing waits unread is so because an       *)
(* outcome is followed by nothing but AMQP (OkFirst), which is so because  *)
(* the mechanism decides once, which is so because a client answers only   *)
(* what it was asked and reads no question after the outcome.              *)
(*                                                                         *)
(* What Read does is proved by induction over its rounds (Recursion): each *)
(* round keeps AmqpReads, ServerReads or ClientReads and takes one unit,   *)
(* so there are enough of them to come to a stop.  Input, a heartbeat and  *)
(* a decision are then lemmas about the values of one connection ("Step"), *)
(* and meet with the other in one lemma each ("Turn").                     *)
(***************************************************************************)
EXTENDS SaslLayers, Induction_proof, SequenceTheorems

-----------------------------------------------------------------------------
(* The bytes of the units.                                                 *)

\* What is known of the sizes.
LEMMA SizesAre ==
    \A name \in Names : Size[name] \in Nat /\ Size[name] >= 8
BY Sizes

\* Every unit has at least the 8 bytes of a header.
LEMMA UnitSize ==
    ASSUME NEW units \in Seq(Units)
    PROVE  /\ Len(units) \in Nat
           /\ \A k \in 1..Len(units) : /\ units[k] \in Units
                                       /\ Size[units[k].name] \in Nat
                                       /\ Size[units[k].name] >= 8
<1>1. Len(units) \in Nat /\ \A k \in 1..Len(units) : units[k] \in Units
    OBVIOUS
<1>2. \A u \in Units : u.name \in Names
    BY DEF Units
<1> QED BY <1>1, <1>2, SizesAre

\* The offsets are what their recursion says.
LEMMA OffsetsUnfold ==
    ASSUME NEW units \in Seq(Units)
    PROVE  /\ Offsets(units)[1] = 0
           /\ \A k \in 1..Len(units) :
                Offsets(units)[k + 1] = Offsets(units)[k] + Size[units[k].name]
<1> DEFINE n == Len(units)
           Body(g) == [k \in 1..(n + 1) |->
                          IF k = 1 THEN 0 ELSE g[k - 1] + Size[units[k - 1].name]]
           step == [p \in (1..n) \X Nat |-> p[2] + Size[units[p[1]].name]]
           start == CHOOSE g : g = Body(g)
<1>1. n \in Nat /\ \A k \in 1..n : Size[units[k].name] \in Nat
    BY UnitSize
<1>2. step \in [(1..n) \X Nat -> Nat]
    BY <1>1
<1>3. PICK f \in [0..n -> Nat] : Recurs(f, n, 0, step)
  <2> HIDE DEF step, n
  <2> QED BY <1>1, <1>2, Recursion
<1> DEFINE g == [k \in 1..(n + 1) |-> f[k - 1]]
<1>4. g = Body(g)
  <2>1. ASSUME NEW k \in 1..n
        PROVE  f[k] = f[k - 1] + Size[units[k].name]
    <3>1. k - 1 \in 0..n
        BY <1>1
    <3>2. <<k, f[k - 1]>> \in (1..n) \X Nat
        BY <1>3, <3>1
    <3> QED BY <1>3, <3>2 DEF Recurs
  <2>2. ASSUME NEW k \in 1..(n + 1)
        PROVE  g[k] = Body(g)[k]
    <3>1. CASE k = 1
      <4>1. k - 1 = 0 /\ g[k] = f[k - 1]
        BY <3>1
      <4>3. f[0] = 0
        BY <1>3 DEF Recurs
      <4>2. Body(g)[k] = 0
        BY <3>1
      <4> HIDE DEF g, Body
      <4> QED BY <4>1, <4>2, <4>3
    <3>2. CASE k # 1
      <4>1. k - 1 \in 1..n /\ k - 1 \in 1..(n + 1)
        BY <1>1, <3>2
      <4>2. g[k - 1] = f[(k - 1) - 1] /\ g[k] = f[k - 1]
        BY <4>1
      <4> HIDE DEF g, n
      <4> QED BY <2>1, <3>2, <4>1, <4>2
    <3> QED BY <3>1, <3>2
  <2> QED BY <2>2
<1>5. start = Body(start)
  <2> HIDE DEF Body, g
  <2> QED BY <1>4
<1>6. Offsets(units) = start
    BY DEF Offsets
<1> HIDE DEF start
<1>7. \A k \in 1..(n + 1) : start[k] = IF k = 1 THEN 0 ELSE start[k - 1] + Size[units[k - 1].name]
    BY <1>5
<1>8. start[1] = 0
    BY <1>1, <1>7
<1>9. ASSUME NEW k \in 1..n
      PROVE  start[k + 1] = start[k] + Size[units[k].name]
  <2>1. k + 1 \in 1..(n + 1) /\ k + 1 # 1 /\ (k + 1) - 1 = k
    BY <1>1
  <2> HIDE DEF n
  <2> QED BY <1>7, <2>1
<1> QED BY <1>6, <1>8, <1>9

\* Every unit begins at a byte.
LEMMA OffsetsType ==
    ASSUME NEW units \in Seq(Units)
    PROVE  \A k \in 1..(Len(units) + 1) : Offsets(units)[k] \in Nat
<1> DEFINE n == Len(units)
           Odd == {k \in 1..(n + 1) : Offsets(units)[k] \notin Nat}
<1>1. n \in Nat /\ \A k \in 1..n : Size[units[k].name] \in Nat
    BY UnitSize
<1>2. /\ Offsets(units)[1] = 0
      /\ \A k \in 1..n : Offsets(units)[k + 1] = Offsets(units)[k] + Size[units[k].name]
    BY OffsetsUnfold
<1>3. SUFFICES ASSUME Odd # {} PROVE FALSE
    OBVIOUS
<1> HIDE DEF n
<1>4. PICK k \in Odd : \A y \in Odd : k <= y
  <2>1. Odd \in SUBSET Nat
    BY <1>1
  <2> HIDE DEF Odd
  <2> QED BY <1>3, <2>1, LeastExists
<1>5. k \in 1..(n + 1) /\ k # 1 /\ Offsets(units)[k] \notin Nat
    BY <1>2, <1>4
<1>6. k - 1 \in 1..n /\ k - 1 \in 1..(n + 1) /\ (k - 1) + 1 = k /\ ~ (k <= k - 1)
    BY <1>1, <1>5
<1>7. Offsets(units)[k - 1] \in Nat
    BY <1>4, <1>6
<1>8. Offsets(units)[(k - 1) + 1] = Offsets(units)[k - 1] + Size[units[k - 1].name]
    BY <1>2, <1>6
<1>9. Offsets(units)[k] \in Nat
  <2>1. Size[units[k - 1].name] \in Nat
    BY <1>1, <1>6
  <2> QED BY <1>6, <1>7, <1>8, <2>1
<1> QED BY <1>5, <1>9

\* A unit comes to its end before the next one begins.
LEMMA OffsetsGrow ==
    ASSUME NEW units \in Seq(Units), NEW i \in 1..Len(units), NEW j \in (i + 1)..(Len(units) + 1)
    PROVE  Offsets(units)[i] + Size[units[i].name] <= Offsets(units)[j]
<1> DEFINE n == Len(units)
           end == Offsets(units)[i] + Size[units[i].name]
           Odd == {k \in (i + 1)..(n + 1) : ~ (end <= Offsets(units)[k])}
<1>1. n \in Nat /\ \A k \in 1..n : Size[units[k].name] \in Nat
    BY UnitSize
<1>2. /\ \A k \in 1..n : Offsets(units)[k + 1] = Offsets(units)[k] + Size[units[k].name]
      /\ \A k \in 1..(n + 1) : Offsets(units)[k] \in Nat
    BY OffsetsUnfold, OffsetsType
<1>3. SUFFICES ASSUME Odd # {} PROVE FALSE
    OBVIOUS
<1>4. PICK k \in Odd : \A y \in Odd : k <= y
  <2>1. Odd \in SUBSET Nat
    BY <1>1
  <2> HIDE DEF Odd
  <2> QED BY <1>3, <2>1, LeastExists
<1>5. i \in 1..n /\ i \in Nat /\ end \in Nat /\ end = Offsets(units)[i + 1]
  <2>1. Offsets(units)[i] \in Nat /\ Size[units[i].name] \in Nat /\ i \in 1..(n + 1)
    BY <1>1, <1>2
  <2> QED BY <1>2, <2>1
<1> HIDE DEF n, end
<1>6. k \in (i + 1)..(n + 1) /\ ~ (end <= Offsets(units)[k])
    BY <1>4
<1>7. k # i + 1
  <2>1. SUFFICES ASSUME k = i + 1 PROVE FALSE
    OBVIOUS
  <2>2. end = Offsets(units)[k]
    BY <2>1, <1>5
  <2> QED BY <2>2, <1>5, <1>6
<1>8. k - 1 \in (i + 1)..(n + 1) /\ k - 1 \in 1..n /\ (k - 1) + 1 = k /\ ~ (k <= k - 1) /\ k - 1 \in 1..(n + 1)
  <2>1. i \in Nat /\ n \in Nat /\ k \in Nat /\ 1 <= i /\ i + 1 <= k /\ k <= n + 1 /\ k # i + 1
    BY ONLY <1>1, <1>5, <1>6, <1>7
  <2>2. k - 1 \in Nat /\ i + 1 <= k - 1 /\ k - 1 <= n /\ (k - 1) + 1 = k /\ ~ (k <= k - 1)
    BY ONLY <2>1
  <2>3. k - 1 \in (i + 1)..(n + 1) /\ k - 1 \in 1..n /\ k - 1 \in 1..(n + 1)
    BY ONLY <2>1, <2>2
  <2> QED BY ONLY <2>2, <2>3
<1>9. end <= Offsets(units)[k - 1]
    BY <1>4, <1>8
<1>10. Offsets(units)[k] = Offsets(units)[k - 1] + Size[units[k - 1].name]
    BY <1>2, <1>8
<1>11. Offsets(units)[k - 1] \in Nat /\ Size[units[k - 1].name] \in Nat
    BY <1>1, <1>2, <1>8
<1>12. PICK before : before = Offsets(units)[k - 1]
    OBVIOUS
<1>13. PICK size : size = Size[units[k - 1].name]
    OBVIOUS
<1>14. end \in Nat /\ before \in Nat /\ size \in Nat /\ end <= before
    BY ONLY <1>5, <1>9, <1>11, <1>12, <1>13
<1>15. ~ (end <= before + size)
    BY ONLY <1>6, <1>10, <1>12, <1>13
<1> QED BY ONLY <1>14, <1>15

\* The offset is that of the n-th unit, or the end.
At(units, offset, n) == n \in 1..(Len(units) + 1) /\ Offsets(units)[n] = offset

\* Units begin in the order in which they were written, 8 bytes or more apart.
LEMMA AtOrder ==
    ASSUME NEW units \in Seq(Units), NEW i \in 1..(Len(units) + 1), NEW j \in 1..(Len(units) + 1)
    PROVE  /\ Offsets(units)[i] \in Nat /\ Offsets(units)[j] \in Nat
           /\ i < j <=> Offsets(units)[i] < Offsets(units)[j]
           /\ i = j <=> Offsets(units)[i] = Offsets(units)[j]
           /\ i < j => Offsets(units)[i] + 8 <= Offsets(units)[j]
<1>1. /\ Len(units) \in Nat
      /\ Offsets(units)[i] \in Nat /\ Offsets(units)[j] \in Nat
    BY UnitSize, OffsetsType
<1>2. ASSUME NEW a \in 1..(Len(units) + 1), NEW b \in 1..(Len(units) + 1), a < b
      PROVE  Offsets(units)[a] + 8 <= Offsets(units)[b]
  <2>1. a \in 1..Len(units) /\ b \in (a + 1)..(Len(units) + 1)
    BY <1>1, <1>2
  <2>2. Offsets(units)[a] + Size[units[a].name] <= Offsets(units)[b]
    BY <2>1, OffsetsGrow
  <2>3. /\ Offsets(units)[a] \in Nat /\ Offsets(units)[b] \in Nat
        /\ Size[units[a].name] \in Nat /\ Size[units[a].name] >= 8
    BY <2>1, UnitSize, OffsetsType
  <2> QED BY <2>2, <2>3, SMTT(30)
<1>3. i < j => Offsets(units)[i] + 8 <= Offsets(units)[j]
    BY <1>2
<1>4. j < i => Offsets(units)[j] + 8 <= Offsets(units)[i]
    BY <1>2
<1> QED BY <1>1, <1>3, <1>4

\* More units leave the offsets as they are.
LEMMA OffsetsOfMore ==
    ASSUME NEW units \in Seq(Units), NEW more \in Seq(Units)
    PROVE  \A k \in 1..(Len(units) + 1) : Offsets(units \o more)[k] = Offsets(units)[k]
<1>1. PICK longer : longer = units \o more
    OBVIOUS
<1>2. /\ longer \in Seq(Units) /\ Len(longer) = Len(units) + Len(more)
      /\ Len(units) \in Nat /\ Len(more) \in Nat
      /\ \A k \in 1..Len(units) : longer[k] = units[k]
  <2>1. Len(units) \in Nat /\ Len(more) \in Nat
    BY LenProperties
  <2>2. /\ longer \in Seq(Units) /\ Len(longer) = Len(units) + Len(more)
        /\ \A k \in 1..(Len(units) + Len(more)) :
               longer[k] = IF k <= Len(units) THEN units[k] ELSE more[k - Len(units)]
    BY <1>1, ConcatProperties
  <2>3. \A k \in 1..Len(units) : k \in 1..(Len(units) + Len(more)) /\ k <= Len(units)
    BY <2>1
  <2> QED BY <2>1, <2>2, <2>3
<1> DEFINE n == Len(units)
           Odd == {k \in 1..(n + 1) : Offsets(longer)[k] # Offsets(units)[k]}
<1>3. SUFFICES ASSUME Odd # {} PROVE FALSE
    BY <1>1
<1>4. PICK k \in Odd : \A y \in Odd : k <= y
  <2>1. Odd \in SUBSET Nat
    BY <1>2
  <2> HIDE DEF Odd
  <2> QED BY <1>3, <2>1, LeastExists
<1>5. /\ Offsets(units)[1] = 0
      /\ \A i \in 1..n : Offsets(units)[i + 1] = Offsets(units)[i] + Size[units[i].name]
    BY OffsetsUnfold
<1>6. /\ Offsets(longer)[1] = 0
      /\ \A i \in 1..Len(longer) : Offsets(longer)[i + 1] = Offsets(longer)[i] + Size[longer[i].name]
    BY <1>2, OffsetsUnfold
<1>7. k \in 1..(n + 1) /\ k # 1 /\ Offsets(longer)[k] # Offsets(units)[k]
    BY <1>4, <1>5, <1>6
<1> HIDE DEF n
<1>8. k - 1 \in 1..n /\ k - 1 \in 1..(n + 1) /\ (k - 1) + 1 = k /\ ~ (k <= k - 1)
        /\ k - 1 \in 1..Len(longer)
    BY <1>2, <1>7 DEF n
<1>9. Offsets(longer)[k - 1] = Offsets(units)[k - 1]
    BY <1>4, <1>8
<1>10. longer[k - 1] = units[k - 1]
    BY <1>2, <1>8 DEF n
<1> QED BY <1>5, <1>6, <1>7, <1>8, <1>9, <1>10

\* What is at an offset.
LEMMA UnitAtStart ==
    ASSUME NEW units \in Seq(Units), NEW n \in 1..Len(units)
    PROVE  /\ StartsAt(units, Offsets(units)[n])
           /\ UnitAt(units, Offsets(units)[n]) = units[n]
           /\ units[n].name # "header" => SizeAt(units, Offsets(units)[n]) = Size[units[n].name]
<1> DEFINE offset == Offsets(units)[n]
<1>1. StartsAt(units, offset)
    BY DEF StartsAt
<1>2. \A k \in 1..Len(units) : Offsets(units)[k] = offset <=> k = n
  <2>1. SUFFICES ASSUME NEW k \in 1..Len(units)
                 PROVE  Offsets(units)[k] = offset <=> k = n
    OBVIOUS
  <2>2. k \in 1..(Len(units) + 1) /\ n \in 1..(Len(units) + 1)
    BY UnitSize
  <2> QED BY <2>2, AtOrder
<1>3. (CHOOSE k \in 1..Len(units) : Offsets(units)[k] = offset) = n
    BY <1>2
<1>4. UnitAt(units, offset) = units[n]
    BY <1>1, <1>3 DEF UnitAt
<1>5. units[n].name \in Names
    BY UnitSize DEF Units
<1> HIDE DEF offset
<1>6. units[n].name # "header" => SizeAt(units, offset) = Size[units[n].name]
    BY <1>4, <1>5 DEF SizeAt
<1> QED BY <1>1, <1>4, <1>6 DEF offset

\* No unit begins at the end of them.
LEMMA NothingAtEnd ==
    ASSUME NEW units \in Seq(Units)
    PROVE  ~ StartsAt(units, Bytes(units)) /\ Bytes(units) \in Nat
             /\ At(units, Bytes(units), Len(units) + 1)
<1>1. Len(units) \in Nat /\ Len(units) + 1 \in 1..(Len(units) + 1)
    BY UnitSize
<1>2. ASSUME NEW k \in 1..Len(units) PROVE Offsets(units)[k] # Bytes(units)
  <2>1. k \in 1..(Len(units) + 1) /\ k # Len(units) + 1
    BY <1>1
  <2> QED BY <2>1, <1>1, AtOrder DEF Bytes
<1>3. Bytes(units) \in Nat
    BY <1>1, OffsetsType DEF Bytes
<1> QED BY <1>1, <1>2, <1>3 DEF StartsAt, At, Bytes

-----------------------------------------------------------------------------
(* Writing.                                                                *)

Turns == [conn : Connections, out : Seq(Units), promises : Nat, thrown : BOOLEAN]

\* What a transport has to write.
Frames(t, P) == [i \in DOMAIN t.pending |-> [protocol |-> P, name |-> t.pending[i]]]
Added(t, P) == (IF t.header_sent THEN <<>> ELSE <<Header(P)>>) \o Frames(t, P)

\* All of two connections that writing leaves alone.
SameSelf(c, d) ==
    /\ d.kind = c.kind /\ d.known = c.known /\ d.eager = c.eager /\ d.selected = c.selected
    /\ d.held = c.held /\ d.frame_size = c.frame_size
    /\ d.local_open = c.local_open /\ d.remote_open = c.remote_open

SameReading(t, u) ==
    /\ u.header_received = t.header_received
    /\ u.read_complete = t.read_complete /\ u.write_complete = t.write_complete

\* What a transport writes are units of its protocol.
LEMMA AddedType ==
    ASSUME NEW t \in Transports, NEW P \in Protocols
    PROVE  /\ Frames(t, P) \in Seq(Units) /\ Added(t, P) \in Seq(Units)
           /\ Len(Frames(t, P)) = Len(t.pending)
           /\ \A i \in 1..Len(t.pending) : Frames(t, P)[i] = [protocol |-> P, name |-> t.pending[i]]
           /\ Len(t.pending) \in Nat
<1>1. PICK names \in Seq(Names) : names = t.pending
    BY DEF Transports
<1>2. Len(names) \in Nat /\ DOMAIN names = 1..Len(names) /\ \A i \in 1..Len(names) : names[i] \in Names
    BY <1>1
<1>3. Frames(t, P) = [i \in 1..Len(names) |-> [protocol |-> P, name |-> names[i]]]
    BY <1>1, <1>2 DEF Frames
<1>4. \A i \in 1..Len(names) : [protocol |-> P, name |-> names[i]] \in Units
    BY <1>2 DEF Units
<1>5. Frames(t, P) \in Seq(Units) /\ Len(Frames(t, P)) = Len(names)
    BY <1>2, <1>3, <1>4
<1>6. Header(P) \in Units
    BY DEF Header, Units, Names
<1>7. <<>> \in Seq(Units) /\ <<Header(P)>> \in Seq(Units)
    BY <1>6
<1>8. Added(t, P) \in Seq(Units)
  <2> HIDE DEF Frames
  <2> QED BY <1>5, <1>7, ConcatProperties DEF Added
<1> QED BY <1>1, <1>2, <1>3, <1>5, <1>8

\* What a connection and a transport are made of.
LEMMA ConnFields ==
    ASSUME NEW c \in Connections
    PROVE  /\ c.amqp \in Transports /\ c.sasl \in Transports
           /\ \A P \in Protocols : c[P] \in Transports
           /\ c.held \in Nat /\ c.kind \in SaslKinds /\ c.known \in Known \cup {{}}
           /\ c.eager \in BOOLEAN /\ c.selected \in Protocols \cup {"undefined"}
           /\ c.frame_size \in {0} \cup {Size[n] : n \in Names}
           /\ c.local_open \in BOOLEAN /\ c.remote_open \in BOOLEAN
           /\ c.transport_error \in BOOLEAN /\ c.ended \in BOOLEAN
BY DEF Connections, Protocols

LEMMA TransportFields ==
    ASSUME NEW t \in Transports
    PROVE  /\ t.pending \in Seq(Names) /\ t.header_sent \in BOOLEAN /\ t.header_received \in BOOLEAN
           /\ t.write_complete \in BOOLEAN /\ t.read_complete \in BOOLEAN
BY DEF Transports

\* Only the first two fields of a transport change when something is written.
LEMMA TransportWrites ==
    ASSUME NEW t \in Transports, NEW names \in Seq(Names), NEW u,
           \/ u = [t EXCEPT !.pending = names, !.header_sent = TRUE]
           \/ u = [t EXCEPT !.pending = names]
    PROVE  u \in Transports /\ u.pending = names /\ SameReading(t, u)
<1>1. CASE u = [t EXCEPT !.pending = names, !.header_sent = TRUE]
  <2>1. u \in Transports
    BY <1>1 DEF Transports
  <2>2. u.pending = names
    BY <1>1 DEF Transports
  <2>3. SameReading(t, u)
    BY <1>1 DEF Transports, SameReading
  <2> QED BY <2>1, <2>2, <2>3
<1>2. CASE u = [t EXCEPT !.pending = names]
  <2>1. u \in Transports
    BY <1>2 DEF Transports
  <2>2. u.pending = names
    BY <1>2 DEF Transports
  <2>3. SameReading(t, u)
    BY <1>2 DEF Transports, SameReading
  <2> QED BY <2>1, <2>2, <2>3
<1> QED BY <1>1, <1>2

\* What Written changes, and what it leaves alone.
LEMMA WrittenIs ==
    ASSUME NEW turn \in Turns, NEW P \in Protocols
    PROVE  LET done == Written(turn, P)
               t == turn.conn[P]
           IN  /\ done \in Turns
               /\ done.promises = turn.promises /\ done.thrown = turn.thrown
               /\ SameSelf(turn.conn, done.conn)
               /\ done.conn.ended = turn.conn.ended
               /\ done.conn.transport_error = turn.conn.transport_error
               /\ done.conn[P].pending = <<>> /\ done.conn[P].header_sent
               /\ SameReading(t, done.conn[P])
               /\ \A Q \in Protocols \ {P} : done.conn[Q] = turn.conn[Q]
               /\ done.out = IF turn.conn.ended THEN turn.out ELSE turn.out \o Added(t, P)
<1> DEFINE t == turn.conn[P]
           u == [t EXCEPT !.pending = <<>>, !.header_sent = TRUE]
           d == [turn.conn EXCEPT ![P] = u]
           more == IF turn.conn.ended THEN turn.out ELSE turn.out \o Added(t, P)
<1>1. t \in Transports /\ turn.conn \in Connections /\ turn.out \in Seq(Units)
  <2>1. turn.conn \in Connections /\ turn.out \in Seq(Units)
    BY DEF Turns
  <2> QED BY <2>1, ConnFields
<1>2. /\ u \in Transports /\ u.pending = <<>> /\ u.header_sent /\ SameReading(t, u)
  <2> HIDE DEF t
  <2>1. <<>> \in Seq(Names)
    OBVIOUS
  <2>2. u.header_sent
    BY <1>1 DEF Transports
  <2> HIDE DEF u
  <2>3. u = [t EXCEPT !.pending = <<>>, !.header_sent = TRUE]
    BY DEF u
  <2> QED BY <1>1, <2>1, <2>2, <2>3, TransportWrites
<1>3. more \in Seq(Units)
    BY <1>1, AddedType, ConcatProperties
<1> HIDE DEF more
<1>4. Written(turn, P) = [turn EXCEPT !.conn = d, !.out = more]
    BY ZenonT(60) DEF Written, Turns, Connections, Transports, Protocols, more, Added, Frames
<1> HIDE DEF u
<1>5. /\ d \in Connections /\ d[P] = u /\ SameSelf(turn.conn, d)
      /\ d.ended = turn.conn.ended /\ d.transport_error = turn.conn.transport_error
      /\ \A Q \in Protocols \ {P} : d[Q] = turn.conn[Q]
  <2>1. CASE P = "amqp"
    BY <2>1, <1>1, <1>2 DEF Connections, Protocols, SameSelf
  <2>2. CASE P = "sasl"
    BY <2>2, <1>1, <1>2 DEF Connections, Protocols, SameSelf
  <2> QED BY <2>1, <2>2 DEF Protocols
<1> HIDE DEF d
<1>6. /\ Written(turn, P) \in Turns
      /\ Written(turn, P).conn = d /\ Written(turn, P).out = more
      /\ Written(turn, P).promises = turn.promises /\ Written(turn, P).thrown = turn.thrown
    BY <1>3, <1>4, <1>5 DEF Turns
<1> QED BY <1>2, <1>5, <1>6 DEF more

\* A layer that was selected is both written to and read with.
LEMMA WritesToIs ==
    ASSUME NEW c \in Connections
    PROVE  /\ Uses(c) \in Protocols \cup {"undefined"}
           /\ WritesTo(c) \in Protocols \cup {"undefined"}
           /\ ReadsWith(c) \in Protocols \cup {"undefined"}
           /\ Uses(c) = "undefined" <=> WritesTo(c) = "undefined"
           /\ Uses(c) = "undefined" <=> ReadsWith(c) = "undefined"
           /\ HasWritesPending(c) \in BOOLEAN
<1>1. /\ c.kind \in SaslKinds /\ c.selected \in Protocols \cup {"undefined"}
      /\ c.sasl \in Transports /\ c.amqp \in Transports
    BY ConnFields
<1>2. Uses(c) \in Protocols \cup {"undefined"}
    BY <1>1 DEF Uses, Protocols, SaslKinds
<1>3. "undefined" \notin Protocols /\ "amqp" \in Protocols
    BY DEF Protocols
<1>4. /\ WritesTo(c) \in Protocols \cup {"undefined"}
      /\ Uses(c) = "undefined" <=> WritesTo(c) = "undefined"
    BY <1>2, <1>3 DEF WritesTo
<1>5. /\ ReadsWith(c) \in Protocols \cup {"undefined"}
      /\ Uses(c) = "undefined" <=> ReadsWith(c) = "undefined"
    BY <1>2, <1>3 DEF ReadsWith
<1>6. HasPending(c.amqp) \in BOOLEAN /\ HasPending(c.sasl) \in BOOLEAN
    BY DEF HasPending
<1>7. HasWritesPending(c) \in BOOLEAN
    BY <1>2, <1>6 DEF HasWritesPending, Protocols
<1> QED BY <1>2, <1>4, <1>5, <1>7

\* What Output changes: the transport it writes with, and the socket may be ended.
LEMMA OutputIs ==
    ASSUME NEW turn \in Turns
    PROVE  LET done == Output(turn)
               P == WritesTo(turn.conn)
           IN  /\ done \in Turns
               /\ done.promises = turn.promises /\ done.thrown = turn.thrown
               /\ SameSelf(turn.conn, done.conn)
               /\ turn.conn.ended => done.conn.ended
               /\ P = "undefined" =>
                    /\ done.out = turn.out
                    /\ done.conn.amqp = turn.conn.amqp /\ done.conn.sasl = turn.conn.sasl
               /\ P \in Protocols =>
                    /\ done.conn[P].pending = <<>> /\ done.conn[P].header_sent
                    /\ SameReading(turn.conn[P], done.conn[P])
                    /\ \A Q \in Protocols \ {P} : done.conn[Q] = turn.conn[Q]
                    /\ done.out = IF turn.conn.ended THEN turn.out
                                  ELSE turn.out \o Added(turn.conn[P], P)
<1> DEFINE P == WritesTo(turn.conn)
           mid == IF P = "undefined" THEN turn ELSE Written(turn, P)
           e == mid.conn.ended \/ (mid.conn.transport_error /\ ~ HasWritesPending(mid.conn))
           done == Output(turn)
<1>1. turn.conn \in Connections
    BY DEF Turns
<1>2. P \in Protocols \cup {"undefined"} /\ (Uses(turn.conn) = "undefined" <=> P = "undefined")
    BY <1>1, WritesToIs
<1> HIDE DEF P
<1>3. /\ mid \in Turns
      /\ mid.promises = turn.promises /\ mid.thrown = turn.thrown
      /\ SameSelf(turn.conn, mid.conn)
      /\ mid.conn.ended = turn.conn.ended
      /\ P = "undefined" => mid = turn
      /\ P \in Protocols =>
            /\ mid.conn[P].pending = <<>> /\ mid.conn[P].header_sent
            /\ SameReading(turn.conn[P], mid.conn[P])
            /\ \A Q \in Protocols \ {P} : mid.conn[Q] = turn.conn[Q]
            /\ mid.out = IF turn.conn.ended THEN turn.out ELSE turn.out \o Added(turn.conn[P], P)
  <2>1. CASE P = "undefined"
    <3>1. mid = turn /\ P \notin Protocols
        BY <2>1 DEF Protocols
    <3> HIDE DEF mid
    <3> QED BY <3>1 DEF SameSelf
  <2>2. CASE P \in Protocols
    <3>1. mid = Written(turn, P) /\ P # "undefined"
        BY <2>2 DEF Protocols
    <3> HIDE DEF mid
    <3> QED BY <2>2, <3>1, WrittenIs
  <2> QED BY <1>2, <2>1, <2>2
<1>4. Output(turn) = [mid EXCEPT !.conn.ended = e]
    BY <1>2 DEF Output, P
<1> HIDE DEF mid
<1>5. mid.conn \in Connections
    BY <1>3 DEF Turns
<1>6. e \in BOOLEAN /\ (turn.conn.ended => e)
  <2>1. HasWritesPending(mid.conn) \in BOOLEAN /\ mid.conn.ended \in BOOLEAN /\ mid.conn.transport_error \in BOOLEAN
    BY <1>5, WritesToIs, ConnFields
  <2> QED BY <1>3, <2>1
<1> HIDE DEF e
<1> DEFINE d == [mid.conn EXCEPT !.ended = e]
<1>7. Output(turn) = [mid EXCEPT !.conn = d]
    BY <1>3, <1>4 DEF Turns
<1>8. /\ d \in Connections /\ SameSelf(mid.conn, d) /\ d.ended = e
      /\ d.amqp = mid.conn.amqp /\ d.sasl = mid.conn.sasl
      /\ \A Q \in Protocols : d[Q] = mid.conn[Q]
    BY <1>5, <1>6 DEF Connections, SameSelf, Protocols
<1> HIDE DEF d
<1>9. done \in Turns /\ done.conn = d /\ done.out = mid.out /\ done.promises = mid.promises
        /\ done.thrown = mid.thrown
    BY <1>3, <1>7, <1>8 DEF Turns
<1> HIDE DEF done
<1>10. SameSelf(turn.conn, d)
    BY <1>3, <1>8 DEF SameSelf
<1>11. P \in Protocols => /\ d[P].pending = <<>> /\ d[P].header_sent
                          /\ SameReading(turn.conn[P], d[P])
                          /\ \A Q \in Protocols \ {P} : d[Q] = turn.conn[Q]
    BY <1>3, <1>8
<1> QED BY <1>3, <1>6, <1>8, <1>9, <1>10, <1>11 DEF done, P

\* A frame that waits to be written.
LEMMA EncodeIs ==
    ASSUME NEW turn \in Turns, NEW P \in Protocols, NEW name \in Names
    PROVE  LET done == Encode(turn, P, name)
               t == turn.conn[P]
           IN  /\ done \in Turns
               /\ done.promises = turn.promises /\ done.thrown = turn.thrown /\ done.out = turn.out
               /\ SameSelf(turn.conn, done.conn)
               /\ done.conn.ended = turn.conn.ended
               /\ done.conn.transport_error = turn.conn.transport_error
               /\ done.conn[P].pending = Append(t.pending, name)
               /\ done.conn[P].header_sent = t.header_sent
               /\ SameReading(t, done.conn[P])
               /\ \A Q \in Protocols \ {P} : done.conn[Q] = turn.conn[Q]
<1> DEFINE t == turn.conn[P]
           u == [t EXCEPT !.pending = Append(t.pending, name)]
           d == [turn.conn EXCEPT ![P] = u]
<1>1. t \in Transports /\ turn.conn \in Connections
  <2>1. turn.conn \in Connections
    BY DEF Turns
  <2> QED BY <2>1, ConnFields
<1>2. /\ u \in Transports /\ u.pending = Append(t.pending, name) /\ u.header_sent = t.header_sent
      /\ SameReading(t, u)
  <2> HIDE DEF t
  <2>1. Append(t.pending, name) \in Seq(Names)
    BY <1>1, TransportFields
  <2>2. u.header_sent = t.header_sent
    BY <1>1 DEF Transports
  <2> HIDE DEF u
  <2>3. u = [t EXCEPT !.pending = Append(t.pending, name)]
    BY DEF u
  <2> QED BY <1>1, <2>1, <2>2, <2>3, TransportWrites, ZenonT(60)
<1>4. Encode(turn, P, name) = [turn EXCEPT !.conn = d]
    BY <1>1 DEF Encode, Turns, Connections, Transports, Protocols
<1> HIDE DEF u
<1>5. /\ d \in Connections /\ d[P] = u /\ SameSelf(turn.conn, d)
      /\ d.ended = turn.conn.ended /\ d.transport_error = turn.conn.transport_error
      /\ \A Q \in Protocols \ {P} : d[Q] = turn.conn[Q]
  <2>1. CASE P = "amqp"
    BY <2>1, <1>1, <1>2 DEF Connections, Protocols, SameSelf
  <2>2. CASE P = "sasl"
    BY <2>2, <1>1, <1>2 DEF Connections, Protocols, SameSelf
  <2> QED BY <2>1, <2>2 DEF Protocols
<1> HIDE DEF d
<1>6. /\ Encode(turn, P, name) \in Turns
      /\ Encode(turn, P, name).conn = d /\ Encode(turn, P, name).out = turn.out
      /\ Encode(turn, P, name).promises = turn.promises /\ Encode(turn, P, name).thrown = turn.thrown
    BY <1>4, <1>5 DEF Turns
<1> QED BY <1>2, <1>5, <1>6

-----------------------------------------------------------------------------
(* What is written, and in which order.                                    *)

Questions == {"mechanisms", "challenge"}
Replies == {"init", "response"}

\* What a peer writes as frames of a layer, and all that it writes.
Spoken(p, P) ==
    IF P = "amqp" THEN {"open", "empty"}
    ELSE IF p = "client" THEN Replies ELSE Questions \cup Outcomes

Vocabulary(p) == UNION {[protocol : {P}, name : {"header"} \cup Spoken(p, P)] : P \in Protocols}

Has(units, P) == \E k \in DOMAIN units : units[k].protocol = P
Said(units, names) == \E k \in DOMAIN units : units[k].name \in names

\* A layer begins with its header, AMQP is the last, and it alone follows an outcome.
Shaped(units) ==
    \A k \in DOMAIN units :
       /\ units[k].name = "header" <=> \A j \in 1..(k - 1) : units[j].protocol # units[k].protocol
       /\ units[k].protocol = "amqp" => \A j \in k..Len(units) : units[j].protocol = "amqp"
       /\ units[k].name \in Outcomes => \A j \in (k + 1)..Len(units) : units[j].protocol = "amqp"

Writing(p, c, units) ==
    /\ units \in Seq(Vocabulary(p)) /\ Shaped(units)
    /\ \A P \in Protocols : /\ Has(units, P) => c[P].header_sent
                            /\ ~ c.ended /\ c[P].header_sent => Has(units, P)
    /\ c.amqp.pending \in Seq({"open", "empty"})

\* What a peer writes has a name that belongs to its protocol.
LEMMA VocabularyIs ==
    ASSUME NEW p \in Peers
    PROVE  /\ Vocabulary(p) \subseteq Units
           /\ \A u \in Vocabulary(p) : /\ u.protocol \in Protocols
                                       /\ u.name \in {"header"} \cup Spoken(p, u.protocol)
           /\ \A P \in Protocols : \A name \in {"header"} \cup Spoken(p, P) :
                  [protocol |-> P, name |-> name] \in Vocabulary(p)
           /\ \A P \in Protocols : "header" \notin Spoken(p, P) /\ Spoken(p, P) \subseteq Names
<1>1. \A P \in Protocols : "header" \notin Spoken(p, P) /\ Spoken(p, P) \subseteq Names
    BY DEF Spoken, Protocols, Names, SaslFrames, Outcomes, Questions, Replies
<1> HIDE DEF Spoken
<1>2. ASSUME NEW u \in Vocabulary(p)
      PROVE  u \in Units /\ u.protocol \in Protocols /\ u.name \in {"header"} \cup Spoken(p, u.protocol)
  <2>1. PICK P \in Protocols : u \in [protocol : {P}, name : {"header"} \cup Spoken(p, P)]
    BY DEF Vocabulary
  <2>2. "header" \in Names
    BY DEF Names
  <2> QED BY <1>1, <2>1, <2>2 DEF Units
<1>3. ASSUME NEW P \in Protocols, NEW name \in {"header"} \cup Spoken(p, P)
      PROVE  [protocol |-> P, name |-> name] \in Vocabulary(p)
  <2>1. [protocol |-> P, name |-> name] \in [protocol : {P}, name : {"header"} \cup Spoken(p, P)]
    OBVIOUS
  <2> QED BY <2>1 DEF Vocabulary
<1> QED BY <1>1, <1>2, <1>3

\* What a transport adds is of its layer.
LEMMA AddedIs ==
    ASSUME NEW p \in Peers, NEW P \in Protocols, NEW t \in Transports,
           t.pending \in Seq(Spoken(p, P))
    PROVE  /\ Added(t, P) \in Seq(Vocabulary(p))
           /\ t.header_sent => Len(Added(t, P)) = Len(t.pending)
           /\ ~ t.header_sent => Len(Added(t, P)) = Len(t.pending) + 1
           /\ Len(t.pending) \in Nat
           /\ \A i \in 1..Len(Added(t, P)) :
                /\ Added(t, P)[i].protocol = P
                /\ Added(t, P)[i].name = "header" <=> (i = 1 /\ ~ t.header_sent)
<1>1. PICK names \in Seq(Spoken(p, P)) : names = t.pending
    OBVIOUS
<1>2. PICK fs \in Seq(Vocabulary(p)) :
          /\ fs = Frames(t, P) /\ Len(fs) = Len(names)
          /\ \A i \in 1..Len(names) : fs[i] = [protocol |-> P, name |-> names[i]]
  <2>1. /\ Len(names) \in Nat /\ DOMAIN names = 1..Len(names)
        /\ \A i \in 1..Len(names) : names[i] \in Spoken(p, P)
    OBVIOUS
  <2>2. \A i \in 1..Len(names) : [protocol |-> P, name |-> names[i]] \in Vocabulary(p)
    BY <2>1, VocabularyIs
  <2>3. Frames(t, P) = [i \in 1..Len(names) |-> [protocol |-> P, name |-> names[i]]]
    BY <1>1, <2>1 DEF Frames
  <2>4. Frames(t, P) \in Seq(Vocabulary(p)) /\ Len(Frames(t, P)) = Len(names)
    BY <2>1, <2>2, <2>3
  <2> QED BY <2>3, <2>4
<1>3. Len(names) \in Nat /\ \A i \in 1..Len(names) : names[i] # "header"
  <2>1. \A i \in 1..Len(names) : names[i] \in Spoken(p, P)
    OBVIOUS
  <2> QED BY <2>1, VocabularyIs
<1>4. Header(P) \in Vocabulary(p) /\ Header(P).protocol = P /\ Header(P).name = "header"
    BY VocabularyIs DEF Header
<1>5. CASE t.header_sent
  <2>1. Added(t, P) = fs
    <3>1. <<>> \o fs = fs
        BY ConcatEmptySeq
    <3>2. Added(t, P) = <<>> \o Frames(t, P)
        BY <1>5 DEF Added
    <3> QED BY <1>2, <3>1, <3>2
  <2>2. \A i \in 1..Len(fs) : fs[i].protocol = P /\ fs[i].name # "header"
    <3>1. SUFFICES ASSUME NEW i \in 1..Len(names)
                   PROVE  fs[i].protocol = P /\ fs[i].name # "header"
        BY <1>2
    <3>2. fs[i] = [protocol |-> P, name |-> names[i]] /\ names[i] # "header"
        BY <1>2, <1>3
    <3> QED BY <3>2
  <2>3. Len(fs) = Len(t.pending) /\ Len(t.pending) \in Nat
    BY <1>1, <1>2, <1>3
  <2>4. fs \in Seq(Vocabulary(p))
    BY <1>2
  <2>6. \A i \in 1..Len(fs) : fs[i].name = "header" <=> (i = 1 /\ ~ t.header_sent)
    BY <1>5, <2>2
  <2> HIDE DEF Added
  <2> QED BY <1>5, <2>1, <2>2, <2>3, <2>4, <2>6
<1>6. CASE ~ t.header_sent
  <2>1. PICK h \in Seq(Vocabulary(p)) : h = <<Header(P)>> /\ Len(h) = 1 /\ h[1] = Header(P)
    <3>1. PICK u \in Vocabulary(p) : u = Header(P)
        BY <1>4
    <3>2. <<u>> \in Seq(Vocabulary(p)) /\ Len(<<u>>) = 1 /\ <<u>>[1] = u
        OBVIOUS
    <3> QED BY <3>1, <3>2
  <2>2. PICK x : x = h \o fs
    OBVIOUS
  <2>3. Added(t, P) = x
    BY <1>2, <1>6, <2>1, <2>2 DEF Added
  <2>4. /\ x \in Seq(Vocabulary(p)) /\ Len(x) = 1 + Len(names)
        /\ \A i \in 1..(1 + Len(names)) : x[i] = IF i <= 1 THEN h[i] ELSE fs[i - 1]
    BY <1>2, <2>1, <2>2, ConcatProperties
  <2>5. x[1] = Header(P)
    BY <1>3, <2>1, <2>4
  <2>6. \A i \in 1..(1 + Len(names)) : i # 1 =>
            /\ i - 1 \in 1..Len(names) /\ x[i] = [protocol |-> P, name |-> names[i - 1]]
    <3>1. SUFFICES ASSUME NEW i \in 1..(1 + Len(names)), i # 1
                   PROVE  i - 1 \in 1..Len(names) /\ x[i] = [protocol |-> P, name |-> names[i - 1]]
        OBVIOUS
    <3>2. i - 1 \in 1..Len(names) /\ ~ (i <= 1)
        BY <1>3, <3>1
    <3> QED BY <1>2, <2>4, <3>2
  <2>7. \A i \in 1..Len(x) : x[i].protocol = P /\ (x[i].name = "header" <=> i = 1)
    <3>1. SUFFICES ASSUME NEW i \in 1..Len(x)
                   PROVE  x[i].protocol = P /\ (x[i].name = "header" <=> i = 1)
        OBVIOUS
    <3>2. CASE i = 1
        BY <3>2, <1>4, <2>5
    <3>3. CASE i # 1
      <4>1. i \in 1..(1 + Len(names))
        BY <2>4
      <4>2. i - 1 \in 1..Len(names) /\ x[i] = [protocol |-> P, name |-> names[i - 1]]
        BY ONLY <2>6, <3>3, <4>1
      <4>3. names[i - 1] # "header"
        BY <1>3, <4>2
      <4> QED BY ONLY <3>3, <4>2, <4>3
    <3> QED BY <3>2, <3>3
  <2>8. Len(x) = Len(t.pending) + 1 /\ Len(t.pending) \in Nat
    BY <1>1, <1>3, <2>4
  <2> QED BY <1>6, <2>3, <2>4, <2>7, <2>8
<1> QED BY <1>5, <1>6

\* Sequences one behind the other, by index.
LEMMA ConcatIs ==
    ASSUME NEW S, NEW units \in Seq(S), NEW x \in Seq(S), NEW longer, longer = units \o x
    PROVE  /\ Len(units) \in Nat /\ Len(x) \in Nat
           /\ longer \in Seq(S) /\ Len(longer) = Len(units) + Len(x)
           /\ DOMAIN longer = 1..(Len(units) + Len(x))
           /\ DOMAIN units = 1..Len(units) /\ DOMAIN x = 1..Len(x)
           /\ \A k \in 1..Len(units) : longer[k] = units[k]
           /\ \A k \in 1..Len(x) : Len(units) + k \in DOMAIN longer /\ longer[Len(units) + k] = x[k]
           /\ \A k \in DOMAIN longer : k > Len(units) =>
                 k - Len(units) \in 1..Len(x) /\ longer[k] = x[k - Len(units)]
<1>1. Len(units) \in Nat /\ Len(x) \in Nat /\ DOMAIN units = 1..Len(units) /\ DOMAIN x = 1..Len(x)
    BY LenProperties
<1>2. /\ longer \in Seq(S) /\ Len(longer) = Len(units) + Len(x)
      /\ \A i \in 1..(Len(units) + Len(x)) :
             longer[i] = IF i <= Len(units) THEN units[i] ELSE x[i - Len(units)]
    BY ConcatProperties
<1>3. DOMAIN longer = 1..(Len(units) + Len(x))
    BY <1>2, LenProperties
<1>4. \A k \in 1..Len(units) : longer[k] = units[k]
    BY <1>1, <1>2
<1>5. \A k \in 1..Len(x) : Len(units) + k \in DOMAIN longer /\ longer[Len(units) + k] = x[k]
  <2>1. SUFFICES ASSUME NEW k \in 1..Len(x)
                 PROVE  Len(units) + k \in DOMAIN longer /\ longer[Len(units) + k] = x[k]
    OBVIOUS
  <2>2. /\ Len(units) + k \in 1..(Len(units) + Len(x)) /\ ~ (Len(units) + k <= Len(units))
        /\ (Len(units) + k) - Len(units) = k
    BY <1>1
  <2> QED BY <1>2, <1>3, <2>2
<1>6. \A k \in DOMAIN longer : k > Len(units) =>
                 k - Len(units) \in 1..Len(x) /\ longer[k] = x[k - Len(units)]
    BY <1>1, <1>2, <1>3
<1> QED BY <1>1, <1>2, <1>3, <1>4, <1>5, <1>6

\* What is in one of them is in both together.
LEMMA HasMore ==
    ASSUME NEW S, NEW units \in Seq(S), NEW x \in Seq(S), NEW P, NEW names
    PROVE  /\ Has(units \o x, P) <=> Has(units, P) \/ Has(x, P)
           /\ Said(units \o x, names) <=> Said(units, names) \/ Said(x, names)
<1>1. PICK longer : longer = units \o x
    OBVIOUS
<1>2. /\ Len(units) \in Nat /\ Len(x) \in Nat
      /\ DOMAIN longer = 1..(Len(units) + Len(x))
      /\ DOMAIN units = 1..Len(units) /\ DOMAIN x = 1..Len(x)
      /\ \A k \in 1..Len(units) : longer[k] = units[k]
      /\ \A k \in 1..Len(x) : Len(units) + k \in DOMAIN longer /\ longer[Len(units) + k] = x[k]
      /\ \A k \in DOMAIN longer : k > Len(units) =>
            k - Len(units) \in 1..Len(x) /\ longer[k] = x[k - Len(units)]
    BY <1>1, ConcatIs
<1>3. \A k \in DOMAIN units : k \in DOMAIN longer
    BY <1>2
<1>4. \A k \in DOMAIN longer : k \in DOMAIN units \/ k > Len(units)
    BY <1>2
<1>5. \A k \in DOMAIN longer : \/ k \in DOMAIN units /\ longer[k] = units[k]
                               \/ k - Len(units) \in DOMAIN x /\ longer[k] = x[k - Len(units)]
    BY <1>2, <1>4
<1>6. /\ \A k \in DOMAIN units : k \in DOMAIN longer /\ longer[k] = units[k]
      /\ \A k \in DOMAIN x : Len(units) + k \in DOMAIN longer /\ longer[Len(units) + k] = x[k]
    BY <1>2, <1>3
<1>7. Has(longer, P) <=> Has(units, P) \/ Has(x, P)
    BY <1>5, <1>6 DEF Has
<1>8. Said(longer, names) <=> Said(units, names) \/ Said(x, names)
    BY <1>5, <1>6 DEF Said
<1> QED BY <1>1, <1>7, <1>8

\* Units of one layer are added to the others.
LEMMA ShapedMore ==
    ASSUME NEW p \in Peers, NEW P \in Protocols, NEW units \in Seq(Vocabulary(p)),
           NEW x \in Seq(Vocabulary(p)), Shaped(units),
           \A i \in 1..Len(x) : /\ x[i].protocol = P
                                /\ x[i].name = "header" <=> (i = 1 /\ ~ Has(units, P))
                                /\ x[i].name \in Outcomes => i = Len(x),
           P = "sasl" /\ x # <<>> => ~ Has(units, "amqp") /\ ~ Said(units, Outcomes)
    PROVE  Shaped(units \o x)
<1>1. PICK longer : longer = units \o x
    OBVIOUS
<1> DEFINE n == Len(units)
<1>2. /\ n \in Nat /\ Len(x) \in Nat
      /\ Len(longer) = n + Len(x) /\ DOMAIN longer = 1..(n + Len(x))
      /\ DOMAIN units = 1..n
      /\ \A k \in 1..n : longer[k] = units[k]
      /\ \A k \in 1..Len(x) : n + k \in DOMAIN longer /\ longer[n + k] = x[k]
      /\ \A k \in DOMAIN longer : k > n => k - n \in 1..Len(x) /\ longer[k] = x[k - n]
    BY <1>1, ConcatIs
<1> HIDE DEF n
<1>3. \A k \in (n + 1)..(n + Len(x)) : longer[k].protocol = P /\ k \in DOMAIN longer
                                         /\ k - n \in 1..Len(x) /\ longer[k] = x[k - n]
  <2>1. SUFFICES ASSUME NEW k \in (n + 1)..(n + Len(x))
                 PROVE  /\ longer[k].protocol = P /\ k \in DOMAIN longer
                        /\ k - n \in 1..Len(x) /\ longer[k] = x[k - n]
    OBVIOUS
  <2>2. n \in Nat /\ Len(x) \in Nat /\ DOMAIN longer = 1..(n + Len(x))
    BY <1>2
  <2>3. k \in DOMAIN longer /\ k > n
    BY ONLY <2>2, k \in (n + 1)..(n + Len(x))
  <2>4. k - n \in 1..Len(x) /\ longer[k] = x[k - n]
    BY <1>2, <2>3
  <2> QED BY <2>3, <2>4
<1>4. SUFFICES ASSUME NEW k \in DOMAIN longer
               PROVE  /\ longer[k].name = "header" <=>
                            \A j \in 1..(k - 1) : longer[j].protocol # longer[k].protocol
                      /\ longer[k].protocol = "amqp" =>
                            \A j \in k..Len(longer) : longer[j].protocol = "amqp"
                      /\ longer[k].name \in Outcomes =>
                            \A j \in (k + 1)..Len(longer) : longer[j].protocol = "amqp"
    BY <1>1 DEF Shaped
<1>5. CASE k \in 1..n
  <2>1. /\ units[k].name = "header" <=> \A j \in 1..(k - 1) : units[j].protocol # units[k].protocol
        /\ units[k].protocol = "amqp" => \A j \in k..n : units[j].protocol = "amqp"
        /\ units[k].name \in Outcomes => \A j \in (k + 1)..n : units[j].protocol = "amqp"
    BY <1>2, <1>5 DEF Shaped, n
  <2>2. longer[k] = units[k] /\ \A j \in 1..(k - 1) : longer[j] = units[j]
    BY <1>2, <1>5
  <2>3. units[k].protocol = "amqp" \/ units[k].name \in Outcomes =>
            \A j \in (n + 1)..(n + Len(x)) : longer[j].protocol = "amqp"
    <3>1. SUFFICES ASSUME units[k].protocol = "amqp" \/ units[k].name \in Outcomes,
                          NEW j \in (n + 1)..(n + Len(x))
                   PROVE  longer[j].protocol = "amqp"
        OBVIOUS
    <3>2. Has(units, "amqp") \/ Said(units, Outcomes)
        BY <1>2, <1>5, <3>1 DEF Has, Said
    <3>3. x # <<>>
        BY <1>3, <3>1
    <3> QED BY <1>3, <3>1, <3>2, <3>3 DEF Protocols
  <2>4. \A j \in k..(n + Len(x)) : j \in k..n \/ j \in (n + 1)..(n + Len(x))
    BY <1>2, <1>5
  <2>5. \A j \in k..n : longer[j] = units[j]
    BY <1>2, <1>5
  <2>6. \A j \in (k + 1)..(n + Len(x)) : j \in (k + 1)..n \/ j \in (n + 1)..(n + Len(x))
    BY <1>2, <1>5
  <2>7. \A j \in (k + 1)..n : longer[j] = units[j]
    BY <1>2, <1>5
  <2> QED BY <1>2, <2>1, <2>2, <2>3, <2>4, <2>5, <2>6, <2>7
<1>6. CASE k \in (n + 1)..(n + Len(x))
  <2>1. /\ longer[k].protocol = P /\ k - n \in 1..Len(x)
        /\ longer[k].name = "header" <=> (k - n = 1 /\ ~ Has(units, P))
        /\ longer[k].name \in Outcomes => k - n = Len(x)
    BY <1>3, <1>6
  <2>2. longer[k].protocol = "amqp" => \A j \in k..Len(longer) : longer[j].protocol = "amqp"
    BY <1>2, <1>3, <1>6
  <2>3. longer[k].name \in Outcomes => \A j \in (k + 1)..Len(longer) : longer[j].protocol = "amqp"
    BY <1>2, <1>6, <2>1
  <2>4. CASE k - n = 1
    <3>1. \A j \in 1..(k - 1) : j \in DOMAIN units /\ longer[j] = units[j]
        BY <1>2, <2>4
    <3>2. \A j \in DOMAIN units : j \in 1..(k - 1)
        BY <1>2, <2>4
    <3>3. ~ Has(units, P) <=> \A j \in 1..(k - 1) : longer[j].protocol # P
        BY <3>1, <3>2 DEF Has
    <3> QED BY <2>1, <2>2, <2>3, <2>4, <3>3
  <2>5. CASE k - n # 1
    <3>1. k - 1 \in (n + 1)..(n + Len(x)) /\ k - 1 \in 1..(k - 1)
        BY <1>2, <1>6, <2>5
    <3>2. longer[k - 1].protocol = P
        BY <1>3, <3>1
    <3> QED BY <2>1, <2>2, <2>3, <2>5, <3>1, <3>2
  <2> QED BY <2>4, <2>5
<1>7. k \in 1..n \/ k \in (n + 1)..(n + Len(x))
    BY <1>2
<1> QED BY <1>5, <1>6, <1>7

\* Nothing of SASL is written where it may not be.
MaySpeak(p, c, units) ==
    WritesTo(c) = "sasl" =>
        /\ c.sasl.pending \in Seq(Spoken(p, "sasl"))
        /\ \/ c.ended
           \/ c.sasl.pending = <<>> /\ c.sasl.header_sent
           \/ ~ Has(units, "amqp") /\ ~ Said(units, Outcomes) /\ Len(c.sasl.pending) <= 1

\* Output writes as it should.
LEMMA OutputWrites ==
    ASSUME NEW p \in Peers, NEW turn \in Turns, NEW units,
           Writing(p, turn.conn, units \o turn.out), units \in Seq(Units),
           MaySpeak(p, turn.conn, units \o turn.out)
    PROVE  LET done == Output(turn)
               P == WritesTo(turn.conn)
               x == IF turn.conn.ended \/ P = "undefined" THEN <<>> ELSE Added(turn.conn[P], P)
           IN  /\ Writing(p, done.conn, units \o done.out)
               /\ done.out = turn.out \o x
               /\ x \in Seq(Vocabulary(p)) /\ \A i \in 1..Len(x) : x[i].protocol = P
<1> DEFINE c == turn.conn
           P == WritesTo(turn.conn)
           x == IF turn.conn.ended \/ P = "undefined" THEN <<>> ELSE Added(turn.conn[P], P)
           d == Output(turn).conn
           out == Output(turn).out
<1>1. c \in Connections /\ turn.out \in Seq(Units) /\ \A Q \in Protocols : c[Q] \in Transports
  <2>1. c \in Connections /\ turn.out \in Seq(Units)
    BY DEF Turns
  <2> QED BY <2>1, ConnFields
<1>2. PICK whole : whole = units \o turn.out
    OBVIOUS
<1>3. /\ whole \in Seq(Vocabulary(p)) /\ Shaped(whole)
      /\ \A Q \in Protocols : /\ Has(whole, Q) => c[Q].header_sent
                              /\ ~ c.ended /\ c[Q].header_sent => Has(whole, Q)
      /\ c.amqp.pending \in Seq({"open", "empty"})
    BY <1>2 DEF Writing
<1>4. P \in Protocols \cup {"undefined"} /\ "undefined" \notin Protocols /\ "amqp" \in Protocols
    BY <1>1, WritesToIs DEF Protocols
<1>5. /\ Output(turn) \in Turns
      /\ c.ended => d.ended
      /\ P = "undefined" => out = turn.out /\ d.amqp = c.amqp /\ d.sasl = c.sasl
      /\ P \in Protocols => /\ d[P].pending = <<>> /\ d[P].header_sent
                            /\ \A Q \in Protocols \ {P} : d[Q] = c[Q]
                            /\ out = IF c.ended THEN turn.out ELSE turn.out \o Added(c[P], P)
    BY OutputIs
<1>6. P \in Protocols => c[P].pending \in Seq(Spoken(p, P))
  <2>1. CASE P = "amqp"
    BY <2>1, <1>3 DEF Spoken
  <2>2. CASE P = "sasl"
    BY <2>2 DEF MaySpeak
  <2> QED BY <2>1, <2>2 DEF Protocols
<1>7. /\ x \in Seq(Vocabulary(p))
      /\ \A i \in 1..Len(x) : x[i].protocol = P
  <2>1. CASE c.ended \/ P = "undefined"
    BY <2>1
  <2>2. CASE ~ (c.ended \/ P = "undefined")
    <3>1. P \in Protocols /\ x = Added(c[P], P)
        BY <2>2, <1>4
    <3> HIDE DEF x, P, c
    <3>2. PICK t \in Transports : t = c[P]
        BY <1>1, <3>1
    <3>3. t.pending \in Seq(Spoken(p, P)) /\ x = Added(t, P)
        BY <1>6, <3>1, <3>2
    <3> QED BY <3>1, <3>3, AddedIs
  <2> QED BY <2>1, <2>2
<1>8. out = turn.out \o x
  <2>1. turn.out \o <<>> = turn.out
    BY <1>1, ConcatEmptySeq
  <2>2. CASE c.ended \/ P = "undefined"
    <3>1. out = turn.out
        BY <2>2, <1>4, <1>5
    <3> QED BY <2>1, <2>2, <3>1
  <2>3. CASE ~ (c.ended \/ P = "undefined")
    BY <2>3, <1>4, <1>5
  <2> QED BY <2>2, <2>3
<1>9. x \in Seq(Units)
  <2> HIDE DEF x
  <2> QED BY <1>7, VocabularyIs, SeqMonotonic
<1>10. units \o out = whole \o x
  <2> HIDE DEF x, out, c
  <2>1. PICK o \in Seq(Units) : o = turn.out
    BY <1>1
  <2>2. (units \o o) \o x = units \o (o \o x)
    BY <1>9, ConcatAssociative
  <2> QED BY <1>2, <1>8, <2>1, <2>2
<1>11. Shaped(whole \o x)
  <2>1. CASE c.ended \/ P = "undefined"
    <3>1. whole \o x = whole
        BY <2>1, <1>3, ConcatEmptySeq
    <3> QED BY <1>3, <3>1
  <2>2. CASE ~ (c.ended \/ P = "undefined")
    <3>1. P \in Protocols /\ x = Added(c[P], P)
        BY <2>2, <1>4
    <3>2. Has(whole, P) <=> c[P].header_sent
      <4>1. Has(whole, P) \in BOOLEAN /\ c[P].header_sent \in BOOLEAN
        BY <1>1, <3>1, TransportFields DEF Has
      <4> QED BY <1>3, <2>2, <3>1, <4>1
    <3> HIDE DEF x, P, c
    <3>3. PICK t \in Transports : t = c[P] /\ t.pending \in Seq(Spoken(p, P)) /\ x = Added(t, P)
      <4>1. c[P] \in Transports
        BY <1>1, <3>1
      <4>2. c[P].pending \in Seq(Spoken(p, P))
        BY <1>6, <3>1
      <4> QED BY Zenon, <3>1, <4>1, <4>2
    <3>4. /\ t.header_sent => Len(x) = Len(t.pending)
          /\ ~ t.header_sent => Len(x) = Len(t.pending) + 1
          /\ Len(t.pending) \in Nat
          /\ \A i \in 1..Len(x) :
                /\ x[i].protocol = P
                /\ x[i].name = "header" <=> (i = 1 /\ ~ t.header_sent)
        BY <3>1, <3>3, AddedIs
    <3>5. P = "sasl" => \/ t.pending = <<>> /\ t.header_sent
                        \/ ~ Has(whole, "amqp") /\ ~ Said(whole, Outcomes) /\ Len(t.pending) <= 1
        BY <1>2, <2>2, <3>3 DEF MaySpeak, P, c
    <3>6. \A i \in 1..Len(x) : x[i].name \in Outcomes => i = Len(x)
      <4>1. SUFFICES ASSUME NEW i \in 1..Len(x), x[i].name \in Outcomes
                     PROVE  i = Len(x)
        OBVIOUS
      <4>2. x[i] \in Vocabulary(p) /\ x[i].protocol = P
        BY <1>7
      <4>3. x[i].name # "header" /\ P = "sasl"
        <5>1. x[i].name \notin {"header", "open", "empty"}
            BY <4>1 DEF Outcomes
        <5>2. x[i].name \in {"header"} \cup Spoken(p, P) /\ P \in Protocols
            BY <4>2, VocabularyIs
        <5> QED BY <5>1, <5>2 DEF Spoken, Protocols
      <4>4. t.pending = <<>> => Len(t.pending) = 0
        OBVIOUS
      <4>5. PICK m \in Nat : m = Len(t.pending) /\ m <= 1
        BY <3>4, <3>5, <4>3, <4>4
      <4>6. CASE t.header_sent
        <5>1. Len(x) = m
            BY <3>4, <4>5, <4>6
        <5> QED BY <4>1, <4>5, <5>1
      <4>7. CASE ~ t.header_sent
        <5>1. Len(x) = m + 1 /\ i # 1
            BY <3>4, <4>1, <4>3, <4>5, <4>7
        <5> QED BY <4>1, <4>5, <5>1
      <4> QED BY <4>6, <4>7
    <3>7. P = "sasl" /\ x # <<>> => ~ Has(whole, "amqp") /\ ~ Said(whole, Outcomes)
      <4>1. SUFFICES ASSUME P = "sasl", x # <<>>, t.pending = <<>> /\ t.header_sent
                     PROVE  FALSE
        BY <3>5
      <4>2. Len(t.pending) = 0 /\ Len(x) = 0
        BY <3>4, <4>1
      <4>3. Len(x) \in Nat \ {0}
        BY <1>7, <4>1, EmptySeq
      <4> QED BY <4>2, <4>3
    <3> QED BY <1>3, <1>7, <3>1, <3>2, <3>3, <3>4, <3>6, <3>7, ShapedMore
  <2> QED BY <2>1, <2>2
<1>12. whole \o x \in Seq(Vocabulary(p))
  <2> HIDE DEF x
  <2> QED BY <1>3, <1>7, ConcatProperties
<1>13. ASSUME NEW Q \in Protocols
       PROVE  /\ Has(whole \o x, Q) => d[Q].header_sent
              /\ ~ d.ended /\ d[Q].header_sent => Has(whole \o x, Q)
  <2>1. Has(whole \o x, Q) <=> Has(whole, Q) \/ Has(x, Q)
    <3> HIDE DEF x
    <3> QED BY <1>3, <1>7, HasMore
  <2>2. Has(x, Q) => Q = P
    <3> HIDE DEF x
    <3>1. DOMAIN x = 1..Len(x)
        BY <1>7, LenProperties
    <3> QED BY <1>7, <3>1 DEF Has
  <2>3. (Q = P => d[Q].header_sent) /\ (Q # P => d[Q] = c[Q])
    <3>1. Q \in {"amqp", "sasl"}
        BY DEF Protocols
    <3> HIDE DEF d, c, P
    <3>2. CASE P = "undefined"
      <4>1. d["amqp"] = c["amqp"] /\ d["sasl"] = c["sasl"]
        BY <1>5, <3>2
      <4>2. CASE Q = "amqp"
        BY <4>1, <4>2, <3>2
      <4>3. CASE Q = "sasl"
        BY <4>1, <4>3, <3>2
      <4> QED BY <3>1, <4>2, <4>3
    <3>3. CASE P \in Protocols
      <4>1. d[P].header_sent /\ \A R \in Protocols \ {P} : d[R] = c[R]
        BY <1>5, <3>3
      <4> QED BY <4>1
    <3> QED BY <1>4, <3>2, <3>3
  <2>4. ~ d.ended /\ Q = P => Has(whole, Q) \/ Has(x, Q)
    <3>1. SUFFICES ASSUME ~ d.ended, Q = P, ~ Has(whole, Q)
                   PROVE  Has(x, Q)
        OBVIOUS
    <3>2. d.ended \in BOOLEAN /\ c.ended \in BOOLEAN /\ c[Q].header_sent \in BOOLEAN
      <4>1. d \in Connections
        BY <1>5 DEF Turns
      <4> QED BY <1>1, <4>1, ConnFields, TransportFields
    <3>3. ~ c.ended /\ P \in Protocols /\ x = Added(c[P], P) /\ P # "undefined"
        BY <1>4, <1>5, <3>1, <3>2
    <3>4. ~ c[P].header_sent
        BY <1>3, <3>1, <3>2, <3>3
    <3> HIDE DEF x, P, c
    <3>5. PICK t \in Transports :
              t = c[P] /\ t.pending \in Seq(Spoken(p, P)) /\ x = Added(t, P) /\ ~ t.header_sent
      <4>1. c[P] \in Transports
        BY <1>1, <3>3
      <4>2. c[P].pending \in Seq(Spoken(p, P))
        BY <1>6, <3>3
      <4> QED BY Zenon, <3>3, <3>4, <4>1, <4>2
    <3>7. Len(x) = Len(t.pending) + 1 /\ Len(t.pending) \in Nat
        BY <3>3, <3>5, AddedIs
    <3>6. 1 \in 1..Len(x) /\ DOMAIN x = 1..Len(x)
        BY <1>7, <3>7, LenProperties
    <3> QED BY <1>7, <3>1, <3>6 DEF Has
  <2>5. ~ d.ended => ~ c.ended
    BY <1>5
  <2> HIDE DEF x, d, c, P
  <2>6. /\ Has(whole, Q) => c[Q].header_sent
        /\ ~ c.ended /\ c[Q].header_sent => Has(whole, Q)
    BY <1>3
  <2>7. CASE Q = P
    BY <2>1, <2>3, <2>4, <2>7
  <2>8. CASE Q # P
    <3>1. d[Q] = c[Q] /\ ~ Has(x, Q)
        BY <2>2, <2>3, <2>8
    <3> QED BY <2>1, <2>5, <2>6, <3>1
  <2> QED BY <2>7, <2>8
<1>14. d.amqp.pending \in Seq({"open", "empty"})
  <2>1. d.amqp = c.amqp \/ d.amqp.pending = <<>>
    <3> HIDE DEF d, c, P
    <3>1. CASE P = "undefined"
        BY <3>1, <1>5
    <3>2. CASE P = "amqp"
      <4>1. d["amqp"].pending = <<>>
        BY <3>2, <1>4, <1>5
      <4> QED BY <4>1
    <3>3. CASE P = "sasl"
      <4>1. P \in Protocols /\ "amqp" \in Protocols \ {P}
        BY <3>3 DEF Protocols
      <4>2. d["amqp"] = c["amqp"]
        BY <4>1, <1>5
      <4> QED BY <4>2
    <3> QED BY <1>4, <3>1, <3>2, <3>3 DEF Protocols
  <2>2. c.amqp.pending \in Seq({"open", "empty"}) /\ <<>> \in Seq({"open", "empty"})
    BY <1>3
  <2> HIDE DEF d, c
  <2> QED BY <2>1, <2>2
<1>15. Writing(p, d, units \o out)
  <2> HIDE DEF d, out, x
  <2> QED BY <1>10, <1>11, <1>12, <1>13, <1>14 DEF Writing
<1> QED BY <1>7, <1>8, <1>15

-----------------------------------------------------------------------------
(* Setting one field.                                                      *)

ConnFieldNames ==
    {"kind", "known", "eager", "selected", "amqp", "sasl", "held", "frame_size",
     "local_open", "remote_open", "transport_error", "ended"}

\* Two connections are the same but for some fields.
Alike(c, d, but) == \A f \in ConnFieldNames \ but : d[f] = c[f]

\* Of a record, one field is set: turns, and then connections.
LEMMA TurnSet ==
    ASSUME NEW t \in Turns, NEW d \in Connections, NEW u, u = [t EXCEPT !.conn = d]
    PROVE  /\ u \in Turns /\ u.conn = d /\ u.out = t.out
           /\ u.promises = t.promises /\ u.thrown = t.thrown
BY DEF Turns

LEMMA TurnFields ==
    ASSUME NEW t \in Turns
    PROVE  t.conn \in Connections /\ t.out \in Seq(Units) /\ t.promises \in Nat /\ t.thrown \in BOOLEAN
BY DEF Turns

LEMMA HeldSet ==
    ASSUME NEW c \in Connections, NEW x \in Nat, NEW d, d = [c EXCEPT !.held = x]
    PROVE  d \in Connections /\ d.held = x /\ Alike(c, d, {"held"})
BY DEF Connections, Alike, ConnFieldNames

LEMMA FrameSizeSet ==
    ASSUME NEW c \in Connections, NEW x \in {0} \cup {Size[n] : n \in Names},
           NEW d, d = [c EXCEPT !.frame_size = x]
    PROVE  d \in Connections /\ d.frame_size = x /\ Alike(c, d, {"frame_size"})
<1>1. d.frame_size = x /\ Alike(c, d, {"frame_size"})
    BY DEF Connections, Alike, ConnFieldNames
<1>2. d \in Connections
    BY DEF Connections
<1> QED BY <1>1, <1>2

LEMMA SelectedSet ==
    ASSUME NEW c \in Connections, NEW x \in Protocols, NEW d, d = [c EXCEPT !.selected = x]
    PROVE  d \in Connections /\ d.selected = x /\ Alike(c, d, {"selected"})
BY DEF Connections, Alike, ConnFieldNames

LEMMA RemoteOpenSet ==
    ASSUME NEW c \in Connections, NEW x \in BOOLEAN, NEW d, d = [c EXCEPT !.remote_open = x]
    PROVE  d \in Connections /\ d.remote_open = x /\ Alike(c, d, {"remote_open"})
BY DEF Connections, Alike, ConnFieldNames

LEMMA LocalOpenSet ==
    ASSUME NEW c \in Connections, NEW x \in BOOLEAN, NEW d, d = [c EXCEPT !.local_open = x]
    PROVE  d \in Connections /\ d.local_open = x /\ Alike(c, d, {"local_open"})
BY DEF Connections, Alike, ConnFieldNames

LEMMA EndedSet ==
    ASSUME NEW c \in Connections, NEW x \in BOOLEAN, NEW d, d = [c EXCEPT !.ended = x]
    PROVE  d \in Connections /\ d.ended = x /\ Alike(c, d, {"ended"})
BY DEF Connections, Alike, ConnFieldNames

LEMMA ErrorSet ==
    ASSUME NEW c \in Connections, NEW x \in BOOLEAN, NEW d, d = [c EXCEPT !.transport_error = x]
    PROVE  d \in Connections /\ d.transport_error = x /\ Alike(c, d, {"transport_error"})
BY DEF Connections, Alike, ConnFieldNames

LEMMA TransportSet ==
    ASSUME NEW c \in Connections, NEW P \in Protocols, NEW t \in Transports,
           NEW d, d = [c EXCEPT ![P] = t]
    PROVE  d \in Connections /\ d[P] = t /\ Alike(c, d, {P})
<1>1. CASE P = "amqp"
    BY <1>1 DEF Connections, Alike, ConnFieldNames
<1>2. CASE P = "sasl"
    BY <1>2 DEF Connections, Alike, ConnFieldNames
<1> QED BY <1>1, <1>2 DEF Protocols

\* Alike, field by field.
LEMMA AlikeFields ==
    ASSUME NEW c, NEW d, NEW but, Alike(c, d, but)
    PROVE  /\ "kind" \notin but => d.kind = c.kind
           /\ "known" \notin but => d.known = c.known
           /\ "eager" \notin but => d.eager = c.eager
           /\ "selected" \notin but => d.selected = c.selected
           /\ "amqp" \notin but => d.amqp = c.amqp
           /\ "sasl" \notin but => d.sasl = c.sasl
           /\ "held" \notin but => d.held = c.held
           /\ "frame_size" \notin but => d.frame_size = c.frame_size
           /\ "local_open" \notin but => d.local_open = c.local_open
           /\ "remote_open" \notin but => d.remote_open = c.remote_open
           /\ "transport_error" \notin but => d.transport_error = c.transport_error
           /\ "ended" \notin but => d.ended = c.ended
           /\ \A P \in Protocols \ but : d[P] = c[P]
BY DEF Alike, ConnFieldNames, Protocols

-----------------------------------------------------------------------------
(* The loop of Read.                                                        *)

Stopped(protocol, units, to, t) ==
    \/ t.thrown \/ ~ t.conn[protocol].header_received
    \/ t.conn[protocol].read_complete \/ ~ Whole(units, t.conn.held, to)

\* One more frame is read.
ReadOne(protocol, units, to, t) ==
    LET from == t.conn.held
        unit == UnitAt(units, from)
    IN  IF Stopped(protocol, units, to, t) THEN t
        ELSE IF unit.protocol # protocol THEN [t EXCEPT !.thrown = TRUE]
        ELSE Handled([t EXCEPT !.conn.held = from + SizeAt(units, from)], unit)

\* What the loop keeps holds in the end.
LEMMA ReadUnfolds ==
    ASSUME NEW units \in Seq(Units), NEW to, NEW protocol, NEW turn, NEW S,
           HeaderRead(turn, protocol, units, to) \in S,
           \A t \in S : ReadOne(protocol, units, to, t) \in S
    PROVE  \E after \in [0..Len(units) -> S] :
               /\ after[0] = HeaderRead(turn, protocol, units, to)
               /\ \A k \in 1..Len(units) : after[k] = ReadOne(protocol, units, to, after[k - 1])
               /\ Read(turn, protocol, units, to) = after[Len(units)]
<1> DEFINE n == Len(units)
           begun == HeaderRead(turn, protocol, units, to)
           Body(g) == [k \in 0..n |-> IF k = 0 THEN begun ELSE ReadOne(protocol, units, to, g[k - 1])]
           step == [p \in (1..n) \X S |-> ReadOne(protocol, units, to, p[2])]
           after == CHOOSE g : g = Body(g)
<1>1. n \in Nat /\ begun \in S
    BY UnitSize
<1>2. step \in [(1..n) \X S -> S]
    OBVIOUS
<1> HIDE DEF begun
<1>3. PICK f \in [0..n -> S] : Recurs(f, n, begun, step)
  <2> HIDE DEF step, n
  <2> QED BY <1>1, <1>2, Recursion
<1>4. f = Body(f)
  <2>1. \A k \in 1..n : f[k] = ReadOne(protocol, units, to, f[k - 1])
    <3>1. SUFFICES ASSUME NEW k \in 1..n
                   PROVE  f[k] = ReadOne(protocol, units, to, f[k - 1])
        OBVIOUS
    <3>2. k - 1 \in 0..n
        BY <1>1
    <3>3. <<k, f[k - 1]>> \in (1..n) \X S
        BY <3>2, <1>3
    <3> QED BY <3>3, <1>3 DEF Recurs
  <2>2. \A k \in 0..n : f[k] = Body(f)[k]
    BY <1>1, <1>3, <2>1 DEF Recurs
  <2>3. DOMAIN f = 0..n /\ f = [k \in 0..n |-> f[k]]
    BY <1>3
  <2> HIDE DEF n
  <2> QED BY <2>2, <2>3
<1>5. after = Body(after)
  <2> HIDE DEF Body
  <2> QED BY <1>4
<1>6. Read(turn, protocol, units, to) = after[n]
    BY DEF Read, ReadOne, Stopped, begun
<1>7. after[0] = begun /\ \A k \in 1..n : after[k] = ReadOne(protocol, units, to, after[k - 1])
  <2> HIDE DEF after
  <2>1. \A k \in 0..n : after[k] = IF k = 0 THEN begun ELSE ReadOne(protocol, units, to, after[k - 1])
    BY <1>5
  <2> QED BY <1>1, <2>1
<1>8. \A k \in 0..n : after[k] \in S
  <2> DEFINE Odd == {k \in 0..n : after[k] \notin S}
  <2>1. SUFFICES ASSUME Odd # {}
                 PROVE  FALSE
    OBVIOUS
  <2>2. PICK k \in Odd : \A y \in Odd : k <= y
    <3>1. Odd \in SUBSET Nat
        OBVIOUS
    <3> HIDE DEF Odd
    <3> QED BY <2>1, <3>1, LeastExists
  <2> HIDE DEF after
  <2>3. k \in 1..n /\ k - 1 \in 0..n /\ k - 1 \notin Odd
    BY <1>1, <1>7, <2>2
  <2>4. after[k - 1] \in S
    BY <2>3
  <2>5. after[k] \in S
    BY <1>7, <2>3, <2>4
  <2> QED BY <2>2, <2>5
<1>9. after \in [0..n -> S]
  <2>1. DOMAIN after = 0..n /\ after = [k \in 0..n |-> after[k]]
    <3> HIDE DEF after
    <3>1. \A g : DOMAIN Body(g) = 0..n /\ Body(g) = [k \in 0..n |-> Body(g)[k]]
        OBVIOUS
    <3> HIDE DEF Body
    <3> QED BY <1>5, <3>1
  <2> HIDE DEF after
  <2> QED BY <1>8, <2>1
<1> HIDE DEF after, n
<1> QED BY <1>6, <1>7, <1>9 DEF n, begun

\* Each round takes a unit, so that the loop goes on until it is stopped.
LEMMA ReadStops ==
    ASSUME NEW units \in Seq(Units), NEW to \in Nat, to <= Bytes(units),
           NEW protocol, NEW turn, NEW S,
           HeaderRead(turn, protocol, units, to) \in S,
           \A t \in S :
              /\ ReadOne(protocol, units, to, t) \in S
              /\ ~ t.thrown => \E n \in 1..(Len(units) + 1) : Offsets(units)[n] = t.conn.held
              /\ ~ Stopped(protocol, units, to, t) =>
                    LET u == ReadOne(protocol, units, to, t)
                    IN  u.thrown \/ u.conn.held = t.conn.held + SizeAt(units, t.conn.held)
    PROVE  /\ Read(turn, protocol, units, to) \in S
           /\ Stopped(protocol, units, to, Read(turn, protocol, units, to))
<1> DEFINE m == Len(units)
           Halt(t) == Stopped(protocol, units, to, t)
<1>1. PICK after \in [0..m -> S] :
               /\ after[0] = HeaderRead(turn, protocol, units, to)
               /\ \A k \in 1..m : after[k] = ReadOne(protocol, units, to, after[k - 1])
               /\ Read(turn, protocol, units, to) = after[m]
    BY ReadUnfolds
<1>2. m \in Nat /\ m \in 0..m
    BY UnitSize
<1> DEFINE Odd == {k \in 0..m : ~ (Halt(after[k]) \/ \E n \in (k + 1)..(m + 1) :
                                                         Offsets(units)[n] = after[k].conn.held)}
<1>3. Odd = {}
  <2>1. SUFFICES ASSUME Odd # {} PROVE FALSE
    OBVIOUS
  <2>2. PICK k \in Odd : \A y \in Odd : k <= y
    <3>1. Odd \in SUBSET Nat
        OBVIOUS
    <3> HIDE DEF Odd
    <3> QED BY <2>1, <3>1, LeastExists
  <2>3. k \in 0..m /\ ~ Halt(after[k])
            /\ ~ \E n \in (k + 1)..(m + 1) : Offsets(units)[n] = after[k].conn.held
    BY <2>2
  <2>4. ~ after[k].thrown
    BY <2>3 DEF Stopped
  <2>5. k # 0
    <3>1. SUFFICES ASSUME k = 0 PROVE FALSE
        OBVIOUS
    <3>2. \E n \in 1..(m + 1) : Offsets(units)[n] = after[k].conn.held
        BY <1>1, <2>3, <2>4
    <3> QED BY <2>3, <3>1, <3>2
  <2>6. k \in 1..m /\ k - 1 \in 0..m /\ k - 1 \notin Odd
    <3>1. k \in 1..m /\ k - 1 \in 0..m /\ ~ (k <= k - 1)
        BY <1>2, <2>3, <2>5
    <3> HIDE DEF Odd, m
    <3> QED BY <2>2, <3>1
  <2>7. after[k] = ReadOne(protocol, units, to, after[k - 1])
    BY <1>1, <2>6
  <2>8. PICK t \in S : t = after[k - 1]
    BY <1>1, <2>6
  <2>9. ~ Halt(t)
    <3>1. SUFFICES ASSUME Halt(t) PROVE FALSE
        OBVIOUS
    <3>2. ReadOne(protocol, units, to, t) = t
        BY <3>1 DEF ReadOne
    <3> QED BY <2>3, <2>7, <2>8, <3>1, <3>2
  <2>10. PICK n \in k..(m + 1) : Offsets(units)[n] = t.conn.held
    <3>1. \E n \in ((k - 1) + 1)..(m + 1) : Offsets(units)[n] = after[k - 1].conn.held
      <4> HIDE DEF Halt
      <4> QED BY <2>6, <2>8, <2>9
    <3> QED BY <2>6, <2>8, <3>1
  <2>11. n \in 1..(m + 1)
    BY <2>6
  <2>12. n \in 1..m
    <3>1. SUFFICES ASSUME n = m + 1 PROVE FALSE
        BY <1>2, <2>11
    <3>2. t.conn.held = Bytes(units) /\ Bytes(units) \in Nat
        BY <2>10, <3>1, NothingAtEnd DEF Bytes
    <3>3. ~ Whole(units, t.conn.held, to)
        BY <3>2 DEF Whole
    <3> QED BY <2>9, <3>3 DEF Stopped
  <2>13. UnitAt(units, t.conn.held) = units[n]
            /\ (units[n].name # "header" => SizeAt(units, t.conn.held) = Size[units[n].name])
    BY <2>10, <2>12, UnitAtStart
  <2>14. after[k].conn.held = t.conn.held + SizeAt(units, t.conn.held)
    BY <1>1, <2>4, <2>7, <2>8, <2>9
  <2>15. PICK x \in 1..(m + 1) : Offsets(units)[x] = after[k].conn.held
    BY <1>1, <2>3, <2>4
  <2>16. SizeAt(units, t.conn.held) \in Nat /\ SizeAt(units, t.conn.held) > 0
    <3>1. CASE units[n].name # "header"
        BY <2>12, <2>13, <3>1, UnitSize
    <3>2. CASE units[n].name = "header"
        BY <2>13, <3>2 DEF SizeAt
    <3> QED BY <3>1, <3>2
  <2>17. Offsets(units)[n] < Offsets(units)[x]
    <3>1. Offsets(units)[n] \in Nat
        BY <2>11, OffsetsType
    <3> QED BY <2>10, <2>14, <2>15, <2>16, <3>1
  <2>18. n < x
    BY <2>11, <2>15, <2>17, AtOrder
  <2>19. x \in (k + 1)..(m + 1)
    BY <2>6, <2>10, <2>15, <2>18
  <2> QED BY <2>3, <2>15, <2>19
<1>4. after[m] \in S
    BY <1>1, <1>2
<1>5. Halt(after[m])
  <2>1. SUFFICES ASSUME ~ Halt(after[m]) PROVE FALSE
    OBVIOUS
  <2>2. PICK n \in (m + 1)..(m + 1) : Offsets(units)[n] = after[m].conn.held
    BY <1>2, <1>3, <2>1
  <2>3. after[m].conn.held = Bytes(units) /\ Bytes(units) \in Nat
    BY <1>2, <2>2, NothingAtEnd DEF Bytes
  <2>4. ~ Whole(units, after[m].conn.held, to)
    BY <2>3 DEF Whole
  <2> QED BY <2>1, <2>4 DEF Stopped
<1> QED BY <1>1, <1>4, <1>5

-----------------------------------------------------------------------------
(* Where a round comes to.                                                 *)

OnEdge(units, held) == \E n \in 1..(Len(units) + 1) : Offsets(units)[n] = held
PastOf(units, held, P) == \E j \in DOMAIN units : Offsets(units)[j] < held /\ units[j].protocol = P
Past(units, held, names) == \E j \in DOMAIN units : Offsets(units)[j] < held /\ units[j].name \in names
Due(units, held, names) == \E j \in DOMAIN units : Offsets(units)[j] >= held /\ units[j].name \in names
Last(units, held, names) ==
    \A j \in DOMAIN units : Offsets(units)[j] >= held /\ units[j].name \in names => j = Len(units)

\* From the first byte of a unit to the first of the next.
LEMMA NextEdge ==
    ASSUME NEW units \in Seq(Units), NEW n \in 1..Len(units),
           NEW x, x = Offsets(units)[n], NEW y, y = Offsets(units)[n + 1]
    PROVE  /\ x \in Nat /\ y \in Nat /\ x < y /\ y = x + Size[units[n].name]
           /\ OnEdge(units, x) /\ OnEdge(units, y) /\ y <= Bytes(units)
           /\ n = Len(units) => y = Bytes(units)
           /\ \A j \in 1..Len(units) : Offsets(units)[j] < y <=> (Offsets(units)[j] < x \/ j = n)
           /\ \A j \in 1..Len(units) : Offsets(units)[j] < x <=> j < n
<1>1. Len(units) \in Nat /\ DOMAIN units = 1..Len(units)
    BY LenProperties
<1>2. n \in 1..(Len(units) + 1) /\ n + 1 \in 1..(Len(units) + 1) /\ Len(units) + 1 \in 1..(Len(units) + 1)
    BY <1>1
<1>3. x \in Nat /\ y \in Nat /\ x < y
    BY <1>1, <1>2, AtOrder
<1>4. y = x + Size[units[n].name]
    BY OffsetsUnfold
<1>5. OnEdge(units, x) /\ OnEdge(units, y)
    BY <1>2 DEF OnEdge
<1>6. n = Len(units) => y = Bytes(units)
    BY DEF Bytes
<1>7. y <= Bytes(units)
  <2>1. CASE n = Len(units)
    BY <1>3, <1>6, <2>1
  <2>2. CASE n # Len(units)
    <3>1. n + 1 < Len(units) + 1
      <4>1. PICK m \in Nat : m = Len(units)
        BY <1>1
      <4>2. n \in 1..m /\ n # m
        BY <2>2, <4>1
      <4> QED BY <4>1, <4>2
    <3>2. y < Bytes(units) /\ Bytes(units) \in Nat
        BY <1>2, <3>1, AtOrder DEF Bytes
    <3> QED BY <1>3, <3>2
  <2> QED BY <2>1, <2>2
<1>8. ASSUME NEW j \in 1..Len(units)
      PROVE  /\ Offsets(units)[j] < x <=> j < n
             /\ Offsets(units)[j] < y <=> (Offsets(units)[j] < x \/ j = n)
  <2>1. j \in 1..(Len(units) + 1)
    BY <1>1
  <2>2. (j < n <=> Offsets(units)[j] < x) /\ (j < n + 1 <=> Offsets(units)[j] < y)
    BY <1>2, <2>1, AtOrder
  <2>3. j < n + 1 <=> (j < n \/ j = n)
    BY <1>1
  <2> QED BY <2>2, <2>3
<1> QED BY <1>3, <1>4, <1>5, <1>6, <1>7, <1>8

\* What is past, one unit further on.
LEMMA NextPast ==
    ASSUME NEW units \in Seq(Units), NEW n \in 1..Len(units), NEW P, NEW names
    PROVE  /\ PastOf(units, Offsets(units)[n + 1], P)
                <=> (PastOf(units, Offsets(units)[n], P) \/ units[n].protocol = P)
           /\ Past(units, Offsets(units)[n + 1], names)
                <=> (Past(units, Offsets(units)[n], names) \/ units[n].name \in names)
<1>1. Len(units) \in Nat /\ DOMAIN units = 1..Len(units)
    BY LenProperties
<1>2. \A j \in 1..Len(units) :
         Offsets(units)[j] < Offsets(units)[n + 1] <=> (Offsets(units)[j] < Offsets(units)[n] \/ j = n)
    BY NextEdge
<1>3. PastOf(units, Offsets(units)[n + 1], P)
        <=> (PastOf(units, Offsets(units)[n], P) \/ units[n].protocol = P)
    BY <1>1, <1>2 DEF PastOf
<1>4. Past(units, Offsets(units)[n + 1], names)
        <=> (Past(units, Offsets(units)[n], names) \/ units[n].name \in names)
    BY <1>1, <1>2 DEF Past
<1> QED BY <1>3, <1>4

\* What is there before the end begins with a unit.
LEMMA EdgeBeforeEnd ==
    ASSUME NEW units \in Seq(Units), NEW held, OnEdge(units, held), held < Bytes(units)
    PROVE  \E n \in 1..Len(units) : /\ Offsets(units)[n] = held /\ UnitAt(units, held) = units[n]
                                    /\ StartsAt(units, held)
                                    /\ units[n] \in Units /\ Size[units[n].name] \in Nat /\ Size[units[n].name] >= 8
                                    /\ units[n].name # "header" => SizeAt(units, held) = Size[units[n].name]
                                    /\ units[n].name = "header" => SizeAt(units, held) = 2 ^ 20
<1>1. PICK n \in 1..(Len(units) + 1) : Offsets(units)[n] = held
    BY DEF OnEdge
<1>2. Bytes(units) \in Nat /\ Len(units) \in Nat
    BY NothingAtEnd, UnitSize
<1>3. n # Len(units) + 1
  <2>1. SUFFICES ASSUME n = Len(units) + 1 PROVE FALSE
    OBVIOUS
  <2>2. held = Bytes(units)
    BY <1>1, <2>1 DEF Bytes
  <2> QED BY <1>2, <2>2
<1>4. n \in 1..Len(units)
    BY <1>2, <1>3
<1>5. units[n] \in Units /\ Size[units[n].name] \in Nat /\ Size[units[n].name] >= 8
    BY <1>4, UnitSize
<1>6. /\ UnitAt(units, held) = units[n] /\ StartsAt(units, held)
      /\ units[n].name # "header" => SizeAt(units, held) = Size[units[n].name]
    BY <1>1, <1>4, UnitAtStart
<1>7. units[n].name = "header" => SizeAt(units, held) = 2 ^ 20
    BY <1>6 DEF SizeAt
<1> QED BY <1>1, <1>4, <1>5, <1>6, <1>7

\* A connection with another transport exists.
LEMMA TransportPut ==
    ASSUME NEW c \in Connections, NEW P \in Protocols, NEW t \in Transports
    PROVE  \E d \in Connections :
              d = [c EXCEPT ![P] = t] /\ d[P] = t /\ Alike(c, d, {P})
<1>1. PICK d : d = [c EXCEPT ![P] = t]
    OBVIOUS
<1> QED BY <1>1, TransportSet

\* What of a transport reading the header and frames leaves alone.
SameWriting(t, u) ==
    /\ u.pending = t.pending /\ u.header_sent = t.header_sent
    /\ u.read_complete = t.read_complete /\ u.write_complete = t.write_complete

LEMMA TransportReceives ==
    ASSUME NEW t \in Transports, NEW u, u = [t EXCEPT !.header_received = TRUE]
    PROVE  u \in Transports /\ u.header_received /\ SameWriting(t, u)
<1>1. u \in Transports
    BY DEF Transports
<1>2. u.header_received
    BY DEF Transports
<1>3. SameWriting(t, u)
    BY DEF Transports, SameWriting
<1> QED BY <1>1, <1>2, <1>3

LEMMA TurnThrows ==
    ASSUME NEW t \in Turns, NEW u, u = [t EXCEPT !.thrown = TRUE]
    PROVE  /\ u \in Turns /\ u.thrown /\ u.conn = t.conn /\ u.out = t.out /\ u.promises = t.promises
BY DEF Turns

Begun(turn, protocol, units, to, h) ==
    /\ h \in Turns /\ h.out = turn.out /\ h.promises = turn.promises
    /\ Alike(turn.conn, h.conn, {"held", protocol})
    /\ SameWriting(turn.conn[protocol], h.conn[protocol])
    /\ turn.conn.held <= h.conn.held /\ h.conn.held <= to /\ OnEdge(units, h.conn.held)
    /\ h.conn[protocol].header_received <=> PastOf(units, h.conn.held, protocol)
    /\ \A Q : Q # protocol => (PastOf(units, h.conn.held, Q) <=> PastOf(units, turn.conn.held, Q))
    /\ \A names : "header" \notin names =>
          (Past(units, h.conn.held, names) <=> Past(units, turn.conn.held, names))
    /\ ~ h.thrown /\ ~ h.conn[protocol].header_received => to < h.conn.held + 8

\* HeaderRead takes the header if it is there, and throws only if it is the wrong one.
LEMMA HeaderReadIs ==
    ASSUME NEW turn \in Turns, NEW protocol \in Protocols, NEW units \in Seq(Units), NEW to \in Nat,
           OnEdge(units, turn.conn.held), turn.conn.held <= to, to <= Bytes(units),
           turn.conn[protocol].header_received <=> PastOf(units, turn.conn.held, protocol)
    PROVE  Begun(turn, protocol, units, to, HeaderRead(turn, protocol, units, to))
<1> DEFINE c == turn.conn
           h == HeaderRead(turn, protocol, units, to)
<1>1. /\ c \in Connections /\ c.held \in Nat /\ c[protocol] \in Transports
      /\ c[protocol].header_received \in BOOLEAN /\ Bytes(units) \in Nat
  <2>1. c \in Connections
    BY TurnFields
  <2>2. c.held \in Nat /\ c[protocol] \in Transports
    BY <2>1, ConnFields
  <2> QED BY <2>1, <2>2, TransportFields, NothingAtEnd
<1>2. CASE c[protocol].header_received \/ to - c.held < 8
  <2>1. h = turn
    BY <1>2 DEF HeaderRead
  <2>2. Alike(c, c, {"held", protocol}) /\ SameWriting(c[protocol], c[protocol])
    BY DEF Alike, SameWriting
  <2>3. ~ c[protocol].header_received => to < c.held + 8
    BY <1>1, <1>2
  <2>4. c.held <= c.held
    BY <1>1
  <2>5. /\ turn.conn.held <= turn.conn.held /\ turn.conn.held <= to
        /\ ~ turn.thrown /\ ~ turn.conn[protocol].header_received => to < turn.conn.held + 8
    BY <2>3, <2>4
  <2>6. Begun(turn, protocol, units, to, turn)
    BY <2>2, <2>5 DEF Begun
  <2> QED BY <2>1, <2>6
<1>3. CASE ~ (c[protocol].header_received \/ to - c.held < 8)
  <2>1. c.held < Bytes(units) /\ c.held + 8 <= to
    BY <1>1, <1>3
  <2>2. PICK n \in 1..Len(units) : Offsets(units)[n] = c.held /\ UnitAt(units, c.held) = units[n]
    BY <2>1, EdgeBeforeEnd
  <2>3. CASE units[n] = Header(protocol)
    <3>1. h = [turn EXCEPT !.conn[protocol].header_received = TRUE, !.conn.held = @ + 8]
        BY <1>3, <2>2, <2>3 DEF HeaderRead
    <3>2. PICK t \in Transports : t = [c[protocol] EXCEPT !.header_received = TRUE]
              /\ t.header_received /\ SameWriting(c[protocol], t)
        BY <1>1, TransportReceives
    <3>3. PICK x \in Nat : x = c.held + 8
        BY <1>1
    <3>4. PICK a \in Connections : a = [c EXCEPT ![protocol] = t] /\ a[protocol] = t /\ Alike(c, a, {protocol})
      <4>1. PICK old \in Connections : old = c
        BY <1>1
      <4>2. \E a \in Connections :
                a = [old EXCEPT ![protocol] = t] /\ a[protocol] = t /\ Alike(old, a, {protocol})
        BY TransportPut
      <4> QED BY <4>1, <4>2
    <3>5. PICK d \in Connections : d = [a EXCEPT !.held = x] /\ d.held = x /\ Alike(a, d, {"held"})
        BY <3>3, <3>4, HeldSet
    <3>6. a.held = c.held
        BY <3>4, AlikeFields DEF Protocols
    <3>7. h = [turn EXCEPT !.conn = d]
        BY <1>1, <3>1, <3>2, <3>3, <3>4, <3>5, <3>6 DEF Turns, Connections, Protocols
    <3> HIDE DEF h
    <3>8. h \in Turns /\ h.conn = d /\ h.out = turn.out /\ h.promises = turn.promises /\ h.thrown = turn.thrown
        BY <3>7, TurnSet
    <3>9. Alike(c, d, {"held", protocol}) /\ d[protocol] = t
      <4>1. d[protocol] = a[protocol]
        BY <3>5, AlikeFields DEF Protocols
      <4> QED BY <3>4, <3>5, <4>1 DEF Alike
    <3>10. units[n].protocol = protocol /\ units[n].name = "header" /\ Size["header"] = 8
        BY <2>3, Sizes DEF Header
    <3>11. PICK y : y = Offsets(units)[n + 1]
        OBVIOUS
    <3>12. /\ y = c.held + Size[units[n].name] /\ OnEdge(units, y)
           /\ \A P : PastOf(units, y, P) <=> (PastOf(units, c.held, P) \/ units[n].protocol = P)
           /\ \A names : Past(units, y, names) <=> (Past(units, c.held, names) \/ units[n].name \in names)
      <4>1. PICK x0 : x0 = Offsets(units)[n]
        OBVIOUS
      <4>2. y = x0 + Size[units[n].name] /\ OnEdge(units, y)
        BY <3>11, <4>1, NextEdge
      <4>4. ASSUME NEW P
            PROVE  PastOf(units, y, P) <=> (PastOf(units, x0, P) \/ units[n].protocol = P)
        BY <3>11, <4>1, NextPast
      <4>5. ASSUME NEW names
            PROVE  Past(units, y, names) <=> (Past(units, x0, names) \/ units[n].name \in names)
        BY <3>11, <4>1, NextPast
      <4>3. x0 = c.held
        BY <2>2, <4>1
      <4> QED BY <4>2, <4>3, <4>4, <4>5
    <3>13. y = x /\ y = d.held
        BY <3>3, <3>5, <3>10, <3>12
    <3>14. c.held <= d.held /\ d.held <= to
        BY <1>1, <2>1, <3>3, <3>5
    <3>15. \A names : "header" \notin names =>
              (Past(units, d.held, names) <=> Past(units, c.held, names))
        BY <3>10, <3>12, <3>13
    <3>16. \A Q : Q # protocol => (PastOf(units, d.held, Q) <=> PastOf(units, c.held, Q))
        BY <3>10, <3>12, <3>13
    <3>17. d[protocol].header_received /\ PastOf(units, d.held, protocol) /\ OnEdge(units, d.held)
             /\ SameWriting(c[protocol], d[protocol])
        BY <3>2, <3>9, <3>10, <3>12, <3>13
    <3> HIDE DEF c
    <3>18. Begun(turn, protocol, units, to, h)
      <4>1. turn.conn = c
        BY DEF c
      <4> QED BY <4>1, <3>8, <3>9, <3>14, <3>15, <3>16, <3>17 DEF Begun
    <3> QED BY <3>18 DEF h
  <2>4. CASE units[n] # Header(protocol)
    <3>1. h = [turn EXCEPT !.thrown = TRUE]
        BY <1>3, <2>2, <2>4 DEF HeaderRead
    <3> HIDE DEF h
    <3>2. h \in Turns /\ h.thrown /\ h.conn = c /\ h.out = turn.out /\ h.promises = turn.promises
        BY <3>1, TurnThrows
    <3>3. Alike(c, c, {"held", protocol}) /\ SameWriting(c[protocol], c[protocol]) /\ c.held <= c.held
        BY <1>1 DEF Alike, SameWriting
    <3>4. c.held <= to /\ OnEdge(units, c.held)
             /\ (c[protocol].header_received <=> PastOf(units, c.held, protocol))
        OBVIOUS
    <3> HIDE DEF c
    <3>5. Begun(turn, protocol, units, to, h)
      <4>1. turn.conn = c
        BY DEF c
      <4> QED BY <4>1, <3>2, <3>3, <3>4 DEF Begun
    <3> QED BY <3>5 DEF h
  <2> QED BY <2>3, <2>4
<1> QED BY <1>2, <1>3

\* The n-th unit is that which is read next.
IsRead(p, protocol, units, to, t, n) ==
    /\ Offsets(units)[n] = t.conn.held /\ units[n] \in Units /\ units \in Seq(Units)
    /\ \/ /\ units[n].protocol # protocol
          /\ ReadOne(protocol, units, to, t) = [t EXCEPT !.thrown = TRUE]
       \/ /\ units[n].protocol = protocol /\ units[n].name \in Spoken(p, protocol)
          /\ SizeAt(units, t.conn.held) = Size[units[n].name]
          /\ Offsets(units)[n + 1] = t.conn.held + Size[units[n].name]
          /\ Offsets(units)[n + 1] <= to
          /\ \E d \in Connections :
                /\ d.held = Offsets(units)[n + 1] /\ Alike(t.conn, d, {"held"})
                /\ ReadOne(protocol, units, to, t) =
                     Handled([t EXCEPT !.conn = d], units[n])

\* There is one, if the loop is not stopped.
LEMMA OneIs ==
    ASSUME NEW p \in Peers, NEW t \in Turns, NEW protocol \in Protocols,
           NEW units \in Seq(Vocabulary(p)), Shaped(units), NEW to \in Nat, to <= Bytes(units),
           OnEdge(units, t.conn.held),
           t.conn[protocol].header_received <=> PastOf(units, t.conn.held, protocol),
           ~ Stopped(protocol, units, to, t)
    PROVE  \E n \in 1..Len(units) : IsRead(p, protocol, units, to, t, n)
<1>1. units \in Seq(Units)
    BY VocabularyIs, SeqMonotonic
<1>2. /\ t.conn \in Connections /\ t.conn.held \in Nat /\ Bytes(units) \in Nat
      /\ Len(units) \in Nat /\ DOMAIN units = 1..Len(units)
  <2>1. t.conn \in Connections
    BY TurnFields
  <2> QED BY <1>1, <2>1, ConnFields, NothingAtEnd, LenProperties
<1>3. Whole(units, t.conn.held, to) /\ t.conn[protocol].header_received
    BY DEF Stopped
<1>4. t.conn.held < Bytes(units)
    BY <1>2, <1>3 DEF Whole
<1>5. PICK n \in 1..Len(units) :
          /\ Offsets(units)[n] = t.conn.held /\ UnitAt(units, t.conn.held) = units[n]
          /\ units[n] \in Units /\ Size[units[n].name] \in Nat
          /\ units[n].name # "header" => SizeAt(units, t.conn.held) = Size[units[n].name]
    BY <1>1, <1>4, EdgeBeforeEnd
<1>6. CASE units[n].protocol # protocol
  <2>1. ReadOne(protocol, units, to, t) = [t EXCEPT !.thrown = TRUE]
    BY <1>5, <1>6 DEF ReadOne
  <2> QED BY <1>1, <1>5, <1>6, <2>1 DEF IsRead
<1>7. CASE units[n].protocol = protocol
  <2>1. PICK j \in 1..Len(units) : Offsets(units)[j] < t.conn.held /\ units[j].protocol = protocol
    BY <1>2, <1>3 DEF PastOf
  <2>2. j < n
    <3>1. j \in 1..(Len(units) + 1) /\ n \in 1..(Len(units) + 1)
        BY <1>2
    <3> QED BY <1>1, <1>5, <2>1, <3>1, AtOrder
  <2>3. units[n].name # "header"
    <3>1. j \in 1..(n - 1) /\ n \in DOMAIN units
        BY <1>2, <2>2
    <3> QED BY <1>7, <2>1, <3>1 DEF Shaped
  <2>4. units[n].name \in Spoken(p, protocol)
    <3>1. units[n] \in Vocabulary(p)
        OBVIOUS
    <3> QED BY <1>7, <2>3, <3>1, VocabularyIs
  <2>5. Offsets(units)[n + 1] = t.conn.held + Size[units[n].name]
    BY <1>1, <1>5, OffsetsUnfold
  <2>6. Offsets(units)[n + 1] <= to
    BY <1>2, <1>3, <1>5, <2>3, <2>5 DEF Whole
  <2>7. PICK x \in Nat : x = Offsets(units)[n + 1]
    BY <1>2, <1>5, <2>5
  <2>8. PICK d \in Connections : d = [t.conn EXCEPT !.held = x] /\ d.held = x /\ Alike(t.conn, d, {"held"})
    BY <1>2, HeldSet
  <2>9. ReadOne(protocol, units, to, t) =
           Handled([t EXCEPT !.conn.held = t.conn.held + SizeAt(units, t.conn.held)], units[n])
    BY <1>5, <1>7 DEF ReadOne
  <2>10. [t EXCEPT !.conn.held = t.conn.held + SizeAt(units, t.conn.held)] = [t EXCEPT !.conn = d]
    BY <1>5, <2>3, <2>5, <2>7, <2>8 DEF Turns
  <2>11. ReadOne(protocol, units, to, t) = Handled([t EXCEPT !.conn = d], units[n])
    BY <2>9, <2>10
  <2> QED BY <1>1, <1>5, <1>7, <2>3, <2>4, <2>5, <2>6, <2>7, <2>8, <2>11 DEF IsRead
<1> QED BY <1>6, <1>7

\* What every round of the loop keeps, if it began with this connection.
Going(c, protocol, units, to, t) ==
    /\ t \in Turns
    /\ c.held <= t.conn.held /\ t.conn.held <= to /\ OnEdge(units, t.conn.held)
    /\ t.conn[protocol].header_received <=> PastOf(units, t.conn.held, protocol)
    /\ \A Q : Q # protocol => (PastOf(units, t.conn.held, Q) <=> PastOf(units, c.held, Q))
    /\ ~ t.thrown /\ ~ t.conn[protocol].header_received => to < t.conn.held + 8

\* The n-th unit is taken.
Takes(c, protocol, units, to, t, n, x) ==
    /\ x \in Turns /\ x.out = t.out /\ x.promises = t.promises /\ ~ x.thrown
    /\ Alike(t.conn, x.conn, {"held"})
    /\ x.conn.held = t.conn.held + SizeAt(units, t.conn.held)
    /\ Going(c, protocol, units, to, x)
    /\ Past(units, x.conn.held, Outcomes)
          <=> (Past(units, t.conn.held, Outcomes) \/ units[n].name \in Outcomes)
    /\ n = Len(units) => x.conn.held = Bytes(units)

\* To throw leaves the place where the reading has come to.
LEMMA GoingThrows ==
    ASSUME NEW c, NEW protocol, NEW units, NEW to, NEW t, Going(c, protocol, units, to, t),
           NEW u, u = [t EXCEPT !.thrown = TRUE]
    PROVE  /\ Going(c, protocol, units, to, u)
           /\ u \in Turns /\ u.thrown /\ u.conn = t.conn /\ u.out = t.out /\ u.promises = t.promises
<1>1. u \in Turns /\ u.thrown /\ u.conn = t.conn /\ u.out = t.out /\ u.promises = t.promises
    BY TurnThrows DEF Going
<1> QED BY <1>1 DEF Going

\* What a round does that is not stopped: it throws, or takes the n-th unit.
Took(p, c, protocol, units, to, t, n) ==
    /\ Offsets(units)[n] = t.conn.held
    /\ \/ ReadOne(protocol, units, to, t) = [t EXCEPT !.thrown = TRUE]
       \/ /\ units[n].protocol = protocol /\ units[n].name \in Spoken(p, protocol)
          /\ \E x \in Turns : /\ Takes(c, protocol, units, to, t, n, x)
                              /\ ReadOne(protocol, units, to, t) = Handled(x, units[n])

\* Unless the reading stops, there is a unit at this place and it is whole.
LEMMA GoesOn ==
    ASSUME NEW p \in Peers, NEW c \in Connections, NEW t, NEW protocol \in Protocols,
           NEW units \in Seq(Vocabulary(p)), Shaped(units), NEW to \in Nat, to <= Bytes(units),
           Going(c, protocol, units, to, t), ~ Stopped(protocol, units, to, t)
    PROVE  \E n \in 1..Len(units) : Took(p, c, protocol, units, to, t, n)
<1>1. /\ t \in Turns /\ OnEdge(units, t.conn.held)
      /\ c.held <= t.conn.held
      /\ t.conn[protocol].header_received <=> PastOf(units, t.conn.held, protocol)
      /\ \A Q : Q # protocol => (PastOf(units, t.conn.held, Q) <=> PastOf(units, c.held, Q))
    BY DEF Going
<1>2. PICK n \in 1..Len(units) : IsRead(p, protocol, units, to, t, n)
    BY <1>1, OneIs
<1>5. /\ Offsets(units)[n] = t.conn.held /\ units \in Seq(Units)
      /\ \/ ReadOne(protocol, units, to, t) = [t EXCEPT !.thrown = TRUE]
         \/ /\ units[n].protocol = protocol /\ units[n].name \in Spoken(p, protocol)
            /\ SizeAt(units, t.conn.held) = Size[units[n].name]
            /\ Offsets(units)[n + 1] = t.conn.held + Size[units[n].name]
            /\ Offsets(units)[n + 1] <= to
            /\ \E d \in Connections :
                  /\ d.held = Offsets(units)[n + 1] /\ Alike(t.conn, d, {"held"})
                  /\ ReadOne(protocol, units, to, t) =
                       Handled([t EXCEPT !.conn = d], units[n])
    BY <1>2 DEF IsRead
<1>3. CASE ReadOne(protocol, units, to, t) = [t EXCEPT !.thrown = TRUE]
    BY <1>5, <1>3 DEF Took
<1>4. CASE ReadOne(protocol, units, to, t) # [t EXCEPT !.thrown = TRUE]
  <2>1. PICK d \in Connections :
          /\ d.held = Offsets(units)[n + 1] /\ Alike(t.conn, d, {"held"})
          /\ ReadOne(protocol, units, to, t) = Handled([t EXCEPT !.conn = d], units[n])
    BY <1>5, <1>4
  <2>2. /\ units[n].protocol = protocol /\ units[n].name \in Spoken(p, protocol)
        /\ SizeAt(units, t.conn.held) = Size[units[n].name]
        /\ Offsets(units)[n + 1] = t.conn.held + Size[units[n].name]
        /\ Offsets(units)[n + 1] <= to
    BY <1>5, <1>4
  <2>3. PICK x \in Turns : /\ x = [t EXCEPT !.conn = d] /\ x.conn = d /\ x.out = t.out
                           /\ x.promises = t.promises /\ x.thrown = t.thrown
    <3>1. PICK x : x = [t EXCEPT !.conn = d]
        OBVIOUS
    <3> QED BY <1>1, <3>1, TurnSet
  <2>4. /\ OnEdge(units, d.held) /\ t.conn.held < d.held /\ t.conn.held \in Nat /\ d.held \in Nat
        /\ n = Len(units) => d.held = Bytes(units)
    BY <1>5, <2>1, NextEdge
  <2>5. ASSUME NEW P
        PROVE  PastOf(units, d.held, P) <=> (PastOf(units, t.conn.held, P) \/ units[n].protocol = P)
    BY <1>5, <2>1, NextPast
  <2>6. Past(units, d.held, Outcomes)
          <=> (Past(units, t.conn.held, Outcomes) \/ units[n].name \in Outcomes)
    BY <1>5, <2>1, NextPast
  <2>7. d[protocol] = t.conn[protocol]
    BY <2>1, AlikeFields DEF Protocols
  <2>8. t.conn[protocol].header_received /\ ~ t.thrown
    BY DEF Stopped
  <2>9. c.held \in Nat
    BY ConnFields
  <2>10. c.held <= d.held /\ d.held <= to
    BY <1>1, <2>1, <2>2, <2>4, <2>9
  <2>11. Going(c, protocol, units, to, x)
    <3>1. x.conn[protocol].header_received /\ PastOf(units, x.conn.held, protocol)
        BY <2>2, <2>3, <2>5, <2>7, <2>8
    <3>2. \A Q : Q # protocol => (PastOf(units, x.conn.held, Q) <=> PastOf(units, c.held, Q))
        BY <1>1, <2>2, <2>3, <2>5
    <3> QED BY <2>3, <2>4, <2>10, <3>1, <3>2 DEF Going
  <2>12. Takes(c, protocol, units, to, t, n, x)
    BY <2>1, <2>2, <2>3, <2>4, <2>6, <2>8, <2>11 DEF Takes
  <2> QED BY <1>5, <2>1, <2>2, <2>3, <2>12 DEF Took
<1> QED BY <1>3, <1>4

-----------------------------------------------------------------------------
(* AMQP.                                                                   *)

AmqpReads(c, units, to, t) ==
    /\ Going(c, "amqp", units, to, t)
    /\ t.out = <<>> /\ t.promises = 0
    /\ Alike(c, t.conn, {"held", "amqp", "remote_open"})
    /\ SameWriting(c.amqp, t.conn.amqp)
    /\ t.conn.remote_open => c.remote_open \/ Has(units, "amqp")
    /\ Past(units, t.conn.held, Outcomes) <=> Past(units, c.held, Outcomes)

\* Alike is transitive.
LEMMA AlikeTwice ==
    ASSUME NEW c, NEW d, NEW e, NEW but, NEW more, NEW all, Alike(c, d, but), Alike(d, e, more),
           but \subseteq all, more \subseteq all
    PROVE  Alike(c, e, all)
BY DEF Alike

\* One round of the loop keeps what is known of the reading of AMQP, and goes on.
LEMMA AmqpOne ==
    ASSUME NEW p \in Peers, NEW c \in Connections, NEW t,
           NEW units \in Seq(Vocabulary(p)), Shaped(units), NEW to \in Nat, to <= Bytes(units),
           AmqpReads(c, units, to, t)
    PROVE  LET u == ReadOne("amqp", units, to, t)
           IN  /\ AmqpReads(c, units, to, u)
               /\ ~ Stopped("amqp", units, to, t) =>
                    u.thrown \/ u.conn.held = t.conn.held + SizeAt(units, t.conn.held)
<1> DEFINE u == ReadOne("amqp", units, to, t)
<1>1. /\ Going(c, "amqp", units, to, t) /\ t.out = <<>> /\ t.promises = 0
      /\ Alike(c, t.conn, {"held", "amqp", "remote_open"})
      /\ SameWriting(c.amqp, t.conn.amqp)
      /\ t.conn.remote_open => c.remote_open \/ Has(units, "amqp")
      /\ Past(units, t.conn.held, Outcomes) <=> Past(units, c.held, Outcomes)
    BY DEF AmqpReads
<1>2. CASE Stopped("amqp", units, to, t)
    BY <1>2 DEF ReadOne
<1>3. CASE ~ Stopped("amqp", units, to, t)
  <2>0. PICK n \in 1..Len(units) : Took(p, c, "amqp", units, to, t, n)
    <3>1. "amqp" \in Protocols
        BY DEF Protocols
    <3> QED BY <1>1, <1>3, <3>1, GoesOn
  <2>1. \/ u = [t EXCEPT !.thrown = TRUE]
        \/ /\ units[n].protocol = "amqp" /\ units[n].name \in Spoken(p, "amqp")
           /\ \E x \in Turns : Takes(c, "amqp", units, to, t, n, x) /\ u = Handled(x, units[n])
    BY <2>0 DEF Took
  <2> HIDE DEF u
  <2>2. CASE u = [t EXCEPT !.thrown = TRUE]
    <3>1. Going(c, "amqp", units, to, u) /\ u.thrown /\ u.conn = t.conn /\ u.out = t.out /\ u.promises = t.promises
        BY <1>1, <2>2, GoingThrows
    <3>2. AmqpReads(c, units, to, u)
        BY <1>1, <3>1 DEF AmqpReads
    <3> QED BY <3>1, <3>2 DEF u
  <2>3. CASE ~ (u = [t EXCEPT !.thrown = TRUE])
    <3>1. PICK x \in Turns : Takes(c, "amqp", units, to, t, n, x) /\ u = Handled(x, units[n])
        BY <2>1, <2>3
    <3>2. /\ units[n].name \in {"open", "empty"} /\ units[n].protocol = "amqp" /\ Has(units, "amqp")
      <4>1. DOMAIN units = 1..Len(units)
        BY LenProperties
      <4> QED BY <2>1, <2>3, <4>1 DEF Spoken, Has
    <3>3. /\ x.out = <<>> /\ x.promises = 0 /\ ~ x.thrown /\ Alike(t.conn, x.conn, {"held"})
          /\ x.conn.held = t.conn.held + SizeAt(units, t.conn.held)
          /\ Going(c, "amqp", units, to, x)
          /\ Past(units, x.conn.held, Outcomes) <=> Past(units, c.held, Outcomes)
        BY <1>1, <3>1, <3>2 DEF Takes, Outcomes
    <3>4. Alike(c, x.conn, {"held", "amqp", "remote_open"})
        BY <1>1, <3>3, AlikeTwice
    <3>5. x.conn.amqp = t.conn.amqp /\ x.conn.remote_open = t.conn.remote_open
        BY <3>3, AlikeFields
    <3>6. CASE units[n].name = "empty"
      <4>1. u = x
        BY <3>1, <3>6 DEF Handled, Outcomes
      <4> QED BY <1>1, <3>2, <3>3, <3>4, <3>5, <4>1 DEF AmqpReads, u
    <3>7. CASE units[n].name = "open"
      <4>1. u = [x EXCEPT !.conn.remote_open = TRUE]
        BY <3>1, <3>7 DEF Handled, Opened, Outcomes
      <4>2. PICK d : d = [x.conn EXCEPT !.remote_open = TRUE]
        OBVIOUS
      <4>3. d \in Connections /\ Alike(x.conn, d, {"remote_open"})
        BY <4>2, RemoteOpenSet, TurnFields
      <4>4. u = [x EXCEPT !.conn = d]
        BY <4>1, <4>2 DEF Turns
      <4>5. u \in Turns /\ u.conn = d /\ u.out = x.out /\ u.promises = x.promises /\ u.thrown = x.thrown
        BY <4>3, <4>4, TurnSet
      <4>6. d.held = x.conn.held /\ d.amqp = x.conn.amqp
        BY <4>3, AlikeFields
      <4>7. d["amqp"].header_received = x.conn["amqp"].header_received
        BY <4>6
      <4>8. Going(c, "amqp", units, to, u)
        BY <3>3, <4>5, <4>6, <4>7 DEF Going
      <4>9. Alike(c, d, {"held", "amqp", "remote_open"})
        BY <3>4, <4>3, AlikeTwice
      <4> QED BY <1>1, <3>2, <3>3, <3>5, <4>5, <4>6, <4>8, <4>9 DEF AmqpReads, u
    <3> QED BY <3>2, <3>6, <3>7
  <2> QED BY <2>2, <2>3
<1> QED BY <1>2, <1>3

\* What leaves the place alone goes on as well.
LEMMA GoingSame ==
    ASSUME NEW c, NEW protocol, NEW units, NEW to, NEW x, Going(c, protocol, units, to, x),
           NEW y \in Turns, y.conn.held = x.conn.held,
           y.conn[protocol].header_received = x.conn[protocol].header_received,
           y.thrown = x.thrown
    PROVE  Going(c, protocol, units, to, y)
BY DEF Going

\* At the end there is no unit to take.
LEMMA NotAtEnd ==
    ASSUME NEW units \in Seq(Units), NEW n \in 1..Len(units)
    PROVE  Offsets(units)[n] # Bytes(units)
BY NothingAtEnd DEF StartsAt

\* What a peer writes are units.
LEMMA SpokenToUnits ==
    ASSUME NEW p \in Peers, NEW units \in Seq(Vocabulary(p))
    PROVE  units \in Seq(Units) /\ DOMAIN units = 1..Len(units) /\ Len(units) \in Nat
<1>1. units \in Seq(Units)
    BY VocabularyIs, SeqMonotonic
<1> QED BY <1>1, LenProperties

-----------------------------------------------------------------------------
(* A server that negotiates.                                               *)

ServerReads(c, units, to, t) ==
    /\ Going(c, "sasl", units, to, t)
    /\ t.out = <<>>
    /\ Alike(c, t.conn, {"held", "sasl"})
    /\ SameWriting(c.sasl, t.conn.sasl)
    /\ \/ t.promises = 0
       \/ t.promises = 1 /\ Due(units, c.held, Replies) /\ t.conn.held = Bytes(units)

\* One round of the loop, of the server in SASL.
LEMMA ServerOne ==
    ASSUME NEW c \in Connections, NEW t,
           NEW units \in Seq(Vocabulary("client")), Shaped(units), NEW to \in Nat, to <= Bytes(units),
           Last(units, c.held, Replies), ServerReads(c, units, to, t)
    PROVE  LET u == ReadOne("sasl", units, to, t)
           IN  /\ ServerReads(c, units, to, u)
               /\ ~ Stopped("sasl", units, to, t) =>
                    u.thrown \/ u.conn.held = t.conn.held + SizeAt(units, t.conn.held)
<1> DEFINE u == ReadOne("sasl", units, to, t)
<1>1. /\ Going(c, "sasl", units, to, t) /\ t.out = <<>>
      /\ Alike(c, t.conn, {"held", "sasl"})
      /\ SameWriting(c.sasl, t.conn.sasl)
      /\ \/ t.promises = 0
         \/ t.promises = 1 /\ Due(units, c.held, Replies) /\ t.conn.held = Bytes(units)
    BY DEF ServerReads
<1>2. CASE Stopped("sasl", units, to, t)
    BY <1>2 DEF ReadOne
<1>3. CASE ~ Stopped("sasl", units, to, t)
  <2>0. PICK n \in 1..Len(units) : Took("client", c, "sasl", units, to, t, n)
    <3>1. "sasl" \in Protocols /\ "client" \in Peers
        BY DEF Protocols, Peers
    <3> QED BY <1>1, <1>3, <3>1, GoesOn
  <2>1. /\ Offsets(units)[n] = t.conn.held
        /\ \/ u = [t EXCEPT !.thrown = TRUE]
           \/ /\ units[n].protocol = "sasl" /\ units[n].name \in Spoken("client", "sasl")
              /\ \E x \in Turns : Takes(c, "sasl", units, to, t, n, x) /\ u = Handled(x, units[n])
    BY <2>0 DEF Took
  <2> HIDE DEF u
  <2>2. CASE u = [t EXCEPT !.thrown = TRUE]
    <3>1. Going(c, "sasl", units, to, u) /\ u.thrown /\ u.conn = t.conn /\ u.out = t.out /\ u.promises = t.promises
        BY <1>1, <2>2, GoingThrows
    <3>2. ServerReads(c, units, to, u)
        BY <1>1, <3>1 DEF ServerReads
    <3> QED BY <3>1, <3>2 DEF u
  <2>3. CASE ~ (u = [t EXCEPT !.thrown = TRUE])
    <3>1. PICK x \in Turns : Takes(c, "sasl", units, to, t, n, x) /\ u = Handled(x, units[n])
        BY <2>1, <2>3
    <3>2. units[n].name \in Replies /\ DOMAIN units = 1..Len(units) /\ units \in Seq(Units)
        BY <2>1, <2>3, SpokenToUnits DEF Spoken, Peers
    <3>3. /\ x.out = <<>> /\ x.promises = t.promises /\ ~ x.thrown /\ Alike(t.conn, x.conn, {"held"})
          /\ x.conn.held = t.conn.held + SizeAt(units, t.conn.held)
          /\ Going(c, "sasl", units, to, x)
          /\ n = Len(units) => x.conn.held = Bytes(units)
        BY <1>1, <3>1 DEF Takes
    <3>4. t.promises = 0
        BY <1>1, <2>1, <3>2, NotAtEnd
    <3>5. c.held <= Offsets(units)[n] /\ c.held \in Nat /\ Offsets(units)[n] \in Nat
        BY <1>1, <2>1, ConnFields, TurnFields DEF Going
    <3>6. Due(units, c.held, Replies) /\ n = Len(units)
        BY <3>2, <3>5 DEF Due, Last
    <3>7. Alike(c, x.conn, {"held", "sasl"})
        BY <1>1, <3>3, AlikeTwice
    <3>8. x.conn.sasl = t.conn.sasl
        BY <3>3, AlikeFields
    <3>9. u = [x EXCEPT !.promises = @ + 1]
        BY <3>1, <3>2 DEF Handled, Promise, Replies, Outcomes
    <3>10. /\ u \in Turns /\ u.promises = 1 /\ u.conn = x.conn /\ u.out = x.out /\ u.thrown = x.thrown
        BY <3>3, <3>4, <3>9 DEF Turns
    <3>11. Going(c, "sasl", units, to, u)
        BY <3>3, <3>10, GoingSame
    <3>12. SameWriting(c.sasl, u.conn.sasl)
        BY <1>1, <3>8, <3>10
    <3>13. ServerReads(c, units, to, u)
        BY <3>3, <3>6, <3>7, <3>10, <3>11, <3>12 DEF ServerReads
    <3> QED BY <3>3, <3>10, <3>13 DEF u
  <2> QED BY <2>2, <2>3
<1> QED BY <1>2, <1>3

-----------------------------------------------------------------------------
(* A client that negotiates.                                               *)

LEMMA OneUnit ==
    ASSUME NEW S, NEW s \in Seq(S), Len(s) = 1
    PROVE  s = <<s[1]>>
OBVIOUS

\* A client that answers writes one frame of SASL, or nothing to a socket that is ended.
LEMMA Replying ==
    ASSUME NEW x \in Turns, x.conn.kind = "Client", ~ x.conn.sasl.write_complete,
           x.conn.sasl.pending = <<>>, x.conn.sasl.header_sent, NEW name \in Replies, x.out = <<>>
    PROVE  LET y == Output(Encode(x, "sasl", name))
           IN  /\ y \in Turns /\ y.promises = x.promises /\ y.thrown = x.thrown
               /\ Alike(x.conn, y.conn, {"sasl", "transport_error", "ended"})
               /\ y.conn.sasl.pending = <<>> /\ y.conn.sasl.header_sent
               /\ SameReading(x.conn.sasl, y.conn.sasl)
               /\ y.out = <<>> \/ y.out = <<[protocol |-> "sasl", name |-> name]>>
<1> DEFINE e == Encode(x, "sasl", name)
           y == Output(e)
<1>1. /\ e \in Turns /\ e.promises = x.promises /\ e.thrown = x.thrown /\ e.out = <<>>
      /\ SameSelf(x.conn, e.conn) /\ e.conn.ended = x.conn.ended
      /\ e.conn["sasl"].pending = <<name>> /\ e.conn["sasl"].header_sent
      /\ SameReading(x.conn["sasl"], e.conn["sasl"])
      /\ e.conn["amqp"] = x.conn["amqp"]
  <2>1. name \in Names /\ "sasl" \in Protocols /\ "amqp" \in Protocols \ {"sasl"}
    BY DEF Replies, Names, SaslFrames, Protocols
  <2>2. Append(<<>>, name) = <<name>>
    OBVIOUS
  <2> HIDE DEF e
  <2> QED BY <2>1, <2>2, EncodeIs DEF e
<1> HIDE DEF e
<1>2. WritesTo(e.conn) = "sasl"
    BY <1>1 DEF WritesTo, Uses, SameSelf, SameReading
<1>3. /\ y \in Turns /\ y.promises = e.promises /\ y.thrown = e.thrown
      /\ SameSelf(e.conn, y.conn)
      /\ y.conn["sasl"].pending = <<>> /\ y.conn["sasl"].header_sent
      /\ SameReading(e.conn["sasl"], y.conn["sasl"])
      /\ y.conn["amqp"] = e.conn["amqp"]
      /\ y.out = IF e.conn.ended THEN e.out ELSE e.out \o Added(e.conn["sasl"], "sasl")
  <2>1. "sasl" \in Protocols /\ "amqp" \in Protocols \ {"sasl"}
    BY DEF Protocols
  <2>2. PICK P : P = WritesTo(e.conn)
    OBVIOUS
  <2>3. /\ y \in Turns /\ y.promises = e.promises /\ y.thrown = e.thrown
        /\ SameSelf(e.conn, y.conn)
        /\ P \in Protocols =>
             /\ y.conn[P].pending = <<>> /\ y.conn[P].header_sent
             /\ SameReading(e.conn[P], y.conn[P])
             /\ \A Q \in Protocols \ {P} : y.conn[Q] = e.conn[Q]
             /\ y.out = IF e.conn.ended THEN e.out ELSE e.out \o Added(e.conn[P], P)
    BY <1>1, <2>2, OutputIs
  <2> HIDE DEF y
  <2> QED BY <1>2, <2>1, <2>2, <2>3
<1> HIDE DEF y
<1>4. Added(e.conn["sasl"], "sasl") = <<[protocol |-> "sasl", name |-> name]>>
  <2>1. PICK t \in Transports : t = e.conn["sasl"] /\ t.pending = <<name>> /\ t.header_sent
    <3>1. e.conn["sasl"] \in Transports
        BY <1>1, TurnFields, ConnFields
    <3> QED BY <1>1, <3>1
  <2>2. Len(t.pending) = 1 /\ 1 \in 1..Len(t.pending) /\ t.pending[1] = name
    BY <2>1
  <2>3. /\ Frames(t, "sasl") \in Seq(Units) /\ Len(Frames(t, "sasl")) = 1
        /\ Frames(t, "sasl")[1] = [protocol |-> "sasl", name |-> name]
    BY <2>2, AddedType DEF Protocols
  <2>4. Frames(t, "sasl") = <<[protocol |-> "sasl", name |-> name]>>
    BY <2>3, OneUnit
  <2>5. <<>> \o Frames(t, "sasl") = Frames(t, "sasl")
    BY <2>3, ConcatEmptySeq
  <2>6. Added(t, "sasl") = <<>> \o Frames(t, "sasl")
    BY <2>1 DEF Added
  <2> QED BY <2>1, <2>4, <2>5, <2>6
<1>5. y.out = <<>> \/ y.out = <<[protocol |-> "sasl", name |-> name]>>
  <2>1. CASE e.conn.ended
    BY <1>1, <1>3, <2>1
  <2>2. CASE ~ e.conn.ended
    <3>1. PICK z \in Seq(Units) : z = <<[protocol |-> "sasl", name |-> name]>>
      <4>1. name \in Names /\ "sasl" \in Protocols
        BY DEF Replies, Names, SaslFrames, Protocols
      <4>2. [protocol |-> "sasl", name |-> name] \in Units
        BY <4>1 DEF Units
      <4>3. \A u \in Units : <<u>> \in Seq(Units)
        OBVIOUS
      <4> QED BY <4>2, <4>3
    <3>2. <<>> \o z = z
        BY ConcatEmptySeq
    <3> QED BY <1>1, <1>3, <1>4, <2>2, <3>1, <3>2
  <2> QED BY <2>1, <2>2
<1>6. Alike(x.conn, y.conn, {"sasl", "transport_error", "ended"})
  <2>1. SameSelf(x.conn, y.conn) /\ y.conn.amqp = x.conn.amqp
    BY <1>1, <1>3 DEF SameSelf
  <2> QED BY <2>1 DEF SameSelf, Alike, ConnFieldNames
<1>7. SameReading(x.conn.sasl, y.conn.sasl)
    BY <1>1, <1>3 DEF SameReading
<1> QED BY <1>1, <1>3, <1>5, <1>6, <1>7 DEF y, e

\* A failure of SASL ends the socket.
LEMMA Failing ==
    ASSUME NEW x \in Turns, NEW y, y = SaslFailed(x)
    PROVE  /\ y \in Turns /\ y.out = x.out /\ y.promises = x.promises /\ y.thrown = x.thrown
           /\ Alike(x.conn, y.conn, {"transport_error", "ended"}) /\ y.conn.ended
<1>1. PICK c \in Connections : c = x.conn
    BY TurnFields
<1>2. PICK a : a = [c EXCEPT !.transport_error = TRUE]
    OBVIOUS
<1>3. a \in Connections /\ Alike(c, a, {"transport_error"})
    BY <1>2, ErrorSet
<1>4. PICK d : d = [a EXCEPT !.ended = TRUE]
    OBVIOUS
<1>5. d \in Connections /\ d.ended /\ Alike(a, d, {"ended"})
    BY <1>3, <1>4, EndedSet
<1>6. y = [x EXCEPT !.conn = d]
    BY <1>1, <1>2, <1>4 DEF SaslFailed, Turns
<1>7. /\ y \in Turns /\ y.conn = d /\ y.out = x.out /\ y.promises = x.promises /\ y.thrown = x.thrown
    BY <1>5, <1>6, TurnSet
<1>8. Alike(c, d, {"transport_error", "ended"})
    BY <1>3, <1>5, AlikeTwice
<1> QED BY <1>1, <1>5, <1>7, <1>8

\* The outcome lets the client go on to AMQP only if it is ok.
LEMMA OutcomeIs ==
    ASSUME NEW x \in Turns, NEW code \in Outcomes, NEW y, y = Outcome(x, code)
    PROVE  /\ y \in Turns /\ y.out = x.out /\ y.promises = x.promises /\ y.thrown = x.thrown
           /\ Alike(x.conn, y.conn, {"sasl", "transport_error", "ended"})
           /\ y.conn.sasl.pending = x.conn.sasl.pending
           /\ y.conn.sasl.header_sent = x.conn.sasl.header_sent
           /\ y.conn.sasl.header_received = x.conn.sasl.header_received
           /\ y.conn.sasl.write_complete
           /\ code = "ok" => y.conn.sasl.read_complete /\ Alike(x.conn, y.conn, {"sasl"})
           /\ code # "ok" => y.conn.sasl.read_complete = x.conn.sasl.read_complete /\ y.conn.ended
<1>1. PICK c \in Connections : c = x.conn
    BY TurnFields
<1>2. PICK t \in Transports : t = c.sasl
    BY ConnFields
<1>3. PICK v : v = [t EXCEPT !.write_complete = TRUE]
    OBVIOUS
<1>4. /\ v \in Transports /\ v.pending = t.pending /\ v.header_sent = t.header_sent
      /\ v.header_received = t.header_received /\ v.write_complete
      /\ v.read_complete = t.read_complete
  <2>1. v \in Transports
    BY <1>3 DEF Transports
  <2> QED BY <1>3, <2>1 DEF Transports
<1>5. PICK r : r = [v EXCEPT !.read_complete = TRUE]
    OBVIOUS
<1>6. /\ r \in Transports /\ r.pending = t.pending /\ r.header_sent = t.header_sent
      /\ r.header_received = t.header_received /\ r.write_complete /\ r.read_complete
  <2>1. r \in Transports
    BY <1>4, <1>5 DEF Transports
  <2> QED BY <1>4, <1>5, <2>1 DEF Transports
<1>7. PICK d \in Connections : d = [c EXCEPT !["sasl"] = v] /\ d["sasl"] = v /\ Alike(c, d, {"sasl"})
    BY <1>4, TransportPut DEF Protocols
<1>8. PICK e \in Connections : e = [c EXCEPT !["sasl"] = r] /\ e["sasl"] = r /\ Alike(c, e, {"sasl"})
    BY <1>6, TransportPut DEF Protocols
<1>9. PICK told : told = [x EXCEPT !.conn = d]
    OBVIOUS
<1>10. /\ told \in Turns /\ told.conn = d /\ told.out = x.out
       /\ told.promises = x.promises /\ told.thrown = x.thrown
    BY <1>9, TurnSet
<1>11. [x EXCEPT !.conn.sasl.write_complete = TRUE] = told
    BY <1>1, <1>2, <1>3, <1>7, <1>9 DEF Turns, Connections
<1>12. CASE code = "ok"
  <2>1. y = [told EXCEPT !.conn.sasl.read_complete = TRUE]
    BY <1>11, <1>12 DEF Outcome
  <2>2. d.sasl = v
    BY <1>7
  <2>3. [d EXCEPT !["sasl"] = r] = e
    BY <1>7, <1>8 DEF Connections
  <2>4. y = [told EXCEPT !.conn = e]
    <3>1. y = [told EXCEPT !.conn = [d EXCEPT !["sasl"] = r]]
        BY <2>1, <2>2, <1>5, <1>10 DEF Turns, Connections
    <3> QED BY <2>3, <3>1
  <2>5. /\ y \in Turns /\ y.conn = e /\ y.out = told.out
        /\ y.promises = told.promises /\ y.thrown = told.thrown
    BY <1>10, <2>4, TurnSet
  <2>6. Alike(c, e, {"sasl", "transport_error", "ended"})
    BY <1>8 DEF Alike
  <2> QED BY <1>1, <1>2, <1>6, <1>8, <1>10, <1>12, <2>5, <2>6
<1>13. CASE code # "ok"
  <2>1. y = SaslFailed(told)
    BY <1>11, <1>13 DEF Outcome
  <2>2. /\ y \in Turns /\ y.out = told.out /\ y.promises = told.promises /\ y.thrown = told.thrown
        /\ Alike(told.conn, y.conn, {"transport_error", "ended"}) /\ y.conn.ended
    BY <1>10, <2>1, Failing
  <2>3. Alike(c, y.conn, {"sasl", "transport_error", "ended"}) /\ y.conn.sasl = v
    <3>1. y.conn.sasl = d.sasl
        BY <1>10, <2>2, AlikeFields
    <3>2. Alike(d, y.conn, {"transport_error", "ended"})
        BY <1>10, <2>2
    <3> QED BY <1>7, <3>1, <3>2, AlikeTwice
  <2> QED BY <1>1, <1>2, <1>4, <1>10, <1>13, <2>2, <2>3
<1> QED BY <1>12, <1>13

ClientReads(c, units, to, t) ==
    /\ Going(c, "sasl", units, to, t)
    /\ t.promises = 0
    /\ Alike(c, t.conn, {"held", "sasl", "transport_error", "ended"})
    /\ t.conn.sasl.pending = <<>> /\ t.conn.sasl.header_sent
    /\ \/ t.out = <<>>
       \/ /\ Due(units, c.held, Questions) /\ t.conn.held = Bytes(units)
          /\ ~ t.conn.sasl.write_complete
          /\ \E name \in Replies : t.out = <<[protocol |-> "sasl", name |-> name]>>
    /\ ~ Past(units, t.conn.held, Outcomes) =>
          ~ t.conn.sasl.read_complete /\ ~ t.conn.sasl.write_complete
    /\ Past(units, t.conn.held, Outcomes) =>
          /\ t.conn.sasl.write_complete
          /\ \/ t.conn.sasl.read_complete
             \/ t.conn.ended /\ Said(units, Outcomes \ {"ok"})
    /\ t.conn.sasl.read_complete => Said(units, {"ok"})

\* One round of the loop, of the client in SASL.
LEMMA ClientOne ==
    ASSUME NEW c \in Connections, NEW t, c.kind = "Client",
           NEW units \in Seq(Vocabulary("server")), Shaped(units), NEW to \in Nat, to <= Bytes(units),
           Last(units, c.held, Questions), ClientReads(c, units, to, t)
    PROVE  LET u == ReadOne("sasl", units, to, t)
           IN  /\ ClientReads(c, units, to, u)
               /\ ~ Stopped("sasl", units, to, t) =>
                    u.thrown \/ u.conn.held = t.conn.held + SizeAt(units, t.conn.held)
<1> DEFINE u == ReadOne("sasl", units, to, t)
<1>1. /\ Going(c, "sasl", units, to, t) /\ t.promises = 0
      /\ Alike(c, t.conn, {"held", "sasl", "transport_error", "ended"})
      /\ t.conn.sasl.pending = <<>> /\ t.conn.sasl.header_sent
      /\ t.out = <<>> \/ t.conn.held = Bytes(units)
      /\ ~ Past(units, t.conn.held, Outcomes) =>
            ~ t.conn.sasl.read_complete /\ ~ t.conn.sasl.write_complete
      /\ t.conn.sasl.read_complete => Said(units, {"ok"})
    BY DEF ClientReads
<1>2. CASE Stopped("sasl", units, to, t)
    BY <1>2 DEF ReadOne
<1>3. CASE ~ Stopped("sasl", units, to, t)
  <2>0. PICK n \in 1..Len(units) : Took("server", c, "sasl", units, to, t, n)
    <3>1. "sasl" \in Protocols /\ "server" \in Peers
        BY DEF Protocols, Peers
    <3> QED BY <1>1, <1>3, <3>1, GoesOn
  <2>1. /\ Offsets(units)[n] = t.conn.held
        /\ \/ u = [t EXCEPT !.thrown = TRUE]
           \/ /\ units[n].protocol = "sasl" /\ units[n].name \in Spoken("server", "sasl")
              /\ \E x \in Turns : Takes(c, "sasl", units, to, t, n, x) /\ u = Handled(x, units[n])
    BY <2>0 DEF Took
  <2> HIDE DEF u
  <2>2. CASE u = [t EXCEPT !.thrown = TRUE]
    <3>1. Going(c, "sasl", units, to, u) /\ u.thrown /\ u.conn = t.conn /\ u.out = t.out /\ u.promises = t.promises
        BY <1>1, <2>2, GoingThrows
    <3>2. ClientReads(c, units, to, u)
        BY <3>1 DEF ClientReads
    <3> QED BY <3>1, <3>2 DEF u
  <2>3. CASE ~ (u = [t EXCEPT !.thrown = TRUE])
    <3>1. PICK x \in Turns : Takes(c, "sasl", units, to, t, n, x) /\ u = Handled(x, units[n])
        BY <2>1, <2>3
    <3>2. /\ units[n].name \in Questions \cup Outcomes /\ units[n].protocol = "sasl"
          /\ DOMAIN units = 1..Len(units) /\ units \in Seq(Units) /\ Len(units) \in Nat
      <4>1. units[n].name \in Spoken("server", "sasl") /\ units[n].protocol = "sasl"
        BY <2>1, <2>3
      <4>2. Spoken("server", "sasl") = Questions \cup Outcomes
        BY DEF Spoken
      <4>3. "server" \in Peers
        BY DEF Peers
      <4> QED BY <4>1, <4>2, <4>3, SpokenToUnits
    <3>3. t.out = <<>>
        BY <1>1, <2>1, <3>2, NotAtEnd
    <3>4. /\ x.out = <<>> /\ x.promises = 0 /\ ~ x.thrown /\ Alike(t.conn, x.conn, {"held"})
          /\ x.conn.held = t.conn.held + SizeAt(units, t.conn.held)
          /\ Going(c, "sasl", units, to, x)
          /\ n = Len(units) => x.conn.held = Bytes(units)
          /\ Past(units, x.conn.held, Outcomes)
                <=> (Past(units, t.conn.held, Outcomes) \/ units[n].name \in Outcomes)
        BY <1>1, <3>1, <3>3 DEF Takes
    <3>5. ~ Past(units, t.conn.held, Outcomes)
      <4>1. SUFFICES ASSUME NEW j \in 1..Len(units), Offsets(units)[j] < t.conn.held,
                            units[j].name \in Outcomes
                     PROVE  FALSE
        BY <3>2 DEF Past
      <4>2. j < n
        <5>1. j \in 1..(Len(units) + 1) /\ n \in 1..(Len(units) + 1)
            BY <3>2
        <5> QED BY <2>1, <3>2, <4>1, <5>1, AtOrder
      <4>3. n \in (j + 1)..Len(units)
        BY <3>2, <4>2
      <4> QED BY <3>2, <4>1, <4>3 DEF Shaped
    <3>6. /\ x.conn.sasl = t.conn.sasl /\ x.conn.kind = "Client"
          /\ ~ x.conn.sasl.read_complete /\ ~ x.conn.sasl.write_complete
          /\ x.conn.sasl.pending = <<>> /\ x.conn.sasl.header_sent
        BY <1>1, <3>4, <3>5, AlikeFields
    <3>7. Alike(c, x.conn, {"held", "sasl", "transport_error", "ended"})
        BY <1>1, <3>4, AlikeTwice
    <3>8. c.held <= Offsets(units)[n]
        BY <1>1, <2>1 DEF Going
    <3>9. CASE units[n].name \in Questions
      <4>1. Due(units, c.held, Questions) /\ n = Len(units) /\ x.conn.held = Bytes(units)
        BY <3>2, <3>4, <3>8, <3>9 DEF Due, Last
      <4>2. \/ u = SaslFailed(x)
            \/ \E name \in Replies : u = Output(Encode(x, "sasl", name))
        BY <3>1, <3>9 DEF Handled, Mechanisms, Challenge, Questions, Replies, Outcomes
      <4>3. /\ u \in Turns /\ u.promises = 0 /\ u.thrown = x.thrown
            /\ Alike(x.conn, u.conn, {"sasl", "transport_error", "ended"})
            /\ u.conn.sasl.pending = <<>> /\ u.conn.sasl.header_sent
            /\ SameReading(x.conn.sasl, u.conn.sasl)
            /\ u.out = <<>> \/ \E name \in Replies : u.out = <<[protocol |-> "sasl", name |-> name]>>
        <5>1. CASE u = SaslFailed(x)
          <6>1. /\ u \in Turns /\ u.out = x.out /\ u.promises = x.promises /\ u.thrown = x.thrown
                /\ Alike(x.conn, u.conn, {"transport_error", "ended"})
            BY <5>1, Failing
          <6>2. u.conn.sasl = x.conn.sasl
            BY <6>1, AlikeFields
          <6>3. Alike(x.conn, u.conn, {"sasl", "transport_error", "ended"})
            BY <6>1 DEF Alike
          <6> QED BY <3>4, <3>6, <6>1, <6>2, <6>3 DEF SameReading
        <5>2. ASSUME NEW name \in Replies, u = Output(Encode(x, "sasl", name))
              PROVE  /\ u \in Turns /\ u.promises = 0 /\ u.thrown = x.thrown
                     /\ Alike(x.conn, u.conn, {"sasl", "transport_error", "ended"})
                     /\ u.conn.sasl.pending = <<>> /\ u.conn.sasl.header_sent
                     /\ SameReading(x.conn.sasl, u.conn.sasl)
                     /\ u.out = <<>> \/ u.out = <<[protocol |-> "sasl", name |-> name]>>
            BY <3>4, <3>6, <5>2, Replying
        <5> QED BY <4>2, <5>1, <5>2
      <4>4. u.conn.held = x.conn.held
        BY <4>3, AlikeFields
      <4>5. Going(c, "sasl", units, to, u)
        BY <3>4, <4>3, <4>4, GoingSame DEF SameReading
      <4>6. Alike(c, u.conn, {"held", "sasl", "transport_error", "ended"})
        BY <3>7, <4>3, AlikeTwice
      <4>7. ~ Past(units, u.conn.held, Outcomes)
        BY <3>4, <3>5, <3>9, <4>4 DEF Questions, Outcomes
      <4>8. ~ u.conn.sasl.read_complete /\ ~ u.conn.sasl.write_complete
        BY <3>6, <4>3 DEF SameReading
      <4>9. ClientReads(c, units, to, u)
        BY <4>1, <4>3, <4>4, <4>5, <4>6, <4>7, <4>8 DEF ClientReads
      <4> QED BY <3>4, <4>4, <4>9 DEF u
    <3>10. CASE units[n].name \in Outcomes
      <4>1. u = Outcome(x, units[n].name)
        BY <3>1, <3>10 DEF Handled, Outcomes
      <4>2. /\ u \in Turns /\ u.out = x.out /\ u.promises = x.promises /\ u.thrown = x.thrown
            /\ Alike(x.conn, u.conn, {"sasl", "transport_error", "ended"})
            /\ u.conn.sasl.pending = x.conn.sasl.pending
            /\ u.conn.sasl.header_sent = x.conn.sasl.header_sent
            /\ u.conn.sasl.header_received = x.conn.sasl.header_received
            /\ u.conn.sasl.write_complete
            /\ units[n].name = "ok" => u.conn.sasl.read_complete
            /\ units[n].name # "ok" => /\ u.conn.sasl.read_complete = x.conn.sasl.read_complete
                                      /\ u.conn.ended
        BY <3>10, <4>1, OutcomeIs
      <4>4. u.conn.held = x.conn.held
        BY <4>2, AlikeFields
      <4>5. Going(c, "sasl", units, to, u)
        BY <3>4, <4>2, <4>4, GoingSame
      <4>6. Alike(c, u.conn, {"held", "sasl", "transport_error", "ended"})
        BY <3>7, <4>2, AlikeTwice
      <4>7. Past(units, u.conn.held, Outcomes)
        BY <3>4, <3>10, <4>4
      <4>8. /\ u.conn.sasl.read_complete => Said(units, {"ok"})
            /\ units[n].name # "ok" => Said(units, Outcomes \ {"ok"})
        BY <3>2, <3>6, <3>10, <4>2 DEF Said
      <4>9. ClientReads(c, units, to, u)
        BY <3>4, <3>6, <4>2, <4>4, <4>5, <4>6, <4>7, <4>8 DEF ClientReads
      <4> QED BY <3>4, <4>4, <4>9 DEF u
    <3> QED BY <3>2, <3>9, <3>10
  <2> QED BY <2>2, <2>3
<1> QED BY <1>2, <1>3

\* A turn that begins to read with what it has kept.
Beginning(turn, units, to) ==
    /\ turn \in Turns /\ turn.out = <<>> /\ turn.promises = 0
    /\ OnEdge(units, turn.conn.held) /\ turn.conn.held <= to
    /\ \A P \in Protocols : turn.conn[P].header_received <=> PastOf(units, turn.conn.held, P)

\* A reading that begins is one that goes on.
LEMMA BeginsWith ==
    ASSUME NEW p \in Peers, NEW units \in Seq(Vocabulary(p)), NEW protocol \in Protocols,
           NEW to \in Nat, to <= Bytes(units), NEW turn, Beginning(turn, units, to)
    PROVE  LET h == HeaderRead(turn, protocol, units, to)
           IN  /\ Begun(turn, protocol, units, to, h)
               /\ Going(turn.conn, protocol, units, to, h)
<1> DEFINE h == HeaderRead(turn, protocol, units, to)
<1>1. units \in Seq(Units)
    BY SpokenToUnits
<1>2. /\ turn \in Turns /\ OnEdge(units, turn.conn.held) /\ turn.conn.held <= to
      /\ turn.conn[protocol].header_received <=> PastOf(units, turn.conn.held, protocol)
    BY DEF Beginning
<1>3. Begun(turn, protocol, units, to, h)
  <2> HIDE DEF h
  <2> QED BY <1>1, <1>2, HeaderReadIs DEF h
<1> HIDE DEF h
<1>4. Going(turn.conn, protocol, units, to, h)
    BY <1>3 DEF Begun, Going
<1> QED BY <1>3, <1>4 DEF h

\* Read goes on until it has to stop: in AMQP, ...
LEMMA AmqpRead ==
    ASSUME NEW p \in Peers, NEW units \in Seq(Vocabulary(p)), Shaped(units),
           NEW to \in Nat, to <= Bytes(units), NEW turn, Beginning(turn, units, to)
    PROVE  LET r == Read(turn, "amqp", units, to)
           IN  AmqpReads(turn.conn, units, to, r) /\ Stopped("amqp", units, to, r)
<1> DEFINE S == {t \in Turns : AmqpReads(turn.conn, units, to, t)}
           h == HeaderRead(turn, "amqp", units, to)
<1>1. units \in Seq(Units) /\ turn.conn \in Connections /\ "amqp" \in Protocols
    BY SpokenToUnits, TurnFields DEF Beginning, Protocols
<1>2. Begun(turn, "amqp", units, to, h) /\ Going(turn.conn, "amqp", units, to, h)
    BY <1>1, BeginsWith
<1> HIDE DEF h
<1>3. h \in S
  <2>1. Alike(turn.conn, h.conn, {"held", "amqp"})
    BY <1>2 DEF Begun
  <2>2. h.conn.remote_open = turn.conn.remote_open
    BY <2>1, AlikeFields
  <2>3. Alike(turn.conn, h.conn, {"held", "amqp", "remote_open"})
    BY <2>1 DEF Alike
  <2>4. Past(units, h.conn.held, Outcomes) <=> Past(units, turn.conn.held, Outcomes)
    BY <1>2 DEF Begun, Outcomes
  <2>5. h \in Turns /\ h.out = <<>> /\ h.promises = 0 /\ SameWriting(turn.conn.amqp, h.conn.amqp)
    BY <1>2 DEF Begun, Beginning
  <2> QED BY <1>2, <2>2, <2>3, <2>4, <2>5 DEF AmqpReads
<1>4. ASSUME NEW t \in S
      PROVE  LET u == ReadOne("amqp", units, to, t)
             IN  /\ u \in S
                 /\ ~ t.thrown => \E n \in 1..(Len(units) + 1) : Offsets(units)[n] = t.conn.held
                 /\ ~ Stopped("amqp", units, to, t) =>
                       u.thrown \/ u.conn.held = t.conn.held + SizeAt(units, t.conn.held)
  <2>1. AmqpReads(turn.conn, units, to, t) /\ OnEdge(units, t.conn.held)
    BY DEF AmqpReads, Going
  <2>2. PICK u : u = ReadOne("amqp", units, to, t)
    OBVIOUS
  <2>3. /\ AmqpReads(turn.conn, units, to, u)
        /\ ~ Stopped("amqp", units, to, t) =>
               u.thrown \/ u.conn.held = t.conn.held + SizeAt(units, t.conn.held)
    BY <1>1, <2>1, <2>2, AmqpOne
  <2>4. u \in S
    BY <2>3 DEF AmqpReads, Going
  <2> HIDE DEF S
  <2> QED BY <2>1, <2>2, <2>3, <2>4 DEF OnEdge
<1>5. Read(turn, "amqp", units, to) \in S /\ Stopped("amqp", units, to, Read(turn, "amqp", units, to))
  <2> HIDE DEF S
  <2> QED BY <1>1, <1>3, <1>4, ReadStops DEF h
<1> QED BY <1>5

\* ... of the server in SASL, ...
LEMMA ServerRead ==
    ASSUME NEW units \in Seq(Vocabulary("client")), Shaped(units),
           NEW to \in Nat, to <= Bytes(units), NEW turn, Beginning(turn, units, to),
           Last(units, turn.conn.held, Replies)
    PROVE  LET r == Read(turn, "sasl", units, to)
           IN  ServerReads(turn.conn, units, to, r) /\ Stopped("sasl", units, to, r)
<1> DEFINE S == {t \in Turns : ServerReads(turn.conn, units, to, t)}
           h == HeaderRead(turn, "sasl", units, to)
<1>1. units \in Seq(Units) /\ turn.conn \in Connections /\ "sasl" \in Protocols /\ "client" \in Peers
    BY SpokenToUnits, TurnFields DEF Beginning, Protocols, Peers
<1>2. Begun(turn, "sasl", units, to, h) /\ Going(turn.conn, "sasl", units, to, h)
    BY <1>1, BeginsWith
<1> HIDE DEF h
<1>3. h \in S
  <2>5. /\ h \in Turns /\ h.out = <<>> /\ h.promises = 0 /\ SameWriting(turn.conn.sasl, h.conn.sasl)
        /\ Alike(turn.conn, h.conn, {"held", "sasl"})
    BY <1>2 DEF Begun, Beginning
  <2> QED BY <1>2, <2>5 DEF ServerReads
<1>4. ASSUME NEW t \in S
      PROVE  LET u == ReadOne("sasl", units, to, t)
             IN  /\ u \in S
                 /\ ~ t.thrown => \E n \in 1..(Len(units) + 1) : Offsets(units)[n] = t.conn.held
                 /\ ~ Stopped("sasl", units, to, t) =>
                       u.thrown \/ u.conn.held = t.conn.held + SizeAt(units, t.conn.held)
  <2>1. ServerReads(turn.conn, units, to, t) /\ OnEdge(units, t.conn.held)
    BY DEF ServerReads, Going
  <2>2. PICK u : u = ReadOne("sasl", units, to, t)
    OBVIOUS
  <2>3. /\ ServerReads(turn.conn, units, to, u)
        /\ ~ Stopped("sasl", units, to, t) =>
               u.thrown \/ u.conn.held = t.conn.held + SizeAt(units, t.conn.held)
    BY <1>1, <2>1, <2>2, ServerOne
  <2>4. u \in S
    BY <2>3 DEF ServerReads, Going
  <2> HIDE DEF S
  <2> QED BY <2>1, <2>2, <2>3, <2>4 DEF OnEdge
<1>5. Read(turn, "sasl", units, to) \in S /\ Stopped("sasl", units, to, Read(turn, "sasl", units, to))
  <2> HIDE DEF S
  <2> QED BY <1>1, <1>3, <1>4, ReadStops DEF h
<1> QED BY <1>5

\* ... and of the client in SASL.
LEMMA ClientRead ==
    ASSUME NEW units \in Seq(Vocabulary("server")), Shaped(units),
           NEW to \in Nat, to <= Bytes(units), NEW turn, Beginning(turn, units, to),
           Last(units, turn.conn.held, Questions), turn.conn.kind = "Client",
           turn.conn.sasl.pending = <<>>, turn.conn.sasl.header_sent,
           ~ turn.conn.sasl.read_complete, ~ turn.conn.sasl.write_complete,
           ~ Past(units, turn.conn.held, Outcomes)
    PROVE  LET r == Read(turn, "sasl", units, to)
           IN  ClientReads(turn.conn, units, to, r) /\ Stopped("sasl", units, to, r)
<1> DEFINE S == {t \in Turns : ClientReads(turn.conn, units, to, t)}
           h == HeaderRead(turn, "sasl", units, to)
<1>1. units \in Seq(Units) /\ turn.conn \in Connections /\ "sasl" \in Protocols /\ "server" \in Peers
    BY SpokenToUnits, TurnFields DEF Beginning, Protocols, Peers
<1>2. Begun(turn, "sasl", units, to, h) /\ Going(turn.conn, "sasl", units, to, h)
    BY <1>1, BeginsWith
<1> HIDE DEF h
<1>3. h \in S
  <2>1. /\ h \in Turns /\ h.out = <<>> /\ h.promises = 0 /\ SameWriting(turn.conn.sasl, h.conn.sasl)
        /\ Alike(turn.conn, h.conn, {"held", "sasl"})
    BY <1>2 DEF Begun, Beginning
  <2>2. Past(units, h.conn.held, Outcomes) <=> Past(units, turn.conn.held, Outcomes)
    BY <1>2 DEF Begun, Outcomes
  <2>3. Alike(turn.conn, h.conn, {"held", "sasl", "transport_error", "ended"})
    BY <2>1 DEF Alike
  <2> QED BY <1>2, <2>1, <2>2, <2>3 DEF ClientReads, SameWriting
<1>4. ASSUME NEW t \in S
      PROVE  LET u == ReadOne("sasl", units, to, t)
             IN  /\ u \in S
                 /\ ~ t.thrown => \E n \in 1..(Len(units) + 1) : Offsets(units)[n] = t.conn.held
                 /\ ~ Stopped("sasl", units, to, t) =>
                       u.thrown \/ u.conn.held = t.conn.held + SizeAt(units, t.conn.held)
  <2>1. ClientReads(turn.conn, units, to, t) /\ OnEdge(units, t.conn.held)
    BY DEF ClientReads, Going
  <2>2. PICK u : u = ReadOne("sasl", units, to, t)
    OBVIOUS
  <2>3. /\ ClientReads(turn.conn, units, to, u)
        /\ ~ Stopped("sasl", units, to, t) =>
               u.thrown \/ u.conn.held = t.conn.held + SizeAt(units, t.conn.held)
    BY <1>1, <2>1, <2>2, ClientOne
  <2>4. u \in S
    BY <2>3 DEF ClientReads, Going
  <2> HIDE DEF S
  <2> QED BY <2>1, <2>2, <2>3, <2>4 DEF OnEdge
<1>5. Read(turn, "sasl", units, to) \in S /\ Stopped("sasl", units, to, Read(turn, "sasl", units, to))
  <2> HIDE DEF S
  <2> QED BY <1>1, <1>3, <1>4, ReadStops DEF h
<1> QED BY <1>5

-----------------------------------------------------------------------------
(* What a reading leaves.                                                  *)

OkFirst(units) ==
    Has(units, "sasl") =>
        \A k \in DOMAIN units : units[k].protocol = "amqp" =>
             \E j \in 1..(k - 1) : units[j].name = "ok"

\* What is next is of the layer that reads.
Straight(units, held, protocol) ==
    \A n \in 1..Len(units) :
        Offsets(units)[n] = held /\ PastOf(units, held, protocol) => units[n].protocol = protocol

\* The frame that is waited for.
Awaited(units, held, count, size) ==
    \E k \in 1..Len(units) : /\ Offsets(units)[k] = held /\ units[k].name # "header"
                             /\ size = Size[units[k].name] /\ count < held + size

\* What is there is not whole.
InParts(units, held, count) ==
    StartsAt(units, held) => count < held + Size[UnitAt(units, held).name]

\* What stands behind is of the layer that is read: in AMQP always, ...
LEMMA StraightAmqp ==
    ASSUME NEW units \in Seq(Units), Shaped(units), NEW held
    PROVE  Straight(units, held, "amqp")
<1>1. SUFFICES ASSUME NEW n \in 1..Len(units), Offsets(units)[n] = held,
                      NEW j \in 1..Len(units), Offsets(units)[j] < held, units[j].protocol = "amqp"
               PROVE  units[n].protocol = "amqp"
  <2>1. DOMAIN units = 1..Len(units)
    BY LenProperties
  <2> QED BY <2>1 DEF Straight, PastOf
<1>2. Len(units) \in Nat /\ DOMAIN units = 1..Len(units)
    BY LenProperties
<1>3. j < n
  <2>1. j \in 1..(Len(units) + 1) /\ n \in 1..(Len(units) + 1)
    BY <1>2
  <2> QED BY <1>1, <2>1, AtOrder
<1>4. n \in j..Len(units)
    BY <1>2, <1>3
<1> QED BY <1>1, <1>2, <1>4 DEF Shaped

\* An outcome is no frame of AMQP.
LEMMA OutcomesAreSasl ==
    ASSUME NEW p \in Peers, NEW u \in Vocabulary(p), u.name \in Outcomes
    PROVE  u.protocol = "sasl"
<1>1. u.protocol \in Protocols /\ u.name \in {"header"} \cup Spoken(p, u.protocol)
    BY VocabularyIs
<1> QED BY <1>1 DEF Spoken, Outcomes, Protocols

\* ... in SASL as long as no outcome was read.
LEMMA StraightSasl ==
    ASSUME NEW p \in Peers, NEW units \in Seq(Vocabulary(p)), Shaped(units), NEW held, OkFirst(units),
           ~ Past(units, held, Outcomes) \/ Said(units, Outcomes \ {"ok"})
    PROVE  Straight(units, held, "sasl")
<1>1. SUFFICES ASSUME NEW n \in 1..Len(units), Offsets(units)[n] = held,
                      NEW j \in 1..Len(units), units[j].protocol = "sasl",
                      units[n].protocol # "sasl"
               PROVE  FALSE
  <2>1. DOMAIN units = 1..Len(units)
    BY LenProperties
  <2> QED BY <2>1 DEF Straight, PastOf
<1>2. /\ Len(units) \in Nat /\ DOMAIN units = 1..Len(units) /\ units[n].protocol = "amqp"
      /\ units \in Seq(Units)
  <2>1. units \in Seq(Units) /\ DOMAIN units = 1..Len(units) /\ Len(units) \in Nat
    BY SpokenToUnits
  <2>2. units[n] \in Units
    BY <2>1
  <2> QED BY <1>1, <2>1, <2>2 DEF Units, Protocols
<1>3. Has(units, "sasl")
    BY <1>1, <1>2 DEF Has
<1>4. PICK i \in 1..(n - 1) : units[i].name = "ok"
    BY <1>2, <1>3 DEF OkFirst
<1>5. i \in 1..Len(units) /\ i < n
    BY <1>2
<1>6. Offsets(units)[i] < held
  <2>1. i \in 1..(Len(units) + 1) /\ n \in 1..(Len(units) + 1)
    BY <1>2, <1>5
  <2> QED BY <1>1, <1>2, <1>5, <2>1, AtOrder
<1>7. Past(units, held, Outcomes)
    BY <1>2, <1>4, <1>5, <1>6 DEF Past, Outcomes
<1>8. PICK k \in 1..Len(units) : units[k].name \in Outcomes \ {"ok"}
    BY <1>2, <1>7 DEF Said
<1>9. \A a \in 1..Len(units) : \A b \in 1..Len(units) :
         a < b /\ units[a].name \in Outcomes => units[b].protocol = "amqp"
    BY <1>2 DEF Shaped
<1>10. \A a \in 1..Len(units) : units[a].name \in Outcomes => units[a].protocol # "amqp"
  <2>1. \A a \in 1..Len(units) : units[a] \in Vocabulary(p)
    OBVIOUS
  <2> QED BY <2>1, OutcomesAreSasl
<1>11. i < k \/ k < i
    BY <1>4, <1>5, <1>8
<1> QED BY <1>4, <1>5, <1>8, <1>9, <1>10, <1>11 DEF Outcomes

\* Where a reading stops without leaving its layer, what is there is only part of a unit.
LEMMA LeavesParts ==
    ASSUME NEW units \in Seq(Units), Shaped(units), NEW to \in Nat, to <= Bytes(units),
           NEW protocol \in Protocols, NEW c, NEW t, Going(c, protocol, units, to, t),
           Stopped(protocol, units, to, t), ~ t.thrown, ~ t.conn[protocol].read_complete,
           Straight(units, t.conn.held, protocol)
    PROVE  /\ InParts(units, t.conn.held, to)
           /\ t.conn[protocol].header_received /\ to - t.conn.held >= 4 =>
                 Awaited(units, t.conn.held, to, SizeAt(units, t.conn.held))
<1>0. PICK held \in Nat : held = t.conn.held
    BY ConnFields, TurnFields DEF Going
<1>6. PICK got \in BOOLEAN : got = t.conn[protocol].header_received
    BY ConnFields, TurnFields, TransportFields DEF Going
<1>1. /\ held <= to /\ OnEdge(units, held) /\ Bytes(units) \in Nat
      /\ got => PastOf(units, held, protocol)
      /\ ~ got => to < held + 8
      /\ got => ~ Whole(units, held, to)
      /\ Straight(units, held, protocol)
      /\ Len(units) \in Nat /\ DOMAIN units = 1..Len(units)
  <2>1. /\ held <= to /\ OnEdge(units, held)
        /\ got => PastOf(units, held, protocol)
        /\ ~ got => to < held + 8
    BY <1>0, <1>6 DEF Going
  <2>2. got => ~ Whole(units, held, to)
    BY <1>0, <1>6 DEF Stopped
  <2> QED BY <1>0, <2>1, <2>2, NothingAtEnd, LenProperties
<1>2. SUFFICES /\ InParts(units, held, to)
               /\ got /\ to - held >= 4 => Awaited(units, held, to, SizeAt(units, held))
    BY <1>0, <1>6
<1>3. CASE held = Bytes(units)
  <2>1. to - held = 0
    BY <1>1, <1>3
  <2> QED BY <1>3, <2>1, NothingAtEnd DEF InParts
<1>4. CASE held # Bytes(units)
  <2>1. held < Bytes(units)
    BY <1>1, <1>4
  <2>2. PICK n \in 1..Len(units) :
            /\ Offsets(units)[n] = held
            /\ UnitAt(units, held) = units[n]
            /\ Size[units[n].name] \in Nat
            /\ Size[units[n].name] >= 8
            /\ units[n].name # "header" => SizeAt(units, held) = Size[units[n].name]
    BY <1>1, <2>1, EdgeBeforeEnd
  <2>3. CASE ~ got
    <3>1. to < held + Size[units[n].name]
        BY <1>1, <2>2, <2>3
    <3> QED BY <2>2, <2>3, <3>1 DEF InParts
  <2>4. CASE got
    <3>1. units[n].protocol = protocol
        BY <1>1, <2>2, <2>4 DEF Straight
    <3>2. PICK j \in 1..Len(units) : Offsets(units)[j] < held /\ units[j].protocol = protocol
        BY <1>1, <2>4 DEF PastOf
    <3>3. j < n
      <4>1. j \in 1..(Len(units) + 1) /\ n \in 1..(Len(units) + 1)
        BY <1>1
      <4> QED BY <2>2, <3>2, <4>1, AtOrder
    <3>4. units[n].name # "header"
      <4>1. j \in 1..(n - 1)
        BY <1>1, <3>3
      <4> QED BY <1>1, <3>1, <3>2, <4>1 DEF Shaped
    <3>5. ~ Whole(units, held, to)
        BY <1>1, <2>4
    <3>6. SizeAt(units, held) = Size[units[n].name]
        BY <2>2, <3>4
    <3>7. to < held + Size[units[n].name]
        BY <1>1, <2>2, <3>5, <3>6 DEF Whole
    <3> QED BY <2>2, <3>4, <3>6, <3>7 DEF InParts, Awaited
  <2> QED BY <2>3, <2>4
<1> QED BY <1>3, <1>4

-----------------------------------------------------------------------------
(* One connection.                                                         *)

\* What the client is, whatever the server does.
OwnClient(c) ==
    /\ c.kind \in {"Client", "undefined"} /\ c.local_open
    /\ ~ c.amqp.read_complete /\ ~ c.amqp.write_complete
    /\ c.sasl.pending = <<>>
    /\ c.kind = "Client" => c.sasl.header_sent
    /\ c.kind = "undefined" =>
          ~ c.sasl.header_sent /\ ~ c.sasl.read_complete /\ ~ c.sasl.write_complete

\* What a connection has read of these units, of which that many bytes have come.
Heard(c, units, count) ==
    /\ count <= Bytes(units)
    /\ c.remote_open => Has(units, "amqp")
    /\ ~ c.ended =>
         /\ c.held <= count /\ OnEdge(units, c.held)
         /\ \A P \in Protocols : c[P].header_received <=> PastOf(units, c.held, P)
         /\ c.frame_size > 0 => Awaited(units, c.held, count, c.frame_size)

\* It leaves nothing that is whole, but for the header behind an outcome.
Heeds(c, units, count, eager) ==
    \/ InParts(units, c.held, count)
    \/ c.kind = "Client" /\ eager /\ UnitAt(units, c.held) = Header("amqp")

\* A reading is about to leave the size of the frame that it waits for, or none.
Peeked(c, units, count) ==
    LET size == PeekSize(c, units, count - c.held)
    IN  size = 0 \/ Awaited(units, c.held, count, size)

\* What the client relies on.
ClientMay(c, units, eager) ==
    /\ Last(units, c.held, Questions)
    /\ c.sasl.read_complete <=> c.sasl.write_complete
    /\ Past(units, c.held, Outcomes) => c.sasl.read_complete
    /\ OkFirst(units)
    /\ Has(units, "sasl") /\ Has(units, "amqp") /\ ~ eager => c.sasl.read_complete

Replied(c, units, held, out) ==
    /\ c.kind = "Client" /\ ~ c.sasl.read_complete
    /\ Due(units, c.held, Questions) /\ held = Bytes(units)
    /\ \E name \in Replies : out = <<[protocol |-> "sasl", name |-> name]>>

\* What the client has after a reading.
ClientGot(c, units, to, eager, r) ==
    /\ r \in Turns /\ r.promises = 0
    /\ OwnClient(r.conn) /\ r.conn.kind = c.kind
    /\ \A P \in Protocols : /\ r.conn[P].pending = c[P].pending
                            /\ r.conn[P].header_sent = c[P].header_sent
    /\ c.held <= r.conn.held /\ r.conn.held <= to /\ OnEdge(units, r.conn.held)
    /\ \A P \in Protocols : r.conn[P].header_received <=> PastOf(units, r.conn.held, P)
    /\ r.conn.remote_open => c.remote_open \/ Has(units, "amqp")
    /\ c.sasl.read_complete => r.conn.sasl.read_complete
    /\ r.conn.sasl.read_complete => c.sasl.read_complete \/ Said(units, {"ok"})
    /\ ~ r.conn.ended =>
         /\ r.conn.sasl.read_complete <=> r.conn.sasl.write_complete
         /\ Past(units, r.conn.held, Outcomes) => r.conn.sasl.read_complete
    /\ \/ r.out = <<>>
       \/ Replied(c, units, r.conn.held, r.out) /\ ~ r.conn.sasl.write_complete
    /\ ~ r.thrown => Heeds(r.conn, units, to, eager) /\ Peeked(r.conn, units, to)

\* The size that peek_size finds there is that of the frame.
LEMMA PeekedIs ==
    ASSUME NEW units \in Seq(Units), Shaped(units), NEW to \in Nat, to <= Bytes(units),
           NEW protocol \in Protocols, NEW c, NEW t, Going(c, protocol, units, to, t),
           Stopped(protocol, units, to, t), ~ t.thrown, ~ t.conn[protocol].read_complete,
           Straight(units, t.conn.held, protocol), ReadsWith(t.conn) = protocol
    PROVE  InParts(units, t.conn.held, to) /\ Peeked(t.conn, units, to)
<1>1. /\ InParts(units, t.conn.held, to)
      /\ t.conn[protocol].header_received /\ to - t.conn.held >= 4 =>
            Awaited(units, t.conn.held, to, SizeAt(units, t.conn.held))
    BY LeavesParts
<1>2. CASE t.conn[protocol].header_received /\ to - t.conn.held >= 4
  <2>1. PeekSize(t.conn, units, to - t.conn.held) = SizeAt(units, t.conn.held)
    BY <1>2 DEF PeekSize, Protocols
  <2> QED BY <1>1, <1>2, <2>1 DEF Peeked
<1>3. CASE ~ (t.conn[protocol].header_received /\ to - t.conn.held >= 4)
  <2>1. PeekSize(t.conn, units, to - t.conn.held) = 0
    BY <1>3 DEF PeekSize
  <2> QED BY <1>1, <2>1 DEF Peeked
<1> QED BY <1>2, <1>3

\* What the client has when it has read AMQP, ...
LEMMA ClientGotAmqp ==
    ASSUME NEW units \in Seq(Vocabulary("server")), Shaped(units),
           NEW to \in Nat, to <= Bytes(units), NEW turn, Beginning(turn, units, to),
           NEW eager, ClientMay(turn.conn, units, eager), OwnClient(turn.conn),
           ~ turn.conn.ended, ReadsWith(turn.conn) = "amqp"
    PROVE  ClientGot(turn.conn, units, to, eager, Read(turn, "amqp", units, to))
<1>1. PICK c \in Connections : c = turn.conn
    BY TurnFields DEF Beginning
<1>2. PICK r : r = Read(turn, "amqp", units, to)
    OBVIOUS
<1>3. AmqpReads(c, units, to, r) /\ Stopped("amqp", units, to, r)
  <2>1. "server" \in Peers
    BY DEF Peers
  <2> QED BY <1>1, <1>2, <2>1, AmqpRead
<1>4. /\ Going(c, "amqp", units, to, r) /\ r \in Turns
      /\ r.out = <<>> /\ r.promises = 0
      /\ Alike(c, r.conn, {"held", "amqp", "remote_open"})
      /\ SameWriting(c.amqp, r.conn.amqp)
      /\ r.conn.remote_open => c.remote_open \/ Has(units, "amqp")
      /\ Past(units, r.conn.held, Outcomes) <=> Past(units, c.held, Outcomes)
    BY <1>3 DEF AmqpReads, Going
<1>5. /\ r.conn.kind = c.kind /\ r.conn.sasl = c.sasl /\ r.conn.local_open = c.local_open
      /\ r.conn.selected = c.selected
    BY <1>4, AlikeFields
<1>6. OwnClient(r.conn)
    BY <1>1, <1>4, <1>5 DEF OwnClient, SameWriting
<1>7. ReadsWith(r.conn) = "amqp"
    BY <1>1, <1>5 DEF ReadsWith, Uses
<1>8. ~ r.thrown => InParts(units, r.conn.held, to) /\ Peeked(r.conn, units, to)
  <2>1. units \in Seq(Units) /\ "amqp" \in Protocols
    BY SpokenToUnits DEF Peers, Protocols
  <2>2. ~ r.conn["amqp"].read_complete
    BY <1>6 DEF OwnClient
  <2>3. Straight(units, r.conn.held, "amqp")
    BY <2>1, StraightAmqp
  <2> QED BY <1>3, <1>4, <1>7, <2>1, <2>2, <2>3, PeekedIs
<1>9. ASSUME NEW P \in Protocols
      PROVE  /\ r.conn[P].pending = c[P].pending /\ r.conn[P].header_sent = c[P].header_sent
             /\ r.conn[P].header_received <=> PastOf(units, r.conn.held, P)
  <2>1. CASE P = "amqp"
    BY <1>4, <2>1 DEF SameWriting, Going
  <2>2. CASE P = "sasl"
    <3>1. r.conn["sasl"] = c["sasl"]
        BY <1>5
    <3>2. c["sasl"].header_received <=> PastOf(units, c.held, "sasl")
        BY <1>1 DEF Beginning, Protocols
    <3>3. PastOf(units, r.conn.held, "sasl") <=> PastOf(units, c.held, "sasl")
        BY <1>4 DEF Going
    <3> QED BY <2>2, <3>1, <3>2, <3>3
  <2> QED BY <2>1, <2>2 DEF Protocols
<1>10. c.held <= r.conn.held /\ r.conn.held <= to /\ OnEdge(units, r.conn.held)
    BY <1>4 DEF Going
<1>11. /\ r.conn.sasl.read_complete <=> r.conn.sasl.write_complete
       /\ Past(units, r.conn.held, Outcomes) => r.conn.sasl.read_complete
    BY <1>1, <1>4, <1>5 DEF ClientMay
<1> QED BY <1>1, <1>2, <1>4, <1>5, <1>6, <1>8, <1>9, <1>10, <1>11 DEF ClientGot, Heeds

\* The server has not got to AMQP before its outcome.
LEMMA NoAmqpYet ==
    ASSUME NEW units \in Seq(Units), NEW held \in Nat, OkFirst(units), Has(units, "sasl"),
           ~ Past(units, held, Outcomes)
    PROVE  ~ PastOf(units, held, "amqp")
<1>1. SUFFICES ASSUME NEW k \in 1..Len(units), Offsets(units)[k] < held, units[k].protocol = "amqp"
               PROVE  FALSE
  <2>1. DOMAIN units = 1..Len(units)
    BY LenProperties
  <2> QED BY <2>1 DEF PastOf
<1>2. Len(units) \in Nat /\ DOMAIN units = 1..Len(units)
    BY LenProperties
<1>3. PICK j \in 1..(k - 1) : units[j].name = "ok"
    BY <1>1, <1>2 DEF OkFirst
<1>4. j \in 1..Len(units) /\ j < k
    BY <1>2
<1>5. Offsets(units)[j] < Offsets(units)[k] /\ Offsets(units)[j] \in Nat /\ Offsets(units)[k] \in Nat
  <2>1. j \in 1..(Len(units) + 1) /\ k \in 1..(Len(units) + 1)
    BY <1>2, <1>4
  <2> QED BY <1>4, <2>1, AtOrder
<1>6. Offsets(units)[j] < held
    BY <1>1, <1>5
<1> QED BY <1>2, <1>3, <1>4, <1>6 DEF Past, Outcomes

\* What comes behind the outcome is the header of AMQP.
LEMMA BehindOutcome ==
    ASSUME NEW p \in Peers, NEW units \in Seq(Vocabulary(p)), Shaped(units), NEW held \in Nat,
           Past(units, held, Outcomes), ~ PastOf(units, held, "amqp"), StartsAt(units, held)
    PROVE  UnitAt(units, held) = Header("amqp") /\ Has(units, "sasl") /\ Has(units, "amqp")
<1>1. units \in Seq(Units) /\ DOMAIN units = 1..Len(units) /\ Len(units) \in Nat
    BY SpokenToUnits
<1>2. PICK n \in 1..Len(units) : Offsets(units)[n] = held
    BY DEF StartsAt
<1>3. UnitAt(units, held) = units[n]
    BY <1>1, <1>2, UnitAtStart
<1>4. PICK j \in 1..Len(units) : Offsets(units)[j] < held /\ units[j].name \in Outcomes
    BY <1>1 DEF Past
<1>5. j < n
  <2>1. j \in 1..(Len(units) + 1) /\ n \in 1..(Len(units) + 1)
    BY <1>1
  <2> QED BY <1>1, <1>2, <1>4, <2>1, AtOrder
<1>6. units[n].protocol = "amqp"
  <2>1. n \in (j + 1)..Len(units)
    BY <1>1, <1>5
  <2> QED BY <1>1, <1>4, <2>1 DEF Shaped
<1>7. \A i \in 1..(n - 1) : units[i].protocol # "amqp"
  <2>1. SUFFICES ASSUME NEW i \in 1..(n - 1), units[i].protocol = "amqp" PROVE FALSE
    OBVIOUS
  <2>2. i \in 1..(Len(units) + 1) /\ n \in 1..(Len(units) + 1) /\ i < n /\ i \in 1..Len(units)
    BY <1>1
  <2>3. Offsets(units)[i] < held
    BY <1>1, <1>2, <2>2, AtOrder
  <2> QED BY <1>1, <2>1, <2>2, <2>3 DEF PastOf
<1>8. units[n].name = "header"
    BY <1>1, <1>6, <1>7 DEF Shaped
<1>9. units[n] = Header("amqp")
  <2>1. units[n] \in Units
    BY <1>1
  <2> QED BY <1>6, <1>8, <2>1 DEF Units, Header
<1>10. units[j].protocol = "sasl"
  <2>1. units[j] \in Vocabulary(p)
    OBVIOUS
  <2> QED BY <1>4, <2>1, OutcomesAreSasl
<1> QED BY <1>1, <1>3, <1>6, <1>9, <1>10 DEF Has

\* ... and when it has read SASL.
LEMMA ClientGotSasl ==
    ASSUME NEW units \in Seq(Vocabulary("server")), Shaped(units),
           NEW to \in Nat, to <= Bytes(units), NEW turn, Beginning(turn, units, to),
           NEW eager \in BOOLEAN, ClientMay(turn.conn, units, eager), OwnClient(turn.conn),
           ~ turn.conn.ended, ReadsWith(turn.conn) = "sasl"
    PROVE  ClientGot(turn.conn, units, to, eager, Read(turn, "sasl", units, to))
<1>1. PICK c \in Connections : c = turn.conn
    BY TurnFields DEF Beginning
<1>2. PICK r : r = Read(turn, "sasl", units, to)
    OBVIOUS
<1>3. /\ c.kind = "Client" /\ c.sasl.pending = <<>> /\ c.sasl.header_sent
      /\ ~ c.sasl.read_complete /\ ~ c.sasl.write_complete
      /\ ~ Past(units, c.held, Outcomes) /\ Last(units, c.held, Questions)
    BY <1>1 DEF ReadsWith, Uses, OwnClient, ClientMay
<1>4. ClientReads(c, units, to, r) /\ Stopped("sasl", units, to, r)
    BY <1>1, <1>2, <1>3, ClientRead
<1>5. /\ Going(c, "sasl", units, to, r) /\ r \in Turns
      /\ r.promises = 0
      /\ Alike(c, r.conn, {"held", "sasl", "transport_error", "ended"})
      /\ r.conn.sasl.pending = <<>> /\ r.conn.sasl.header_sent
      /\ \/ r.out = <<>>
         \/ /\ Due(units, c.held, Questions) /\ r.conn.held = Bytes(units)
            /\ ~ r.conn.sasl.write_complete
            /\ \E name \in Replies : r.out = <<[protocol |-> "sasl", name |-> name]>>
      /\ ~ Past(units, r.conn.held, Outcomes) =>
            ~ r.conn.sasl.read_complete /\ ~ r.conn.sasl.write_complete
      /\ Past(units, r.conn.held, Outcomes) =>
            /\ r.conn.sasl.write_complete
            /\ \/ r.conn.sasl.read_complete
               \/ r.conn.ended /\ Said(units, Outcomes \ {"ok"})
      /\ r.conn.sasl.read_complete => Said(units, {"ok"})
    BY <1>4 DEF ClientReads, Going
<1>6. /\ r.conn.kind = c.kind /\ r.conn.amqp = c.amqp /\ r.conn.local_open = c.local_open
      /\ r.conn.remote_open = c.remote_open
    BY <1>5, AlikeFields
<1>7. OwnClient(r.conn)
    BY <1>1, <1>3, <1>5, <1>6 DEF OwnClient
<1>8. units \in Seq(Units) /\ "sasl" \in Protocols /\ "server" \in Peers /\ "amqp" \in Protocols
    BY SpokenToUnits DEF Peers, Protocols
<1>9. ASSUME NEW P \in Protocols
      PROVE  /\ r.conn[P].pending = c[P].pending /\ r.conn[P].header_sent = c[P].header_sent
             /\ r.conn[P].header_received <=> PastOf(units, r.conn.held, P)
  <2>1. CASE P = "sasl"
    <3>1. r.conn["sasl"].header_sent \in BOOLEAN /\ c["sasl"].header_sent \in BOOLEAN
        BY <1>5, <1>8, TurnFields, ConnFields, TransportFields
    <3> QED BY <1>3, <1>5, <2>1, <3>1 DEF Going
  <2>2. CASE P = "amqp"
    <3>1. r.conn["amqp"] = c["amqp"]
        BY <1>6
    <3>2. c["amqp"].header_received <=> PastOf(units, c.held, "amqp")
        BY <1>1 DEF Beginning, Protocols
    <3>3. PastOf(units, r.conn.held, "amqp") <=> PastOf(units, c.held, "amqp")
        BY <1>5 DEF Going
    <3> QED BY <2>2, <3>1, <3>2, <3>3
  <2> QED BY <2>1, <2>2 DEF Protocols
<1>10. c.held <= r.conn.held /\ r.conn.held <= to /\ OnEdge(units, r.conn.held)
    BY <1>5 DEF Going
<1>11. ASSUME ~ r.thrown
       PROVE  Heeds(r.conn, units, to, eager) /\ Peeked(r.conn, units, to)
  <2>1. CASE ~ r.conn.sasl.read_complete
    <3>1. Straight(units, r.conn.held, "sasl")
        BY <1>1, <1>5, <1>8, <2>1, StraightSasl DEF ClientMay
    <3>2. ReadsWith(r.conn) = "sasl" /\ ~ r.conn["sasl"].read_complete
        BY <1>3, <1>6, <2>1 DEF ReadsWith, Uses
    <3>3. InParts(units, r.conn.held, to) /\ Peeked(r.conn, units, to)
        BY <1>4, <1>5, <1>8, <1>11, <3>1, <3>2, PeekedIs
    <3> QED BY <3>3 DEF Heeds
  <2>2. CASE r.conn.sasl.read_complete
    <3>1. Past(units, r.conn.held, Outcomes)
        BY <1>5, <2>2
    <3>2. r.conn.held \in Nat
        BY <1>5, TurnFields, ConnFields
    <3>3. Has(units, "sasl")
      <4>1. PICK k \in 1..Len(units) : units[k].name \in Outcomes
        BY <1>5, <1>8, <2>2, LenProperties DEF Said, Outcomes
      <4>2. units[k].protocol = "sasl"
        BY <1>8, <4>1, OutcomesAreSasl
      <4> QED BY <1>8, <4>2, LenProperties DEF Has
    <3>4. ~ PastOf(units, r.conn.held, "amqp")
      <4>1. ~ PastOf(units, c.held, "amqp")
        BY <1>1, <1>3, <1>8, <3>3, ConnFields, NoAmqpYet DEF ClientMay
      <4> QED BY <1>5, <4>1 DEF Going
    <3>5. Heeds(r.conn, units, to, eager)
      <4>1. SUFFICES ASSUME StartsAt(units, r.conn.held)
                     PROVE  eager /\ UnitAt(units, r.conn.held) = Header("amqp")
        BY <1>3, <1>6 DEF Heeds, InParts
      <4>2. UnitAt(units, r.conn.held) = Header("amqp") /\ Has(units, "amqp")
        BY <1>8, <3>1, <3>2, <3>4, <4>1, BehindOutcome
      <4> QED BY <1>1, <1>3, <3>3, <4>2 DEF ClientMay
    <3>6. Peeked(r.conn, units, to)
      <4>1. ReadsWith(r.conn) = "amqp"
        BY <1>3, <1>6, <2>2 DEF ReadsWith, Uses
      <4>2. ~ r.conn["amqp"].header_received
        BY <1>8, <1>9, <3>4
      <4>3. PeekSize(r.conn, units, to - r.conn.held) = 0
        BY <4>1, <4>2 DEF PeekSize
      <4> QED BY <4>3 DEF Peeked
    <3> QED BY <3>5, <3>6
  <2> QED BY <2>1, <2>2
<1>12. /\ ~ r.conn.ended =>
            /\ r.conn.sasl.read_complete <=> r.conn.sasl.write_complete
            /\ Past(units, r.conn.held, Outcomes) => r.conn.sasl.read_complete
       /\ \/ r.out = <<>>
          \/ Replied(c, units, r.conn.held, r.out) /\ ~ r.conn.sasl.write_complete
    BY <1>3, <1>5 DEF Replied
<1> QED BY <1>1, <1>2, <1>3, <1>5, <1>6, <1>7, <1>9, <1>10, <1>11, <1>12 DEF ClientGot

-----------------------------------------------------------------------------
(* Input.                                                                  *)

Begins(c) == [conn |-> c, out |-> <<>>, promises |-> 0, thrown |-> FALSE]

Waits(c, to) == c.frame_size > 0 /\ to - c.held < c.frame_size

\* What the bytes that are there make of a connection, but for what it writes then.
Prepared(c, units, to) == Selected([Begins(c) EXCEPT !.conn.frame_size = 0], units, to)

Reading(turn, units, to) ==
    IF ReadsWith(turn.conn) = "undefined" THEN turn
    ELSE Read(turn, ReadsWith(turn.conn), units, to)

\* The end of input, and the tick after it.
Finish(r, size) ==
    LET kept == [r EXCEPT !.conn.frame_size = size]
    IN  Process(IF HasWritesPending(kept.conn) THEN Output(kept) ELSE kept)

\* The end of a turn that throws.
Broken(r, to) == [r EXCEPT !.conn.ended = TRUE, !.conn.held = to]

\* The three ways that input may go.
LEMMA InputIs ==
    ASSUME NEW c, NEW units, NEW to, NEW r, r = Reading(Prepared(c, units, to), units, to),
           NEW u, u = Input(Begins(c), units, to)
    PROVE  /\ Waits(c, to) => u = Begins(c)
           /\ ~ Waits(c, to) /\ r.thrown => u = Broken(r, to)
           /\ ~ Waits(c, to) /\ ~ r.thrown =>
                 u = Finish(r, PeekSize(r.conn, units, to - r.conn.held))
<1>1. Begins(c).conn = c
    BY DEF Begins
<1>2. PICK s : s = Prepared(c, units, to)
    OBVIOUS
<1>3. r = IF ReadsWith(s.conn) = "undefined" THEN s
          ELSE Read(s, ReadsWith(s.conn), units, to)
    BY <1>2 DEF Reading
<1>4. u = IF c.frame_size > 0 /\ to - c.held < c.frame_size THEN Begins(c)
          ELSE IF r.thrown THEN Broken(r, to)
          ELSE Finish(r, PeekSize(r.conn, units, to - r.conn.held))
    BY <1>1, <1>2, <1>3 DEF Input, Prepared, Finish, Kept, Broken
<1> QED BY <1>4 DEF Waits

\* A protocol error ends the socket.
LEMMA Thrown ==
    ASSUME NEW r \in Turns, NEW to \in Nat, NEW u, u = Broken(r, to)
    PROVE  /\ u \in Turns /\ u.out = r.out /\ u.promises = r.promises
           /\ Alike(r.conn, u.conn, {"ended", "held"}) /\ u.conn.ended
<1>1. PICK c \in Connections : c = r.conn
    BY TurnFields
<1>2. PICK d : d = [c EXCEPT !.ended = TRUE]
    OBVIOUS
<1>3. d \in Connections /\ d.ended /\ Alike(c, d, {"ended"})
    BY <1>2, EndedSet
<1>4. PICK s : s = [r EXCEPT !.conn = d]
    OBVIOUS
<1>5. s \in Turns /\ s.conn = d /\ s.out = r.out /\ s.promises = r.promises
    BY <1>3, <1>4, TurnSet
<1>6. PICK e : e = [d EXCEPT !.held = to]
    OBVIOUS
<1>7. e \in Connections /\ Alike(d, e, {"held"})
    BY <1>3, <1>6, HeldSet
<1>8. u = [s EXCEPT !.conn.held = to]
    BY <1>1, <1>2, <1>4 DEF Broken
<1>9. u = [s EXCEPT !.conn = e]
    BY <1>5, <1>6, <1>8
<1>10. u \in Turns /\ u.conn = e /\ u.out = r.out /\ u.promises = r.promises
    BY <1>5, <1>7, <1>9, TurnSet
<1>11. e.ended
    BY <1>3, <1>7, AlikeFields
<1>12. Alike(c, e, {"ended", "held"})
    BY <1>3, <1>7, AlikeTwice
<1> QED BY <1>1, <1>10, <1>11, <1>12

\* Sequences may be joined in any order.
LEMMA Joined ==
    ASSUME NEW S, NEW a \in Seq(S), NEW b \in Seq(S), NEW c \in Seq(S)
    PROVE  (a \o b) \o c = a \o (b \o c)
BY ConcatAssociative

-----------------------------------------------------------------------------
(* The end of input.                                                       *)

\* What one end of input, or a part of it, does to what was read.
Finished(p, r, w, u) ==
    /\ u \in Turns /\ u.promises = r.promises
    /\ u.conn.kind = r.conn.kind /\ u.conn.eager = r.conn.eager /\ u.conn.selected = r.conn.selected
    /\ u.conn.held = r.conn.held /\ u.conn.frame_size = r.conn.frame_size
    /\ u.conn.remote_open = r.conn.remote_open
    /\ r.conn.local_open => u.conn.local_open
    /\ r.conn.ended => u.conn.ended
    /\ \A P \in Protocols : SameReading(r.conn[P], u.conn[P])
    /\ \/ u.conn.sasl = r.conn.sasl
       \/ WritesTo(r.conn) = "sasl" /\ u.conn.sasl.pending = <<>> /\ u.conn.sasl.header_sent
    /\ WritesTo(r.conn) # "amqp" => u.conn.amqp = r.conn.amqp
    /\ Writing(p, u.conn, w \o u.out)
    /\ \E x \in Seq(Vocabulary(p)) :
          /\ u.out = r.out \o x /\ (r.conn.ended => x = <<>>)
          /\ \A i \in 1..Len(x) : x[i].protocol = WritesTo(r.conn)
          /\ \/ x = <<>> \/ WritesTo(r.conn) = "amqp"
             \/ WritesTo(r.conn) = "sasl" /\ x = Added(r.conn.sasl, "sasl")

\* What stays of a reading when something is written after it, ...
LEMMA FinishedOutput ==
    ASSUME NEW p \in Peers, NEW r \in Turns, NEW w \in Seq(Units),
           Writing(p, r.conn, w \o r.out), MaySpeak(p, r.conn, w \o r.out)
    PROVE  Finished(p, r, w, Output(r))
<1>1. PICK u : u = Output(r)
    OBVIOUS
<1>2. PICK P : P = WritesTo(r.conn)
    OBVIOUS
<1>3. r.conn \in Connections
    BY TurnFields
<1>4. P \in Protocols \cup {"undefined"}
    BY <1>2, <1>3, WritesToIs
<1>5. PICK x : x = IF r.conn.ended \/ P = "undefined" THEN <<>> ELSE Added(r.conn[P], P)
    OBVIOUS
<1>6. /\ Writing(p, u.conn, w \o u.out) /\ u.out = r.out \o x
      /\ x \in Seq(Vocabulary(p)) /\ \A i \in 1..Len(x) : x[i].protocol = P
    BY <1>1, <1>2, <1>5, OutputWrites
<1>7. /\ u \in Turns /\ u.promises = r.promises
      /\ SameSelf(r.conn, u.conn)
      /\ r.conn.ended => u.conn.ended
      /\ P = "undefined" => u.conn.amqp = r.conn.amqp /\ u.conn.sasl = r.conn.sasl
      /\ P \in Protocols =>
           /\ u.conn[P].pending = <<>> /\ u.conn[P].header_sent
           /\ SameReading(r.conn[P], u.conn[P])
           /\ \A Q \in Protocols \ {P} : u.conn[Q] = r.conn[Q]
    BY <1>1, <1>2, OutputIs
<1>8. \A Q \in Protocols : SameReading(r.conn[Q], u.conn[Q])
    BY <1>4, <1>7 DEF Protocols, SameReading
<1>9. \/ u.conn.sasl = r.conn.sasl
      \/ P = "sasl" /\ u.conn.sasl.pending = <<>> /\ u.conn.sasl.header_sent
    BY <1>4, <1>7 DEF Protocols
<1>12. P # "amqp" => u.conn.amqp = r.conn.amqp
    BY <1>4, <1>7 DEF Protocols
<1>10. r.conn.ended => x = <<>>
    BY <1>5
<1>11. x = <<>> \/ P = "amqp" \/ (P = "sasl" /\ x = Added(r.conn.sasl, "sasl"))
    BY <1>4, <1>5 DEF Protocols
<1> QED BY <1>1, <1>2, <1>6, <1>7, <1>8, <1>9, <1>10, <1>11, <1>12 DEF Finished, SameSelf

\* ... and when nothing is.
LEMMA FinishedNot ==
    ASSUME NEW p \in Peers, NEW r \in Turns, NEW w \in Seq(Units), Writing(p, r.conn, w \o r.out)
    PROVE  Finished(p, r, w, r)
<1>1. r.out = r.out \o <<>> /\ r.out \in Seq(Units)
  <2>1. r.out \in Seq(Units)
    BY TurnFields
  <2> QED BY <2>1, ConcatEmptySeq
<1>2. <<>> \in Seq(Vocabulary(p)) /\ Len(<<>>) = 0
    OBVIOUS
<1>3. \A P \in Protocols : SameReading(r.conn[P], r.conn[P])
    BY DEF SameReading
<1>5. \E x \in Seq(Vocabulary(p)) :
          /\ r.out = r.out \o x
          /\ \A i \in 1..Len(x) : x[i].protocol = WritesTo(r.conn)
          /\ \/ x = <<>> \/ WritesTo(r.conn) = "amqp"
             \/ WritesTo(r.conn) = "sasl" /\ x = Added(r.conn.sasl, "sasl")
  <2> WITNESS <<>> \in Seq(Vocabulary(p))
  <2>1. \A i \in 1..Len(<<>>) : <<>>[i].protocol = WritesTo(r.conn)
    BY <1>2
  <2> QED BY <1>1, <2>1
<1> QED BY <1>3, <1>5 DEF Finished

\* The layer depends on the kind, the selection and the state of SASL only.
LEMMA WritesSame ==
    ASSUME NEW c, NEW d, d.kind = c.kind, d.selected = c.selected, d.sasl = c.sasl
    PROVE  WritesTo(d) = WritesTo(c) /\ Uses(d) = Uses(c)
BY DEF WritesTo, Uses

\* One after the other.
LEMMA FinishedTwice ==
    ASSUME NEW p \in Peers, NEW r \in Turns, NEW w \in Seq(Units), NEW s, NEW t, NEW u,
           Finished(p, r, w, s), s.conn.sasl = r.conn.sasl,
           t \in Turns, t.out = s.out, t.promises = s.promises,
           t.conn.ended = s.conn.ended, s.conn.local_open => t.conn.local_open,
           t.conn.kind = s.conn.kind, t.conn.eager = s.conn.eager, t.conn.selected = s.conn.selected,
           t.conn.held = s.conn.held, t.conn.frame_size = s.conn.frame_size,
           t.conn.remote_open = s.conn.remote_open, t.conn.sasl = s.conn.sasl,
           SameReading(s.conn.amqp, t.conn.amqp),
           WritesTo(r.conn) = "amqp", Finished(p, t, w, u)
    PROVE  Finished(p, r, w, u)
<1>1. WritesTo(t.conn) = "amqp"
  <2>1. t.conn.kind = r.conn.kind /\ t.conn.selected = r.conn.selected /\ t.conn.sasl = r.conn.sasl
    BY DEF Finished
  <2> QED BY <2>1, WritesSame
<1>2. PICK x \in Seq(Vocabulary(p)) :
          /\ s.out = r.out \o x /\ (r.conn.ended => x = <<>>)
          /\ \A i \in 1..Len(x) : x[i].protocol = "amqp"
    BY DEF Finished
<1>3. PICK y \in Seq(Vocabulary(p)) :
          /\ u.out = s.out \o y /\ (t.conn.ended => y = <<>>)
          /\ \A i \in 1..Len(y) : y[i].protocol = "amqp"
    BY <1>1 DEF Finished
<1>4. PICK z : z = x \o y
    OBVIOUS
<1>5. z \in Seq(Vocabulary(p)) /\ \A i \in 1..Len(z) : z[i].protocol = "amqp"
    BY <1>2, <1>3, <1>4, ConcatIs
<1>10. r.conn.ended => z = <<>>
  <2>1. r.conn.ended => s.conn.ended
    BY DEF Finished
  <2>2. r.conn.ended => x = <<>> /\ y = <<>>
    BY <1>2, <1>3, <2>1
  <2>3. <<>> \o <<>> = <<>>
    OBVIOUS
  <2> QED BY <1>4, <2>2, <2>3
<1>6. u.out = r.out \o z
  <2>1. x \in Seq(Units) /\ y \in Seq(Units)
    BY SpokenToUnits
  <2>2. r.out \in Seq(Units)
    BY TurnFields
  <2>3. (r.out \o x) \o y = r.out \o (x \o y)
    <3>1. \A a \in Seq(Units) : \A b \in Seq(Units) : \A c \in Seq(Units) : (a \o b) \o c = a \o (b \o c)
      BY Joined, SMTT(30)
    <3> QED BY <2>1, <2>2, <3>1
  <2>4. s.out = r.out \o x /\ u.out = s.out \o y /\ z = x \o y
    BY <1>2, <1>3, <1>4
  <2> QED BY <2>3, <2>4
<1>7. u.conn.sasl = r.conn.sasl
    BY <1>1 DEF Finished
<1>8. \A P \in Protocols : SameReading(r.conn[P], u.conn[P])
  <2>1. SameReading(r.conn.amqp, s.conn.amqp) /\ SameReading(t.conn.amqp, u.conn.amqp)
    BY DEF Finished, Protocols
  <2>2. SameReading(r.conn.amqp, u.conn.amqp)
    BY <2>1 DEF SameReading
  <2>3. SameReading(r.conn.sasl, u.conn.sasl)
    BY <1>7 DEF SameReading
  <2> QED BY <2>2, <2>3 DEF Protocols
<1>9. /\ u \in Turns /\ u.promises = r.promises
      /\ u.conn.kind = r.conn.kind /\ u.conn.eager = r.conn.eager /\ u.conn.selected = r.conn.selected
      /\ u.conn.held = r.conn.held /\ u.conn.frame_size = r.conn.frame_size
      /\ u.conn.remote_open = r.conn.remote_open
      /\ r.conn.local_open => u.conn.local_open
      /\ r.conn.ended => u.conn.ended
      /\ Writing(p, u.conn, w \o u.out)
    BY DEF Finished
<1> QED BY <1>5, <1>6, <1>7, <1>8, <1>9, <1>10 DEF Finished

\* Writing is about the transports and the end of the socket.
LEMMA WritingSame ==
    ASSUME NEW p, NEW c, NEW d, NEW units, Writing(p, c, units),
           c.ended => d.ended, \A P \in Protocols : d[P].header_sent = c[P].header_sent,
           d.amqp.pending \in Seq({"open", "empty"})
    PROVE  Writing(p, d, units)
BY DEF Writing

\* The tick after input.
LEMMA FinishedProcess ==
    ASSUME NEW p \in Peers, NEW k \in Turns, NEW w \in Seq(Units), NEW s, Finished(p, k, w, s),
           k.conn.remote_open /\ ~ k.conn.local_open => WritesTo(k.conn) = "amqp"
    PROVE  Finished(p, k, w, Process(s))
<1>1. CASE ~ (s.conn.remote_open /\ ~ s.conn.local_open)
    BY <1>1 DEF Process
<1>2. CASE s.conn.remote_open /\ ~ s.conn.local_open
  <2>1. WritesTo(k.conn) = "amqp" /\ s.conn.sasl = k.conn.sasl /\ s \in Turns
        /\ Writing(p, s.conn, w \o s.out) /\ s.conn.kind = k.conn.kind /\ s.conn.selected = k.conn.selected
    BY <1>2 DEF Finished
  <2>2. PICK d : d = [s.conn EXCEPT !.local_open = TRUE]
    OBVIOUS
  <2>3. s.conn \in Connections /\ d \in Connections /\ d.local_open /\ Alike(s.conn, d, {"local_open"})
    BY <2>1, <2>2, TurnFields, LocalOpenSet
  <2>4. PICK l : l = [s EXCEPT !.conn.local_open = TRUE]
    OBVIOUS
  <2>5. l = [s EXCEPT !.conn = d]
    BY <2>2, <2>4
  <2>6. l \in Turns /\ l.conn = d /\ l.out = s.out /\ l.promises = s.promises
    BY <2>1, <2>3, <2>5, TurnSet
  <2>7. PICK t : t = Encode(l, "amqp", "open")
    OBVIOUS
  <2>8. "amqp" \in Protocols /\ "open" \in Names /\ "sasl" \in Protocols \ {"amqp"}
    BY DEF Protocols, Names
  <2>9. /\ t \in Turns /\ t.promises = l.promises /\ t.out = l.out
        /\ SameSelf(l.conn, t.conn)
        /\ t.conn.ended = l.conn.ended
        /\ t.conn.amqp.pending = Append(l.conn.amqp.pending, "open")
        /\ t.conn.amqp.header_sent = l.conn.amqp.header_sent
        /\ SameReading(l.conn.amqp, t.conn.amqp)
        /\ t.conn.sasl = l.conn.sasl
    BY <2>6, <2>7, <2>8, EncodeIs
  <2>10. /\ d.kind = s.conn.kind /\ d.eager = s.conn.eager /\ d.selected = s.conn.selected
         /\ d.held = s.conn.held /\ d.frame_size = s.conn.frame_size
         /\ d.remote_open = s.conn.remote_open /\ d.ended = s.conn.ended
         /\ d.amqp = s.conn.amqp /\ d.sasl = s.conn.sasl
    BY <2>3, AlikeFields
  <2>11. Process(s) = Output(t)
    BY <1>2, <2>4, <2>7 DEF Process
  <2>12. Writing(p, t.conn, w \o t.out)
    <3>1. s.conn.amqp.pending \in Seq({"open", "empty"})
      BY <2>1 DEF Writing
    <3>2. Append(s.conn.amqp.pending, "open") \in Seq({"open", "empty"})
      BY <3>1, AppendProperties
    <3>3. \A P \in Protocols : t.conn[P].header_sent = s.conn[P].header_sent
      BY <2>6, <2>9, <2>10 DEF Protocols
    <3>4. t.conn.ended = s.conn.ended /\ t.out = s.out
         /\ t.conn.amqp.pending = Append(s.conn.amqp.pending, "open")
      BY <2>6, <2>9, <2>10
    <3> QED BY <2>1, <3>2, <3>3, <3>4, WritingSame
  <2>13. WritesTo(t.conn) = "amqp"
    <3>1. t.conn.kind = k.conn.kind /\ t.conn.selected = k.conn.selected /\ t.conn.sasl = k.conn.sasl
      BY <2>1, <2>6, <2>9, <2>10 DEF SameSelf
    <3> QED BY <2>1, <3>1, WritesSame
  <2>14. Finished(p, t, w, Output(t))
    BY <2>9, <2>12, <2>13, FinishedOutput DEF MaySpeak
  <2>15. /\ t.out = s.out /\ t.promises = s.promises
         /\ t.conn.ended = s.conn.ended /\ t.conn.local_open
         /\ t.conn.kind = s.conn.kind /\ t.conn.eager = s.conn.eager /\ t.conn.selected = s.conn.selected
         /\ t.conn.held = s.conn.held /\ t.conn.frame_size = s.conn.frame_size
         /\ t.conn.remote_open = s.conn.remote_open /\ t.conn.sasl = s.conn.sasl
         /\ SameReading(s.conn.amqp, t.conn.amqp)
    BY <2>3, <2>6, <2>9, <2>10 DEF SameSelf
  <2> QED BY <2>1, <2>9, <2>11, <2>14, <2>15, FinishedTwice
<1> QED BY <1>1, <1>2

\* Input ends, with this size of the frame that it waits for.
Ends(p, r, w, size, u) ==
    \E k \in Turns :
       /\ k.out = r.out /\ k.promises = r.promises
       /\ k.conn.frame_size = size /\ Alike(r.conn, k.conn, {"frame_size"})
       /\ Finished(p, k, w, u)

\* The rest of input, and the tick after it.
LEMMA Finishing ==
    ASSUME NEW p \in Peers, NEW r \in Turns, NEW w \in Seq(Units),
           Writing(p, r.conn, w \o r.out), MaySpeak(p, r.conn, w \o r.out),
           r.conn.remote_open /\ ~ r.conn.local_open => WritesTo(r.conn) = "amqp",
           NEW size \in {0} \cup {Size[n] : n \in Names}
    PROVE  Ends(p, r, w, size, Finish(r, size))
<1>1. PICK c \in Connections : c = r.conn
    BY TurnFields
<1>2. PICK d : d = [c EXCEPT !.frame_size = size]
    OBVIOUS
<1>3. d \in Connections /\ d.frame_size = size /\ Alike(c, d, {"frame_size"})
    BY <1>2, FrameSizeSet
<1>4. PICK k : k = [r EXCEPT !.conn.frame_size = size]
    OBVIOUS
<1>5. k = [r EXCEPT !.conn = d]
    BY <1>1, <1>2, <1>4
<1>6. k \in Turns /\ k.conn = d /\ k.out = r.out /\ k.promises = r.promises
    BY <1>3, <1>5, TurnSet
<1>7. /\ d.kind = c.kind /\ d.selected = c.selected /\ d.ended = c.ended
      /\ d.amqp = c.amqp /\ d.sasl = c.sasl /\ d.remote_open = c.remote_open
      /\ d.local_open = c.local_open /\ \A P \in Protocols : d[P] = c[P]
  <2>1. Protocols \ {"frame_size"} = Protocols
    BY DEF Protocols
  <2> QED BY <1>3, <2>1, AlikeFields
<1>8. WritesTo(d) = WritesTo(c)
    BY <1>7, WritesSame
<1>9. Writing(p, k.conn, w \o k.out)
  <2>1. c.amqp.pending \in Seq({"open", "empty"})
    BY <1>1 DEF Writing
  <2> QED BY <1>1, <1>6, <1>7, <2>1, WritingSame
<1>10. MaySpeak(p, k.conn, w \o k.out)
    BY <1>1, <1>6, <1>7, <1>8 DEF MaySpeak
<1>11. PICK s : s = IF HasWritesPending(k.conn) THEN Output(k) ELSE k
    OBVIOUS
<1>12. Finished(p, k, w, s)
    BY <1>6, <1>9, <1>10, <1>11, FinishedOutput, FinishedNot
<1>13. Finished(p, k, w, Process(s))
    BY <1>1, <1>6, <1>7, <1>8, <1>12, FinishedProcess
<1>14. Finish(r, size) = Process(s)
    BY <1>4, <1>11 DEF Finish
<1> QED BY <1>1, <1>3, <1>6, <1>13, <1>14 DEF Ends

ClientDid(c, d, x, units) ==
    /\ d.kind = c.kind
    /\ c.sasl.read_complete => d.sasl.read_complete
    /\ d.sasl.read_complete => c.sasl.read_complete \/ Said(units, {"ok"})
    /\ ~ d.ended =>
         /\ c.held <= d.held
         /\ d.sasl.read_complete <=> d.sasl.write_complete
         /\ Past(units, d.held, Outcomes) => d.sasl.read_complete
    /\ \/ x = <<>>
       \/ /\ \A i \in 1..Len(x) : x[i].protocol = "amqp"
          /\ d.kind = "undefined" \/ d.sasl.read_complete
       \/ /\ \E name \in Replies : x = <<[protocol |-> "sasl", name |-> name]>>
          /\ c.kind = "Client" /\ Due(units, c.held, Questions)
          /\ ~ d.ended => d.held = Bytes(units)

ClientStep(c, w, units, to, eager, u) ==
    /\ u \in Turns /\ u.promises = 0
    /\ OwnClient(u.conn) /\ Writing("client", u.conn, w \o u.out)
    /\ Heard(u.conn, units, to)
    /\ ~ u.conn.ended => Heeds(u.conn, units, to, eager)
    /\ ClientDid(c, u.conn, u.out, units)

\* What is waited for is not there, if more than that is not.
LEMMA StillAwaited ==
    ASSUME NEW units \in Seq(Units), NEW held, NEW count, NEW size, Awaited(units, held, count, size),
           NEW to, to < held + size
    PROVE  Awaited(units, held, to, size) /\ InParts(units, held, to)
<1>1. PICK k \in 1..Len(units) : /\ Offsets(units)[k] = held /\ units[k].name # "header"
                                 /\ size = Size[units[k].name] /\ count < held + size
    BY DEF Awaited
<1>2. UnitAt(units, held) = units[k]
    BY <1>1, UnitAtStart
<1> QED BY <1>1, <1>2 DEF Awaited, InParts

\* The size that a reading leaves.
LEMMA PeekedSize ==
    ASSUME NEW c, NEW units \in Seq(Units), NEW to, Peeked(c, units, to)
    PROVE  PeekSize(c, units, to - c.held) \in {0} \cup {Size[n] : n \in Names}
<1>1. PICK size : size = PeekSize(c, units, to - c.held)
    OBVIOUS
<1>2. CASE size = 0
    BY <1>1, <1>2
<1>3. CASE Awaited(units, c.held, to, size)
  <2>1. PICK k \in 1..Len(units) : size = Size[units[k].name]
    BY <1>3 DEF Awaited
  <2>2. units[k].name \in Names
    BY UnitSize DEF Units
  <2> QED BY <1>1, <2>1, <2>2
<1> QED BY <1>1, <1>2, <1>3 DEF Peeked

\* A turn begins to read, with no size to wait for.
Forgets(c) == [Begins(c) EXCEPT !.conn.frame_size = 0]

\* input begins by forgetting the size.
LEMMA ForgetsSize ==
    ASSUME NEW c \in Connections, NEW t, t = Forgets(c)
    PROVE  /\ t \in Turns /\ t.out = <<>> /\ t.promises = 0 /\ ~ t.thrown
           /\ Alike(c, t.conn, {"frame_size"}) /\ Begins(c) \in Turns
<1>1. Begins(c) \in Turns /\ Begins(c).conn = c /\ Begins(c).out = <<>> /\ Begins(c).promises = 0
      /\ ~ Begins(c).thrown
  <2>1. <<>> \in Seq(Units) /\ 0 \in Nat /\ FALSE \in BOOLEAN
    OBVIOUS
  <2> QED BY <2>1 DEF Begins, Turns
<1>2. PICK b : b = Begins(c)
    OBVIOUS
<1>3. PICK d : d = [c EXCEPT !.frame_size = 0]
    OBVIOUS
<1>4. d \in Connections /\ Alike(c, d, {"frame_size"})
    BY <1>3, FrameSizeSet
<1>5. t = [b EXCEPT !.conn = d]
    BY <1>1, <1>2, <1>3 DEF Forgets
<1>6. t \in Turns /\ t.conn = d /\ t.out = b.out /\ t.promises = b.promises /\ t.thrown = b.thrown
    BY <1>1, <1>2, <1>4, <1>5, TurnSet
<1> QED BY <1>1, <1>2, <1>4, <1>6

\* A client writes its reply.
Reply(name) == <<[protocol |-> "sasl", name |-> name]>>

\* An answer is written where it may be.
LEMMA ReplyWrites ==
    ASSUME NEW c \in Connections, NEW d, NEW w, Writing("client", c, w),
           ~ c.ended, c.sasl.header_sent, ~ Has(w, "amqp"),
           NEW name \in Replies, NEW x, x = Reply(name),
           \A P \in Protocols : d[P].pending = c[P].pending /\ d[P].header_sent = c[P].header_sent
    PROVE  Writing("client", d, w \o x)
<1>0. PICK V : V = Vocabulary("client")
    OBVIOUS
<1>1. w \in Seq(V) /\ Shaped(w) /\ Has(w, "sasl") /\ "client" \in Peers /\ "sasl" \in Protocols
      /\ "amqp" \in Protocols
    BY <1>0 DEF Writing, Protocols, Peers
<1>2. x \in Seq(V) /\ Len(x) = 1 /\ x[1] = [protocol |-> "sasl", name |-> name]
  <2>1. [protocol |-> "sasl", name |-> name] \in V
    BY <1>0, <1>1, VocabularyIs DEF Spoken
  <2>2. \A u \in V : <<u>> \in Seq(V) /\ Len(<<u>>) = 1 /\ <<u>>[1] = u
    OBVIOUS
  <2> QED BY <2>1, <2>2 DEF Reply
<1>3. ~ Said(w, Outcomes)
  <2>1. SUFFICES ASSUME NEW k \in DOMAIN w, w[k].name \in Outcomes PROVE FALSE
    BY DEF Said
  <2>2. w[k] \in V
    BY <1>1
  <2>3. w[k].name \in {"header"} \cup Spoken("client", w[k].protocol)
    BY <1>0, <1>1, <2>2, VocabularyIs
  <2> QED BY <2>1, <2>3 DEF Spoken, Outcomes, Replies
<1>4. \A i \in 1..Len(x) : /\ x[i].protocol = "sasl"
                           /\ x[i].name = "header" <=> (i = 1 /\ ~ Has(w, "sasl"))
                           /\ x[i].name \in Outcomes => i = Len(x)
  <2>1. SUFFICES ASSUME NEW i \in 1..Len(x)
                 PROVE  /\ x[i].protocol = "sasl" /\ x[i].name # "header" /\ x[i].name \notin Outcomes
    BY <1>1
  <2>2. i = 1
    BY <1>2
  <2>3. x[i].protocol = "sasl" /\ x[i].name = name
    BY <1>2, <2>2
  <2> QED BY <2>3 DEF Replies, Outcomes
<1>5. Shaped(w \o x)
  <2>1. x \in Seq(Vocabulary("client")) /\ w \in Seq(Vocabulary("client"))
    BY <1>0, <1>1, <1>2
  <2> QED BY <1>1, <1>3, <1>4, <2>1, ShapedMore
<1>6. w \o x \in Seq(V)
  <2> QED BY <1>1, <1>2, ConcatIs
<1>7. \A P \in Protocols : Has(w \o x, P) <=> Has(w, P) \/ P = "sasl"
  <2>1. \A P \in Protocols : Has(w \o x, P) <=> Has(w, P) \/ Has(x, P)
    <3> QED BY <1>1, <1>2, HasMore
  <2>2. \A P \in Protocols : Has(x, P) <=> P = "sasl"
    <3>1. DOMAIN x = {1}
        BY <1>2
    <3> QED BY <1>2, <3>1 DEF Has
  <2> QED BY <2>1, <2>2
<1>8. \A P \in Protocols : /\ Has(w, P) => c[P].header_sent
                           /\ ~ c.ended /\ c[P].header_sent => Has(w, P)
    BY DEF Writing
<1>9. \A P \in Protocols : /\ Has(w \o x, P) => d[P].header_sent
                           /\ ~ d.ended /\ d[P].header_sent => Has(w \o x, P)
    BY <1>1, <1>7, <1>8
<1>10. d.amqp.pending \in Seq({"open", "empty"})
    BY <1>1 DEF Writing
<1> QED BY <1>0, <1>5, <1>6, <1>9, <1>10 DEF Writing

\* The client reads as its layer is.
LEMMA ClientLayer ==
    ASSUME NEW c, OwnClient(c)
    PROVE  /\ Uses(c) = IF c.kind = "Client" THEN "sasl" ELSE "amqp"
           /\ ReadsWith(c) = (IF c.kind = "Client" /\ ~ c.sasl.read_complete THEN "sasl" ELSE "amqp")
           /\ WritesTo(c) = (IF c.kind = "Client" /\ ~ c.sasl.write_complete THEN "sasl" ELSE "amqp")
BY DEF OwnClient, Uses, ReadsWith, WritesTo

\* What it needs to be to go on with the bytes of the server.
ClientReady(c, w, units, count, eager) ==
    /\ OwnClient(c) /\ ~ c.ended /\ Heard(c, units, count) /\ ClientMay(c, units, eager)
    /\ Writing("client", c, w)
    /\ c.kind = "Client" /\ Has(w, "amqp") => c.sasl.read_complete

\* What the client begins to read with.
LEMMA ClientBegins ==
    ASSUME NEW c \in Connections, NEW w, NEW units, NEW count \in Nat, NEW to \in Nat, count <= to,
           NEW eager, ClientReady(c, w, units, count, eager)
    PROVE  LET t == Prepared(c, units, to)
           IN  /\ t \in Turns /\ Beginning(t, units, to) /\ t.out = <<>> /\ t.promises = 0
               /\ OwnClient(t.conn) /\ ClientMay(t.conn, units, eager)
               /\ Alike(c, t.conn, {"frame_size"})
<1>1. PICK t : t = Forgets(c)
    OBVIOUS
<1>2. /\ t \in Turns /\ t.out = <<>> /\ t.promises = 0
      /\ Alike(c, t.conn, {"frame_size"})
    BY <1>1, ForgetsSize
<1>3. /\ t.conn.kind = c.kind /\ t.conn.amqp = c.amqp /\ t.conn.sasl = c.sasl
      /\ t.conn.held = c.held /\ t.conn.local_open = c.local_open
    BY <1>2, AlikeFields
<1>4. OwnClient(t.conn) /\ ClientMay(t.conn, units, eager)
    BY <1>3 DEF ClientReady, OwnClient, ClientMay
<1>5. Prepared(c, units, to) = t
  <2>1. Uses(t.conn) # "undefined"
    BY <1>4, ClientLayer
  <2> QED BY <1>1, <2>1 DEF Prepared, Selected, Forgets
<1>6. Beginning(t, units, to)
  <2>1. \A P \in Protocols : t.conn[P] = c[P]
    BY <1>3 DEF Protocols
  <2>2. c.held <= count /\ OnEdge(units, c.held) /\ c.held \in Nat
        /\ \A P \in Protocols : c[P].header_received <=> PastOf(units, c.held, P)
    BY ConnFields DEF ClientReady, Heard
  <2> QED BY <1>2, <1>3, <2>1, <2>2 DEF Beginning
<1> QED BY <1>2, <1>4, <1>5, <1>6

\* What a reading leaves, and the connection as it was.
LEMMA ClientReading ==
    ASSUME NEW c \in Connections, NEW w, NEW units \in Seq(Vocabulary("server")), Shaped(units),
           NEW count \in Nat, NEW to \in Nat, count <= to, to <= Bytes(units),
           NEW eager \in BOOLEAN, ClientReady(c, w, units, count, eager)
    PROVE  ClientGot(c, units, to, eager, Reading(Prepared(c, units, to), units, to))
<1>1. PICK t : t = Prepared(c, units, to)
    OBVIOUS
<1>2. /\ t \in Turns /\ Beginning(t, units, to)
      /\ OwnClient(t.conn) /\ ClientMay(t.conn, units, eager)
      /\ Alike(c, t.conn, {"frame_size"})
    BY <1>1, ClientBegins
<1>3. /\ t.conn.kind = c.kind /\ t.conn.amqp = c.amqp /\ t.conn.sasl = c.sasl
      /\ t.conn.held = c.held /\ t.conn.remote_open = c.remote_open /\ t.conn.ended = c.ended
    BY <1>2, AlikeFields
<1>4. PICK r : r = Reading(t, units, to)
    OBVIOUS
<1>5. ClientGot(t.conn, units, to, eager, r)
  <2>1. ~ t.conn.ended
    BY <1>3 DEF ClientReady
  <2>2. ReadsWith(t.conn) = "sasl" \/ ReadsWith(t.conn) = "amqp"
    BY <1>2, ClientLayer
  <2>3. CASE ReadsWith(t.conn) = "sasl"
    <3>1. r = Read(t, "sasl", units, to)
        BY <1>4, <2>3 DEF Reading
    <3> QED BY <1>2, <2>1, <2>3, <3>1, ClientGotSasl
  <2>4. CASE ReadsWith(t.conn) = "amqp"
    <3>1. r = Read(t, "amqp", units, to)
        BY <1>4, <2>4 DEF Reading
    <3> QED BY <1>2, <2>1, <2>4, <3>1, ClientGotAmqp
  <2> QED BY <2>2, <2>3, <2>4
<1>6. \A P \in Protocols : t.conn[P] = c[P]
    BY <1>3 DEF Protocols
<1>7. ClientGot(c, units, to, eager, r)
    BY <1>3, <1>5, <1>6 DEF ClientGot, Replied
<1> QED BY <1>1, <1>4, <1>7

\* What the client wrote while it read.
LEMMA ClientWrote ==
    ASSUME NEW c \in Connections, NEW w, NEW units,
           NEW count, NEW to, NEW eager, ClientReady(c, w, units, count, eager),
           NEW r, ClientGot(c, units, to, eager, r)
    PROVE  /\ Writing("client", r.conn, w \o r.out) /\ MaySpeak("client", r.conn, w \o r.out)
           /\ r.conn.remote_open /\ ~ r.conn.local_open => WritesTo(r.conn) = "amqp"
           /\ w \in Seq(Units) /\ r.out \in Seq(Units)
<1>1. Writing("client", c, w) /\ ~ c.ended
    BY DEF ClientReady
<1>2. \A P \in Protocols : /\ r.conn[P].pending = c[P].pending
                           /\ r.conn[P].header_sent = c[P].header_sent
    BY DEF ClientGot
<1>3. w \in Seq(Units)
  <2>1. w \in Seq(Vocabulary("client")) /\ "client" \in Peers
    BY <1>1 DEF Writing, Peers
  <2> QED BY <2>1, SpokenToUnits
<1>4. Writing("client", r.conn, w \o r.out)
  <2>1. CASE r.out = <<>>
    <3>1. w \o r.out = w
        BY <1>3, <2>1, ConcatEmptySeq
    <3>2. r.conn.amqp.pending \in Seq({"open", "empty"})
        BY <1>1, <1>2 DEF Writing, Protocols
    <3> QED BY <1>1, <1>2, <3>1, <3>2, WritingSame
  <2>2. CASE Replied(c, units, r.conn.held, r.out) /\ ~ r.conn.sasl.write_complete
    <3>1. PICK name \in Replies : r.out = Reply(name)
        BY <2>2 DEF Replied, Reply
    <3>2. c.kind = "Client" /\ ~ c.sasl.read_complete
        BY <2>2 DEF Replied
    <3>3. c.sasl.header_sent /\ ~ Has(w, "amqp")
        BY <3>2 DEF ClientReady, OwnClient
    <3>4. PICK x : x = r.out
        OBVIOUS
    <3>5. Writing("client", r.conn, w \o x)
        BY <1>1, <1>2, <3>1, <3>3, <3>4, ReplyWrites
    <3> QED BY <3>4, <3>5
  <2> QED BY <2>1, <2>2 DEF ClientGot
<1>5. OwnClient(r.conn) /\ r \in Turns
    BY DEF ClientGot
<1>6. MaySpeak("client", r.conn, w \o r.out)
  <2>1. SUFFICES ASSUME WritesTo(r.conn) = "sasl"
                 PROVE  /\ r.conn.sasl.pending \in Seq(Spoken("client", "sasl"))
                        /\ r.conn.sasl.pending = <<>> /\ r.conn.sasl.header_sent
    BY DEF MaySpeak
  <2>2. r.conn.kind = "Client"
    BY <1>5, <2>1, ClientLayer
  <2>3. <<>> \in Seq(Spoken("client", "sasl"))
    OBVIOUS
  <2> QED BY <1>5, <2>2, <2>3 DEF OwnClient
<1>7. r.conn.local_open
    BY <1>5 DEF OwnClient
<1>8. r.out \in Seq(Units)
    BY <1>5, TurnFields
<1> QED BY <1>3, <1>4, <1>6, <1>7, <1>8

\* A transport with nothing to write adds nothing.
LEMMA NothingAdded ==
    ASSUME NEW t, NEW P, t.pending = <<>>, t.header_sent
    PROVE  Added(t, P) = <<>>
<1>1. Frames(t, P) = <<>>
    BY DEF Frames
<1>2. Added(t, P) = <<>> \o <<>>
    BY <1>1 DEF Added
<1> QED BY <1>2

\* The end of a reading of the client.
LEMMA ClientEnds ==
    ASSUME NEW c \in Connections, NEW w, NEW units \in Seq(Units),
           NEW count, NEW to \in Nat, to <= Bytes(units), NEW eager, ClientReady(c, w, units, count, eager),
           NEW r, ClientGot(c, units, to, eager, r), ~ r.thrown,
           NEW u, Ends("client", r, w, PeekSize(r.conn, units, to - r.conn.held), u)
    PROVE  ClientStep(c, w, units, to, eager, u)
<1>1. PICK size : size = PeekSize(r.conn, units, to - r.conn.held)
    OBVIOUS
<1>2. PICK k \in Turns : /\ k.out = r.out /\ k.promises = r.promises
                         /\ k.conn.frame_size = size /\ Alike(r.conn, k.conn, {"frame_size"})
                         /\ Finished("client", k, w, u)
    BY <1>1 DEF Ends
<1>3. /\ k.conn.kind = r.conn.kind /\ k.conn.eager = r.conn.eager /\ k.conn.held = r.conn.held
      /\ k.conn.remote_open = r.conn.remote_open /\ k.conn.local_open = r.conn.local_open
      /\ k.conn.ended = r.conn.ended /\ k.conn.amqp = r.conn.amqp /\ k.conn.sasl = r.conn.sasl
      /\ k.conn.selected = r.conn.selected
    BY <1>2, AlikeFields
<1>4. /\ r \in Turns /\ r.promises = 0 /\ OwnClient(r.conn) /\ r.conn.kind = c.kind
      /\ c.held <= r.conn.held /\ r.conn.held <= to /\ OnEdge(units, r.conn.held)
      /\ \A P \in Protocols : r.conn[P].header_received <=> PastOf(units, r.conn.held, P)
      /\ r.conn.remote_open => c.remote_open \/ Has(units, "amqp")
      /\ c.sasl.read_complete => r.conn.sasl.read_complete
      /\ r.conn.sasl.read_complete => c.sasl.read_complete \/ Said(units, {"ok"})
      /\ ~ r.conn.ended =>
           /\ r.conn.sasl.read_complete <=> r.conn.sasl.write_complete
           /\ Past(units, r.conn.held, Outcomes) => r.conn.sasl.read_complete
      /\ \/ r.out = <<>>
         \/ Replied(c, units, r.conn.held, r.out) /\ ~ r.conn.sasl.write_complete
      /\ Heeds(r.conn, units, to, eager) /\ Peeked(r.conn, units, to)
    BY DEF ClientGot
<1>5. /\ u \in Turns /\ u.promises = k.promises
      /\ u.conn.kind = k.conn.kind /\ u.conn.held = k.conn.held
      /\ u.conn.frame_size = k.conn.frame_size
      /\ u.conn.remote_open = k.conn.remote_open
      /\ k.conn.local_open => u.conn.local_open
      /\ k.conn.ended => u.conn.ended
      /\ \A P \in Protocols : SameReading(k.conn[P], u.conn[P])
      /\ \/ u.conn.sasl = k.conn.sasl
         \/ WritesTo(k.conn) = "sasl" /\ u.conn.sasl.pending = <<>> /\ u.conn.sasl.header_sent
      /\ Writing("client", u.conn, w \o u.out)
    BY <1>2 DEF Finished
<1>6. WritesTo(k.conn) = (IF k.conn.kind = "Client" /\ ~ k.conn.sasl.write_complete THEN "sasl" ELSE "amqp")
  <2>1. WritesTo(k.conn) = WritesTo(r.conn)
    BY <1>3, WritesSame
  <2> QED BY <1>3, <1>4, <2>1, ClientLayer
<1>7. PICK x \in Seq(Vocabulary("client")) :
          /\ u.out = r.out \o x /\ (r.conn.ended => x = <<>>)
          /\ \A i \in 1..Len(x) : x[i].protocol = WritesTo(k.conn)
          /\ \/ x = <<>> \/ WritesTo(k.conn) = "amqp"
             \/ WritesTo(k.conn) = "sasl" /\ x = Added(r.conn.sasl, "sasl")
    BY <1>2, <1>3 DEF Finished
<1>8. SameReading(r.conn.sasl, u.conn.sasl) /\ SameReading(r.conn.amqp, u.conn.amqp)
    BY <1>3, <1>5 DEF Protocols
<1>9. OwnClient(u.conn)
  <2>1. u.conn.kind \in {"Client", "undefined"} /\ u.conn.local_open
    BY <1>3, <1>4, <1>5 DEF OwnClient
  <2>2. ~ u.conn.amqp.read_complete /\ ~ u.conn.amqp.write_complete
    BY <1>4, <1>8 DEF OwnClient, SameReading
  <2>3. CASE u.conn.sasl = r.conn.sasl
    BY <1>3, <1>4, <1>5, <2>1, <2>2, <2>3 DEF OwnClient
  <2>4. CASE WritesTo(k.conn) = "sasl" /\ u.conn.sasl.pending = <<>> /\ u.conn.sasl.header_sent
    <3>1. u.conn.kind = "Client"
        BY <1>5, <1>6, <2>4
    <3> QED BY <2>1, <2>2, <2>4, <3>1 DEF OwnClient
  <2> QED BY <1>3, <1>5, <2>3, <2>4
<1>10. Heard(u.conn, units, to)
  <2>1. u.conn.remote_open => Has(units, "amqp")
    BY <1>3, <1>4, <1>5 DEF ClientReady, Heard
  <2>2. u.conn.held <= to /\ OnEdge(units, u.conn.held)
    BY <1>3, <1>4, <1>5
  <2>3. \A P \in Protocols : u.conn[P].header_received <=> PastOf(units, u.conn.held, P)
    <3>1. u.conn.held = r.conn.held
        BY <1>3, <1>5
    <3>2. \A P \in Protocols : u.conn[P].header_received = r.conn[P].header_received
        BY <1>8 DEF SameReading, Protocols
    <3> QED BY <1>4, <3>1, <3>2
  <2>4. u.conn.frame_size > 0 => Awaited(units, u.conn.held, to, u.conn.frame_size)
    <3>1. u.conn.frame_size = size /\ u.conn.held = r.conn.held
        BY <1>2, <1>3, <1>5
    <3>2. size = 0 \/ Awaited(units, r.conn.held, to, size)
        BY <1>1, <1>4 DEF Peeked
    <3> QED BY <3>1, <3>2
  <2> QED BY <2>1, <2>2, <2>3, <2>4 DEF Heard
<1>11. Heeds(u.conn, units, to, eager)
  <2>1. u.conn.held = r.conn.held /\ u.conn.kind = r.conn.kind
    BY <1>3, <1>5
  <2> QED BY <1>4, <2>1 DEF Heeds
<1>12. ClientDid(c, u.conn, u.out, units)
  <2>1. u.conn.kind = c.kind /\ u.conn.held = r.conn.held /\ (r.conn.ended => u.conn.ended)
        /\ u.conn.sasl.read_complete = r.conn.sasl.read_complete
        /\ u.conn.sasl.write_complete = r.conn.sasl.write_complete
    BY <1>3, <1>4, <1>5, <1>8 DEF SameReading
  <2>2. \/ u.out = <<>>
        \/ /\ \A i \in 1..Len(u.out) : u.out[i].protocol = "amqp"
           /\ u.conn.kind = "undefined" \/ u.conn.sasl.read_complete
        \/ /\ \E name \in Replies : u.out = <<[protocol |-> "sasl", name |-> name]>>
           /\ c.kind = "Client" /\ Due(units, c.held, Questions)
           /\ ~ u.conn.ended => u.conn.held = Bytes(units)
    <3>0. x \in Seq(Units) /\ r.out \in Seq(Units)
        BY <1>4, TurnFields, SpokenToUnits DEF Peers
    <3>1. CASE WritesTo(k.conn) = "sasl"
      <4>1. k.conn.kind = "Client"
        BY <1>6, <3>1
      <4>2. r.conn.sasl.pending = <<>> /\ r.conn.sasl.header_sent
        BY <1>3, <1>4, <4>1 DEF OwnClient
      <4>3. x = <<>>
        BY <1>7, <3>1, <4>2, NothingAdded
      <4>4. u.out = r.out
        BY <1>7, <3>0, <4>3, ConcatEmptySeq
      <4>5. u.out = <<>> \/ Replied(c, units, r.conn.held, u.out)
        BY <1>4, <4>4
      <4> QED BY <2>1, <4>5 DEF Replied
    <3>2. CASE WritesTo(k.conn) = "amqp"
      <4>1. r.conn.kind = "undefined" \/ r.conn.sasl.write_complete
        BY <1>3, <1>4, <1>6, <3>2 DEF OwnClient
      <4>2. r.out = <<>>
        BY <1>4, <4>1 DEF Replied
      <4>3. u.out = x
        BY <1>7, <3>0, <4>2, ConcatEmptySeq
      <4>4. CASE r.conn.ended
        BY <1>7, <4>3, <4>4
      <4>5. CASE ~ r.conn.ended
        <5>1. r.conn.kind = "undefined" \/ r.conn.sasl.read_complete
            BY <1>4, <4>1, <4>5
        <5> QED BY <1>4, <1>7, <2>1, <3>2, <4>3, <5>1
      <4> QED BY <4>4, <4>5
    <3> QED BY <1>6, <3>1, <3>2
  <2> QED BY <1>4, <2>1, <2>2 DEF ClientDid
<1> QED BY <1>2, <1>4, <1>5, <1>9, <1>10, <1>11, <1>12 DEF ClientStep

\* A reading of the client that throws.
LEMMA ClientThrows ==
    ASSUME NEW c \in Connections, NEW w, NEW units \in Seq(Units),
           NEW count, NEW to \in Nat, to <= Bytes(units), NEW eager, ClientReady(c, w, units, count, eager),
           NEW r, ClientGot(c, units, to, eager, r), NEW u, u = Broken(r, to)
    PROVE  ClientStep(c, w, units, to, eager, u)
<1>1. /\ r \in Turns /\ r.promises = 0 /\ OwnClient(r.conn) /\ r.conn.kind = c.kind
      /\ r.conn.remote_open => c.remote_open \/ Has(units, "amqp")
      /\ c.sasl.read_complete => r.conn.sasl.read_complete
      /\ r.conn.sasl.read_complete => c.sasl.read_complete \/ Said(units, {"ok"})
      /\ r.out = <<>> \/ Replied(c, units, r.conn.held, r.out)
    BY DEF ClientGot
<1>2. /\ u \in Turns /\ u.out = r.out /\ u.promises = r.promises
      /\ Alike(r.conn, u.conn, {"ended", "held"}) /\ u.conn.ended
    BY <1>1, Thrown
<1>3. /\ u.conn.kind = r.conn.kind /\ u.conn.local_open = r.conn.local_open
      /\ u.conn.remote_open = r.conn.remote_open
      /\ u.conn.amqp = r.conn.amqp /\ u.conn.sasl = r.conn.sasl
    BY <1>2, AlikeFields
<1>4. OwnClient(u.conn)
    BY <1>1, <1>3 DEF OwnClient
<1>5. Writing("client", u.conn, w \o u.out)
  <2>1. Writing("client", r.conn, w \o r.out)
    BY ClientWrote
  <2>2. r.conn.amqp.pending \in Seq({"open", "empty"})
    BY <2>1 DEF Writing
  <2> QED BY <1>2, <1>3, <2>1, <2>2, WritingSame DEF Protocols
<1>6. Heard(u.conn, units, to)
    BY <1>1, <1>2, <1>3 DEF Heard, ClientReady
<1>7. ClientDid(c, u.conn, u.out, units)
    BY <1>1, <1>2, <1>3 DEF ClientDid, Replied
<1> QED BY <1>1, <1>2, <1>4, <1>5, <1>6, <1>7 DEF ClientStep

\* A client that goes on waiting.
LEMMA ClientWaits ==
    ASSUME NEW c \in Connections, NEW w, NEW units \in Seq(Units),
           NEW count, NEW to \in Nat, to <= Bytes(units), count <= to,
           NEW eager, ClientReady(c, w, units, count, eager),
           Waits(c, to), count \in Nat, NEW u, u = Begins(c)
    PROVE  ClientStep(c, w, units, to, eager, u)
<1>1. u \in Turns /\ u.conn = c /\ u.out = <<>> /\ u.promises = 0
  <2>1. Begins(c) \in Turns
    BY ForgetsSize
  <2> QED BY <2>1 DEF Begins
<1>2. c.held \in Nat
    BY ConnFields
<1>3. c.frame_size \in Int
  <2>1. c.frame_size \in {0} \cup {Size[n] : n \in Names}
    BY ConnFields
  <2> QED BY <2>1, SizesAre
<1>4. to < c.held + c.frame_size /\ c.frame_size > 0
    BY <1>2, <1>3 DEF Waits
<1>5. Awaited(units, c.held, count, c.frame_size) /\ c.held <= count /\ OnEdge(units, c.held)
    BY <1>4 DEF ClientReady, Heard
<1>6. Awaited(units, c.held, to, c.frame_size) /\ InParts(units, c.held, to)
    BY <1>4, <1>5, StillAwaited
<1>7. c.held <= to
    BY <1>2, <1>5
<1>8. Heard(c, units, to)
    BY <1>5, <1>6, <1>7 DEF ClientReady, Heard
<1>9. Heeds(c, units, to, eager)
    BY <1>6 DEF Heeds
<1>10. Writing("client", c, w \o <<>>)
  <2>1. w \in Seq(Vocabulary("client")) /\ Writing("client", c, w)
    BY DEF ClientReady, Writing
  <2> QED BY <2>1, ConcatEmptySeq
<1>11. ClientDid(c, c, <<>>, units)
    BY <1>2 DEF ClientDid, ClientReady, ClientMay
<1> QED BY <1>1, <1>8, <1>9, <1>10, <1>11 DEF ClientStep, ClientReady

\* The client has the bytes of the server, up to this one.
LEMMA ClientInput ==
    ASSUME NEW c \in Connections, NEW w, NEW units \in Seq(Vocabulary("server")), Shaped(units),
           NEW count \in Nat, NEW to \in Nat, count <= to, to <= Bytes(units),
           NEW eager \in BOOLEAN, ClientReady(c, w, units, count, eager)
    PROVE  ClientStep(c, w, units, to, eager, Input(Begins(c), units, to))
<1>1. PICK r : r = Reading(Prepared(c, units, to), units, to)
    OBVIOUS
<1>2. ClientGot(c, units, to, eager, r)
    BY <1>1, ClientReading
<1>3. PICK u : u = Input(Begins(c), units, to)
    OBVIOUS
<1>4. /\ Waits(c, to) => u = Begins(c)
      /\ ~ Waits(c, to) /\ r.thrown => u = Broken(r, to)
      /\ ~ Waits(c, to) /\ ~ r.thrown =>
            u = Finish(r, PeekSize(r.conn, units, to - r.conn.held))
    BY <1>1, <1>3, InputIs
<1>5. units \in Seq(Units) /\ "client" \in Peers
  <2>1. "server" \in Peers /\ "client" \in Peers
    BY DEF Peers
  <2> QED BY <2>1, SpokenToUnits
<1>6. CASE Waits(c, to)
    BY <1>3, <1>4, <1>5, <1>6, ClientWaits
<1>7. CASE ~ Waits(c, to) /\ r.thrown
    BY <1>2, <1>3, <1>4, <1>5, <1>7, ClientThrows
<1>8. CASE ~ Waits(c, to) /\ ~ r.thrown
  <2>1. PICK size : size = PeekSize(r.conn, units, to - r.conn.held)
    OBVIOUS
  <2>2. size \in {0} \cup {Size[n] : n \in Names}
    BY <1>2, <1>5, <1>8, <2>1, PeekedSize DEF ClientGot
  <2>3. /\ Writing("client", r.conn, w \o r.out) /\ MaySpeak("client", r.conn, w \o r.out)
        /\ r.conn.remote_open /\ ~ r.conn.local_open => WritesTo(r.conn) = "amqp"
        /\ w \in Seq(Units)
    BY <1>2, ClientWrote
  <2>4. r \in Turns
    BY <1>2 DEF ClientGot
  <2>5. Ends("client", r, w, size, u)
    BY <1>4, <1>5, <1>8, <2>1, <2>2, <2>3, <2>4, Finishing
  <2> QED BY <1>2, <1>3, <1>5, <1>8, <2>1, <2>5, ClientEnds
<1> QED BY <1>3, <1>6, <1>7, <1>8

\* What the server is, whatever the client does.
OwnServer(c) ==
    /\ c.kind \in {"undefined", "Server", "Selective"}
    /\ c.kind # "Selective" => c.selected = "undefined"
    /\ ~ c.amqp.read_complete /\ ~ c.amqp.write_complete
    /\ c.sasl.pending \in {<<>>, <<"mechanisms">>}
    /\ c.kind # "undefined" => (c.sasl.pending = <<>> <=> c.sasl.header_sent)
    /\ c.kind = "undefined" => ~ c.sasl.header_sent /\ c.sasl.pending = <<>> /\ ~ c.eager
    /\ c.sasl.header_sent => Uses(c) = "sasl"
    /\ c.sasl.read_complete <=> c.sasl.write_complete
    /\ c.sasl.write_complete => c.sasl.header_sent
    /\ Uses(c) = "undefined" => ~ c.amqp.header_sent /\ ~ c.remote_open
    /\ Uses(c) = "sasl" /\ c.remote_open => c.sasl.read_complete

\* AMQP comes behind an ok.
Granted(units) ==
    \A k \in DOMAIN units : units[k].protocol = "amqp" => \E j \in 1..(k - 1) : units[j].name = "ok"

\* What it needs to be to go on with the bytes of the client.
ServerReady(c, w, units, count) ==
    /\ OwnServer(c) /\ ~ c.ended /\ Heard(c, units, count) /\ Writing("server", c, w)
    /\ Last(units, c.held, Replies)
    /\ ~ c.sasl.read_complete => OkFirst(units)
    /\ Uses(c) = "sasl" => Granted(w)

\* What the server has after a reading, or before it.
ServerGot(c, units, to, r) ==
    /\ r \in Turns /\ r.out = <<>> /\ OwnServer(r.conn)
    /\ r.conn.kind = c.kind /\ r.conn.eager = c.eager /\ r.conn.ended = c.ended
    /\ r.conn.local_open = c.local_open
    /\ Uses(r.conn) = Uses(c) \/ Uses(c) = "undefined"
    /\ \A P \in Protocols : SameWriting(c[P], r.conn[P])
    /\ c.held <= r.conn.held /\ r.conn.held <= to /\ OnEdge(units, r.conn.held)
    /\ \A P \in Protocols : r.conn[P].header_received <=> PastOf(units, r.conn.held, P)
    /\ r.conn.remote_open => c.remote_open \/ (Has(units, "amqp") /\ ReadsWith(r.conn) = "amqp")
    /\ \/ r.promises = 0
       \/ /\ r.promises = 1 /\ Uses(r.conn) = "sasl"
          /\ Due(units, c.held, Replies) /\ r.conn.held = Bytes(units)

\* The layers of the server, whatever its kind.
LEMMA ServerLayer ==
    ASSUME NEW c, OwnServer(c)
    PROVE  /\ Uses(c) = "sasl" => c.kind # "undefined"
           /\ ReadsWith(c) = (IF Uses(c) = "sasl" /\ c.sasl.read_complete THEN "amqp" ELSE Uses(c))
           /\ WritesTo(c) = (IF Uses(c) = "sasl" /\ c.sasl.write_complete THEN "amqp" ELSE Uses(c))
BY DEF OwnServer, Uses, ReadsWith, WritesTo

\* The layer is told by the next header.
LEMMA SelectedIs ==
    ASSUME NEW units \in Seq(Units), NEW held \in Nat, OnEdge(units, held),
           NEW to \in Nat, to <= Bytes(units), to - held >= 8
    PROVE  UnitAt(units, held).protocol \in Protocols
<1>1. held < Bytes(units)
    BY NothingAtEnd
<1>2. PICK n \in 1..Len(units) : UnitAt(units, held) = units[n] /\ units[n] \in Units
    BY <1>1, EdgeBeforeEnd
<1> QED BY <1>2 DEF Units

\* What the server begins to read with, when Selective has looked at the header.
LEMMA ServerBegins ==
    ASSUME NEW c \in Connections, NEW w, NEW units \in Seq(Units), NEW count \in Nat,
           NEW to \in Nat, count <= to, to <= Bytes(units), ServerReady(c, w, units, count)
    PROVE  LET t == Prepared(c, units, to)
           IN  /\ ServerGot(c, units, to, t) /\ t.promises = 0 /\ ~ t.thrown
               /\ Uses(t.conn) = "undefined" => to - t.conn.held < 8
               /\ t.conn.held = c.held /\ t.conn.remote_open = c.remote_open
               /\ t.conn.sasl = c.sasl /\ t.conn.amqp = c.amqp
<1>1. PICK f : f = Forgets(c)
    OBVIOUS
<1>2. /\ f \in Turns /\ f.out = <<>> /\ f.promises = 0 /\ ~ f.thrown
      /\ Alike(c, f.conn, {"frame_size"})
    BY <1>1, ForgetsSize
<1>3. PICK b \in Connections : b = f.conn
    BY <1>2, TurnFields
<1>4. /\ b.kind = c.kind /\ b.amqp = c.amqp /\ b.sasl = c.sasl /\ b.eager = c.eager
      /\ b.held = c.held /\ b.local_open = c.local_open /\ b.remote_open = c.remote_open
      /\ b.selected = c.selected /\ b.ended = c.ended
    BY <1>2, <1>3, AlikeFields
<1>5. Uses(b) = Uses(c)
    BY <1>4 DEF Uses
<1>6. OwnServer(b)
    BY <1>4, <1>5 DEF ServerReady, OwnServer
<1>7. c.held \in Nat /\ c.held <= to /\ OnEdge(units, c.held)
      /\ \A P \in Protocols : c[P].header_received <=> PastOf(units, c.held, P)
    BY ConnFields DEF ServerReady, Heard
<1>8. \A P \in Protocols : SameWriting(c[P], c[P])
    BY DEF SameWriting
<1>9. PICK t : t = Prepared(c, units, to)
    OBVIOUS
<1>10. CASE ~ (Uses(b) = "undefined" /\ to - b.held >= 8)
  <2>1. t = f
    BY <1>1, <1>3, <1>9, <1>10 DEF Prepared, Selected, Forgets
  <2>2. \A P \in Protocols : b[P] = c[P]
    BY <1>4 DEF Protocols
  <2>3. ServerGot(c, units, to, t)
    BY <1>2, <1>3, <1>4, <1>5, <1>6, <1>7, <1>8, <2>1, <2>2 DEF ServerGot
  <2>4. b.held \in Nat
    BY <1>4, <1>7
  <2> QED BY <1>2, <1>3, <1>4, <1>9, <1>10, <2>1, <2>3, <2>4
<1>11. CASE Uses(b) = "undefined" /\ to - b.held >= 8
  <2>1. PICK P0 \in Protocols : P0 = UnitAt(units, b.held).protocol
    BY <1>4, <1>7, <1>11, SelectedIs
  <2>2. PICK d : d = [b EXCEPT !.selected = P0]
    OBVIOUS
  <2>3. d \in Connections /\ d.selected = P0 /\ Alike(b, d, {"selected"})
    BY <2>2, SelectedSet
  <2>4. t = [f EXCEPT !.conn = d]
    BY <1>1, <1>3, <1>9, <1>11, <2>1, <2>2 DEF Prepared, Selected, Forgets
  <2>5. t \in Turns /\ t.conn = d /\ t.out = f.out /\ t.promises = f.promises /\ t.thrown = f.thrown
    BY <1>2, <2>3, <2>4, TurnSet
  <2>6. /\ d.kind = b.kind /\ d.amqp = b.amqp /\ d.sasl = b.sasl /\ d.eager = b.eager
        /\ d.held = b.held /\ d.local_open = b.local_open /\ d.remote_open = b.remote_open
        /\ d.ended = b.ended
    BY <2>3, AlikeFields
  <2>7. b.kind = "Selective" /\ Uses(d) = P0 /\ P0 # "undefined"
    BY <1>11, <2>3, <2>6 DEF Uses, Protocols
  <2>8. OwnServer(d)
    BY <1>6, <1>11, <2>6, <2>7 DEF OwnServer
  <2>9. \A P \in Protocols : d[P] = c[P]
    BY <1>4, <2>6 DEF Protocols
  <2>10. Uses(c) = "undefined"
    BY <1>5, <1>11
  <2>11. ServerGot(c, units, to, t)
    BY <1>2, <1>4, <1>7, <1>8, <2>5, <2>6, <2>8, <2>9, <2>10 DEF ServerGot
  <2> QED BY <1>2, <1>4, <1>9, <2>5, <2>6, <2>7, <2>11
<1> QED BY <1>10, <1>11

\* What is before the first header is not whole.
LEMMA NoHeaderYet ==
    ASSUME NEW units \in Seq(Units), NEW held \in Nat, NEW to \in Nat, to - held < 8
    PROVE  InParts(units, held, to)
<1>1. SUFFICES ASSUME StartsAt(units, held)
               PROVE  to < held + Size[UnitAt(units, held).name]
    BY DEF InParts
<1>2. PICK n \in 1..Len(units) : Offsets(units)[n] = held
    BY <1>1 DEF StartsAt
<1>3. UnitAt(units, held) = units[n]
    BY <1>2, UnitAtStart
<1>4. Size[units[n].name] \in Nat /\ Size[units[n].name] >= 8
    BY UnitSize
<1> QED BY <1>3, <1>4

\* What the reading of a layer does to what the server had.
LEMMA ServerGoes ==
    ASSUME NEW c \in Connections, NEW units \in Seq(Units), NEW to, NEW t \in Turns, NEW r \in Turns,
           NEW protocol \in Protocols,
           ServerGot(c, units, to, t), t.promises = 0, ReadsWith(t.conn) = protocol,
           Going(t.conn, protocol, units, to, r), r.out = <<>>,
           Alike(t.conn, r.conn, {"held", protocol, "remote_open"}),
           SameWriting(t.conn[protocol], r.conn[protocol]),
           r.conn.remote_open => t.conn.remote_open \/ (Has(units, "amqp") /\ protocol = "amqp"),
           t.conn.held = c.held, \A P \in Protocols : t.conn[P] = c[P],
           \/ r.promises = 0
           \/ /\ r.promises = 1 /\ protocol = "sasl"
              /\ Due(units, c.held, Replies) /\ r.conn.held = Bytes(units)
    PROVE  ServerGot(c, units, to, r) /\ ReadsWith(r.conn) = protocol
<1>1. /\ r.conn.kind = t.conn.kind /\ r.conn.eager = t.conn.eager /\ r.conn.ended = t.conn.ended
      /\ r.conn.local_open = t.conn.local_open /\ r.conn.selected = t.conn.selected
      /\ \A P \in Protocols \ {protocol} : r.conn[P] = t.conn[P]
  <2>1. \A P \in Protocols \ {protocol} : P \in ConnFieldNames \ {"held", protocol, "remote_open"}
    BY DEF ConnFieldNames, Protocols
  <2> QED BY <2>1 DEF Alike, ConnFieldNames, Protocols
<1>2. \A P \in Protocols : SameWriting(t.conn[P], r.conn[P])
    BY <1>1 DEF SameWriting
<1>3. Uses(r.conn) = Uses(t.conn)
    BY <1>1 DEF Uses
<1>4. OwnServer(t.conn) /\ t.conn.ended = c.ended /\ t.conn.kind = c.kind /\ t.conn.eager = c.eager
      /\ t.conn.local_open = c.local_open
      /\ (Uses(t.conn) = Uses(c) \/ Uses(c) = "undefined")
      /\ (t.conn.remote_open => c.remote_open \/ (Has(units, "amqp") /\ ReadsWith(t.conn) = "amqp"))
      /\ \A P \in Protocols : t.conn[P].header_received <=> PastOf(units, t.conn.held, P)
    BY DEF ServerGot
<1>5. /\ SameWriting(t.conn.amqp, r.conn.amqp) /\ SameWriting(t.conn.sasl, r.conn.sasl)
    BY <1>2 DEF Protocols
<1>6. ReadsWith(r.conn) = protocol
    BY <1>3, <1>5 DEF ReadsWith, SameWriting
<1>7. Uses(r.conn) = "sasl" /\ r.conn.remote_open => r.conn.sasl.read_complete
    BY <1>3, <1>4, <1>5, <1>6 DEF ReadsWith, OwnServer, SameWriting
<1>8. Uses(r.conn) = "undefined" => ~ r.conn.remote_open
    BY <1>6 DEF ReadsWith, Protocols
<1>9. OwnServer(r.conn)
    BY <1>1, <1>3, <1>4, <1>5, <1>7, <1>8 DEF OwnServer, SameWriting
<1>10. \A P \in Protocols : r.conn[P].header_received <=> PastOf(units, r.conn.held, P)
  <2>1. SUFFICES ASSUME NEW P \in Protocols, P # protocol
                 PROVE  r.conn[P].header_received <=> PastOf(units, r.conn.held, P)
    BY DEF Going
  <2>2. r.conn[P] = t.conn[P]
    BY <1>1, <2>1
  <2>3. PastOf(units, r.conn.held, P) <=> PastOf(units, t.conn.held, P)
    BY <2>1 DEF Going
  <2> QED BY <1>4, <2>2, <2>3
<1>11. c.held <= r.conn.held /\ r.conn.held <= to /\ OnEdge(units, r.conn.held)
    BY DEF Going
<1>12. \A P \in Protocols : SameWriting(c[P], r.conn[P])
    BY <1>2
<1>13. protocol = "sasl" => Uses(r.conn) = "sasl"
    BY <1>6 DEF ReadsWith
<1>14. r.conn.remote_open => c.remote_open \/ (Has(units, "amqp") /\ ReadsWith(r.conn) = "amqp")
    BY <1>4, <1>6
<1> QED BY <1>1, <1>3, <1>4, <1>6, <1>9, <1>10, <1>11, <1>12, <1>13, <1>14 DEF ServerGot

\* What the server has when it has read.
LEMMA ServerReading ==
    ASSUME NEW c \in Connections, NEW w, NEW units \in Seq(Vocabulary("client")), Shaped(units),
           NEW count \in Nat, NEW to \in Nat, count <= to, to <= Bytes(units),
           ServerReady(c, w, units, count)
    PROVE  LET r == Reading(Prepared(c, units, to), units, to)
           IN  /\ ServerGot(c, units, to, r)
               /\ ~ r.thrown => InParts(units, r.conn.held, to) /\ Peeked(r.conn, units, to)
<1>0. "client" \in Peers /\ units \in Seq(Units)
  <2>1. "client" \in Peers
    BY DEF Peers
  <2> QED BY <2>1, SpokenToUnits
<1>1. PICK t : t = Prepared(c, units, to)
    OBVIOUS
<1>2. /\ ServerGot(c, units, to, t) /\ t.promises = 0 /\ ~ t.thrown
      /\ Uses(t.conn) = "undefined" => to - t.conn.held < 8
      /\ t.conn.held = c.held /\ t.conn.remote_open = c.remote_open
      /\ t.conn.sasl = c.sasl /\ t.conn.amqp = c.amqp
    BY <1>0, <1>1, ServerBegins
<1>3. t \in Turns /\ t.out = <<>> /\ OwnServer(t.conn) /\ Beginning(t, units, to)
    BY <1>2 DEF ServerGot, Beginning
<1>4. \A P \in Protocols : t.conn[P] = c[P]
    BY <1>2 DEF Protocols
<1>5. PICK r : r = Reading(t, units, to)
    OBVIOUS
<1>6. CASE ReadsWith(t.conn) = "undefined"
  <2>1. r = t
    BY <1>5, <1>6 DEF Reading
  <2>2. Uses(t.conn) = "undefined"
    BY <1>6 DEF ReadsWith
  <2>3. t.conn.held \in Nat
    BY <1>3, TurnFields, ConnFields
  <2>4. InParts(units, t.conn.held, to)
    BY <1>0, <1>2, <2>2, <2>3, NoHeaderYet
  <2>5. Peeked(t.conn, units, to)
    BY <1>6 DEF Peeked, PeekSize
  <2> QED BY <1>1, <1>2, <1>5, <2>1, <2>4, <2>5
<1>7. CASE ReadsWith(t.conn) = "sasl"
  <2>1. r = Read(t, "sasl", units, to)
    BY <1>5, <1>7 DEF Reading
  <2>2. Last(units, t.conn.held, Replies) /\ ~ t.conn.sasl.read_complete
    BY <1>2, <1>7 DEF ServerReady, ReadsWith
  <2>3. ServerReads(t.conn, units, to, r) /\ Stopped("sasl", units, to, r)
    BY <1>3, <2>1, <2>2, ServerRead
  <2>4. /\ Going(t.conn, "sasl", units, to, r) /\ r \in Turns
        /\ r.out = <<>>
        /\ Alike(t.conn, r.conn, {"held", "sasl"})
        /\ SameWriting(t.conn.sasl, r.conn.sasl)
        /\ \/ r.promises = 0
           \/ r.promises = 1 /\ Due(units, c.held, Replies) /\ r.conn.held = Bytes(units)
    BY <1>2, <2>3 DEF ServerReads, Going
  <2>5. Alike(t.conn, r.conn, {"held", "sasl", "remote_open"}) /\ r.conn.remote_open = t.conn.remote_open
    BY <2>4, AlikeFields DEF Alike
  <2>6. ServerGot(c, units, to, r) /\ ReadsWith(r.conn) = "sasl"
    BY <1>0, <1>2, <1>3, <1>4, <1>7, <2>4, <2>5, ServerGoes DEF Protocols
  <2>7. ~ Past(units, r.conn.held, Outcomes)
    <3>1. SUFFICES ASSUME NEW k \in DOMAIN units, units[k].name \in Outcomes PROVE FALSE
        BY DEF Past
    <3>2. units[k] \in Vocabulary("client")
        OBVIOUS
    <3>3. units[k].name \in {"header"} \cup Spoken("client", units[k].protocol)
        BY <1>0, <3>2, VocabularyIs
    <3> QED BY <3>1, <3>3 DEF Spoken, Outcomes, Replies
  <2>8. OkFirst(units)
    BY <1>2, <2>2 DEF ServerReady
  <2>9. Straight(units, r.conn.held, "sasl")
    BY <1>0, <2>7, <2>8, StraightSasl
  <2>10. ~ r.conn["sasl"].read_complete
    BY <2>2, <2>4 DEF SameWriting
  <2>11. ~ r.thrown => InParts(units, r.conn.held, to) /\ Peeked(r.conn, units, to)
    BY <1>0, <2>3, <2>4, <2>6, <2>9, <2>10, PeekedIs DEF Protocols
  <2> QED BY <1>1, <1>5, <2>6, <2>11
<1>8. CASE ReadsWith(t.conn) = "amqp"
  <2>1. r = Read(t, "amqp", units, to)
    BY <1>5, <1>8 DEF Reading
  <2>2. AmqpReads(t.conn, units, to, r) /\ Stopped("amqp", units, to, r)
    BY <1>0, <1>3, <2>1, AmqpRead
  <2>3. /\ Going(t.conn, "amqp", units, to, r) /\ r \in Turns
        /\ r.out = <<>> /\ r.promises = 0
        /\ Alike(t.conn, r.conn, {"held", "amqp", "remote_open"})
        /\ SameWriting(t.conn.amqp, r.conn.amqp)
        /\ r.conn.remote_open => t.conn.remote_open \/ Has(units, "amqp")
    BY <2>2 DEF AmqpReads, Going
  <2>4. ServerGot(c, units, to, r) /\ ReadsWith(r.conn) = "amqp"
    BY <1>0, <1>2, <1>3, <1>4, <1>8, <2>3, ServerGoes DEF Protocols
  <2>5. Straight(units, r.conn.held, "amqp")
    BY <1>0, StraightAmqp
  <2>6. ~ r.conn["amqp"].read_complete
    BY <2>4 DEF ServerGot, OwnServer
  <2>7. ~ r.thrown => InParts(units, r.conn.held, to) /\ Peeked(r.conn, units, to)
    BY <1>0, <2>2, <2>3, <2>4, <2>5, <2>6, PeekedIs DEF Protocols
  <2> QED BY <1>1, <1>5, <2>4, <2>7
<1>9. ReadsWith(t.conn) \in {"undefined", "sasl", "amqp"}
  <2>1. t.conn \in Connections
    BY <1>3, TurnFields
  <2> QED BY <2>1, WritesToIs DEF Protocols
<1> QED BY <1>6, <1>7, <1>8, <1>9

\* The server's first units of SASL.
Greets(x) ==
    /\ Len(x) = 2 /\ \A i \in 1..2 : x[i].protocol = "sasl"
    /\ x[1].name = "header" /\ x[2].name = "mechanisms"

ServerDid(s, d, x, m, units) ==
    /\ d.kind = s.kind /\ d.eager = s.eager /\ (Uses(d) = Uses(s) \/ Uses(s) = "undefined")
    /\ d.sasl.read_complete = s.sasl.read_complete /\ d.sasl.write_complete = s.sasl.write_complete
    /\ s.sasl.header_sent => d.sasl.header_sent
    /\ ~ d.ended => s.held <= d.held
    /\ \/ m = 0
       \/ /\ m = 1 /\ Uses(d) = "sasl" /\ Due(units, s.held, Replies)
          /\ ~ d.ended => d.held = Bytes(units)
    /\ \/ x = <<>>
       \/ /\ \A i \in 1..Len(x) : x[i].protocol = "amqp"
          /\ Uses(d) = "sasl" => d.sasl.write_complete
       \/ Greets(x) /\ ~ s.sasl.header_sent /\ d.sasl.header_sent

ServerStep(s, w, units, to, u) ==
    /\ u \in Turns /\ OwnServer(u.conn) /\ Writing("server", u.conn, w \o u.out)
    /\ Heard(u.conn, units, to)
    /\ ~ u.conn.ended => InParts(units, u.conn.held, to)
    /\ ServerDid(s, u.conn, u.out, u.promises, units)

\* A server that has not begun with SASL has not written AMQP either, if it uses SASL.
LEMMA SilentServer ==
    ASSUME NEW c, NEW w, Writing("server", c, w), ~ c.sasl.header_sent, Granted(w)
    PROVE  ~ Has(w, "amqp") /\ ~ Said(w, Outcomes)
<1>0. "server" \in Peers /\ "sasl" \in Protocols
    BY DEF Peers, Protocols
<1>1. w \in Seq(Vocabulary("server")) /\ ~ Has(w, "sasl")
    BY <1>0 DEF Writing
<1>2. w \in Seq(Units) /\ DOMAIN w = 1..Len(w) /\ Len(w) \in Nat
    BY <1>0, <1>1, SpokenToUnits
<1>3. ASSUME NEW k \in DOMAIN w, w[k].name \in Outcomes PROVE FALSE
  <2>1. w[k] \in Vocabulary("server")
    BY <1>1
  <2>2. w[k].protocol = "sasl"
    BY <1>0, <1>3, <2>1, OutcomesAreSasl
  <2> QED BY <1>1, <2>2 DEF Has
<1>4. ASSUME NEW k \in DOMAIN w, w[k].protocol = "amqp" PROVE FALSE
  <2>1. PICK j \in 1..(k - 1) : w[j].name = "ok"
    BY <1>4 DEF Granted
  <2>2. j \in DOMAIN w
    BY <1>2
  <2> QED BY <1>3, <2>1, <2>2 DEF Outcomes
<1> QED BY <1>3, <1>4 DEF Has, Said

\* A server writes nothing while it reads.
LEMMA ServerWrote ==
    ASSUME NEW c \in Connections, NEW w, NEW units, NEW count, NEW to, ServerReady(c, w, units, count),
           NEW r, ServerGot(c, units, to, r)
    PROVE  /\ Writing("server", r.conn, w \o r.out) /\ MaySpeak("server", r.conn, w \o r.out)
           /\ r.conn.remote_open /\ ~ r.conn.local_open => WritesTo(r.conn) = "amqp"
           /\ w \in Seq(Units) /\ w \o r.out = w
<1>1. Writing("server", c, w) /\ ~ c.ended /\ OwnServer(c)
    BY DEF ServerReady
<1>2. \A P \in Protocols : /\ r.conn[P].pending = c[P].pending
                           /\ r.conn[P].header_sent = c[P].header_sent
    BY DEF ServerGot, SameWriting
<1>3. w \in Seq(Units)
  <2>1. w \in Seq(Vocabulary("server")) /\ "server" \in Peers
    BY <1>1 DEF Writing, Peers
  <2> QED BY <2>1, SpokenToUnits
<1>4. r \in Turns /\ r.out = <<>> /\ OwnServer(r.conn)
    BY DEF ServerGot
<1>5. w \o r.out = w
    BY <1>3, <1>4, ConcatEmptySeq
<1>6. Writing("server", r.conn, w)
  <2>1. r.conn.amqp.pending \in Seq({"open", "empty"})
    BY <1>1, <1>2 DEF Writing, Protocols
  <2> QED BY <1>1, <1>2, <2>1, WritingSame
<1>7. MaySpeak("server", r.conn, w)
  <2>1. SUFFICES ASSUME WritesTo(r.conn) = "sasl"
                 PROVE  /\ r.conn.sasl.pending \in Seq(Spoken("server", "sasl"))
                        /\ \/ r.conn.sasl.pending = <<>> /\ r.conn.sasl.header_sent
                           \/ ~ Has(w, "amqp") /\ ~ Said(w, Outcomes) /\ Len(r.conn.sasl.pending) <= 1
    BY DEF MaySpeak
  <2>2. Uses(r.conn) = "sasl" /\ r.conn.kind # "undefined"
    BY <1>4, <2>1, ServerLayer
  <2>3. CASE r.conn.sasl.pending = <<>>
    <3>1. <<>> \in Seq(Spoken("server", "sasl"))
        OBVIOUS
    <3> QED BY <1>4, <2>2, <2>3, <3>1 DEF OwnServer
  <2>4. CASE r.conn.sasl.pending = <<"mechanisms">>
    <3>1. "mechanisms" \in Spoken("server", "sasl")
        BY DEF Spoken, Questions
    <3>2. \A n \in Spoken("server", "sasl") : <<n>> \in Seq(Spoken("server", "sasl")) /\ Len(<<n>>) = 1
        OBVIOUS
    <3>3. ~ r.conn.sasl.header_sent
      <4>1. r.conn.sasl.pending # <<>>
        BY <2>4
      <4> QED BY <1>4, <2>2, <4>1 DEF OwnServer
    <3>4. Granted(w)
      <4>1. CASE Uses(c) = "sasl"
        BY <4>1 DEF ServerReady
      <4>2. CASE Uses(c) = "undefined"
        <5>1. ~ c.amqp.header_sent
            BY <1>1, <4>2 DEF OwnServer
        <5>2. ~ Has(w, "amqp")
            BY <1>1, <5>1 DEF Writing, Protocols
        <5> QED BY <5>2 DEF Has, Granted
      <4> QED BY <2>2, <4>1, <4>2 DEF ServerGot
    <3>5. ~ Has(w, "amqp") /\ ~ Said(w, Outcomes)
        BY <1>6, <3>3, <3>4, SilentServer
    <3>6. Len(r.conn.sasl.pending) = 1
        BY <2>4
    <3> QED BY <2>4, <3>1, <3>2, <3>5, <3>6
  <2> QED BY <1>4, <2>3, <2>4 DEF OwnServer
<1>8. r.conn.remote_open => WritesTo(r.conn) = "amqp"
  <2>1. r.conn \in Connections
    BY <1>4, TurnFields
  <2>2. Uses(r.conn) \in {"amqp", "sasl", "undefined"}
    BY <2>1, WritesToIs DEF Protocols
  <2> QED BY <1>4, <2>2, ServerLayer DEF OwnServer
<1> QED BY <1>3, <1>5, <1>6, <1>7, <1>8

\* The header and the mechanisms.
LEMMA GreetingIs ==
    ASSUME NEW t, t.pending = <<"mechanisms">>, ~ t.header_sent
    PROVE  Greets(Added(t, "sasl"))
<1>1. DOMAIN t.pending = 1..1 /\ t.pending[1] = "mechanisms"
    OBVIOUS
<1>2. PICK f : f = [i \in 1..1 |-> [protocol |-> "sasl", name |-> "mechanisms"]]
    OBVIOUS
<1>3. Frames(t, "sasl") = f
    BY <1>1, <1>2 DEF Frames
<1>4. f = <<[protocol |-> "sasl", name |-> "mechanisms"]>>
    BY <1>2
<1>5. Added(t, "sasl") = <<Header("sasl")>> \o f
    BY <1>3 DEF Added
<1>6. Added(t, "sasl") = <<Header("sasl"), [protocol |-> "sasl", name |-> "mechanisms"]>>
    BY <1>4, <1>5
<1> QED BY <1>6 DEF Greets, Header

\* The end of a reading of the server.
LEMMA ServerEnds ==
    ASSUME NEW c \in Connections, NEW w, NEW units \in Seq(Units),
           NEW count, NEW to \in Nat, to <= Bytes(units), ServerReady(c, w, units, count),
           NEW r, ServerGot(c, units, to, r), ~ r.thrown,
           InParts(units, r.conn.held, to), Peeked(r.conn, units, to),
           NEW u, Ends("server", r, w, PeekSize(r.conn, units, to - r.conn.held), u)
    PROVE  ServerStep(c, w, units, to, u)
<1>1. PICK size : size = PeekSize(r.conn, units, to - r.conn.held)
    OBVIOUS
<1>2. PICK k \in Turns : /\ k.out = r.out /\ k.promises = r.promises
                         /\ k.conn.frame_size = size /\ Alike(r.conn, k.conn, {"frame_size"})
                         /\ Finished("server", k, w, u)
    BY <1>1 DEF Ends
<1>3. /\ k.conn.kind = r.conn.kind /\ k.conn.eager = r.conn.eager /\ k.conn.held = r.conn.held
      /\ k.conn.remote_open = r.conn.remote_open /\ k.conn.local_open = r.conn.local_open
      /\ k.conn.ended = r.conn.ended /\ k.conn.amqp = r.conn.amqp /\ k.conn.sasl = r.conn.sasl
      /\ k.conn.selected = r.conn.selected
    BY <1>2, AlikeFields
<1>4. /\ r \in Turns /\ r.out = <<>> /\ OwnServer(r.conn)
      /\ r.conn.kind = c.kind /\ r.conn.eager = c.eager
      /\ Uses(r.conn) = Uses(c) \/ Uses(c) = "undefined"
      /\ \A P \in Protocols : SameWriting(c[P], r.conn[P])
      /\ c.held <= r.conn.held /\ r.conn.held <= to /\ OnEdge(units, r.conn.held)
      /\ \A P \in Protocols : r.conn[P].header_received <=> PastOf(units, r.conn.held, P)
      /\ r.conn.remote_open => c.remote_open \/ Has(units, "amqp")
      /\ \/ r.promises = 0
         \/ /\ r.promises = 1 /\ Uses(r.conn) = "sasl"
            /\ Due(units, c.held, Replies) /\ r.conn.held = Bytes(units)
    BY DEF ServerGot
<1>5. /\ u \in Turns /\ u.promises = k.promises
      /\ u.conn.kind = k.conn.kind /\ u.conn.eager = k.conn.eager /\ u.conn.selected = k.conn.selected
      /\ u.conn.held = k.conn.held
      /\ u.conn.frame_size = k.conn.frame_size
      /\ u.conn.remote_open = k.conn.remote_open
      /\ k.conn.ended => u.conn.ended
      /\ \A P \in Protocols : SameReading(k.conn[P], u.conn[P])
      /\ \/ u.conn.sasl = k.conn.sasl
         \/ WritesTo(k.conn) = "sasl" /\ u.conn.sasl.pending = <<>> /\ u.conn.sasl.header_sent
      /\ Writing("server", u.conn, w \o u.out)
    BY <1>2 DEF Finished
<1>6. WritesTo(k.conn) = WritesTo(r.conn) /\ Uses(u.conn) = Uses(r.conn)
  <2>1. WritesTo(k.conn) = WritesTo(r.conn)
    BY <1>3, WritesSame
  <2>2. Uses(u.conn) = Uses(r.conn)
    BY <1>3, <1>5 DEF Uses
  <2> QED BY <2>1, <2>2
<1>7. PICK x \in Seq(Vocabulary("server")) :
          /\ u.out = r.out \o x
          /\ \A i \in 1..Len(x) : x[i].protocol = WritesTo(r.conn)
          /\ \/ x = <<>> \/ WritesTo(r.conn) = "amqp"
             \/ WritesTo(r.conn) = "sasl" /\ x = Added(r.conn.sasl, "sasl")
    BY <1>2, <1>3, <1>6 DEF Finished
<1>8. SameReading(r.conn.sasl, u.conn.sasl) /\ SameReading(r.conn.amqp, u.conn.amqp)
      /\ SameWriting(c.sasl, r.conn.sasl) /\ SameWriting(c.amqp, r.conn.amqp)
    BY <1>3, <1>4, <1>5 DEF Protocols
<1>9. Uses(r.conn) = "undefined" => u.conn.amqp = r.conn.amqp
  <2>1. Uses(r.conn) = "undefined" => WritesTo(r.conn) # "amqp"
    BY <1>4, ServerLayer
  <2> QED BY <1>2, <1>3, <1>6, <2>1 DEF Finished
<1>10. OwnServer(u.conn)
  <2>1. u.conn.kind = r.conn.kind /\ u.conn.selected = r.conn.selected /\ u.conn.eager = r.conn.eager
        /\ u.conn.remote_open = r.conn.remote_open
    BY <1>3, <1>5
  <2>2. ~ u.conn.amqp.read_complete /\ ~ u.conn.amqp.write_complete
        /\ u.conn.sasl.read_complete = r.conn.sasl.read_complete
        /\ u.conn.sasl.write_complete = r.conn.sasl.write_complete
    BY <1>4, <1>8 DEF OwnServer, SameReading
  <2>3. CASE u.conn.sasl = r.conn.sasl
    BY <1>4, <1>6, <1>9, <2>1, <2>2, <2>3 DEF OwnServer
  <2>4. CASE WritesTo(k.conn) = "sasl" /\ u.conn.sasl.pending = <<>> /\ u.conn.sasl.header_sent
    <3>1. Uses(r.conn) = "sasl" /\ r.conn.kind # "undefined"
        BY <1>4, <1>6, <2>4, ServerLayer
    <3> QED BY <1>4, <1>6, <2>1, <2>2, <2>4, <3>1 DEF OwnServer
  <2> QED BY <1>3, <1>5, <2>3, <2>4
<1>11. Heard(u.conn, units, to)
  <2>1. u.conn.remote_open => Has(units, "amqp")
    BY <1>3, <1>4, <1>5 DEF ServerReady, Heard
  <2>2. u.conn.held <= to /\ OnEdge(units, u.conn.held)
    BY <1>3, <1>4, <1>5
  <2>3. \A P \in Protocols : u.conn[P].header_received <=> PastOf(units, u.conn.held, P)
    <3>1. u.conn.held = r.conn.held
        BY <1>3, <1>5
    <3>2. \A P \in Protocols : u.conn[P].header_received = r.conn[P].header_received
        BY <1>8 DEF SameReading, Protocols
    <3> QED BY <1>4, <3>1, <3>2
  <2>4. u.conn.frame_size > 0 => Awaited(units, u.conn.held, to, u.conn.frame_size)
    <3>1. u.conn.frame_size = size /\ u.conn.held = r.conn.held
        BY <1>2, <1>3, <1>5
    <3>2. size = 0 \/ Awaited(units, r.conn.held, to, size)
        BY <1>1 DEF Peeked
    <3> QED BY <3>1, <3>2
  <2> QED BY <2>1, <2>2, <2>3, <2>4 DEF Heard
<1>12. InParts(units, u.conn.held, to)
  <2>1. u.conn.held = r.conn.held
    BY <1>3, <1>5
  <2> QED BY <2>1
<1>13. u.out = x
  <2>1. x \in Seq(Units)
    BY SpokenToUnits DEF Peers
  <2> QED BY <1>4, <1>7, <2>1, ConcatEmptySeq
<1>14. \/ x = <<>>
       \/ /\ \A i \in 1..Len(x) : x[i].protocol = "amqp"
          /\ Uses(u.conn) = "sasl" => u.conn.sasl.write_complete
       \/ Greets(x) /\ ~ c.sasl.header_sent /\ u.conn.sasl.header_sent
  <2>1. CASE WritesTo(r.conn) = "amqp"
    <3>1. Uses(r.conn) = "sasl" => r.conn.sasl.write_complete
        BY <1>4, <2>1, ServerLayer
    <3> QED BY <1>6, <1>7, <1>8, <2>1, <3>1 DEF SameReading
  <2>2. CASE WritesTo(r.conn) = "sasl" /\ x = Added(r.conn.sasl, "sasl") /\ x # <<>>
    <3>1. Uses(r.conn) = "sasl" /\ r.conn.kind # "undefined"
        BY <1>4, <2>2, ServerLayer
    <3>2. ~ (r.conn.sasl.pending = <<>> /\ r.conn.sasl.header_sent)
        BY <2>2, NothingAdded
    <3>3. ~ r.conn.sasl.header_sent /\ r.conn.sasl.pending = <<"mechanisms">>
        BY <1>4, <3>1, <3>2 DEF OwnServer
    <3>4. Greets(x)
        BY <2>2, <3>3, GreetingIs
    <3>5. ~ c.sasl.header_sent
        BY <1>8, <3>3 DEF SameWriting
    <3>6. u.conn.sasl.header_sent
      <4>1. r.conn.sasl \in Transports /\ u.conn.sasl \in Transports
        BY <1>4, <1>5, TurnFields, ConnFields
      <4>2. Writing("server", u.conn, w \o x)
        BY <1>5, <1>13
      <4>3. Has(w \o x, "sasl")
        <5>1. w \in Seq(Units) /\ x \in Seq(Units)
            BY ServerWrote, SpokenToUnits DEF Peers
        <5>2. 1 \in DOMAIN x /\ x[1].protocol = "sasl"
            BY <3>4 DEF Greets
        <5>3. Has(x, "sasl")
            BY <5>2 DEF Has
        <5> QED BY <5>1, <5>3, HasMore
      <4> QED BY <4>2, <4>3 DEF Writing, Protocols
    <3> QED BY <3>4, <3>5, <3>6
  <2> QED BY <1>7, <2>1, <2>2
<1>15. ServerDid(c, u.conn, u.out, u.promises, units)
  <2>1. u.conn.kind = c.kind /\ u.conn.eager = c.eager /\ u.conn.held = r.conn.held
        /\ u.promises = r.promises
        /\ (Uses(u.conn) = Uses(c) \/ Uses(c) = "undefined")
    BY <1>2, <1>3, <1>4, <1>5, <1>6
  <2>2. u.conn.sasl.read_complete = c.sasl.read_complete
        /\ u.conn.sasl.write_complete = c.sasl.write_complete
    BY <1>8 DEF SameReading, SameWriting
  <2>3. c.sasl.header_sent => u.conn.sasl.header_sent
    BY <1>3, <1>5, <1>8 DEF SameWriting
  <2> QED BY <1>4, <1>6, <1>13, <1>14, <2>1, <2>2, <2>3 DEF ServerDid
<1> QED BY <1>5, <1>10, <1>11, <1>12, <1>15 DEF ServerStep

\* A reading of the server that throws.
LEMMA ServerThrows ==
    ASSUME NEW c \in Connections, NEW w, NEW units \in Seq(Units),
           NEW count, NEW to \in Nat, to <= Bytes(units), ServerReady(c, w, units, count),
           NEW r, ServerGot(c, units, to, r), NEW u, u = Broken(r, to)
    PROVE  ServerStep(c, w, units, to, u)
<1>1. /\ r \in Turns /\ r.out = <<>> /\ OwnServer(r.conn)
      /\ r.conn.kind = c.kind /\ r.conn.eager = c.eager
      /\ Uses(r.conn) = Uses(c) \/ Uses(c) = "undefined"
      /\ \A P \in Protocols : SameWriting(c[P], r.conn[P])
      /\ r.conn.remote_open => c.remote_open \/ Has(units, "amqp")
      /\ \/ r.promises = 0
         \/ r.promises = 1 /\ Uses(r.conn) = "sasl" /\ Due(units, c.held, Replies)
    BY DEF ServerGot
<1>2. /\ u \in Turns /\ u.out = r.out /\ u.promises = r.promises
      /\ Alike(r.conn, u.conn, {"ended", "held"}) /\ u.conn.ended
    BY <1>1, Thrown
<1>3. /\ u.conn.kind = r.conn.kind /\ u.conn.local_open = r.conn.local_open
      /\ u.conn.eager = r.conn.eager /\ u.conn.selected = r.conn.selected
      /\ u.conn.remote_open = r.conn.remote_open
      /\ u.conn.amqp = r.conn.amqp /\ u.conn.sasl = r.conn.sasl
    BY <1>2, AlikeFields
<1>4. Uses(u.conn) = Uses(r.conn)
    BY <1>3 DEF Uses
<1>5. OwnServer(u.conn)
    BY <1>1, <1>3, <1>4 DEF OwnServer
<1>6. Writing("server", u.conn, w \o u.out)
  <2>1. Writing("server", r.conn, w \o r.out)
    BY ServerWrote
  <2>2. r.conn.amqp.pending \in Seq({"open", "empty"})
    BY <2>1 DEF Writing
  <2> QED BY <1>2, <1>3, <2>1, <2>2, WritingSame DEF Protocols
<1>7. Heard(u.conn, units, to)
    BY <1>1, <1>2, <1>3 DEF Heard, ServerReady
<1>8. SameWriting(c.sasl, r.conn.sasl)
    BY <1>1 DEF Protocols
<1>9. ServerDid(c, u.conn, u.out, u.promises, units)
    BY <1>1, <1>2, <1>3, <1>4, <1>8 DEF ServerDid, SameWriting
<1> QED BY <1>2, <1>5, <1>6, <1>7, <1>9 DEF ServerStep

\* A server that goes on waiting.
LEMMA ServerWaits ==
    ASSUME NEW c \in Connections, NEW w, NEW units \in Seq(Units),
           NEW count \in Nat, NEW to \in Nat, to <= Bytes(units), count <= to,
           ServerReady(c, w, units, count), Waits(c, to), NEW u, u = Begins(c)
    PROVE  ServerStep(c, w, units, to, u)
<1>1. u \in Turns /\ u.conn = c /\ u.out = <<>> /\ u.promises = 0
  <2>1. Begins(c) \in Turns
    BY ForgetsSize
  <2> QED BY <2>1 DEF Begins
<1>2. c.held \in Nat
    BY ConnFields
<1>3. c.frame_size \in Int
  <2>1. c.frame_size \in {0} \cup {Size[n] : n \in Names}
    BY ConnFields
  <2> QED BY <2>1, SizesAre
<1>4. to < c.held + c.frame_size /\ c.frame_size > 0
    BY <1>2, <1>3 DEF Waits
<1>5. Awaited(units, c.held, count, c.frame_size) /\ c.held <= count /\ OnEdge(units, c.held)
    BY <1>4 DEF ServerReady, Heard
<1>6. Awaited(units, c.held, to, c.frame_size) /\ InParts(units, c.held, to)
    BY <1>4, <1>5, StillAwaited
<1>7. c.held <= to
    BY <1>2, <1>5
<1>8. Heard(c, units, to)
    BY <1>5, <1>6, <1>7 DEF ServerReady, Heard
<1>9. Writing("server", c, w \o <<>>)
  <2>1. w \in Seq(Vocabulary("server")) /\ Writing("server", c, w)
    BY DEF ServerReady, Writing
  <2> QED BY <2>1, ConcatEmptySeq
<1>10. ServerDid(c, c, <<>>, 0, units)
    BY <1>2 DEF ServerDid
<1> QED BY <1>1, <1>6, <1>8, <1>9, <1>10 DEF ServerStep, ServerReady

\* The server has the bytes of the client, up to this one.
LEMMA ServerInput ==
    ASSUME NEW c \in Connections, NEW w, NEW units \in Seq(Vocabulary("client")), Shaped(units),
           NEW count \in Nat, NEW to \in Nat, count <= to, to <= Bytes(units),
           ServerReady(c, w, units, count)
    PROVE  ServerStep(c, w, units, to, Input(Begins(c), units, to))
<1>1. PICK r : r = Reading(Prepared(c, units, to), units, to)
    OBVIOUS
<1>2. /\ ServerGot(c, units, to, r)
      /\ ~ r.thrown => InParts(units, r.conn.held, to) /\ Peeked(r.conn, units, to)
    BY <1>1, ServerReading
<1>3. PICK u : u = Input(Begins(c), units, to)
    OBVIOUS
<1>4. /\ Waits(c, to) => u = Begins(c)
      /\ ~ Waits(c, to) /\ r.thrown => u = Broken(r, to)
      /\ ~ Waits(c, to) /\ ~ r.thrown =>
            u = Finish(r, PeekSize(r.conn, units, to - r.conn.held))
    BY <1>1, <1>3, InputIs
<1>5. units \in Seq(Units) /\ "server" \in Peers
  <2>1. "server" \in Peers /\ "client" \in Peers
    BY DEF Peers
  <2> QED BY <2>1, SpokenToUnits
<1>6. CASE Waits(c, to)
    BY <1>3, <1>4, <1>5, <1>6, ServerWaits
<1>7. CASE ~ Waits(c, to) /\ r.thrown
    BY <1>2, <1>3, <1>4, <1>5, <1>7, ServerThrows
<1>8. CASE ~ Waits(c, to) /\ ~ r.thrown
  <2>1. PICK size : size = PeekSize(r.conn, units, to - r.conn.held)
    OBVIOUS
  <2>2. size \in {0} \cup {Size[n] : n \in Names}
    BY <1>2, <1>5, <1>8, <2>1, PeekedSize
  <2>3. /\ Writing("server", r.conn, w \o r.out) /\ MaySpeak("server", r.conn, w \o r.out)
        /\ r.conn.remote_open /\ ~ r.conn.local_open => WritesTo(r.conn) = "amqp"
        /\ w \in Seq(Units)
    BY <1>2, ServerWrote
  <2>4. r \in Turns
    BY <1>2 DEF ServerGot
  <2>5. Ends("server", r, w, size, u)
    BY <1>4, <1>5, <1>8, <2>1, <2>2, <2>3, <2>4, Finishing
  <2> QED BY <1>2, <1>3, <1>5, <1>8, <2>1, <2>5, ServerEnds
<1> QED BY <1>3, <1>6, <1>7, <1>8

-----------------------------------------------------------------------------
(* What the mechanism decides, and heartbeats.                             *)

\* A turn begins with the connection as it is.
LEMMA BeginsIs ==
    ASSUME NEW c \in Connections, NEW b, b = Begins(c)
    PROVE  b \in Turns /\ b.conn = c /\ b.out = <<>> /\ b.promises = 0 /\ ~ b.thrown
<1>1. Begins(c) \in Turns
    BY ForgetsSize
<1> QED BY <1>1 DEF Begins

\* The server's mechanism has something to tell.
Says(name) == <<[protocol |-> "sasl", name |-> name]>>

Told(s, w, name, u) ==
    /\ u \in Turns /\ u.promises = 0 /\ SameSelf(s, u.conn)
    /\ u.conn.amqp = s.amqp /\ SameReading(s.sasl, u.conn.sasl)
    /\ u.conn.sasl.pending = <<>> /\ u.conn.sasl.header_sent
    /\ s.ended => u.conn.ended
    /\ OwnServer(u.conn) /\ Writing("server", u.conn, w \o u.out)
    /\ u.out = IF s.ended THEN <<>> ELSE Says(name)

\* It may, in the negotiation.
MayTell(s, w) ==
    /\ Writing("server", s, w) /\ OwnServer(s) /\ Uses(s) = "sasl"
    /\ s.sasl.header_sent /\ ~ s.sasl.write_complete /\ ~ Said(w, Outcomes) /\ Granted(w)

LEMMA OneAdded ==
    ASSUME NEW t, NEW name, t.pending = <<name>>, t.header_sent
    PROVE  Added(t, "sasl") = Says(name)
<1>1. DOMAIN t.pending = 1..1 /\ t.pending[1] = name
    OBVIOUS
<1>2. PICK f : f = [i \in 1..1 |-> [protocol |-> "sasl", name |-> name]]
    OBVIOUS
<1>3. Frames(t, "sasl") = f
    BY <1>1, <1>2 DEF Frames
<1>4. f = Says(name)
    BY <1>2 DEF Says
<1>5. Added(t, "sasl") = <<>> \o f
    BY <1>3 DEF Added
<1>6. <<>> \o Says(name) = Says(name)
    BY DEF Says
<1> QED BY <1>4, <1>5, <1>6

\* What the mechanism tells is written as one frame, or not at all.
LEMMA Tells ==
    ASSUME NEW s \in Connections, NEW w, MayTell(s, w), NEW name \in Questions \cup Outcomes,
           NEW u, u = Output(Encode(Begins(s), "sasl", name))
    PROVE  Told(s, w, name, u)
<1>0. "server" \in Peers /\ "sasl" \in Protocols /\ "amqp" \in Protocols \ {"sasl"}
      /\ name \in Spoken("server", "sasl") /\ name \in Names
  <2>1. name \in Spoken("server", "sasl")
    BY DEF Spoken
  <2>2. "server" \in Peers /\ "sasl" \in Protocols /\ "amqp" \in Protocols \ {"sasl"}
    BY DEF Peers, Protocols
  <2> QED BY <2>1, <2>2, VocabularyIs
<1>1. /\ Writing("server", s, w) /\ OwnServer(s) /\ Uses(s) = "sasl" /\ s.kind # "undefined"
      /\ s.sasl.header_sent /\ ~ s.sasl.write_complete /\ ~ Said(w, Outcomes)
      /\ WritesTo(s) = "sasl" /\ s.sasl.pending = <<>>
  <2>1. OwnServer(s) /\ Uses(s) = "sasl" /\ s.sasl.header_sent
    BY DEF MayTell
  <2>2. s.kind # "undefined"
    BY <2>1, ServerLayer
  <2>3. s.sasl.pending = <<>>
    BY <2>1, <2>2 DEF OwnServer
  <2> QED BY <2>1, <2>2, <2>3, ServerLayer DEF MayTell
<1>2. ~ Has(w, "amqp")
  <2>1. w \in Seq(Units) /\ DOMAIN w = 1..Len(w) /\ Len(w) \in Nat
    BY <1>0, <1>1, SpokenToUnits DEF Writing
  <2>2. SUFFICES ASSUME NEW k \in DOMAIN w, w[k].protocol = "amqp" PROVE FALSE
    BY DEF Has
  <2>3. PICK j \in 1..(k - 1) : w[j].name = "ok"
    BY <2>2 DEF MayTell, Granted
  <2>4. j \in DOMAIN w
    BY <2>1
  <2> QED BY <1>1, <2>3, <2>4 DEF Said, Outcomes
<1>3. w \in Seq(Units)
    BY <1>0, <1>1, SpokenToUnits DEF Writing
<1>4. PICK b : b = Begins(s)
    OBVIOUS
<1>5. b \in Turns /\ b.conn = s /\ b.out = <<>> /\ b.promises = 0
    BY <1>4, BeginsIs
<1>6. PICK e : e = Encode(b, "sasl", name)
    OBVIOUS
<1>7. /\ e \in Turns /\ e.promises = 0 /\ e.out = <<>>
      /\ SameSelf(s, e.conn)
      /\ e.conn.ended = s.ended
      /\ e.conn.sasl.pending = Append(s.sasl.pending, name)
      /\ e.conn.sasl.header_sent = s.sasl.header_sent
      /\ SameReading(s.sasl, e.conn.sasl)
      /\ e.conn.amqp = s.amqp
    BY <1>0, <1>5, <1>6, EncodeIs
<1>8. e.conn.sasl.pending = <<name>>
  <2>1. Append(<<>>, name) = <<name>>
    OBVIOUS
  <2> QED BY <1>1, <1>7, <2>1
<1>9. WritesTo(e.conn) = "sasl"
    BY <1>1, <1>7, <1>8, ServerLayer DEF WritesTo, Uses, SameSelf, SameReading
<1>10. w \o e.out = w
    BY <1>3, <1>7, ConcatEmptySeq
<1>11. Writing("server", e.conn, w)
  <2>1. \A P \in Protocols : e.conn[P].header_sent = s[P].header_sent
    BY <1>7 DEF Protocols
  <2>2. e.conn.amqp.pending \in Seq({"open", "empty"})
    BY <1>1, <1>7 DEF Writing
  <2> QED BY <1>1, <1>7, <2>1, <2>2, WritingSame
<1>12. MaySpeak("server", e.conn, w)
  <2>1. <<name>> \in Seq(Spoken("server", "sasl")) /\ Len(<<name>>) <= 1
    <3>1. \A n \in Spoken("server", "sasl") : <<n>> \in Seq(Spoken("server", "sasl")) /\ Len(<<n>>) <= 1
        OBVIOUS
    <3> QED BY <1>0, <3>1
  <2> QED BY <1>1, <1>2, <1>8, <2>1 DEF MaySpeak
<1>13. /\ Writing("server", u.conn, w \o u.out)
       /\ u.out = e.out \o (IF s.ended THEN <<>> ELSE Added(e.conn.sasl, "sasl"))
    BY <1>0, <1>3, <1>4, <1>6, <1>7, <1>9, <1>10, <1>11, <1>12, OutputWrites
<1>14. Added(e.conn.sasl, "sasl") = Says(name)
    BY <1>1, <1>7, <1>8, OneAdded
<1>15. u.out = IF s.ended THEN <<>> ELSE Says(name)
  <2>1. <<>> \o Says(name) = Says(name) /\ <<>> \o <<>> = <<>>
    BY DEF Says
  <2> QED BY <1>7, <1>13, <1>14, <2>1
<1>16. /\ u \in Turns /\ u.promises = 0 /\ SameSelf(e.conn, u.conn)
       /\ e.conn.ended => u.conn.ended
       /\ u.conn.sasl.pending = <<>> /\ u.conn.sasl.header_sent
       /\ SameReading(e.conn.sasl, u.conn.sasl) /\ u.conn.amqp = e.conn.amqp
    BY <1>0, <1>4, <1>6, <1>7, <1>9, OutputIs
<1>17. SameSelf(s, u.conn) /\ SameReading(s.sasl, u.conn.sasl) /\ u.conn.amqp = s.amqp
    BY <1>7, <1>16 DEF SameSelf, SameReading
<1>18. Uses(u.conn) = Uses(s)
    BY <1>17 DEF Uses, SameSelf
<1>19. OwnServer(u.conn)
    BY <1>1, <1>16, <1>17, <1>18 DEF OwnServer, SameSelf, SameReading
<1> QED BY <1>7, <1>13, <1>15, <1>16, <1>17, <1>19 DEF Told

\* What accepting the client does to the server.
Accepting(s, w, u) ==
    /\ u \in Turns /\ u.promises = 0 /\ OwnServer(u.conn) /\ Writing("server", u.conn, w \o u.out)
    /\ u.conn.kind = s.kind /\ u.conn.eager = s.eager /\ u.conn.selected = s.selected
    /\ u.conn.held = s.held /\ u.conn.frame_size = s.frame_size
    /\ u.conn.remote_open = s.remote_open
    /\ \A P \in Protocols : u.conn[P].header_received = s[P].header_received
    /\ u.conn.sasl.read_complete /\ u.conn.sasl.write_complete /\ u.conn.sasl.header_sent
    /\ s.ended => u.conn.ended
    /\ \/ s.ended /\ u.out = <<>>
       \/ /\ ~ s.ended
          /\ \E x \in Seq(Units) :
               /\ u.out = Says("ok") \o x
               /\ \A i \in 1..Len(x) : x[i].protocol = "amqp"
               /\ x = <<>> \/ s.eager

LEMMA OkIs ==
    ASSUME NEW x \in Turns, NEW y, y = Outcome(x, "ok")
    PROVE  /\ y \in Turns /\ y.out = x.out /\ y.promises = x.promises
           /\ y.conn.sasl.pending = x.conn.sasl.pending
           /\ y.conn.sasl.header_sent = x.conn.sasl.header_sent
           /\ y.conn.sasl.header_received = x.conn.sasl.header_received
           /\ y.conn.sasl.write_complete /\ y.conn.sasl.read_complete
           /\ Alike(x.conn, y.conn, {"sasl"})
<1>1. PICK code \in Outcomes : code = "ok"
    BY DEF Outcomes
<1>2. y = Outcome(x, code)
    BY <1>1
<1>3. /\ y \in Turns /\ y.out = x.out /\ y.promises = x.promises
      /\ y.conn.sasl.pending = x.conn.sasl.pending
      /\ y.conn.sasl.header_sent = x.conn.sasl.header_sent
      /\ y.conn.sasl.header_received = x.conn.sasl.header_received
      /\ y.conn.sasl.write_complete
      /\ code = "ok" => y.conn.sasl.read_complete /\ Alike(x.conn, y.conn, {"sasl"})
    BY <1>2, OutcomeIs
<1> QED BY <1>1, <1>3

\* The layers are left.
LEMMA LayersLeft ==
    ASSUME NEW s \in Connections, NEW w, MayTell(s, w), NEW u, Told(s, w, "ok", u),
           NEW d, d = Outcome(u, "ok")
    PROVE  /\ Accepting(s, w, d) /\ d.out = u.out /\ Uses(d.conn) = "sasl"
           /\ d.conn.sasl.pending = <<>>
<1>1. /\ OwnServer(s) /\ Uses(s) = "sasl"
    BY DEF MayTell
<1>2. /\ u \in Turns /\ u.promises = 0 /\ SameSelf(s, u.conn)
      /\ u.conn.amqp = s.amqp /\ SameReading(s.sasl, u.conn.sasl)
      /\ u.conn.sasl.pending = <<>> /\ u.conn.sasl.header_sent
      /\ s.ended => u.conn.ended
      /\ OwnServer(u.conn) /\ Writing("server", u.conn, w \o u.out)
      /\ u.out = IF s.ended THEN <<>> ELSE Says("ok")
    BY DEF Told
<1>3. /\ d \in Turns /\ d.out = u.out /\ d.promises = u.promises
      /\ d.conn.sasl.pending = u.conn.sasl.pending
      /\ d.conn.sasl.header_sent = u.conn.sasl.header_sent
      /\ d.conn.sasl.header_received = u.conn.sasl.header_received
      /\ d.conn.sasl.write_complete /\ d.conn.sasl.read_complete
      /\ Alike(u.conn, d.conn, {"sasl"})
  <2>1. u \in Turns
    BY <1>2
  <2> QED BY <2>1, OkIs
<1>4. /\ d.conn.kind = u.conn.kind /\ d.conn.eager = u.conn.eager /\ d.conn.selected = u.conn.selected
      /\ d.conn.held = u.conn.held /\ d.conn.frame_size = u.conn.frame_size
      /\ d.conn.local_open = u.conn.local_open /\ d.conn.remote_open = u.conn.remote_open
      /\ d.conn.amqp = u.conn.amqp /\ d.conn.ended = u.conn.ended
    BY <1>3, AlikeFields
<1>5. Uses(d.conn) = Uses(u.conn) /\ Uses(u.conn) = "sasl"
    BY <1>1, <1>2, <1>4 DEF Uses, SameSelf
<1>6. OwnServer(d.conn)
    BY <1>2, <1>3, <1>4, <1>5 DEF OwnServer
<1>7. Writing("server", d.conn, w \o d.out)
  <2>1. \A P \in Protocols : d.conn[P].header_sent = u.conn[P].header_sent
    BY <1>3, <1>4 DEF Protocols
  <2>2. d.conn.amqp.pending \in Seq({"open", "empty"})
    BY <1>2, <1>4 DEF Writing
  <2> QED BY <1>2, <1>3, <1>4, <2>1, <2>2, WritingSame
<1>8. \A P \in Protocols : d.conn[P].header_received = s[P].header_received
    BY <1>2, <1>3, <1>4 DEF Protocols, SameReading
<1>9. \/ s.ended /\ d.out = <<>>
      \/ /\ ~ s.ended
         /\ \E x \in Seq(Units) : d.out = Says("ok") \o x /\ x = <<>>
  <2>1. Says("ok") \o <<>> = Says("ok") /\ <<>> \in Seq(Units)
    BY DEF Says
  <2> QED BY <1>2, <1>3, <2>1
<1>10. Len(<<>>) = 0
    OBVIOUS
<1>11. \/ s.ended /\ d.out = <<>>
       \/ /\ ~ s.ended
          /\ \E x \in Seq(Units) :
               /\ d.out = Says("ok") \o x
               /\ \A i \in 1..Len(x) : x[i].protocol = "amqp"
               /\ x = <<>> \/ s.eager
    BY <1>9, <1>10
<1> QED BY <1>2, <1>3, <1>4, <1>5, <1>6, <1>7, <1>8, <1>11 DEF Accepting, SameSelf

\* What do_step does when the mechanism accepts: the outcome, both layers left, and the open of an eager one.
LEMMA AcceptedIs ==
    ASSUME NEW s \in Connections, NEW w \in Seq(Units), MayTell(s, w), NEW u, u = Accepted(Begins(s))
    PROVE  Accepting(s, w, u)
<1>1. PICK told : told = Output(Encode(Begins(s), "sasl", "ok"))
    OBVIOUS
<1>2. Told(s, w, "ok", told)
    BY <1>1, Tells DEF Outcomes
<1>3. PICK d : d = Outcome(told, "ok")
    OBVIOUS
<1>4. Accepting(s, w, d) /\ d.out = told.out /\ Uses(d.conn) = "sasl" /\ d.conn.sasl.pending = <<>>
    BY <1>2, <1>3, LayersLeft
<1>5. u = IF d.conn.eager
          THEN Output(Encode([d EXCEPT !.conn.local_open = TRUE], "amqp", "open"))
          ELSE d
    BY <1>1, <1>3 DEF Accepted, Outcome
<1>6. CASE ~ d.conn.eager
    BY <1>4, <1>5, <1>6
<1>7. CASE d.conn.eager
  <2>1. PICK b : b = d.conn
    OBVIOUS
  <2>2. PICK c : c = [b EXCEPT !.local_open = TRUE]
    OBVIOUS
  <2>3. b \in Connections /\ d \in Turns
    BY <1>4, <2>1, TurnFields DEF Accepting
  <2>4. c \in Connections /\ c.local_open /\ Alike(b, c, {"local_open"})
    BY <2>2, <2>3, LocalOpenSet
  <2>5. PICK l : l = [d EXCEPT !.conn.local_open = TRUE]
    OBVIOUS
  <2>6. l = [d EXCEPT !.conn = c]
    BY <2>1, <2>2, <2>5
  <2>7. l \in Turns /\ l.conn = c /\ l.out = d.out /\ l.promises = d.promises
    BY <2>3, <2>4, <2>6, TurnSet
  <2>8. PICK t : t = Encode(l, "amqp", "open")
    OBVIOUS
  <2>9. "amqp" \in Protocols /\ "open" \in Names /\ "sasl" \in Protocols \ {"amqp"} /\ "server" \in Peers
    BY DEF Protocols, Names, Peers
  <2>10. /\ t \in Turns /\ t.promises = l.promises /\ t.out = l.out
         /\ SameSelf(c, t.conn)
         /\ t.conn.ended = c.ended
         /\ t.conn.amqp.pending = Append(c.amqp.pending, "open")
         /\ t.conn.amqp.header_sent = c.amqp.header_sent
         /\ SameReading(c.amqp, t.conn.amqp)
         /\ t.conn.sasl = c.sasl
    BY <2>7, <2>8, <2>9, EncodeIs
  <2>11. /\ c.kind = b.kind /\ c.eager = b.eager /\ c.selected = b.selected
         /\ c.held = b.held /\ c.frame_size = b.frame_size
         /\ c.remote_open = b.remote_open /\ c.ended = b.ended
         /\ c.amqp = b.amqp /\ c.sasl = b.sasl
    BY <2>4, AlikeFields
  <2>12. /\ OwnServer(b) /\ Writing("server", b, w \o d.out)
         /\ b.kind = s.kind /\ b.eager = s.eager /\ b.selected = s.selected
         /\ b.held = s.held /\ b.frame_size = s.frame_size
         /\ b.remote_open = s.remote_open
         /\ \A P \in Protocols : b[P].header_received = s[P].header_received
         /\ b.sasl.read_complete /\ b.sasl.write_complete /\ b.sasl.header_sent
         /\ s.ended => b.ended
         /\ d.out = IF s.ended THEN <<>> ELSE Says("ok")
         /\ d.promises = 0 /\ Uses(b) = "sasl"
    BY <1>2, <1>4, <2>1 DEF Accepting, Told
  <2>13. WritesTo(b) = "amqp" /\ WritesTo(t.conn) = WritesTo(b)
    <3>1. WritesTo(b) = "amqp"
        BY <2>12, ServerLayer
    <3>2. t.conn.kind = b.kind /\ t.conn.selected = b.selected /\ t.conn.sasl = b.sasl
        BY <2>10, <2>11 DEF SameSelf
    <3> QED BY <3>1, <3>2, WritesSame
  <2>14. Writing("server", t.conn, w \o t.out)
    <3>1. b.amqp.pending \in Seq({"open", "empty"})
      BY <2>12 DEF Writing
    <3>2. t.conn.amqp.pending \in Seq({"open", "empty"})
      <4>1. t.conn.amqp.pending = Append(b.amqp.pending, "open")
        BY <2>10, <2>11
      <4>2. \A S : \A q \in Seq(S), v \in S : Append(q, v) \in Seq(S)
        OBVIOUS
      <4> QED BY ONLY <3>1, <4>1, <4>2
    <3>3. \A P \in Protocols : t.conn[P].header_sent = b[P].header_sent
      BY <2>10, <2>11 DEF Protocols
    <3>4. Writing("server", b, w \o d.out) /\ (b.ended => t.conn.ended)
      BY ONLY <2>10, <2>11, <2>12
    <3>5. Writing("server", t.conn, w \o d.out)
      BY ONLY <3>2, <3>3, <3>4, WritingSame
    <3>6. t.out = d.out
      BY ONLY <2>7, <2>10
    <3> QED BY ONLY <3>5, <3>6
  <2>15. Finished("server", t, w, u)
    <3>1. MaySpeak("server", t.conn, w \o t.out)
        BY <2>13 DEF MaySpeak
    <3>2. u = Output(t)
        BY <1>5, <1>7, <2>5, <2>8
    <3> QED BY <2>9, <2>10, <2>14, <3>1, <3>2, FinishedOutput
  <2>16. /\ u \in Turns /\ u.promises = 0
         /\ u.conn.kind = b.kind /\ u.conn.eager = b.eager /\ u.conn.selected = b.selected
         /\ u.conn.held = b.held /\ u.conn.frame_size = b.frame_size
         /\ u.conn.remote_open = b.remote_open
         /\ b.ended => u.conn.ended
         /\ SameReading(b.amqp, u.conn.amqp)
         /\ u.conn.sasl = b.sasl
         /\ Writing("server", u.conn, w \o u.out)
    <3>1. SameReading(t.conn.amqp, u.conn.amqp)
        BY <2>15 DEF Finished, Protocols
    <3>2. SameReading(b.amqp, u.conn.amqp)
        BY <2>10, <2>11, <3>1 DEF SameReading
    <3>3. /\ u \in Turns /\ u.promises = t.promises
          /\ u.conn.kind = t.conn.kind /\ u.conn.eager = t.conn.eager /\ u.conn.selected = t.conn.selected
          /\ u.conn.held = t.conn.held /\ u.conn.frame_size = t.conn.frame_size
          /\ u.conn.remote_open = t.conn.remote_open
          /\ t.conn.ended => u.conn.ended
          /\ u.conn.sasl = t.conn.sasl
          /\ Writing("server", u.conn, w \o u.out)
        BY <2>13, <2>15 DEF Finished
    <3>4. d.promises = 0
        BY <2>12
    <3>5. /\ t.conn.kind = b.kind /\ t.conn.eager = b.eager /\ t.conn.selected = b.selected
          /\ t.conn.held = b.held /\ t.conn.frame_size = b.frame_size
          /\ t.conn.remote_open = b.remote_open /\ t.conn.ended = b.ended
          /\ t.conn.sasl = b.sasl /\ t.promises = 0
        BY <2>7, <2>10, <2>11, <3>4 DEF SameSelf
    <3> QED BY <3>2, <3>3, <3>5
  <2>17. PICK x \in Seq(Vocabulary("server")) :
            /\ u.out = d.out \o x /\ (b.ended => x = <<>>)
            /\ \A i \in 1..Len(x) : x[i].protocol = "amqp"
    <3>1. PICK x \in Seq(Vocabulary("server")) :
            /\ u.out = t.out \o x /\ (t.conn.ended => x = <<>>)
            /\ \A i \in 1..Len(x) : x[i].protocol = WritesTo(t.conn)
        BY <2>15 DEF Finished
    <3>2. t.out = d.out /\ t.conn.ended = b.ended /\ WritesTo(t.conn) = "amqp"
        BY <2>7, <2>10, <2>11, <2>13
    <3> QED BY <3>1, <3>2
  <2>18. x \in Seq(Units)
    BY <2>9, SpokenToUnits
  <2>19. \/ s.ended /\ u.out = <<>>
         \/ /\ ~ s.ended
            /\ \E y \in Seq(Units) :
                 /\ u.out = Says("ok") \o y
                 /\ \A i \in 1..Len(y) : y[i].protocol = "amqp"
                 /\ y = <<>> \/ s.eager
    <3>1. CASE s.ended
      <4>1. x = <<>> /\ d.out = <<>> /\ <<>> \o <<>> = <<>>
        BY <2>12, <2>17, <3>1
      <4> QED BY <2>17, <3>1, <4>1
    <3>2. CASE ~ s.ended
      <4>1. s.eager
        BY <1>7, <2>1, <2>12
      <4> QED BY <2>12, <2>17, <2>18, <3>2, <4>1
    <3> QED BY <3>1, <3>2
  <2>20. OwnServer(u.conn)
    <3>1. Uses(u.conn) = Uses(b)
        BY <2>16 DEF Uses
    <3> QED BY <2>12, <2>16, <3>1 DEF OwnServer, SameReading
  <2>21. \A P \in Protocols : u.conn[P].header_received = s[P].header_received
    BY <2>12, <2>16 DEF Protocols, SameReading
  <2> QED BY <2>12, <2>16, <2>19, <2>20, <2>21 DEF Accepting
<1> QED BY <1>6, <1>7

\* What a heartbeat does.
Beaten(p, c, w, u) ==
    /\ u \in Turns /\ u.promises = 0
    /\ u.conn.kind = c.kind /\ u.conn.eager = c.eager /\ u.conn.selected = c.selected
    /\ u.conn.held = c.held /\ u.conn.frame_size = c.frame_size
    /\ u.conn.remote_open = c.remote_open
    /\ c.local_open => u.conn.local_open
    /\ SameReading(c.amqp, u.conn.amqp) /\ SameReading(c.sasl, u.conn.sasl)
    /\ \/ u.conn.sasl = c.sasl
       \/ WritesTo(c) = "sasl" /\ u.conn.sasl.pending = <<>> /\ u.conn.sasl.header_sent
    /\ Writing(p, u.conn, w \o u.out)
    /\ \/ u.out = <<>>
       \/ WritesTo(c) = "amqp" /\ \A i \in 1..Len(u.out) : u.out[i].protocol = "amqp"

\* A heartbeat is a frame of AMQP.
LEMMA BeatIs ==
    ASSUME NEW p \in Peers, NEW c \in Connections, NEW w, Writing(p, c, w),
           WritesTo(c) = "sasl" => c.sasl.pending = <<>> /\ c.sasl.header_sent,
           NEW u, u = Output(Encode(Begins(c), "amqp", "empty"))
    PROVE  Beaten(p, c, w, u)
<1>0. "amqp" \in Protocols /\ "empty" \in Names /\ "sasl" \in Protocols \ {"amqp"}
    BY DEF Protocols, Names
<1>1. w \in Seq(Units)
  <2>1. w \in Seq(Vocabulary(p))
    BY DEF Writing
  <2> QED BY <2>1, SpokenToUnits
<1>2. PICK b : b = Begins(c)
    OBVIOUS
<1>3. b \in Turns /\ b.conn = c /\ b.out = <<>> /\ b.promises = 0
    BY <1>2, BeginsIs
<1>4. PICK t : t = Encode(b, "amqp", "empty")
    OBVIOUS
<1>5. /\ t \in Turns /\ t.promises = 0 /\ t.out = <<>>
      /\ SameSelf(c, t.conn)
      /\ t.conn.ended = c.ended
      /\ t.conn.amqp.pending = Append(c.amqp.pending, "empty")
      /\ t.conn.amqp.header_sent = c.amqp.header_sent
      /\ SameReading(c.amqp, t.conn.amqp)
      /\ t.conn.sasl = c.sasl
    BY <1>0, <1>3, <1>4, EncodeIs, ZenonT(60)
<1>6. w \o t.out = w
    BY <1>1, <1>5, ConcatEmptySeq
<1>7. Writing(p, t.conn, w)
  <2>1. c.amqp.pending \in Seq({"open", "empty"})
    BY DEF Writing
  <2>2. t.conn.amqp.pending \in Seq({"open", "empty"})
    BY <1>5, <2>1, AppendProperties
  <2>3. \A P \in Protocols : t.conn[P].header_sent = c[P].header_sent
    BY <1>5 DEF Protocols
  <2> QED BY <1>5, <2>2, <2>3, WritingSame
<1>8. WritesTo(t.conn) = WritesTo(c)
    BY <1>5, WritesSame DEF SameSelf
<1>9. MaySpeak(p, t.conn, w)
  <2>1. <<>> \in Seq(Spoken(p, "sasl"))
    OBVIOUS
  <2> QED BY <1>5, <1>8, <2>1 DEF MaySpeak
<1>10. u = Output(t)
    BY <1>2, <1>4
<1>11. Finished(p, t, w, u)
    BY <1>1, <1>5, <1>6, <1>7, <1>9, <1>10, FinishedOutput
<1>12. /\ u \in Turns /\ u.promises = t.promises
       /\ u.conn.kind = t.conn.kind /\ u.conn.eager = t.conn.eager /\ u.conn.selected = t.conn.selected
       /\ u.conn.held = t.conn.held /\ u.conn.frame_size = t.conn.frame_size
       /\ u.conn.remote_open = t.conn.remote_open
       /\ t.conn.local_open => u.conn.local_open
       /\ SameReading(t.conn.amqp, u.conn.amqp) /\ SameReading(t.conn.sasl, u.conn.sasl)
       /\ \/ u.conn.sasl = t.conn.sasl
          \/ WritesTo(t.conn) = "sasl" /\ u.conn.sasl.pending = <<>> /\ u.conn.sasl.header_sent
       /\ Writing(p, u.conn, w \o u.out)
    BY <1>11 DEF Finished, Protocols
<1>13. PICK x \in Seq(Vocabulary(p)) :
          /\ u.out = t.out \o x
          /\ \A i \in 1..Len(x) : x[i].protocol = WritesTo(t.conn)
          /\ \/ x = <<>> \/ WritesTo(t.conn) = "amqp"
             \/ WritesTo(t.conn) = "sasl" /\ x = Added(t.conn.sasl, "sasl")
    BY <1>11 DEF Finished
<1>14. u.out = x
  <2>1. x \in Seq(Units)
    BY SpokenToUnits
  <2> QED BY <1>5, <1>13, <2>1, ConcatEmptySeq
<1>15. \/ u.out = <<>>
       \/ WritesTo(c) = "amqp" /\ \A i \in 1..Len(u.out) : u.out[i].protocol = "amqp"
  <2>1. CASE WritesTo(c) = "sasl"
    <3>1. Added(t.conn.sasl, "sasl") = <<>>
        BY <1>5, <2>1, NothingAdded
    <3> QED BY <1>8, <1>13, <1>14, <2>1, <3>1
  <2>2. CASE WritesTo(c) # "sasl"
    BY <1>8, <1>13, <1>14, <2>2
  <2> QED BY <2>1, <2>2
<1>16. SameReading(c.amqp, u.conn.amqp) /\ SameReading(c.sasl, u.conn.sasl)
    BY <1>5, <1>12 DEF SameReading
<1> QED BY <1>5, <1>8, <1>12, <1>15, <1>16 DEF Beaten, SameSelf

\* It leaves what is known of the client, ...
LEMMA ClientBeat ==
    ASSUME NEW c \in Connections, NEW w, NEW units, NEW count, NEW eager,
           ClientReady(c, w, units, count, eager), Heeds(c, units, count, eager),
           NEW u, u = Output(Encode(Begins(c), "amqp", "empty"))
    PROVE  ClientStep(c, w, units, count, eager, u)
<1>1. /\ OwnClient(c) /\ ~ c.ended /\ Heard(c, units, count) /\ ClientMay(c, units, eager)
      /\ Writing("client", c, w)
    BY DEF ClientReady
<1>2. WritesTo(c) = (IF c.kind = "Client" /\ ~ c.sasl.write_complete THEN "sasl" ELSE "amqp")
    BY <1>1, ClientLayer
<1>3. Beaten("client", c, w, u)
  <2>1. WritesTo(c) = "sasl" => c.sasl.pending = <<>> /\ c.sasl.header_sent
    BY <1>1, <1>2 DEF OwnClient
  <2>2. "client" \in Peers
    BY DEF Peers
  <2> QED BY <1>1, <2>1, <2>2, BeatIs
<1>4. /\ u \in Turns /\ u.promises = 0
      /\ u.conn.kind = c.kind /\ u.conn.held = c.held /\ u.conn.frame_size = c.frame_size
      /\ u.conn.remote_open = c.remote_open
      /\ c.local_open => u.conn.local_open
      /\ SameReading(c.amqp, u.conn.amqp) /\ SameReading(c.sasl, u.conn.sasl)
      /\ \/ u.conn.sasl = c.sasl
         \/ WritesTo(c) = "sasl" /\ u.conn.sasl.pending = <<>> /\ u.conn.sasl.header_sent
      /\ Writing("client", u.conn, w \o u.out)
      /\ \/ u.out = <<>>
         \/ WritesTo(c) = "amqp" /\ \A i \in 1..Len(u.out) : u.out[i].protocol = "amqp"
    BY <1>3 DEF Beaten
<1>5. OwnClient(u.conn)
  <2>1. u.conn.kind \in {"Client", "undefined"} /\ u.conn.local_open
    BY <1>1, <1>4 DEF OwnClient
  <2>2. ~ u.conn.amqp.read_complete /\ ~ u.conn.amqp.write_complete
    BY <1>1, <1>4 DEF OwnClient, SameReading
  <2>3. CASE u.conn.sasl = c.sasl
    BY <1>1, <1>4, <2>1, <2>2, <2>3 DEF OwnClient
  <2>4. CASE WritesTo(c) = "sasl" /\ u.conn.sasl.pending = <<>> /\ u.conn.sasl.header_sent
    <3>1. u.conn.kind = "Client"
        BY <1>2, <1>4, <2>4
    <3> QED BY <2>1, <2>2, <2>4, <3>1 DEF OwnClient
  <2> QED BY <1>4, <2>3, <2>4
<1>6. Heard(u.conn, units, count)
  <2>1. \A P \in Protocols : u.conn[P].header_received = c[P].header_received
    BY <1>4 DEF SameReading, Protocols
  <2>2. /\ count <= Bytes(units) /\ (c.remote_open => Has(units, "amqp"))
        /\ c.held <= count /\ OnEdge(units, c.held)
        /\ \A P \in Protocols : c[P].header_received <=> PastOf(units, c.held, P)
        /\ c.frame_size > 0 => Awaited(units, c.held, count, c.frame_size)
    BY <1>1 DEF Heard
  <2>3. u.conn.held = c.held /\ u.conn.frame_size = c.frame_size /\ u.conn.remote_open = c.remote_open
    BY <1>4
  <2> QED BY <2>1, <2>2, <2>3 DEF Heard
<1>7. Heeds(u.conn, units, count, eager)
    BY <1>4 DEF Heeds
<1>8. c.held <= c.held
    BY ConnFields
<1>9. /\ u.conn.sasl.read_complete = c.sasl.read_complete
      /\ u.conn.sasl.write_complete = c.sasl.write_complete
    BY <1>4 DEF SameReading
<1>10. /\ c.sasl.read_complete <=> c.sasl.write_complete
       /\ Past(units, c.held, Outcomes) => c.sasl.read_complete
    BY <1>1 DEF ClientMay
<1>11. WritesTo(c) = "amqp" => c.kind = "undefined" \/ c.sasl.read_complete
    BY <1>1, <1>2, <1>10 DEF OwnClient
<1>12. ClientDid(c, u.conn, u.out, units)
    BY <1>4, <1>8, <1>9, <1>10, <1>11 DEF ClientDid
<1> QED BY <1>4, <1>5, <1>6, <1>7, <1>12 DEF ClientStep

\* ... and of the server.
LEMMA ServerBeat ==
    ASSUME NEW c \in Connections, NEW w, NEW units, NEW count,
           ServerReady(c, w, units, count), InParts(units, c.held, count), c.remote_open,
           NEW u, u = Output(Encode(Begins(c), "amqp", "empty"))
    PROVE  ServerStep(c, w, units, count, u)
<1>1. /\ OwnServer(c) /\ ~ c.ended /\ Heard(c, units, count) /\ Writing("server", c, w)
    BY DEF ServerReady
<1>2. WritesTo(c) = "amqp" /\ (Uses(c) = "sasl" => c.sasl.write_complete) /\ Uses(c) # "undefined"
  <2>1. Uses(c) \in {"amqp", "sasl", "undefined"}
    BY WritesToIs DEF Protocols
  <2> QED BY <1>1, <2>1, ServerLayer DEF OwnServer
<1>3. Beaten("server", c, w, u)
  <2>1. "server" \in Peers
    BY DEF Peers
  <2> QED BY <1>1, <1>2, <2>1, BeatIs
<1>4. /\ u \in Turns /\ u.promises = 0
      /\ u.conn.kind = c.kind /\ u.conn.eager = c.eager /\ u.conn.selected = c.selected
      /\ u.conn.held = c.held /\ u.conn.frame_size = c.frame_size
      /\ u.conn.remote_open = c.remote_open
      /\ SameReading(c.amqp, u.conn.amqp)
      /\ u.conn.sasl = c.sasl
      /\ Writing("server", u.conn, w \o u.out)
      /\ \/ u.out = <<>>
         \/ \A i \in 1..Len(u.out) : u.out[i].protocol = "amqp"
    BY <1>2, <1>3 DEF Beaten
<1>5. Uses(u.conn) = Uses(c)
    BY <1>4 DEF Uses
<1>6. OwnServer(u.conn)
    BY <1>1, <1>2, <1>4, <1>5 DEF OwnServer, SameReading
<1>7. Heard(u.conn, units, count)
  <2>1. \A P \in Protocols : u.conn[P].header_received = c[P].header_received
    BY <1>4 DEF SameReading, Protocols
  <2> QED BY <1>1, <1>4, <2>1 DEF Heard
<1>8. InParts(units, u.conn.held, count)
    BY <1>4
<1>9. c.held <= c.held
    BY ConnFields
<1>10. ServerDid(c, u.conn, u.out, u.promises, units)
    BY <1>2, <1>4, <1>5, <1>9 DEF ServerDid
<1> QED BY <1>4, <1>6, <1>7, <1>8, <1>10 DEF ServerStep

-----------------------------------------------------------------------------
(* What the other writes.                                                  *)

\* What more units leave as it is, and where they begin.
Longer(units, x, longer) ==
    /\ longer \in Seq(Units) /\ Len(units) \in Nat /\ Len(longer) \in Nat
    /\ Len(longer) = Len(units) + Len(x)
    /\ DOMAIN longer = 1..Len(longer) /\ DOMAIN units = 1..Len(units)
    /\ Bytes(units) \in Nat /\ Bytes(longer) \in Nat /\ Bytes(units) <= Bytes(longer)
    /\ \A j \in 1..Len(units) : /\ j \in 1..Len(longer) /\ longer[j] = units[j]
                                /\ Offsets(longer)[j] = Offsets(units)[j]
                                /\ Offsets(units)[j] \in Nat
                                /\ Offsets(units)[j] < Bytes(units)
    /\ \A j \in 1..Len(longer) : j > Len(units) =>
          /\ j - Len(units) \in DOMAIN x /\ longer[j] = x[j - Len(units)]
          /\ Offsets(longer)[j] \in Nat /\ Offsets(longer)[j] >= Bytes(units)

\* More units leave those before them where they were.
LEMMA MoreUnits ==
    ASSUME NEW units \in Seq(Units), NEW x \in Seq(Units), NEW longer, longer = units \o x
    PROVE  Longer(units, x, longer)
<1>1. /\ Len(units) \in Nat /\ Len(x) \in Nat /\ longer \in Seq(Units)
      /\ Len(longer) = Len(units) + Len(x) /\ DOMAIN x = 1..Len(x)
      /\ \A k \in 1..Len(units) : longer[k] = units[k]
      /\ \A k \in DOMAIN longer : k > Len(units) =>
            k - Len(units) \in 1..Len(x) /\ longer[k] = x[k - Len(units)]
    BY ConcatIs
<1>2. DOMAIN longer = 1..Len(longer) /\ DOMAIN units = 1..Len(units) /\ Len(longer) \in Nat
    BY <1>1, LenProperties
<1>3. \A k \in 1..(Len(units) + 1) : Offsets(longer)[k] = Offsets(units)[k]
    BY OffsetsOfMore
<1>4. Bytes(units) = Offsets(units)[Len(units) + 1] /\ Bytes(longer) = Offsets(longer)[Len(longer) + 1]
    BY DEF Bytes
<1>5. Bytes(units) \in Nat /\ Bytes(longer) \in Nat
    BY <1>1, NothingAtEnd
<1>6. \A j \in (Len(units) + 1)..(Len(longer) + 1) :
         Offsets(longer)[j] \in Nat /\ Offsets(longer)[j] >= Bytes(units)
  <2>1. SUFFICES ASSUME NEW j \in (Len(units) + 1)..(Len(longer) + 1)
                 PROVE  Offsets(longer)[j] \in Nat /\ Offsets(longer)[j] >= Bytes(units)
    OBVIOUS
  <2>2. Len(units) + 1 \in 1..(Len(longer) + 1) /\ j \in 1..(Len(longer) + 1)
    BY <1>1, <1>2
  <2>3. Offsets(longer)[Len(units) + 1] = Bytes(units)
    BY <1>1, <1>3, <1>4
  <2>4. Offsets(longer)[j] \in Nat
    BY <1>1, <2>2, OffsetsType
  <2>5. CASE j = Len(units) + 1
    BY <1>5, <2>3, <2>4, <2>5
  <2>6. CASE j # Len(units) + 1
    <3>1. Len(units) + 1 < j
        BY <1>1, <2>6
    <3>2. Offsets(longer)[Len(units) + 1] < Offsets(longer)[j]
        BY <1>1, <2>2, <3>1, AtOrder
    <3> QED BY <1>5, <2>3, <2>4, <3>2
  <2> QED BY <2>5, <2>6
<1>7. Bytes(units) <= Bytes(longer)
  <2>1. Len(longer) + 1 \in (Len(units) + 1)..(Len(longer) + 1)
    BY <1>1, <1>2
  <2> QED BY <1>4, <1>6, <2>1
<1>8. \A j \in 1..Len(units) : /\ j \in 1..Len(longer) /\ longer[j] = units[j]
                               /\ Offsets(longer)[j] = Offsets(units)[j]
                               /\ Offsets(units)[j] \in Nat
                               /\ Offsets(units)[j] < Bytes(units)
  <2>1. SUFFICES ASSUME NEW j \in 1..Len(units)
                 PROVE  /\ j \in 1..Len(longer) /\ longer[j] = units[j]
                        /\ Offsets(longer)[j] = Offsets(units)[j]
                        /\ Offsets(units)[j] \in Nat
                        /\ Offsets(units)[j] < Bytes(units)
    OBVIOUS
  <2>2. j \in 1..(Len(units) + 1) /\ Len(units) + 1 \in 1..(Len(units) + 1) /\ j < Len(units) + 1
        /\ j \in 1..Len(longer)
    BY <1>1
  <2>3. Offsets(units)[j] \in Nat /\ Offsets(units)[j] < Offsets(units)[Len(units) + 1]
    BY <2>2, AtOrder
  <2> QED BY <1>1, <1>3, <1>4, <2>2, <2>3
<1>9. \A j \in 1..Len(longer) : j > Len(units) =>
         /\ j - Len(units) \in DOMAIN x /\ longer[j] = x[j - Len(units)]
         /\ Offsets(longer)[j] \in Nat /\ Offsets(longer)[j] >= Bytes(units)
  <2>1. SUFFICES ASSUME NEW j \in 1..Len(longer), j > Len(units)
                 PROVE  /\ j - Len(units) \in DOMAIN x /\ longer[j] = x[j - Len(units)]
                        /\ Offsets(longer)[j] \in Nat /\ Offsets(longer)[j] >= Bytes(units)
    OBVIOUS
  <2>2. j \in (Len(units) + 1)..(Len(longer) + 1) /\ j \in DOMAIN longer
    BY <1>1, <1>2, <2>1
  <2> QED BY <1>1, <1>6, <2>1, <2>2
<1> QED BY <1>1, <1>2, <1>5, <1>7, <1>8, <1>9 DEF Longer

\* What is told of units by what is past, and due, when there are more.
LEMMA MoreDue ==
    ASSUME NEW units \in Seq(Units), NEW x \in Seq(Units), NEW longer, longer = units \o x,
           NEW held, NEW names
    PROVE  /\ Due(units, held, names) => Due(longer, held, names)
           /\ Due(longer, held, names) => Due(units, held, names) \/ Said(x, names)
           /\ Past(units, held, names) => Past(longer, held, names)
           /\ Past(longer, held, names) => Past(units, held, names) \/ Said(x, names)
           /\ held \in Nat /\ held <= Bytes(units) =>
                (Past(longer, held, names) => Past(units, held, names))
<1>1. /\ DOMAIN longer = 1..Len(longer) /\ DOMAIN units = 1..Len(units)
      /\ Len(units) \in Nat /\ Bytes(units) \in Nat
      /\ \A j \in 1..Len(units) : /\ j \in 1..Len(longer) /\ longer[j] = units[j]
                                  /\ Offsets(longer)[j] = Offsets(units)[j]
      /\ \A j \in 1..Len(longer) : j > Len(units) =>
            /\ j - Len(units) \in DOMAIN x /\ longer[j] = x[j - Len(units)]
            /\ Offsets(longer)[j] \in Nat /\ Offsets(longer)[j] >= Bytes(units)
  <2>1. Longer(units, x, longer)
    BY MoreUnits
  <2> QED BY <2>1 DEF Longer
<1>2. Due(units, held, names) => Due(longer, held, names)
    BY <1>1 DEF Due
<1>3. Due(longer, held, names) => Due(units, held, names) \/ Said(x, names)
  <2>1. SUFFICES ASSUME NEW j \in DOMAIN longer, Offsets(longer)[j] >= held, longer[j].name \in names
                 PROVE  Due(units, held, names) \/ Said(x, names)
    BY DEF Due
  <2>2. CASE j > Len(units)
    BY <1>1, <2>1, <2>2 DEF Said
  <2>3. CASE ~ (j > Len(units))
    <3>1. j \in 1..Len(units)
        BY <1>1, <2>3
    <3> QED BY <1>1, <2>1, <3>1 DEF Due
  <2> QED BY <2>2, <2>3
<1>4. Past(units, held, names) => Past(longer, held, names)
    BY <1>1 DEF Past
<1>5. Past(longer, held, names) => \/ Past(units, held, names)
                                   \/ Said(x, names) /\ ~ (held \in Nat /\ held <= Bytes(units))
  <2>1. SUFFICES ASSUME NEW j \in DOMAIN longer, Offsets(longer)[j] < held, longer[j].name \in names
                 PROVE  \/ Past(units, held, names)
                        \/ Said(x, names) /\ ~ (held \in Nat /\ held <= Bytes(units))
    BY DEF Past
  <2>2. CASE j > Len(units)
    <3>1. Said(x, names)
        BY <1>1, <2>1, <2>2 DEF Said
    <3>2. ~ (held \in Nat /\ held <= Bytes(units))
        BY <1>1, <2>1, <2>2
    <3> QED BY <3>1, <3>2
  <2>3. CASE ~ (j > Len(units))
    <3>1. j \in 1..Len(units)
        BY <1>1, <2>3
    <3> QED BY <1>1, <2>1, <3>1 DEF Past
  <2> QED BY <2>2, <2>3
<1> QED BY <1>2, <1>3, <1>4, <1>5

\* Only the last of what is added may be the next of these.
LEMMA MoreLast ==
    ASSUME NEW units \in Seq(Units), NEW x \in Seq(Units), NEW longer, longer = units \o x,
           NEW held, NEW names, ~ Due(units, held, names),
           \A i \in 1..Len(x) : x[i].name \in names => i = Len(x)
    PROVE  Last(longer, held, names)
<1>1. SUFFICES ASSUME NEW j \in DOMAIN longer, Offsets(longer)[j] >= held, longer[j].name \in names
               PROVE  j = Len(longer)
    BY DEF Last
<1>2. /\ DOMAIN longer = 1..Len(longer) /\ DOMAIN units = 1..Len(units)
      /\ Len(units) \in Nat /\ Len(longer) = Len(units) + Len(x)
      /\ \A i \in 1..Len(units) : longer[i] = units[i] /\ Offsets(longer)[i] = Offsets(units)[i]
      /\ \A i \in 1..Len(longer) : i > Len(units) =>
            i - Len(units) \in DOMAIN x /\ longer[i] = x[i - Len(units)]
  <2>1. Longer(units, x, longer)
    BY MoreUnits
  <2> QED BY <2>1 DEF Longer
<1>3. DOMAIN x = 1..Len(x) /\ Len(x) \in Nat
    BY LenProperties
<1>4. j > Len(units)
  <2>1. SUFFICES ASSUME ~ (j > Len(units))
                 PROVE  FALSE
    OBVIOUS
  <2>2. j \in 1..Len(units)
    BY <1>2, <2>1
  <2> QED BY <1>1, <1>2, <2>2 DEF Due
<1>5. j - Len(units) = Len(x)
  <2>1. j - Len(units) \in 1..Len(x) /\ x[j - Len(units)].name \in names
    BY <1>1, <1>2, <1>3, <1>4
  <2>2. PICK i \in 1..Len(x) : i = j - Len(units)
    BY <2>1
  <2>3. x[i].name \in names
    BY <2>1, <2>2
  <2>4. i = Len(x)
    BY <2>3
  <2> QED BY <2>2, <2>4
<1>6. j \in Int /\ Len(units) \in Int /\ Len(x) \in Int /\ Len(longer) = Len(units) + Len(x)
  <2>1. Len(units) \in Int /\ Len(x) \in Int /\ Len(longer) = Len(units) + Len(x)
    <3>1. Longer(units, x, longer)
        BY MoreUnits
    <3>2. Len(longer) = Len(units) + Len(x) /\ Len(units) \in Nat
        BY <3>1 DEF Longer
    <3>3. Len(x) \in Nat
        BY LenProperties
    <3>4. \A n \in Nat : n \in Int
        OBVIOUS
    <3> QED BY <3>2, <3>3, <3>4, Zenon
  <2>2. DOMAIN longer = 1..Len(longer)
    BY <1>2
  <2>3. j \in 1..Len(longer)
    BY <2>2, Zenon
  <2>4. \A i \in 1..Len(longer) : i \in Int
    OBVIOUS
  <2>5. j \in Int
    BY <2>3, <2>4, Zenon
  <2> QED BY <2>1, <2>5
<1>7. j = Len(units) + Len(x)
    BY <1>5, <1>6
<1> QED BY <1>6, <1>7

\* What is read later is less.
LEMMA LaterDue ==
    ASSUME NEW units \in Seq(Units), NEW held \in Nat, NEW later \in Nat, held <= later, NEW names
    PROVE  /\ Due(units, later, names) => Due(units, held, names)
           /\ Last(units, held, names) => Last(units, later, names)
           /\ later = Bytes(units) => ~ Due(units, later, names)
<1>1. /\ DOMAIN units = 1..Len(units) /\ Len(units) \in Nat
      /\ \A j \in 1..Len(units) : Offsets(units)[j] \in Nat
    BY LenProperties, OffsetsType
<1>2. \A j \in 1..Len(units) : Offsets(units)[j] >= later => Offsets(units)[j] >= held
    BY <1>1
<1>3. \A j \in 1..Len(units) : Offsets(units)[j] < Bytes(units)
  <2>1. <<>> \in Seq(Units)
    OBVIOUS
  <2>2. Longer(units, <<>>, units \o <<>>)
    BY <2>1, MoreUnits
  <2> QED BY <2>2 DEF Longer
<1>4. Bytes(units) \in Nat
    BY NothingAtEnd
<1>5. Due(units, later, names) => Due(units, held, names)
    BY <1>1, <1>2 DEF Due
<1>6. Last(units, held, names) => Last(units, later, names)
    BY <1>1, <1>2 DEF Last
<1>7. later = Bytes(units) => ~ Due(units, later, names)
    BY <1>1, <1>3, <1>4 DEF Due
<1> QED BY <1>5, <1>6, <1>7

\* A reader keeps what it has when there is more to read.
ReadAlike(units, longer, held, count) ==
    /\ OnEdge(longer, held)
    /\ \A P : PastOf(longer, held, P) <=> PastOf(units, held, P)
    /\ \A size : Awaited(units, held, count, size) => Awaited(longer, held, count, size)
    /\ InParts(units, held, count) => InParts(longer, held, count)
    /\ StartsAt(units, held) => UnitAt(longer, held) = UnitAt(units, held)

\* What has been read is the same when more is written.
LEMMA MoreRead ==
    ASSUME NEW units \in Seq(Units), NEW x \in Seq(Units), NEW longer, longer = units \o x,
           NEW held \in Nat, NEW count \in Nat, held <= count, count <= Bytes(units),
           OnEdge(units, held)
    PROVE  ReadAlike(units, longer, held, count)
<1>1. /\ longer \in Seq(Units)
      /\ DOMAIN longer = 1..Len(longer) /\ DOMAIN units = 1..Len(units)
      /\ Len(units) \in Nat /\ Len(longer) \in Nat /\ Len(units) <= Len(longer)
      /\ Bytes(units) \in Nat
      /\ \A j \in 1..Len(units) : /\ j \in 1..Len(longer) /\ longer[j] = units[j]
                                  /\ Offsets(longer)[j] = Offsets(units)[j]
                                  /\ Offsets(units)[j] \in Nat
      /\ \A j \in 1..Len(longer) : j > Len(units) =>
            Offsets(longer)[j] \in Nat /\ Offsets(longer)[j] >= Bytes(units)
  <2>1. Longer(units, x, longer)
    BY MoreUnits
  <2>2. Len(x) \in Nat
    BY LenProperties
  <2>3. Len(units) <= Len(longer)
    BY <2>1, <2>2 DEF Longer
  <2> QED BY <2>1, <2>3 DEF Longer
<1>2. OnEdge(longer, held)
  <2>1. \A k \in 1..(Len(units) + 1) : Offsets(longer)[k] = Offsets(units)[k]
    BY OffsetsOfMore
  <2>2. \A k \in 1..(Len(units) + 1) : k \in 1..(Len(longer) + 1)
    BY <1>1
  <2> QED BY <2>1, <2>2 DEF OnEdge
<1>3. \A P : PastOf(longer, held, P) <=> PastOf(units, held, P)
  <2>1. SUFFICES ASSUME NEW P
                 PROVE  PastOf(longer, held, P) <=> PastOf(units, held, P)
    OBVIOUS
  <2>2. PastOf(units, held, P) => PastOf(longer, held, P)
    BY <1>1 DEF PastOf
  <2>3. ASSUME NEW j \in 1..Len(longer), Offsets(longer)[j] < held
        PROVE  j \in 1..Len(units)
    <3>1. ~ (j > Len(units))
        BY <1>1, <2>3
    <3> QED BY <1>1, <3>1
  <2> QED BY <1>1, <2>2, <2>3 DEF PastOf
<1>4. \A size : Awaited(units, held, count, size) => Awaited(longer, held, count, size)
    BY <1>1 DEF Awaited
<1>5. ASSUME StartsAt(units, held)
      PROVE  UnitAt(longer, held) = UnitAt(units, held)
  <2>1. PICK n \in 1..Len(units) : Offsets(units)[n] = held
    BY <1>5 DEF StartsAt
  <2>2. n \in 1..Len(longer) /\ Offsets(longer)[n] = held /\ longer[n] = units[n]
    BY <1>1, <2>1
  <2>3. UnitAt(units, held) = units[n]
    BY <2>1, UnitAtStart
  <2>4. UnitAt(longer, held) = longer[n]
    BY <1>1, <2>2, UnitAtStart
  <2> QED BY <2>2, <2>3, <2>4
<1>6. ASSUME InParts(units, held, count)
      PROVE  InParts(longer, held, count)
  <2>1. SUFFICES ASSUME StartsAt(longer, held)
                 PROVE  count < held + Size[UnitAt(longer, held).name]
    BY DEF InParts
  <2>2. CASE StartsAt(units, held)
    BY <1>5, <1>6, <2>2 DEF InParts
  <2>3. CASE ~ StartsAt(units, held)
    <3>1. ~ (held < Bytes(units))
        BY <2>3, EdgeBeforeEnd
    <3>2. count = held
        BY <1>1, <3>1
    <3>3. PICK n \in 1..Len(longer) : Offsets(longer)[n] = held
        BY <2>1 DEF StartsAt
    <3>4. UnitAt(longer, held) = longer[n]
        BY <1>1, <3>3, UnitAtStart
    <3>5. Size[longer[n].name] \in Nat /\ Size[longer[n].name] >= 8
        BY <1>1, UnitSize
    <3> QED BY <3>2, <3>4, <3>5
  <2> QED BY <2>2, <2>3
<1> QED BY <1>2, <1>3, <1>4, <1>5, <1>6 DEF ReadAlike

\* What a peer has heard stays so when the other writes.
LEMMA HeardMore ==
    ASSUME NEW c \in Connections, NEW units \in Seq(Units), NEW x \in Seq(Units),
           NEW longer, longer = units \o x, NEW count \in Nat, Heard(c, units, count)
    PROVE  /\ Heard(c, longer, count)
           /\ ~ c.ended /\ InParts(units, c.held, count) => InParts(longer, c.held, count)
           /\ \A eager : ~ c.ended /\ Heeds(c, units, count, eager) => Heeds(c, longer, count, eager)
<1>1. /\ count <= Bytes(units) /\ Bytes(units) \in Nat /\ Bytes(longer) \in Nat
      /\ Bytes(units) <= Bytes(longer)
  <2>1. Longer(units, x, longer)
    BY MoreUnits
  <2> QED BY <2>1 DEF Longer, Heard
<1>2. count <= Bytes(longer)
    BY <1>1
<1>3. c.remote_open => Has(longer, "amqp")
    BY HasMore DEF Heard
<1>4. CASE c.ended
    BY <1>2, <1>3, <1>4 DEF Heard
<1>5. CASE ~ c.ended
  <2>1. /\ c.held <= count /\ OnEdge(units, c.held) /\ c.held \in Nat
        /\ \A P \in Protocols : c[P].header_received <=> PastOf(units, c.held, P)
        /\ c.frame_size > 0 => Awaited(units, c.held, count, c.frame_size)
    BY <1>5, ConnFields DEF Heard
  <2>2. /\ OnEdge(longer, c.held)
        /\ \A P : PastOf(longer, c.held, P) <=> PastOf(units, c.held, P)
        /\ \A size : Awaited(units, c.held, count, size) => Awaited(longer, c.held, count, size)
        /\ InParts(units, c.held, count) => InParts(longer, c.held, count)
        /\ StartsAt(units, c.held) => UnitAt(longer, c.held) = UnitAt(units, c.held)
    <3>1. ReadAlike(units, longer, c.held, count)
        BY <1>1, <2>1, MoreRead
    <3> QED BY <3>1 DEF ReadAlike
  <2>3. Heard(c, longer, count)
    BY <1>2, <1>3, <2>1, <2>2 DEF Heard
  <2>4. ASSUME NEW eager, Heeds(c, units, count, eager)
        PROVE  Heeds(c, longer, count, eager)
    <3>1. CASE InParts(units, c.held, count)
        BY <2>2, <3>1 DEF Heeds
    <3>2. CASE c.kind = "Client" /\ eager /\ UnitAt(units, c.held) = Header("amqp")
      <4>1. StartsAt(units, c.held)
        <5>1. SUFFICES ASSUME ~ StartsAt(units, c.held)
                       PROVE  FALSE
            OBVIOUS
        <5>2. UnitAt(units, c.held).name = "none"
            BY <5>1 DEF UnitAt
        <5> QED BY <3>2, <5>2 DEF Header
      <4> QED BY <2>2, <3>2, <4>1 DEF Heeds
    <3> QED BY <2>4, <3>1, <3>2 DEF Heeds
  <2> QED BY <2>2, <2>3, <2>4
<1> QED BY <1>4, <1>5

-----------------------------------------------------------------------------
(* The negotiation, of both.                                               *)

\* What is due or past was said.
LEMMA WhatIsSaid ==
    ASSUME NEW units, NEW held, NEW names
    PROVE  /\ Due(units, held, names) => Said(units, names)
           /\ Past(units, held, names) => Said(units, names)
BY DEF Due, Past, Said

\* The frames of the negotiation are of SASL.
LEMMA SaidIsSasl ==
    ASSUME NEW p \in Peers, NEW units \in Seq(Vocabulary(p)), NEW names,
           names \subseteq Questions \cup Replies \cup Outcomes, Said(units, names)
    PROVE  Has(units, "sasl")
<1>1. DOMAIN units = 1..Len(units)
    BY LenProperties
<1>2. PICK k \in DOMAIN units : units[k].name \in names
    BY DEF Said
<1>3. units[k] \in Vocabulary(p)
    BY <1>1, ElementOfSeq
<1>4. units[k].protocol \in Protocols /\ units[k].name \in {"header"} \cup Spoken(p, units[k].protocol)
    BY <1>3, VocabularyIs
<1>5. units[k].name \notin {"header", "open", "empty"}
    BY <1>2 DEF Questions, Replies, Outcomes
<1>6. units[k].protocol # "amqp"
    BY <1>4, <1>5 DEF Spoken
<1> QED BY <1>4, <1>6 DEF Has, Protocols

\* A sequence is one of the set that its elements are from.
LEMMA SeqOf ==
    ASSUME NEW S, NEW T, NEW s \in Seq(S), \A i \in 1..Len(s) : s[i] \in T
    PROVE  s \in Seq(T)
<1>1. Len(s) \in Nat /\ s \in [1..Len(s) -> S]
    BY LenProperties
<1>2. s \in [1..Len(s) -> T]
    BY <1>1
<1>3. PICK n \in Nat : n = Len(s)
    BY <1>1
<1>4. s \in [1..n -> T]
    BY <1>2, <1>3
<1> QED BY <1>3, <1>4, SeqDef

\* Of what a peer has written, every part is of its words.
LEMMA PartSpoken ==
    ASSUME NEW p \in Peers, NEW units \in Seq(Units), NEW x \in Seq(Units),
           NEW longer \in Seq(Vocabulary(p)), longer = units \o x
    PROVE  units \in Seq(Vocabulary(p)) /\ x \in Seq(Vocabulary(p))
<1>1. /\ Len(units) \in Nat /\ Len(x) \in Nat
      /\ DOMAIN longer = 1..(Len(units) + Len(x))
      /\ \A k \in 1..Len(units) : longer[k] = units[k]
      /\ \A k \in 1..Len(x) : Len(units) + k \in DOMAIN longer /\ longer[Len(units) + k] = x[k]
    BY ConcatIs
<1>2. \A k \in DOMAIN longer : longer[k] \in Vocabulary(p)
    BY LenProperties, ElementOfSeq
<1>3. \A k \in 1..Len(units) : units[k] \in Vocabulary(p)
  <2>1. \A k \in 1..Len(units) : k \in DOMAIN longer
    BY <1>1
  <2> QED BY <1>1, <1>2, <2>1
<1>4. \A k \in 1..Len(x) : x[k] \in Vocabulary(p)
    BY <1>1, <1>2
<1> QED BY <1>3, <1>4, SeqOf

\* AMQP has no part in the negotiation.
LEMMA AmqpSays ==
    ASSUME NEW p \in Peers, NEW x \in Seq(Vocabulary(p)),
           \A i \in 1..Len(x) : x[i].protocol = "amqp",
           NEW names, names \subseteq Questions \cup Replies \cup Outcomes
    PROVE  ~ Said(x, names) /\ ~ Has(x, "sasl")
<1>1. DOMAIN x = 1..Len(x)
    BY LenProperties
<1>2. ~ Has(x, "sasl")
    BY <1>1 DEF Has
<1> QED BY <1>2, SaidIsSasl

\* A frame of SASL that is written alone.
LEMMA SaysIs ==
    ASSUME NEW name, NEW x, x = Says(name)
    PROVE  /\ Len(x) = 1 /\ DOMAIN x = 1..1 /\ x[1].name = name /\ x[1].protocol = "sasl"
           /\ \A names : Said(x, names) <=> name \in names
           /\ ~ Has(x, "amqp")
<1>1. Len(x) = 1 /\ DOMAIN x = 1..1 /\ x[1].name = name /\ x[1].protocol = "sasl"
    BY DEF Says
<1>2. \A k \in DOMAIN x : k = 1
    BY <1>1
<1>3. 1 \in DOMAIN x
    BY <1>1
<1>4. \A names : Said(x, names) <=> name \in names
    BY <1>1, <1>2, <1>3 DEF Said
<1>5. ~ Has(x, "amqp")
    BY <1>1, <1>2 DEF Has
<1> QED BY <1>1, <1>4, <1>5

\* The first that the server writes in SASL is no answer and no outcome.
LEMMA GreetsIs ==
    ASSUME NEW x, Greets(x), NEW DOM, DOM = DOMAIN x, DOM = 1..Len(x)
    PROVE  /\ ~ Has(x, "amqp") /\ ~ Said(x, Replies) /\ ~ Said(x, Outcomes) /\ ~ Said(x, {"ok"})
           /\ \A i \in 1..Len(x) : x[i].name \in Questions => i = Len(x)
           /\ x # <<>>
<1>1. /\ Len(x) = 2 /\ x[1].protocol = "sasl" /\ x[2].protocol = "sasl"
      /\ x[1].name = "header" /\ x[2].name = "mechanisms"
    BY DEF Greets
<1>2. \A i \in 1..Len(x) : i = 1 \/ i = 2
    BY <1>1
<1>3. ~ Has(x, "amqp")
    BY <1>1, <1>2 DEF Has
<1>4. ~ Said(x, Replies) /\ ~ Said(x, Outcomes) /\ ~ Said(x, {"ok"})
    BY <1>1, <1>2 DEF Said, Replies, Outcomes
<1>5. \A i \in 1..Len(x) : x[i].name \in Questions => i = Len(x)
    BY <1>1, <1>2 DEF Questions
<1>6. x # <<>>
    BY <1>1
<1> QED BY <1>3, <1>4, <1>5, <1>6

\* AMQP that is added comes behind an ok, if one was written.
LEMMA GrantedMore ==
    ASSUME NEW units \in Seq(Units), NEW x \in Seq(Units), NEW longer, longer = units \o x,
           Granted(units), ~ Has(x, "amqp") \/ Said(units, {"ok"})
    PROVE  Granted(longer)
<1>1. Longer(units, x, longer)
    BY MoreUnits
<1>2. /\ DOMAIN longer = 1..Len(longer) /\ DOMAIN units = 1..Len(units) /\ Len(units) \in Nat
      /\ \A j \in 1..Len(units) : longer[j] = units[j]
      /\ \A j \in 1..Len(longer) : j > Len(units) =>
            j - Len(units) \in DOMAIN x /\ longer[j] = x[j - Len(units)]
    BY <1>1 DEF Longer
<1>3. SUFFICES ASSUME NEW k \in 1..Len(longer), longer[k].protocol = "amqp"
               PROVE  \E j \in 1..(k - 1) : longer[j].name = "ok"
    BY <1>2 DEF Granted
<1>4. Len(longer) \in Nat
    BY <1>1 DEF Longer
<1>5. CASE k > Len(units)
  <2>1. Has(x, "amqp")
    BY <1>2, <1>3, <1>5 DEF Has
  <2>2. PICK j \in 1..Len(units) : units[j].name \in {"ok"}
    BY <1>2, <2>1 DEF Said
  <2>3. j \in 1..(k - 1) /\ longer[j].name = "ok"
    BY <1>2, <1>4, <1>5, <2>2
  <2> QED BY <2>3
<1>6. CASE ~ (k > Len(units))
  <2>1. k \in 1..Len(units)
    BY <1>2, <1>4, <1>6
  <2>2. units[k].protocol = "amqp"
    BY <1>2, <1>3, <2>1
  <2>3. PICK j \in 1..(k - 1) : units[j].name = "ok"
    BY <1>2, <2>1, <2>2 DEF Granted
  <2>4. j \in 1..Len(units)
    BY <1>2, <2>1
  <2>5. longer[j].name = "ok"
    BY <1>2, <2>3, <2>4
  <2> QED BY <2>3, <2>5
<1> QED BY <1>5, <1>6

\* At most one question or answer is under way, or with the mechanism.
Turned(c, s, cw, sw, k, g) ==
    /\ k \in 0..1
    /\ ~ s.ended => Last(cw, s.held, Replies) /\ (Due(cw, s.held, Replies) => k = 0)
    /\ ~ c.ended =>
         /\ Last(sw, c.held, Questions)
         /\ Due(sw, c.held, Questions) => k = 0 /\ (~ s.ended => ~ Due(cw, s.held, Replies))
    /\ g \/ Said(sw, Outcomes) =>
         /\ k = 0
         /\ ~ s.ended => ~ Due(cw, s.held, Replies)
         /\ ~ c.ended => ~ Due(sw, c.held, Questions)
    /\ ~ s.sasl.header_sent => ~ Said(cw, Replies)
    /\ k > 0 \/ g => Said(cw, Replies) /\ Uses(s) = "sasl"
    /\ (k = 1 \/ (g /\ ~ c.sasl.read_complete)) /\ ~ s.ended => s.held = Bytes(cw)

\* The layers are left when the mechanism has accepted.
Agreed(c, s, cw, sw, g) ==
    /\ s.sasl.read_complete <=> g
    /\ Said(sw, {"ok"}) => g
    /\ g /\ ~ s.ended => Said(sw, {"ok"})
    /\ c.sasl.read_complete => g
    /\ ~ c.ended => (c.sasl.read_complete <=> c.sasl.write_complete)
    /\ ~ c.ended /\ Past(sw, c.held, Outcomes) => c.sasl.read_complete
    /\ c.kind = "Client" /\ Has(cw, "amqp") => c.sasl.read_complete
    /\ Uses(s) = "sasl" => Granted(sw)
    /\ Uses(s) = "sasl" /\ ~ s.eager /\ Has(sw, "amqp") => c.sasl.read_complete

Met(c, s, cw, sw, k, g) == Turned(c, s, cw, sw, k, g) /\ Agreed(c, s, cw, sw, g)

\* What the client has read and not read only gets less.
LEMMA ClientOnward ==
    ASSUME NEW c \in Connections, NEW d \in Connections, NEW x, NEW sw \in Seq(Units),
           ~ c.ended, ClientDid(c, d, x, sw)
    PROVE  ~ d.ended =>
             /\ Last(sw, c.held, Questions) => Last(sw, d.held, Questions)
             /\ Due(sw, d.held, Questions) => Due(sw, c.held, Questions)
             /\ d.held = Bytes(sw) => ~ Due(sw, d.held, Questions)
<1>1. SUFFICES ASSUME ~ d.ended
               PROVE  /\ Last(sw, c.held, Questions) => Last(sw, d.held, Questions)
                      /\ Due(sw, d.held, Questions) => Due(sw, c.held, Questions)
                      /\ d.held = Bytes(sw) => ~ Due(sw, d.held, Questions)
    OBVIOUS
<1>2. c.held \in Nat /\ d.held \in Nat /\ c.held <= d.held
    BY <1>1, ConnFields DEF ClientDid
<1> QED BY <1>2, LaterDue

\* A step of the client keeps to the negotiation.
ClientMoves(c, d, s, cw, x, longer, sw, k, g) ==
    /\ c \in Connections /\ d \in Connections /\ s \in Connections
    /\ cw \in Seq(Units) /\ x \in Seq(Units)
    /\ longer \in Seq(Vocabulary("client")) /\ longer = cw \o x
    /\ sw \in Seq(Vocabulary("server")) /\ g \in BOOLEAN
    /\ Met(c, s, cw, sw, k, g) /\ OwnClient(c) /\ ~ c.ended /\ ClientDid(c, d, x, sw)
    /\ Has(cw, "sasl") => c.sasl.header_sent
    /\ Has(sw, "sasl") => s.sasl.header_sent

\* Whose turn it is, and what both agree on, after a step of the client.
LEMMA ClientMet ==
    ASSUME NEW c, NEW d, NEW s, NEW cw, NEW x, NEW longer, NEW sw, NEW k, NEW g,
           ClientMoves(c, d, s, cw, x, longer, sw, k, g)
    PROVE  Met(d, s, longer, sw, k, g)
<1>a. /\ c \in Connections /\ d \in Connections /\ s \in Connections
      /\ cw \in Seq(Units) /\ x \in Seq(Units)
      /\ longer \in Seq(Vocabulary("client")) /\ longer = cw \o x
      /\ sw \in Seq(Vocabulary("server")) /\ g \in BOOLEAN
      /\ Met(c, s, cw, sw, k, g) /\ OwnClient(c) /\ ~ c.ended /\ ClientDid(c, d, x, sw)
      /\ Has(cw, "sasl") => c.sasl.header_sent
      /\ Has(sw, "sasl") => s.sasl.header_sent
    BY DEF ClientMoves
<1> USE <1>a
<1>0. "client" \in Peers /\ "server" \in Peers
    BY DEF Peers
<1>1. /\ cw \in Seq(Vocabulary("client")) /\ x \in Seq(Vocabulary("client"))
      /\ sw \in Seq(Units)
      /\ DOMAIN x = 1..Len(x)
    BY <1>0, PartSpoken, SpokenToUnits
<1>2. /\ Replies \subseteq Questions \cup Replies \cup Outcomes
      /\ Questions \subseteq Questions \cup Replies \cup Outcomes
    OBVIOUS
<1>3. Turned(c, s, cw, sw, k, g) /\ Agreed(c, s, cw, sw, g)
    BY DEF Met
<1>4. /\ d.kind = c.kind
      /\ c.sasl.read_complete => d.sasl.read_complete
      /\ d.sasl.read_complete => c.sasl.read_complete \/ Said(sw, {"ok"})
      /\ ~ d.ended =>
           /\ d.sasl.read_complete <=> d.sasl.write_complete
           /\ Past(sw, d.held, Outcomes) => d.sasl.read_complete
    BY DEF ClientDid
<1>5. d.sasl.read_complete => g
    BY <1>3, <1>4 DEF Agreed
<1>6. /\ ~ d.ended => Last(sw, d.held, Questions)
      /\ ~ d.ended /\ Due(sw, d.held, Questions) => Due(sw, c.held, Questions)
  <2>1. ~ c.ended /\ Last(sw, c.held, Questions)
    BY <1>3 DEF Turned
  <2> QED BY <1>1, <2>1, ClientOnward
<1>7. ASSUME Has(x, "amqp") => d.kind = "undefined" \/ d.sasl.read_complete
      PROVE  Agreed(d, s, longer, sw, g)
  <2>1. Has(longer, "amqp") <=> Has(cw, "amqp") \/ Has(x, "amqp")
    BY HasMore
  <2>2. /\ s.sasl.read_complete <=> g
        /\ Said(sw, {"ok"}) => g
        /\ g /\ ~ s.ended => Said(sw, {"ok"})
        /\ c.kind = "Client" /\ Has(cw, "amqp") => c.sasl.read_complete
        /\ Uses(s) = "sasl" => Granted(sw)
        /\ Uses(s) = "sasl" /\ ~ s.eager /\ Has(sw, "amqp") => c.sasl.read_complete
    BY <1>3 DEF Agreed
  <2>3. d.kind = "Client" /\ Has(longer, "amqp") => d.sasl.read_complete
    BY <1>4, <1>7, <2>1, <2>2
  <2> QED BY <1>4, <1>5, <2>2, <2>3 DEF Agreed
<1>8. /\ Said(longer, Replies) <=> Said(cw, Replies) \/ Said(x, Replies)
      /\ Due(longer, s.held, Replies) => Due(cw, s.held, Replies) \/ Said(x, Replies)
    BY HasMore, MoreDue
<1>9. Said(cw, Replies) => c.kind = "Client"
  <2>1. Said(cw, Replies) => Has(cw, "sasl")
    BY <1>0, <1>1, <1>2, SaidIsSasl
  <2> QED BY <2>1 DEF OwnClient
<1>10. Due(sw, c.held, Questions) => s.sasl.header_sent
  <2>1. Due(sw, c.held, Questions) => Said(sw, Questions)
    BY WhatIsSaid
  <2>2. Said(sw, Questions) => Has(sw, "sasl")
    BY <1>0, <1>2, SaidIsSasl
  <2> QED BY <2>1, <2>2
<1>11. /\ k \in 0..1
       /\ ~ s.ended => Last(cw, s.held, Replies) /\ (Due(cw, s.held, Replies) => k = 0)
       /\ Due(sw, c.held, Questions) => k = 0 /\ (~ s.ended => ~ Due(cw, s.held, Replies))
       /\ g \/ Said(sw, Outcomes) =>
            /\ k = 0
            /\ ~ s.ended => ~ Due(cw, s.held, Replies)
            /\ ~ Due(sw, c.held, Questions)
       /\ ~ s.sasl.header_sent => ~ Said(cw, Replies)
       /\ k > 0 \/ g => Said(cw, Replies) /\ Uses(s) = "sasl"
       /\ (k = 1 \/ (g /\ ~ c.sasl.read_complete)) /\ ~ s.ended => s.held = Bytes(cw)
    BY <1>3 DEF Turned
<1>12. CASE x = <<>>
  <2>1. longer = cw
    BY <1>12, ConcatEmptySeq
  <2>2. ~ Has(x, "amqp")
    BY <1>1, <1>12 DEF Has
  <2>3. Agreed(d, s, longer, sw, g)
    BY <1>7, <2>2
  <2>4. Turned(d, s, longer, sw, k, g)
    BY <1>4, <1>6, <1>11, <2>1 DEF Turned
  <2> QED BY <2>3, <2>4 DEF Met
<1>13. CASE /\ \A i \in 1..Len(x) : x[i].protocol = "amqp"
            /\ d.kind = "undefined" \/ d.sasl.read_complete
  <2>1. ~ Said(x, Replies)
    BY <1>0, <1>1, <1>2, <1>13, AmqpSays
  <2>2. Agreed(d, s, longer, sw, g)
    BY <1>7, <1>13
  <2>3. ~ s.ended => ~ Due(cw, s.held, Replies)
    <3>1. CASE d.kind = "undefined"
      <4>1. ~ Said(cw, Replies)
        BY <1>4, <1>9, <3>1
      <4> QED BY <4>1, WhatIsSaid
    <3>2. CASE d.sasl.read_complete
        BY <1>5, <1>11, <3>2
    <3> QED BY <1>13, <3>1, <3>2
  <2>4. ~ s.ended => ~ Due(longer, s.held, Replies) /\ Last(longer, s.held, Replies)
    <3>1. \A i \in 1..Len(x) : x[i].name \in Replies => i = Len(x)
        BY <1>1, <2>1 DEF Said
    <3> QED BY <1>8, <2>1, <2>3, <3>1, MoreLast
  <2>5. ~ (k = 1 \/ (g /\ ~ d.sasl.read_complete))
    <3>1. k = 1 \/ g => c.kind = "Client"
        BY <1>9, <1>11
    <3>2. k = 1 => ~ g
        BY <1>11
    <3>3. d.kind = "undefined" => ~ (k = 1 \/ g)
        BY <1>4, <3>1
    <3> QED BY <1>5, <1>13, <3>2, <3>3
  <2>6. Turned(d, s, longer, sw, k, g)
    BY <1>6, <1>8, <1>11, <2>1, <2>4, <2>5 DEF Turned
  <2> QED BY <2>2, <2>6 DEF Met
<1>14. CASE /\ \E name \in Replies : x = <<[protocol |-> "sasl", name |-> name]>>
            /\ Due(sw, c.held, Questions)
            /\ ~ d.ended => d.held = Bytes(sw)
  <2>1. PICK name \in Replies : x = Says(name)
    BY <1>14 DEF Says
  <2>2. Len(x) = 1 /\ ~ Has(x, "amqp")
    BY <2>1, SaysIs
  <2>3. Agreed(d, s, longer, sw, g)
    BY <1>7, <2>2
  <2>4. k = 0 /\ ~ g /\ ~ Said(sw, Outcomes) /\ (~ s.ended => ~ Due(cw, s.held, Replies))
    BY <1>11, <1>14
  <2>5. ~ s.ended => Last(longer, s.held, Replies)
    <3>1. \A i \in 1..Len(x) : x[i].name \in Replies => i = Len(x)
        BY <2>2
    <3> QED BY <2>4, <3>1, MoreLast
  <2>6. ~ d.ended => ~ Due(sw, d.held, Questions)
    BY <1>1, <1>14, ClientOnward
  <2>7. s.sasl.header_sent
    BY <1>10, <1>14
  <2>8. Turned(d, s, longer, sw, k, g)
    BY <1>6, <1>11, <2>4, <2>5, <2>6, <2>7 DEF Turned
  <2> QED BY <2>3, <2>8 DEF Met
<1>15. \/ x = <<>>
       \/ /\ \A i \in 1..Len(x) : x[i].protocol = "amqp"
          /\ d.kind = "undefined" \/ d.sasl.read_complete
       \/ /\ \E name \in Replies : x = <<[protocol |-> "sasl", name |-> name]>>
          /\ Due(sw, c.held, Questions)
          /\ ~ d.ended => d.held = Bytes(sw)
    BY DEF ClientDid
<1> QED BY <1>12, <1>13, <1>14, <1>15

\* A step of the server does.
LEMMA ServerMet ==
    ASSUME NEW c \in Connections, NEW s \in Connections, NEW d \in Connections,
           NEW cw \in Seq(Vocabulary("client")),
           NEW sw \in Seq(Units), NEW x \in Seq(Units),
           NEW longer \in Seq(Vocabulary("server")), longer = sw \o x,
           NEW k, NEW m, NEW g \in BOOLEAN,
           Met(c, s, cw, sw, k, g), OwnServer(s), OwnServer(d), ~ s.ended,
           ServerDid(s, d, x, m, cw), ~ d.ended => d.held <= Bytes(cw),
           Has(sw, "sasl") => s.sasl.header_sent, Has(sw, "amqp") => s.amqp.header_sent,
           s.sasl.write_complete /\ x # <<>> => c.sasl.read_complete
    PROVE  Met(c, d, cw, longer, k + m, g)
<1>0. "client" \in Peers /\ "server" \in Peers
    BY DEF Peers
<1>1. /\ sw \in Seq(Vocabulary("server")) /\ x \in Seq(Vocabulary("server"))
      /\ cw \in Seq(Units)
      /\ DOMAIN x = 1..Len(x)
    BY <1>0, PartSpoken, SpokenToUnits
<1>2. /\ Replies \subseteq Questions \cup Replies \cup Outcomes
      /\ Questions \subseteq Questions \cup Replies \cup Outcomes
      /\ Outcomes \subseteq Questions \cup Replies \cup Outcomes
      /\ {"ok"} \subseteq Questions \cup Replies \cup Outcomes
    BY DEF Outcomes
<1>3. /\ k \in 0..1
      /\ Last(cw, s.held, Replies) /\ (Due(cw, s.held, Replies) => k = 0)
      /\ ~ c.ended => /\ Last(sw, c.held, Questions)
                      /\ Due(sw, c.held, Questions) => k = 0 /\ ~ Due(cw, s.held, Replies)
      /\ g \/ Said(sw, Outcomes) =>
           /\ k = 0
           /\ ~ Due(cw, s.held, Replies)
           /\ ~ c.ended => ~ Due(sw, c.held, Questions)
      /\ ~ s.sasl.header_sent => ~ Said(cw, Replies)
      /\ k > 0 \/ g => Said(cw, Replies) /\ Uses(s) = "sasl"
      /\ k = 1 \/ (g /\ ~ c.sasl.read_complete) => s.held = Bytes(cw)
    BY DEF Met, Turned
<1>4. /\ s.sasl.read_complete <=> g
      /\ Said(sw, {"ok"}) => g
      /\ g => Said(sw, {"ok"})
      /\ c.sasl.read_complete => g
      /\ ~ c.ended => (c.sasl.read_complete <=> c.sasl.write_complete)
      /\ ~ c.ended /\ Past(sw, c.held, Outcomes) => c.sasl.read_complete
      /\ c.kind = "Client" /\ Has(cw, "amqp") => c.sasl.read_complete
      /\ Uses(s) = "sasl" => Granted(sw)
      /\ Uses(s) = "sasl" /\ ~ s.eager /\ Has(sw, "amqp") => c.sasl.read_complete
    BY DEF Met, Agreed
<1>5. /\ d.kind = s.kind /\ d.eager = s.eager /\ (Uses(d) = Uses(s) \/ Uses(s) = "undefined")
      /\ d.sasl.read_complete = s.sasl.read_complete /\ d.sasl.write_complete = s.sasl.write_complete
      /\ s.sasl.header_sent => d.sasl.header_sent
      /\ \/ m = 0
         \/ /\ m = 1 /\ Uses(d) = "sasl" /\ Due(cw, s.held, Replies)
            /\ ~ d.ended => d.held = Bytes(cw)
      /\ \/ x = <<>>
         \/ /\ \A i \in 1..Len(x) : x[i].protocol = "amqp"
            /\ Uses(d) = "sasl" => d.sasl.write_complete
         \/ Greets(x) /\ ~ s.sasl.header_sent /\ d.sasl.header_sent
    BY DEF ServerDid
<1>6. /\ s.sasl.read_complete <=> s.sasl.write_complete
      /\ s.sasl.header_sent => Uses(s) = "sasl"
      /\ d.sasl.header_sent => Uses(d) = "sasl"
      /\ s.sasl.write_complete => s.sasl.header_sent
      /\ Uses(s) = "undefined" => ~ s.amqp.header_sent
    BY DEF OwnServer
<1>7. /\ ~ d.ended => s.held <= d.held
      /\ s.held \in Nat /\ d.held \in Nat
    BY ConnFields DEF ServerDid
<1>8. ~ d.ended =>
        /\ Last(cw, d.held, Replies)
        /\ Due(cw, d.held, Replies) => Due(cw, s.held, Replies)
        /\ d.held = Bytes(cw) => ~ Due(cw, d.held, Replies)
    BY <1>1, <1>3, <1>7, LaterDue
<1>9. /\ Said(x, Outcomes) = FALSE /\ Said(x, {"ok"}) = FALSE
      /\ Has(x, "amqp") => (Uses(d) = "sasl" => s.sasl.write_complete) /\ x # <<>>
  <2>1. CASE x = <<>>
    BY <1>1, <2>1 DEF Said, Has
  <2>2. CASE /\ \A i \in 1..Len(x) : x[i].protocol = "amqp"
             /\ Uses(d) = "sasl" => d.sasl.write_complete
    <3>1. ~ Said(x, Outcomes) /\ ~ Said(x, {"ok"})
        BY <1>0, <1>1, <1>2, <2>2, AmqpSays
    <3>2. Has(x, "amqp") => x # <<>>
        BY <1>1 DEF Has
    <3>3. Said(x, Outcomes) \in BOOLEAN /\ Said(x, {"ok"}) \in BOOLEAN
        BY DEF Said
    <3> QED BY <1>5, <2>2, <3>1, <3>2, <3>3
  <2>3. CASE Greets(x)
    <3>1. ~ Has(x, "amqp") /\ ~ Said(x, Outcomes) /\ ~ Said(x, {"ok"})
        BY <1>1, <2>3, GreetsIs
    <3>2. Said(x, Outcomes) \in BOOLEAN /\ Said(x, {"ok"}) \in BOOLEAN
        BY DEF Said
    <3> QED BY <3>1, <3>2
  <2> QED BY <1>5, <2>1, <2>2, <2>3
<1>10. /\ Said(longer, Outcomes) <=> Said(sw, Outcomes)
       /\ Said(longer, {"ok"}) <=> Said(sw, {"ok"})
       /\ Has(longer, "amqp") <=> Has(sw, "amqp") \/ Has(x, "amqp")
       /\ Past(longer, c.held, Outcomes) => Past(sw, c.held, Outcomes)
       /\ Due(longer, c.held, Questions) => Due(sw, c.held, Questions) \/ Said(x, Questions)
  <2>1. /\ Said(longer, Outcomes) <=> Said(sw, Outcomes) \/ Said(x, Outcomes)
        /\ Said(longer, {"ok"}) <=> Said(sw, {"ok"}) \/ Said(x, {"ok"})
        /\ Has(longer, "amqp") <=> Has(sw, "amqp") \/ Has(x, "amqp")
    BY HasMore
  <2>2. /\ Past(longer, c.held, Outcomes) => Past(sw, c.held, Outcomes) \/ Said(x, Outcomes)
        /\ Due(longer, c.held, Questions) => Due(sw, c.held, Questions) \/ Said(x, Questions)
    BY MoreDue
  <2> QED BY <1>9, <2>1, <2>2
<1>11. /\ Uses(d) = "sasl" => Granted(longer)
       /\ Uses(d) = "sasl" /\ ~ d.eager /\ Has(longer, "amqp") => c.sasl.read_complete
  <2>1. SUFFICES ASSUME Uses(d) = "sasl"
                 PROVE  /\ Granted(longer)
                        /\ ~ d.eager /\ Has(longer, "amqp") => c.sasl.read_complete
    OBVIOUS
  <2>2. Has(x, "amqp") => s.sasl.write_complete /\ c.sasl.read_complete
    BY <1>9, <2>1
  <2>3. Granted(sw)
    <3>1. CASE Uses(s) = "sasl"
        BY <1>4, <3>1
    <3>2. CASE Uses(s) = "undefined"
      <4>1. ~ Has(sw, "amqp")
        BY <1>6, <3>2
      <4> QED BY <4>1 DEF Granted, Has
    <3> QED BY <1>5, <2>1, <3>1, <3>2
  <2>4. Has(sw, "amqp") => Uses(s) = "sasl"
    BY <1>5, <1>6, <2>1
  <2>5. ~ Has(x, "amqp") \/ Said(sw, {"ok"})
    BY <1>4, <1>6, <2>2
  <2>6. Granted(longer)
    BY <2>3, <2>5, GrantedMore
  <2> QED BY <1>4, <1>5, <1>10, <2>2, <2>4, <2>6
<1>12. Agreed(c, d, cw, longer, g)
    BY <1>4, <1>5, <1>10, <1>11 DEF Agreed
<1>13. ~ c.ended => /\ Last(longer, c.held, Questions)
                    /\ Due(longer, c.held, Questions) =>
                         k + m = 0 /\ (~ d.ended => ~ Due(cw, d.held, Replies))
  <2>1. SUFFICES ASSUME ~ c.ended
                 PROVE  /\ Last(longer, c.held, Questions)
                        /\ Due(longer, c.held, Questions) =>
                             k + m = 0 /\ (~ d.ended => ~ Due(cw, d.held, Replies))
    OBVIOUS
  <2>2. CASE x = <<>>
    <3>1. longer = sw
        BY <2>2, ConcatEmptySeq
    <3> QED BY <1>3, <1>5, <1>8, <2>1, <3>1
  <2>3. CASE /\ \A i \in 1..Len(x) : x[i].protocol = "amqp"
             /\ Uses(d) = "sasl" => d.sasl.write_complete
    <3>1. ~ Said(x, Questions)
        BY <1>0, <1>1, <1>2, <2>3, AmqpSays
    <3>2. ~ Due(sw, c.held, Questions)
      <4>1. CASE Uses(d) = "sasl"
        BY <1>3, <1>4, <1>5, <1>6, <2>1, <2>3, <4>1
      <4>2. CASE Uses(d) # "sasl"
        <5>1. ~ Has(sw, "sasl")
            BY <1>5, <1>6, <4>2
        <5>2. ~ Said(sw, Questions)
            BY <1>0, <1>1, <1>2, <5>1, SaidIsSasl
        <5> QED BY <5>2, WhatIsSaid
      <4> QED BY <4>1, <4>2
    <3>3. \A i \in 1..Len(x) : x[i].name \in Questions => i = Len(x)
        BY <1>1, <3>1 DEF Said
    <3>4. Last(longer, c.held, Questions)
        BY <3>2, <3>3, MoreLast
    <3> QED BY <1>10, <3>1, <3>2, <3>4
  <2>4. CASE Greets(x) /\ ~ s.sasl.header_sent
    <3>1. ~ Due(sw, c.held, Questions)
      <4>1. ~ Said(sw, Questions)
        BY <1>0, <1>1, <1>2, <2>4, SaidIsSasl
      <4> QED BY <4>1, WhatIsSaid
    <3>2. \A i \in 1..Len(x) : x[i].name \in Questions => i = Len(x)
        BY <1>1, <2>4, GreetsIs
    <3>3. Last(longer, c.held, Questions)
        BY <3>1, <3>2, MoreLast
    <3>4. ~ Said(cw, Replies)
        BY <1>3, <2>4
    <3>5. ~ Due(cw, s.held, Replies) /\ ~ Due(cw, d.held, Replies)
        BY <3>4, WhatIsSaid
    <3>6. k = 0 /\ m = 0
        BY <1>3, <1>5, <3>4, <3>5
    <3> QED BY <3>3, <3>5, <3>6
  <2> QED BY <1>5, <2>2, <2>3, <2>4
<1>14. k + m \in 0..1 /\ (m = 1 => k = 0) /\ (k + m = 1 => k = 1 \/ m = 1) /\ (m = 0 => k + m = k)
    BY <1>3, <1>5
<1>15. ~ d.ended => Last(cw, d.held, Replies) /\ (Due(cw, d.held, Replies) => k + m = 0)
    BY <1>3, <1>5, <1>8, <1>14
<1>16. g \/ Said(longer, Outcomes) =>
         /\ k + m = 0
         /\ ~ d.ended => ~ Due(cw, d.held, Replies)
         /\ ~ c.ended => ~ Due(longer, c.held, Questions)
  <2>1. SUFFICES ASSUME g \/ Said(sw, Outcomes)
                 PROVE  /\ k + m = 0
                        /\ ~ d.ended => ~ Due(cw, d.held, Replies)
                        /\ ~ c.ended => ~ Due(longer, c.held, Questions)
    BY <1>10
  <2>2. k = 0 /\ m = 0
    BY <1>3, <1>5, <2>1
  <2>3. s.sasl.header_sent
    <3>1. Said(sw, Outcomes) => Has(sw, "sasl")
        BY <1>0, <1>1, <1>2, SaidIsSasl
    <3> QED BY <1>4, <1>6, <2>1, <3>1
  <2>4. ~ Said(x, Questions)
    <3>1. CASE x = <<>>
        BY <1>1, <3>1 DEF Said
    <3>2. CASE \A i \in 1..Len(x) : x[i].protocol = "amqp"
        BY <1>0, <1>1, <1>2, <3>2, AmqpSays
    <3> QED BY <1>5, <2>3, <3>1, <3>2
  <2> QED BY <1>3, <1>8, <1>10, <2>1, <2>2, <2>4
<1>17. k + m > 0 \/ g => Said(cw, Replies) /\ Uses(d) = "sasl"
  <2>1. Due(cw, s.held, Replies) => Said(cw, Replies)
    BY WhatIsSaid
  <2>2. Uses(s) = "sasl" => Uses(d) = "sasl"
    BY <1>5
  <2>3. CASE m = 0
    BY <1>3, <1>14, <2>2, <2>3
  <2>4. CASE m # 0
    BY <1>5, <2>1, <2>4
  <2> QED BY <2>3, <2>4
<1>18. (k + m = 1 \/ (g /\ ~ c.sasl.read_complete)) /\ ~ d.ended => d.held = Bytes(cw)
  <2>1. Bytes(cw) \in Nat
    BY <1>1, NothingAtEnd
  <2>2. SUFFICES ASSUME k + m = 1 \/ (g /\ ~ c.sasl.read_complete), ~ d.ended
                 PROVE  d.held = Bytes(cw)
    OBVIOUS
  <2>3. CASE m = 1
    BY <1>5, <2>2, <2>3
  <2>4. CASE k = 1 \/ (g /\ ~ c.sasl.read_complete)
    <3>1. s.held = Bytes(cw)
        BY <1>3, <2>4
    <3> QED BY <1>7, <2>1, <2>2, <3>1
  <2> QED BY <1>14, <2>2, <2>3, <2>4
<1>19. ~ d.sasl.header_sent => ~ Said(cw, Replies)
    BY <1>3, <1>5
<1>20. Turned(c, d, cw, longer, k + m, g)
    BY <1>13, <1>14, <1>15, <1>16, <1>17, <1>18, <1>19 DEF Turned
<1> QED BY <1>12, <1>20 DEF Met

\* What the mechanism finds when it decides.
Pondered(c, s, cw, sw, g) ==
    /\ ~ g /\ ~ Said(sw, Outcomes) /\ ~ Said(sw, {"ok"})
    /\ Said(cw, Replies) /\ Uses(s) = "sasl" /\ s.sasl.header_sent
    /\ ~ s.sasl.read_complete /\ ~ c.sasl.read_complete
    /\ ~ s.ended => ~ Due(cw, s.held, Replies) /\ Last(cw, s.held, Replies) /\ s.held = Bytes(cw)
    /\ ~ c.ended => ~ Due(sw, c.held, Questions) /\ ~ Past(sw, c.held, Outcomes)
    /\ ~ c.ended => ~ c.sasl.write_complete
    /\ Granted(sw)
    /\ c.kind = "Client" => ~ Has(cw, "amqp")
    /\ ~ s.eager => ~ Has(sw, "amqp")

\* While the mechanism decides, nothing else is under way in SASL.
LEMMA PonderedIs ==
    ASSUME NEW c \in Connections, NEW s \in Connections, NEW cw, NEW sw, NEW k, k > 0,
           NEW g \in BOOLEAN, Met(c, s, cw, sw, k, g)
    PROVE  k = 1 /\ Pondered(c, s, cw, sw, g)
<1>1. /\ k \in 0..1
      /\ ~ s.ended => Last(cw, s.held, Replies) /\ (Due(cw, s.held, Replies) => k = 0)
      /\ ~ c.ended /\ Due(sw, c.held, Questions) => k = 0
      /\ g \/ Said(sw, Outcomes) => k = 0
      /\ ~ s.sasl.header_sent => ~ Said(cw, Replies)
      /\ k > 0 => Said(cw, Replies) /\ Uses(s) = "sasl"
      /\ k = 1 /\ ~ s.ended => s.held = Bytes(cw)
    BY DEF Met, Turned
<1>2. k = 1
    BY <1>1
<1>3. ~ g
    BY <1>1, <1>2
<1>4. /\ ~ s.sasl.read_complete /\ ~ Said(sw, {"ok"}) /\ ~ c.sasl.read_complete
      /\ ~ c.ended => ~ c.sasl.write_complete /\ ~ Past(sw, c.held, Outcomes)
      /\ c.kind = "Client" => ~ Has(cw, "amqp")
      /\ Uses(s) = "sasl" => Granted(sw)
      /\ Uses(s) = "sasl" /\ ~ s.eager => ~ Has(sw, "amqp")
    BY <1>3 DEF Met, Agreed
<1> QED BY <1>1, <1>2, <1>3, <1>4 DEF Pondered

\* It asks or refuses.
Telling(c, s, d, cw, sw, name, x, longer, k, g) ==
    /\ c \in Connections /\ s \in Connections /\ d \in Connections
    /\ cw \in Seq(Vocabulary("client")) /\ sw \in Seq(Units)
    /\ name \in (Questions \cup Outcomes) \ {"ok"}
    /\ x \in Seq(Units) /\ x = (IF s.ended THEN <<>> ELSE Says(name))
    /\ longer = sw \o x
    /\ k > 0 /\ g \in BOOLEAN /\ Met(c, s, cw, sw, k, g)
    /\ ~ c.ended => c.held <= Bytes(sw)
    /\ d.held = s.held /\ Uses(d) = Uses(s) /\ d.eager = s.eager /\ d.sasl.header_sent
    /\ d.sasl.read_complete = s.sasl.read_complete
    /\ s.ended => d.ended

\* The same after a word of the mechanism that accepts nobody.
LEMMA TellMet ==
    ASSUME NEW c, NEW s, NEW d, NEW cw, NEW sw, NEW name, NEW x, NEW longer, NEW k, NEW g,
           Telling(c, s, d, cw, sw, name, x, longer, k, g)
    PROVE  Met(c, d, cw, longer, k - 1, g)
<1>a. /\ c \in Connections /\ s \in Connections /\ d \in Connections
      /\ cw \in Seq(Vocabulary("client")) /\ sw \in Seq(Units)
      /\ name \in (Questions \cup Outcomes) \ {"ok"}
      /\ x \in Seq(Units) /\ x = (IF s.ended THEN <<>> ELSE Says(name))
      /\ longer = sw \o x
      /\ k > 0 /\ g \in BOOLEAN /\ Met(c, s, cw, sw, k, g)
      /\ ~ c.ended => c.held <= Bytes(sw)
      /\ d.held = s.held /\ Uses(d) = Uses(s) /\ d.eager = s.eager /\ d.sasl.header_sent
      /\ d.sasl.read_complete = s.sasl.read_complete
      /\ s.ended => d.ended
    BY DEF Telling
<1> USE <1>a
<1>1. k = 1 /\ Pondered(c, s, cw, sw, g)
    BY PonderedIs
<1>2. /\ ~ g /\ ~ Said(sw, Outcomes) /\ ~ Said(sw, {"ok"})
      /\ Said(cw, Replies) /\ Uses(s) = "sasl"
      /\ ~ s.sasl.read_complete /\ ~ c.sasl.read_complete
      /\ ~ s.ended => ~ Due(cw, s.held, Replies) /\ Last(cw, s.held, Replies)
      /\ ~ c.ended => ~ Due(sw, c.held, Questions) /\ ~ Past(sw, c.held, Outcomes)
      /\ ~ c.ended => ~ c.sasl.write_complete
      /\ Granted(sw)
      /\ c.kind = "Client" => ~ Has(cw, "amqp")
      /\ ~ s.eager => ~ Has(sw, "amqp")
    BY <1>1 DEF Pondered
<1>3. k - 1 = 0 /\ 0 \in 0..1
    BY <1>1
<1>4. /\ ~ Has(x, "amqp") /\ ~ Said(x, {"ok"})
      /\ Said(x, Outcomes) => ~ Said(x, Questions)
      /\ \A i \in 1..Len(x) : x[i].name \in Questions => i = Len(x)
  <2>1. CASE s.ended
    <3>1. x = <<>> /\ DOMAIN x = 1..Len(x) /\ Len(x) = 0
        BY <2>1, LenProperties
    <3>2. \A i \in DOMAIN x : FALSE
        BY <3>1
    <3> QED BY <3>1, <3>2 DEF Has, Said
  <2>2. CASE ~ s.ended
    <3>1. x = Says(name)
        BY <2>2
    <3>2. Len(x) = 1 /\ ~ Has(x, "amqp") /\ \A names : Said(x, names) <=> name \in names
        BY <3>1, SaysIs
    <3>3. name \in Outcomes => name \notin Questions
        BY DEF Outcomes, Questions
    <3>4. ~ Said(x, {"ok"}) /\ (Said(x, Outcomes) => ~ Said(x, Questions))
        BY <3>2, <3>3
    <3>5. \A i \in 1..Len(x) : x[i].name \in Questions => i = Len(x)
        BY <3>2
    <3> QED BY <3>2, <3>4, <3>5
  <2> QED BY <2>1, <2>2
<1>5. /\ Said(longer, Outcomes) <=> Said(sw, Outcomes) \/ Said(x, Outcomes)
      /\ Said(longer, {"ok"}) <=> Said(sw, {"ok"}) \/ Said(x, {"ok"})
      /\ Has(longer, "amqp") <=> Has(sw, "amqp") \/ Has(x, "amqp")
    BY HasMore
<1>6. Due(longer, c.held, Questions) => Due(sw, c.held, Questions) \/ Said(x, Questions)
    BY MoreDue
<1>7. ~ c.ended => ~ Past(longer, c.held, Outcomes)
    BY <1>2, ConnFields, MoreDue
<1>8. ~ c.ended => Last(longer, c.held, Questions)
    BY <1>2, <1>4, MoreLast
<1>9. Granted(longer)
    BY <1>2, <1>4, GrantedMore
<1>10. Agreed(c, d, cw, longer, g)
    BY <1>2, <1>4, <1>5, <1>7, <1>9 DEF Agreed
<1>11. ~ d.ended => Last(cw, d.held, Replies) /\ ~ Due(cw, d.held, Replies)
    BY <1>2
<1>12. g \/ Said(longer, Outcomes) => (~ c.ended => ~ Due(longer, c.held, Questions))
    BY <1>2, <1>4, <1>5, <1>6
<1>13. ~ (0 = 1 \/ (g /\ ~ c.sasl.read_complete))
    BY <1>2
<1>14. ~ (0 > 0 \/ g)
    BY <1>2
<1>15. Turned(c, d, cw, longer, 0, g)
    BY <1>3, <1>8, <1>11, <1>12, <1>13, <1>14 DEF Turned
<1> QED BY <1>3, <1>10, <1>15 DEF Met

\* It accepts the client.
LEMMA AcceptMet ==
    ASSUME NEW c \in Connections, NEW s \in Connections, NEW cw \in Seq(Vocabulary("client")),
           NEW sw \in Seq(Units), NEW u, Accepting(s, sw, u),
           NEW k, k > 0, NEW g \in BOOLEAN, Met(c, s, cw, sw, k, g),
           ~ c.ended => c.held <= Bytes(sw)
    PROVE  Met(c, u.conn, cw, sw \o u.out, k - 1, TRUE)
<1>a. PICK d : d = u.conn
    OBVIOUS
<1>b. PICK longer : longer = sw \o u.out
    OBVIOUS
<1>0. "client" \in Peers /\ "server" \in Peers
    BY DEF Peers
<1>1. k = 1 /\ Pondered(c, s, cw, sw, g)
    BY PonderedIs
<1>2. /\ ~ g /\ ~ Said(sw, Outcomes) /\ ~ Said(sw, {"ok"})
      /\ Said(cw, Replies) /\ Uses(s) = "sasl"
      /\ ~ c.sasl.read_complete
      /\ ~ s.ended => ~ Due(cw, s.held, Replies) /\ Last(cw, s.held, Replies) /\ s.held = Bytes(cw)
      /\ ~ c.ended => ~ Due(sw, c.held, Questions) /\ ~ Past(sw, c.held, Outcomes)
      /\ ~ c.ended => ~ c.sasl.write_complete
      /\ Granted(sw)
      /\ c.kind = "Client" => ~ Has(cw, "amqp")
      /\ ~ s.eager => ~ Has(sw, "amqp")
    BY <1>1 DEF Pondered
<1>3. k - 1 = 0 /\ 0 \in 0..1
    BY <1>1
<1>4. /\ d \in Connections /\ u.out \in Seq(Units) /\ Writing("server", d, longer)
      /\ d.kind = s.kind /\ d.eager = s.eager /\ d.selected = s.selected
      /\ d.held = s.held /\ d.sasl.read_complete /\ d.sasl.header_sent
      /\ s.ended => d.ended
    BY <1>a, <1>b, TurnFields DEF Accepting
<1>5. Uses(d) = Uses(s)
    BY <1>4 DEF Uses
<1>6. /\ ~ Said(u.out, Questions)
      /\ ~ d.ended => Said(longer, {"ok"})
      /\ Granted(longer)
      /\ Has(longer, "amqp") => Has(sw, "amqp") \/ s.eager
  <2>1. CASE s.ended
    <3>1. u.out = <<>>
        BY <2>1 DEF Accepting
    <3>2. longer = sw
        BY <1>b, <3>1, ConcatEmptySeq
    <3>3. DOMAIN u.out = 1..Len(u.out) /\ Len(u.out) = 0
        BY <1>4, <3>1, LenProperties
    <3>4. ~ Said(u.out, Questions)
        BY <3>3 DEF Said
    <3> QED BY <1>2, <1>4, <2>1, <3>2, <3>4
  <2>2. CASE ~ s.ended
    <3>1. PICK y \in Seq(Units) :
             /\ u.out = Says("ok") \o y
             /\ \A i \in 1..Len(y) : y[i].protocol = "amqp"
             /\ y = <<>> \/ s.eager
        BY <2>2 DEF Accepting
    <3>2. PICK o : o = Says("ok")
        OBVIOUS
    <3>3. o \in Seq(Units)
      <4>1. [protocol |-> "sasl", name |-> "ok"] \in Units
        BY DEF Units, Protocols, Names, SaslFrames, Outcomes
      <4>2. \A v \in Units : <<v>> \in Seq(Units)
        OBVIOUS
      <4> QED BY <3>2, <4>1, <4>2, Zenon DEF Says
    <3>4. /\ ~ Has(o, "amqp")
          /\ \A names : Said(o, names) <=> "ok" \in names
        BY <3>2, SaysIs
    <3>5. PICK more : more = sw \o o
        OBVIOUS
    <3>6. more \in Seq(Units) /\ Granted(more) /\ Said(more, {"ok"})
          /\ (Has(more, "amqp") <=> Has(sw, "amqp"))
      <4>1. more \in Seq(Units)
        BY <3>3, <3>5
      <4>2. Granted(more)
        BY <1>2, <3>3, <3>4, <3>5, GrantedMore
      <4>3. (Said(more, {"ok"}) <=> Said(sw, {"ok"}) \/ Said(o, {"ok"}))
            /\ (Has(more, "amqp") <=> Has(sw, "amqp") \/ Has(o, "amqp"))
        BY <3>3, <3>5, HasMore
      <4>4. "ok" \in {"ok"}
        OBVIOUS
      <4> QED BY <3>4, <4>1, <4>2, <4>3, <4>4
    <3>7. longer = more \o y
      <4>2. (sw \o o) \o y = sw \o (o \o y)
        BY <3>3, Joined, SMTT(30)
      <4>3. u.out = o \o y
        BY <3>1, <3>2
      <4> QED BY <1>b, <3>5, <4>2, <4>3
    <3>8. Granted(longer)
        BY <3>6, <3>7, GrantedMore
    <3>9. Said(longer, {"ok"}) /\ (Has(longer, "amqp") <=> Has(more, "amqp") \/ Has(y, "amqp"))
        BY <3>6, <3>7, HasMore
    <3>10. Has(y, "amqp") => s.eager
        BY <3>1 DEF Has
    <3>11. y \in Seq(Vocabulary("server"))
      <4>1. longer \in Seq(Vocabulary("server"))
        BY <1>4 DEF Writing
      <4> QED BY <1>0, <3>6, <3>7, <4>1, PartSpoken
    <3>12. ~ Said(y, Questions)
      <4>1. Questions \subseteq Questions \cup Replies \cup Outcomes
        OBVIOUS
      <4> QED BY <1>0, <3>1, <3>11, <4>1, AmqpSays
    <3>13. ~ Said(o, Questions)
      <4>1. "ok" \notin Questions
        BY DEF Questions
      <4> QED BY <3>4, <4>1
    <3>14. Said(u.out, Questions) <=> Said(o, Questions) \/ Said(y, Questions)
      <4>1. u.out = o \o y
        BY <3>1, <3>2
      <4>2. Said(o \o y, Questions) <=> Said(o, Questions) \/ Said(y, Questions)
        BY <3>3, HasMore
      <4> QED BY <4>1, <4>2
    <3>15. ~ Said(u.out, Questions)
        BY <3>12, <3>13, <3>14
    <3>16. Said(longer, {"ok"})
        BY <3>6, <3>9
    <3>17. Has(longer, "amqp") => Has(sw, "amqp") \/ s.eager
        BY <3>6, <3>9, <3>10
    <3> QED BY <3>8, <3>15, <3>16, <3>17
  <2> QED BY <2>1, <2>2
<1>7. longer = sw \o u.out
    BY <1>b
<1>8. ~ c.ended => ~ Past(longer, c.held, Outcomes)
  <2>1. SUFFICES ASSUME ~ c.ended
                 PROVE  ~ Past(longer, c.held, Outcomes)
    OBVIOUS
  <2>2. c.held \in Nat /\ c.held <= Bytes(sw) /\ ~ Past(sw, c.held, Outcomes)
    BY <1>2, <2>1, ConnFields
  <2>3. u.out \in Seq(Units)
    BY <1>4
  <2> QED BY <1>7, <2>2, <2>3, MoreDue
<1>9. ~ c.ended => ~ Due(longer, c.held, Questions)
    BY <1>2, <1>4, <1>6, <1>7, MoreDue, ZenonT(60)
<1>10. ~ c.ended => Last(longer, c.held, Questions)
    BY <1>9 DEF Last, Due
<1>11. Agreed(c, d, cw, longer, TRUE)
    BY <1>2, <1>4, <1>5, <1>6, <1>8 DEF Agreed
<1>12. ~ d.ended => Last(cw, d.held, Replies) /\ ~ Due(cw, d.held, Replies) /\ d.held = Bytes(cw)
    BY <1>2, <1>4
<1>13. Turned(c, d, cw, longer, 0, TRUE)
    BY <1>2, <1>3, <1>4, <1>5, <1>9, <1>10, <1>12 DEF Turned
<1>14. Met(c, d, cw, longer, k - 1, TRUE)
    BY <1>3, <1>11, <1>13 DEF Met
<1> QED BY <1>a, <1>b, <1>14

-----------------------------------------------------------------------------
(* Both peers.                                                             *)

\* What holds of the connections of the client and the server, of what they have written,
\* of how much of it has come, of the promises and of whether the client was accepted.
Holds(c, s, cw, sw, fc, fs, k, g) ==
    /\ OwnClient(c) /\ OwnServer(s)
    /\ Writing("client", c, cw) /\ Writing("server", s, sw)
    /\ Heard(c, sw, fs) /\ Heard(s, cw, fc)
    /\ ~ c.ended => Heeds(c, sw, fs, s.eager)
    /\ ~ s.ended => InParts(cw, s.held, fc)
    /\ Met(c, s, cw, sw, k, g)

\* What was written, of what holds.
LEMMA HoldsUnits ==
    ASSUME NEW c \in Connections, NEW s \in Connections, NEW cw, NEW sw, NEW fc, NEW fs, NEW k, NEW g,
           Holds(c, s, cw, sw, fc, fs, k, g)
    PROVE  /\ cw \in Seq(Vocabulary("client")) /\ Shaped(cw) /\ cw \in Seq(Units)
           /\ sw \in Seq(Vocabulary("server")) /\ Shaped(sw) /\ sw \in Seq(Units)
           /\ Has(cw, "sasl") => c.sasl.header_sent
           /\ Has(sw, "sasl") => s.sasl.header_sent
           /\ Has(sw, "amqp") => s.amqp.header_sent
           /\ fc <= Bytes(cw) /\ fs <= Bytes(sw) /\ Bytes(cw) \in Nat /\ Bytes(sw) \in Nat
           /\ ~ c.ended => c.held <= fs
           /\ ~ s.ended => s.held <= fc
<1>1. /\ cw \in Seq(Vocabulary("client")) /\ Shaped(cw)
      /\ \A P \in Protocols : Has(cw, P) => c[P].header_sent
    BY DEF Holds, Writing
<1>2. /\ sw \in Seq(Vocabulary("server")) /\ Shaped(sw)
      /\ \A P \in Protocols : Has(sw, P) => s[P].header_sent
    BY DEF Holds, Writing
<1>3. /\ fc <= Bytes(cw) /\ fs <= Bytes(sw)
      /\ ~ c.ended => c.held <= fs
      /\ ~ s.ended => s.held <= fc
    BY DEF Holds, Heard
<1>4. "client" \in Peers /\ "server" \in Peers /\ "sasl" \in Protocols /\ "amqp" \in Protocols
    BY DEF Peers, Protocols
<1>5. cw \in Seq(Units) /\ sw \in Seq(Units)
    BY <1>1, <1>2, <1>4, SpokenToUnits
<1>6. Bytes(cw) \in Nat /\ Bytes(sw) \in Nat
    BY <1>5, NothingAtEnd
<1> QED BY <1>1, <1>2, <1>3, <1>4, <1>5, <1>6

\* What holds is what the client needs to read, ...
LEMMA ReadyClient ==
    ASSUME NEW c \in Connections, NEW s \in Connections, NEW cw, NEW sw, NEW fc, NEW fs, NEW k,
           NEW g \in BOOLEAN, Holds(c, s, cw, sw, fc, fs, k, g), ~ c.ended
    PROVE  ClientReady(c, cw, sw, fs, s.eager) /\ Heeds(c, sw, fs, s.eager)
<1>1. /\ OwnClient(c) /\ Heard(c, sw, fs) /\ Writing("client", c, cw)
      /\ Heeds(c, sw, fs, s.eager) /\ OwnServer(s)
    BY DEF Holds
<1>2. /\ c.sasl.read_complete <=> c.sasl.write_complete
      /\ Past(sw, c.held, Outcomes) => c.sasl.read_complete
      /\ c.kind = "Client" /\ Has(cw, "amqp") => c.sasl.read_complete
      /\ Uses(s) = "sasl" => Granted(sw)
      /\ Uses(s) = "sasl" /\ ~ s.eager /\ Has(sw, "amqp") => c.sasl.read_complete
    BY DEF Holds, Met, Agreed
<1>3. Last(sw, c.held, Questions)
    BY DEF Holds, Met, Turned
<1>4. Has(sw, "sasl") => Uses(s) = "sasl"
    BY <1>1, HoldsUnits DEF OwnServer
<1>5. OkFirst(sw)
    BY <1>2, <1>4 DEF OkFirst, Granted
<1>6. ClientMay(c, sw, s.eager)
    BY <1>2, <1>3, <1>4, <1>5 DEF ClientMay
<1> QED BY <1>1, <1>2, <1>6 DEF ClientReady

\* ... and the server.
LEMMA ReadyServer ==
    ASSUME NEW c \in Connections, NEW s \in Connections, NEW cw, NEW sw, NEW fc, NEW fs, NEW k,
           NEW g \in BOOLEAN, Holds(c, s, cw, sw, fc, fs, k, g), ~ s.ended
    PROVE  ServerReady(s, sw, cw, fc) /\ InParts(cw, s.held, fc)
<1>1. /\ OwnServer(s) /\ Heard(s, cw, fc) /\ Writing("server", s, sw)
      /\ InParts(cw, s.held, fc) /\ OwnClient(c)
    BY DEF Holds
<1>2. /\ s.sasl.read_complete <=> g
      /\ c.sasl.read_complete => g
      /\ c.kind = "Client" /\ Has(cw, "amqp") => c.sasl.read_complete
      /\ Uses(s) = "sasl" => Granted(sw)
    BY DEF Holds, Met, Agreed
<1>3. Last(cw, s.held, Replies)
    BY DEF Holds, Met, Turned
<1>4. Has(cw, "sasl") => c.kind = "Client"
    BY <1>1, HoldsUnits DEF OwnClient
<1>5. ~ s.sasl.read_complete => OkFirst(cw)
  <2>1. SUFFICES ASSUME ~ s.sasl.read_complete, Has(cw, "sasl")
                 PROVE  ~ Has(cw, "amqp")
    BY DEF OkFirst, Has
  <2> QED BY <1>2, <1>4, <2>1
<1> QED BY <1>1, <1>2, <1>3, <1>5 DEF ServerReady

\* Once the server has accepted, and the client has opened, it has seen that.
LEMMA OpenedKnows ==
    ASSUME NEW c \in Connections, NEW s \in Connections, NEW cw, NEW sw, NEW fc, NEW fs, NEW k,
           NEW g \in BOOLEAN, Holds(c, s, cw, sw, fc, fs, k, g), s.remote_open,
           s.sasl.write_complete
    PROVE  c.sasl.read_complete
<1>1. OwnServer(s) /\ OwnClient(c) /\ Has(cw, "amqp")
    BY DEF Holds, Heard
<1>2. /\ s.sasl.read_complete <=> g
      /\ c.kind = "Client" /\ Has(cw, "amqp") => c.sasl.read_complete
    BY DEF Holds, Met, Agreed
<1>3. g
    BY <1>1, <1>2 DEF OwnServer
<1>4. Said(cw, Replies)
    BY <1>3 DEF Holds, Met, Turned
<1>5. Has(cw, "sasl")
  <2>1. "client" \in Peers /\ Replies \subseteq Questions \cup Replies \cup Outcomes
    BY DEF Peers
  <2> QED BY <1>4, <2>1, HoldsUnits, SaidIsSasl
<1>6. c.kind = "Client"
    BY <1>1, <1>5, HoldsUnits DEF OwnClient
<1> QED BY <1>1, <1>2, <1>6

\* A step of the client.
LEMMA ClientTurn ==
    ASSUME NEW c \in Connections, NEW s \in Connections, NEW cw, NEW sw, NEW fc \in Nat, NEW fs \in Nat,
           NEW k, NEW g \in BOOLEAN, Holds(c, s, cw, sw, fc, fs, k, g), ~ c.ended,
           NEW to \in Nat, NEW u, ClientStep(c, cw, sw, to, s.eager, u)
    PROVE  /\ u.conn \in Connections /\ cw \o u.out \in Seq(Units) /\ u.promises = 0
           /\ Holds(u.conn, s, cw \o u.out, sw, fc, to, k, g)
<1>1. PICK d : d = u.conn
    OBVIOUS
<1>2. PICK x : x = u.out
    OBVIOUS
<1>3. PICK longer : longer = cw \o x
    OBVIOUS
<1>4. /\ u \in Turns /\ u.promises = 0
      /\ OwnClient(d) /\ Writing("client", d, longer)
      /\ Heard(d, sw, to)
      /\ ~ d.ended => Heeds(d, sw, to, s.eager)
      /\ ClientDid(c, d, x, sw)
    BY <1>1, <1>2, <1>3 DEF ClientStep
<1>5. d \in Connections /\ x \in Seq(Units)
    BY <1>1, <1>2, <1>4, TurnFields
<1>6. longer \in Seq(Vocabulary("client"))
    BY <1>4 DEF Writing
<1>7. /\ cw \in Seq(Units) /\ sw \in Seq(Vocabulary("server"))
      /\ Has(cw, "sasl") => c.sasl.header_sent
      /\ Has(sw, "sasl") => s.sasl.header_sent
    BY HoldsUnits
<1>8. /\ OwnClient(c) /\ OwnServer(s) /\ Writing("server", s, sw) /\ Heard(s, cw, fc)
      /\ ~ s.ended => InParts(cw, s.held, fc)
      /\ Met(c, s, cw, sw, k, g)
    BY DEF Holds
<1>9. Met(d, s, longer, sw, k, g)
  <2>1. ClientMoves(c, d, s, cw, x, longer, sw, k, g)
    BY <1>3, <1>4, <1>5, <1>6, <1>7, <1>8 DEF ClientMoves
  <2> QED BY <2>1, ClientMet
<1>10. Heard(s, longer, fc) /\ (~ s.ended => InParts(longer, s.held, fc))
    BY <1>3, <1>5, <1>7, <1>8, HeardMore
<1>11. Holds(d, s, longer, sw, fc, to, k, g)
    BY <1>4, <1>8, <1>9, <1>10 DEF Holds
<1>12. longer \in Seq(Units)
    BY <1>3, <1>5, <1>7
<1> QED BY <1>1, <1>2, <1>3, <1>4, <1>5, <1>11, <1>12

\* A step of the server.
LEMMA ServerTurn ==
    ASSUME NEW c \in Connections, NEW s \in Connections, NEW cw, NEW sw, NEW fc \in Nat, NEW fs \in Nat,
           NEW k, NEW g \in BOOLEAN, Holds(c, s, cw, sw, fc, fs, k, g), ~ s.ended,
           NEW to \in Nat, NEW u, ServerStep(s, sw, cw, to, u),
           s.sasl.write_complete /\ u.out # <<>> => c.sasl.read_complete
    PROVE  /\ u.conn \in Connections /\ sw \o u.out \in Seq(Units)
           /\ Holds(c, u.conn, cw, sw \o u.out, to, fs, k + u.promises, g)
<1>1. PICK d : d = u.conn
    OBVIOUS
<1>2. PICK x : x = u.out
    OBVIOUS
<1>3. PICK longer : longer = sw \o x
    OBVIOUS
<1>m. PICK m : m = u.promises
    OBVIOUS
<1>4. /\ u \in Turns
      /\ OwnServer(d) /\ Writing("server", d, longer)
      /\ Heard(d, cw, to)
      /\ ~ d.ended => InParts(cw, d.held, to)
      /\ ServerDid(s, d, x, m, cw)
    BY <1>1, <1>2, <1>3, <1>m DEF ServerStep
<1>5. d \in Connections /\ x \in Seq(Units)
    BY <1>1, <1>2, <1>4, TurnFields
<1>6. longer \in Seq(Vocabulary("server"))
    BY <1>4 DEF Writing
<1>7. /\ sw \in Seq(Units) /\ cw \in Seq(Vocabulary("client")) /\ Bytes(cw) \in Nat
      /\ Has(sw, "sasl") => s.sasl.header_sent
      /\ Has(sw, "amqp") => s.amqp.header_sent
    BY HoldsUnits
<1>8. /\ OwnClient(c) /\ OwnServer(s) /\ Writing("client", c, cw) /\ Heard(c, sw, fs)
      /\ ~ c.ended => Heeds(c, sw, fs, s.eager)
      /\ Met(c, s, cw, sw, k, g)
    BY DEF Holds
<1>9. ~ d.ended => d.held <= Bytes(cw)
  <2>1. to <= Bytes(cw) /\ (~ d.ended => d.held <= to)
    BY <1>4 DEF Heard
  <2>2. d.held \in Nat
    BY <1>5, ConnFields
  <2> QED BY <1>7, <2>1, <2>2
<1>10. Met(c, d, cw, longer, k + m, g)
  <2>1. /\ d \in Connections /\ sw \in Seq(Units) /\ x \in Seq(Units)
        /\ longer \in Seq(Vocabulary("server")) /\ longer = sw \o x
        /\ cw \in Seq(Vocabulary("client"))
    BY <1>3, <1>5, <1>6, <1>7
  <2>2. /\ Met(c, s, cw, sw, k, g) /\ OwnServer(s) /\ OwnServer(d) /\ ~ s.ended
        /\ ServerDid(s, d, x, m, cw)
        /\ ~ d.ended => d.held <= Bytes(cw)
        /\ Has(sw, "sasl") => s.sasl.header_sent
        /\ Has(sw, "amqp") => s.amqp.header_sent
        /\ s.sasl.write_complete /\ x # <<>> => c.sasl.read_complete
    BY <1>2, <1>4, <1>7, <1>8, <1>9
  <2> QED BY ONLY <2>1, <2>2, ServerMet, c \in Connections, s \in Connections, g \in BOOLEAN, ZenonT(60)
<1>11. d.eager = s.eager
    BY <1>4 DEF ServerDid
<1>12. Heard(c, longer, fs) /\ (~ c.ended => Heeds(c, longer, fs, s.eager))
    BY <1>3, <1>5, <1>7, <1>8, HeardMore
<1>13. Holds(c, d, cw, longer, to, fs, k + m, g)
    BY <1>4, <1>8, <1>10, <1>11, <1>12 DEF Holds
<1>14. longer \in Seq(Units)
    BY <1>3, <1>5, <1>7
<1> QED BY <1>1, <1>2, <1>3, <1>m, <1>5, <1>13, <1>14

\* The mechanism may tell what it decides.
LEMMA MayTellNow ==
    ASSUME NEW c \in Connections, NEW s \in Connections, NEW cw, NEW sw, NEW fc, NEW fs, NEW k, k > 0,
           NEW g \in BOOLEAN, Holds(c, s, cw, sw, fc, fs, k, g)
    PROVE  MayTell(s, sw)
<1>1. OwnServer(s) /\ Writing("server", s, sw) /\ Met(c, s, cw, sw, k, g)
    BY DEF Holds
<1>2. Pondered(c, s, cw, sw, g)
    BY <1>1, PonderedIs
<1>3. /\ ~ Said(sw, Outcomes) /\ Uses(s) = "sasl" /\ s.sasl.header_sent
      /\ ~ s.sasl.read_complete /\ Granted(sw)
    BY <1>2 DEF Pondered
<1>4. ~ s.sasl.write_complete
    BY <1>1, <1>3 DEF OwnServer
<1> QED BY <1>1, <1>3, <1>4 DEF MayTell

\* What a decision leaves of what holds, if it leaves the reading alone.
Settling(c, s, d, cw, sw, fc, fs, k, g, x, longer, l, h) ==
    /\ c \in Connections /\ s \in Connections /\ d \in Connections
    /\ fc \in Nat /\ fs \in Nat /\ Holds(c, s, cw, sw, fc, fs, k, g)
    /\ x \in Seq(Units) /\ longer = sw \o x
    /\ OwnServer(d) /\ Writing("server", d, longer) /\ Met(c, d, cw, longer, l, h)
    /\ d.held = s.held /\ d.frame_size = s.frame_size /\ d.remote_open = s.remote_open
    /\ d.eager = s.eager
    /\ s.ended => d.ended
    /\ \A P \in Protocols : d[P].header_received = s[P].header_received

\* What holds is kept by a decision that meets it.
LEMMA Settled ==
    ASSUME NEW c, NEW s, NEW d, NEW cw, NEW sw, NEW fc, NEW fs, NEW k, NEW g, NEW x, NEW longer,
           NEW l, NEW h, Settling(c, s, d, cw, sw, fc, fs, k, g, x, longer, l, h)
    PROVE  Holds(c, d, cw, longer, fc, fs, l, h)
<1>a. /\ c \in Connections /\ s \in Connections /\ d \in Connections
      /\ fc \in Nat /\ fs \in Nat /\ Holds(c, s, cw, sw, fc, fs, k, g)
      /\ x \in Seq(Units) /\ longer = sw \o x
      /\ OwnServer(d) /\ Writing("server", d, longer) /\ Met(c, d, cw, longer, l, h)
      /\ d.held = s.held /\ d.frame_size = s.frame_size /\ d.remote_open = s.remote_open
      /\ d.eager = s.eager
      /\ s.ended => d.ended
      /\ \A P \in Protocols : d[P].header_received = s[P].header_received
    BY DEF Settling
<1> USE <1>a
<1>1. /\ OwnClient(c) /\ Writing("client", c, cw) /\ Heard(c, sw, fs) /\ Heard(s, cw, fc)
      /\ ~ c.ended => Heeds(c, sw, fs, s.eager)
      /\ ~ s.ended => InParts(cw, s.held, fc)
    BY DEF Holds
<1>2. sw \in Seq(Units)
    BY HoldsUnits
<1>3. Heard(c, longer, fs) /\ (~ c.ended => Heeds(c, longer, fs, s.eager))
    BY <1>1, <1>2, HeardMore
<1>4. Heard(d, cw, fc)
    BY <1>1 DEF Heard
<1> QED BY <1>1, <1>3, <1>4 DEF Holds

\* The mechanism asks, refuses or fails, after which the socket may be ended.
LEMMA ToldTurn ==
    ASSUME NEW c \in Connections, NEW s \in Connections, NEW cw, NEW sw, NEW fc \in Nat, NEW fs \in Nat,
           NEW k, k > 0, NEW g \in BOOLEAN, Holds(c, s, cw, sw, fc, fs, k, g),
           NEW name \in (Questions \cup Outcomes) \ {"ok"}, NEW u, Told(s, sw, name, u),
           NEW d \in Connections, Alike(u.conn, d, {"transport_error", "ended"}),
           u.conn.ended => d.ended
    PROVE  Holds(c, d, cw, sw \o u.out, fc, fs, k - 1, g)
<1>1. PICK t : t = u.conn
    OBVIOUS
<1>2. PICK x : x = u.out
    OBVIOUS
<1>3. PICK longer : longer = sw \o x
    OBVIOUS
<1>4. /\ u \in Turns /\ SameSelf(s, t) /\ t.amqp = s.amqp /\ SameReading(s.sasl, t.sasl)
      /\ t.sasl.pending = <<>> /\ t.sasl.header_sent
      /\ s.ended => t.ended
      /\ OwnServer(t) /\ Writing("server", t, longer)
      /\ x = IF s.ended THEN <<>> ELSE Says(name)
    BY <1>1, <1>2, <1>3 DEF Told
<1>5. t \in Connections /\ x \in Seq(Units)
    BY <1>1, <1>2, <1>4, TurnFields
<1>6. /\ d.kind = t.kind /\ d.eager = t.eager /\ d.selected = t.selected
      /\ d.amqp = t.amqp /\ d.sasl = t.sasl /\ d.held = t.held /\ d.frame_size = t.frame_size
      /\ d.remote_open = t.remote_open
    BY <1>1, AlikeFields
<1>7. t.ended => d.ended
    BY <1>1
<1>8. Uses(d) = Uses(t) /\ Uses(t) = Uses(s)
    BY <1>4, <1>6 DEF Uses, SameSelf
<1>9. OwnServer(d)
    BY <1>4, <1>6, <1>8 DEF OwnServer
<1>10. Writing("server", d, longer)
  <2>1. \A P \in Protocols : d[P].header_sent = t[P].header_sent
    BY <1>6 DEF Protocols
  <2> QED BY <1>4, <1>6, <1>7, <2>1 DEF Writing
<1>11. /\ d.held = s.held /\ d.eager = s.eager /\ d.frame_size = s.frame_size
       /\ d.remote_open = s.remote_open /\ d.sasl.header_sent
       /\ d.sasl.read_complete = s.sasl.read_complete
       /\ s.ended => d.ended
       /\ \A P \in Protocols : d[P].header_received = s[P].header_received
    BY <1>4, <1>6, <1>7 DEF SameSelf, SameReading, Protocols
<1>12. /\ cw \in Seq(Vocabulary("client")) /\ sw \in Seq(Units)
       /\ fs <= Bytes(sw) /\ Bytes(sw) \in Nat /\ (~ c.ended => c.held <= fs)
    BY HoldsUnits
<1>13. ~ c.ended => c.held <= Bytes(sw)
    BY <1>12, ConnFields
<1>14. Met(c, s, cw, sw, k, g)
    BY DEF Holds
<1>15. Met(c, d, cw, longer, k - 1, g)
  <2>1. Telling(c, s, d, cw, sw, name, x, longer, k, g)
    BY <1>3, <1>4, <1>5, <1>8, <1>11, <1>12, <1>13, <1>14 DEF Telling
  <2> QED BY <2>1, TellMet
<1>16. Holds(c, d, cw, longer, fc, fs, k - 1, g)
  <2>1. Settling(c, s, d, cw, sw, fc, fs, k, g, x, longer, k - 1, g)
    BY <1>3, <1>5, <1>9, <1>10, <1>11, <1>15 DEF Settling
  <2> QED BY <2>1, Settled
<1> QED BY <1>2, <1>3, <1>16

\* The mechanism refuses or asks, ...
LEMMA TellTurn ==
    ASSUME NEW c \in Connections, NEW s \in Connections, NEW cw, NEW sw, NEW fc \in Nat, NEW fs \in Nat,
           NEW k, k > 0, NEW g \in BOOLEAN, Holds(c, s, cw, sw, fc, fs, k, g),
           NEW name \in (Questions \cup Outcomes) \ {"ok"},
           NEW u, u = Output(Encode(Begins(s), "sasl", name))
    PROVE  /\ u.conn \in Connections /\ sw \o u.out \in Seq(Units)
           /\ Holds(c, u.conn, cw, sw \o u.out, fc, fs, k - 1, g)
<1>1. Told(s, sw, name, u)
    BY MayTellNow, Tells
<1>2. u \in Turns
    BY <1>1 DEF Told
<1>3. PICK d : d = u.conn
    OBVIOUS
<1>4. d \in Connections /\ u.out \in Seq(Units)
    BY <1>2, <1>3, TurnFields
<1>5. Alike(u.conn, d, {"transport_error", "ended"})
    BY <1>3 DEF Alike
<1>6. u.conn.ended => d.ended
    BY <1>3
<1>7. Holds(c, d, cw, sw \o u.out, fc, fs, k - 1, g)
    BY <1>1, <1>4, <1>5, <1>6, ToldTurn, ZenonT(60)
<1>8. sw \in Seq(Units)
    BY HoldsUnits
<1> QED BY <1>3, <1>4, <1>7, <1>8

\* ... fails, ...
LEMMA FailTurn ==
    ASSUME NEW c \in Connections, NEW s \in Connections, NEW cw, NEW sw, NEW fc \in Nat, NEW fs \in Nat,
           NEW k, k > 0, NEW g \in BOOLEAN, Holds(c, s, cw, sw, fc, fs, k, g),
           NEW u, u = SaslFailed(Output(Encode(Begins(s), "sasl", "sys")))
    PROVE  /\ u.conn \in Connections /\ sw \o u.out \in Seq(Units)
           /\ Holds(c, u.conn, cw, sw \o u.out, fc, fs, k - 1, g)
<1>1. PICK t : t = Output(Encode(Begins(s), "sasl", "sys"))
    OBVIOUS
<1>2. "sys" \in (Questions \cup Outcomes) \ {"ok"}
    BY DEF Outcomes
<1>3. Told(s, sw, "sys", t)
    BY <1>1, <1>2, MayTellNow, Tells
<1>4. t \in Turns
    BY <1>3 DEF Told
<1>5. u = SaslFailed(t)
    BY <1>1
<1>6. /\ u \in Turns /\ u.out = t.out
      /\ Alike(t.conn, u.conn, {"transport_error", "ended"}) /\ u.conn.ended
    BY <1>4, <1>5, Failing
<1>7. PICK d : d = u.conn
    OBVIOUS
<1>8. d \in Connections /\ u.out \in Seq(Units)
    BY <1>6, <1>7, TurnFields
<1>9. Alike(t.conn, d, {"transport_error", "ended"}) /\ (t.conn.ended => d.ended)
    BY <1>6, <1>7
<1>10. Holds(c, d, cw, sw \o t.out, fc, fs, k - 1, g)
    BY <1>2, <1>3, <1>8, <1>9, ToldTurn, ZenonT(60)
<1>11. sw \in Seq(Units)
    BY HoldsUnits
<1> QED BY <1>6, <1>7, <1>8, <1>10, <1>11

\* ... or accepts.
LEMMA AcceptTurn ==
    ASSUME NEW c \in Connections, NEW s \in Connections, NEW cw, NEW sw, NEW fc \in Nat, NEW fs \in Nat,
           NEW k, k > 0, NEW g \in BOOLEAN, Holds(c, s, cw, sw, fc, fs, k, g),
           NEW u, u = Accepted(Begins(s))
    PROVE  /\ u.conn \in Connections /\ sw \o u.out \in Seq(Units)
           /\ Holds(c, u.conn, cw, sw \o u.out, fc, fs, k - 1, TRUE)
<1>1. /\ cw \in Seq(Vocabulary("client")) /\ sw \in Seq(Units)
      /\ fs <= Bytes(sw) /\ Bytes(sw) \in Nat /\ (~ c.ended => c.held <= fs)
    BY HoldsUnits
<1>2. Accepting(s, sw, u)
    BY <1>1, MayTellNow, AcceptedIs
<1>3. ~ c.ended => c.held <= Bytes(sw)
    BY <1>1, ConnFields
<1>4. Met(c, s, cw, sw, k, g)
    BY DEF Holds
<1>5. Met(c, u.conn, cw, sw \o u.out, k - 1, TRUE)
    BY <1>1, <1>2, <1>3, <1>4, AcceptMet
<1>6. /\ u \in Turns /\ OwnServer(u.conn) /\ Writing("server", u.conn, sw \o u.out)
      /\ u.conn.held = s.held /\ u.conn.frame_size = s.frame_size
      /\ u.conn.remote_open = s.remote_open /\ u.conn.eager = s.eager
      /\ s.ended => u.conn.ended
      /\ \A P \in Protocols : u.conn[P].header_received = s[P].header_received
    BY <1>2 DEF Accepting
<1>7. PICK d : d = u.conn
    OBVIOUS
<1>8. d \in Connections /\ u.out \in Seq(Units)
    BY <1>6, <1>7, TurnFields
<1>9. PICK longer : longer = sw \o u.out
    OBVIOUS
<1>10. Holds(c, d, cw, longer, fc, fs, k - 1, TRUE)
  <2>1. Settling(c, s, d, cw, sw, fc, fs, k, g, u.out, longer, k - 1, TRUE)
    BY <1>5, <1>6, <1>7, <1>8, <1>9 DEF Settling
  <2> QED BY <2>1, Settled
<1>11. sw \o u.out \in Seq(Units)
    BY <1>1, <1>8, ConcatProperties
<1> QED BY <1>7, <1>8, <1>9, <1>10, <1>11

\* Bytes come to the client.
LEMMA ClientTakes ==
    ASSUME NEW c \in Connections, NEW s \in Connections, NEW cw, NEW sw, NEW fc \in Nat, NEW fs \in Nat,
           NEW k, NEW g \in BOOLEAN, Holds(c, s, cw, sw, fc, fs, k, g), ~ c.ended,
           NEW to \in Nat, fs <= to, to <= Bytes(sw), NEW u, u = Input(Begins(c), sw, to)
    PROVE  /\ u.conn \in Connections /\ cw \o u.out \in Seq(Units) /\ u.promises = 0
           /\ Holds(u.conn, s, cw \o u.out, sw, fc, to, k, g)
<1>1. ClientReady(c, cw, sw, fs, s.eager)
    BY ReadyClient
<1>2. sw \in Seq(Vocabulary("server")) /\ Shaped(sw)
    BY HoldsUnits
<1>3. s.eager \in BOOLEAN
    BY ConnFields
<1>4. ClientStep(c, cw, sw, to, s.eager, u)
    BY <1>1, <1>2, <1>3, ClientInput
<1> QED BY <1>4, ClientTurn

\* The client writes a heartbeat.
LEMMA ClientBeats ==
    ASSUME NEW c \in Connections, NEW s \in Connections, NEW cw, NEW sw, NEW fc \in Nat, NEW fs \in Nat,
           NEW k, NEW g \in BOOLEAN, Holds(c, s, cw, sw, fc, fs, k, g), ~ c.ended,
           NEW u, u = Output(Encode(Begins(c), "amqp", "empty"))
    PROVE  /\ u.conn \in Connections /\ cw \o u.out \in Seq(Units) /\ u.promises = 0
           /\ Holds(u.conn, s, cw \o u.out, sw, fc, fs, k, g)
<1>1. ClientReady(c, cw, sw, fs, s.eager) /\ Heeds(c, sw, fs, s.eager)
    BY ReadyClient
<1>2. ClientStep(c, cw, sw, fs, s.eager, u)
    BY <1>1, ClientBeat
<1> QED BY <1>2, ClientTurn

\* Bytes come to the server.
LEMMA ServerTakes ==
    ASSUME NEW c \in Connections, NEW s \in Connections, NEW cw, NEW sw, NEW fc \in Nat, NEW fs \in Nat,
           NEW k, NEW g \in BOOLEAN, Holds(c, s, cw, sw, fc, fs, k, g), ~ s.ended,
           NEW to \in Nat, fc < to, to <= Bytes(cw), NEW u, u = Input(Begins(s), cw, to)
    PROVE  /\ u.conn \in Connections /\ sw \o u.out \in Seq(Units) /\ u.promises \in Nat
           /\ Holds(c, u.conn, cw, sw \o u.out, to, fs, k + u.promises, g)
<1>1. ServerReady(s, sw, cw, fc)
    BY ReadyServer
<1>2. /\ cw \in Seq(Vocabulary("client")) /\ Shaped(cw) /\ Bytes(cw) \in Nat
      /\ s.held <= fc
    BY HoldsUnits
<1>3. ServerStep(s, sw, cw, to, u)
    BY <1>1, <1>2, ServerInput
<1>4. s.sasl.write_complete => c.sasl.read_complete
  <2>1. SUFFICES ASSUME s.sasl.write_complete, ~ c.sasl.read_complete
                 PROVE  FALSE
    OBVIOUS
  <2>2. OwnServer(s)
    BY DEF Holds
  <2>3. s.sasl.read_complete <=> g
    BY DEF Holds, Met, Agreed
  <2>4. g
    BY <2>1, <2>2, <2>3 DEF OwnServer
  <2>5. s.held = Bytes(cw)
    BY <2>1, <2>4 DEF Holds, Met, Turned
  <2> QED BY <1>2, <2>5
<1>5. u \in Turns
    BY <1>3 DEF ServerStep
<1>6. u.promises \in Nat
    BY <1>5, TurnFields
<1> QED BY <1>3, <1>4, <1>6, ServerTurn

\* The server writes a heartbeat.
LEMMA ServerBeats ==
    ASSUME NEW c \in Connections, NEW s \in Connections, NEW cw, NEW sw, NEW fc \in Nat, NEW fs \in Nat,
           NEW k, NEW g \in BOOLEAN, Holds(c, s, cw, sw, fc, fs, k, g), ~ s.ended, s.remote_open,
           NEW u, u = Output(Encode(Begins(s), "amqp", "empty"))
    PROVE  /\ u.conn \in Connections /\ sw \o u.out \in Seq(Units) /\ u.promises \in Nat
           /\ Holds(c, u.conn, cw, sw \o u.out, fc, fs, k + u.promises, g)
<1>1. ServerReady(s, sw, cw, fc) /\ InParts(cw, s.held, fc)
    BY ReadyServer
<1>2. ServerStep(s, sw, cw, fc, u)
    BY <1>1, ServerBeat
<1>3. s.sasl.write_complete => c.sasl.read_complete
    BY OpenedKnows
<1>4. u \in Turns
    BY <1>2 DEF ServerStep
<1>5. u.promises \in Nat
    BY <1>4, TurnFields
<1> QED BY <1>2, <1>3, <1>5, ServerTurn

-----------------------------------------------------------------------------
(* At first.                                                               *)

\* Nothing is there of what was never written.
LEMMA NoUnits ==
    ASSUME NEW none, none = <<>>
    PROVE  /\ none \in Seq(Units) /\ none \in Seq(Vocabulary("client")) /\ none \in Seq(Vocabulary("server"))
           /\ Len(none) = 0 /\ DOMAIN none = {} /\ Bytes(none) = 0
           /\ Shaped(none) /\ OnEdge(none, 0) /\ ~ StartsAt(none, 0)
           /\ \A P : ~ Has(none, P) /\ ~ PastOf(none, 0, P)
           /\ \A names : ~ Said(none, names)
<1>1. none \in Seq(Units) /\ Len(none) = 0 /\ DOMAIN none = {}
      /\ none \in Seq(Vocabulary("client")) /\ none \in Seq(Vocabulary("server"))
    BY EmptySeq
<1>2. Offsets(none)[1] = 0
    BY <1>1, OffsetsUnfold
<1>3. Bytes(none) = 0
    BY <1>1, <1>2 DEF Bytes
<1>4. OnEdge(none, 0)
    BY <1>1, <1>2 DEF OnEdge
<1>5. ~ StartsAt(none, 0)
    BY <1>1 DEF StartsAt
<1> QED BY <1>1, <1>3, <1>4, <1>5 DEF Shaped, Has, PastOf, Said

\* Of what was written nothing is read yet.
LEMMA NothingRead ==
    ASSUME NEW units \in Seq(Units)
    PROVE  /\ Bytes(units) \in Nat /\ OnEdge(units, 0) /\ InParts(units, 0, 0)
           /\ \A P : ~ PastOf(units, 0, P)
<1>1. Len(units) \in Nat /\ DOMAIN units = 1..Len(units)
    BY LenProperties
<1>2. Bytes(units) \in Nat
    BY NothingAtEnd
<1>3. Offsets(units)[1] = 0 /\ 1 \in 1..(Len(units) + 1)
    BY <1>1, OffsetsUnfold
<1>4. OnEdge(units, 0)
    BY <1>3 DEF OnEdge
<1>5. \A P : ~ PastOf(units, 0, P)
  <2>1. \A k \in 1..Len(units) : Offsets(units)[k] \in Nat
    BY <1>1, OffsetsType
  <2>2. \A k \in 1..Len(units) : ~ (Offsets(units)[k] < 0)
    BY <2>1
  <2> QED BY <1>1, <2>2 DEF PastOf
<1>6. InParts(units, 0, 0)
  <2>1. SUFFICES ASSUME StartsAt(units, 0)
                 PROVE  0 < 0 + Size[UnitAt(units, 0).name]
    BY DEF InParts
  <2>2. PICK n \in 1..Len(units) : Offsets(units)[n] = 0
    BY <2>1 DEF StartsAt
  <2>3. UnitAt(units, 0) = units[n]
    BY <2>2, UnitAtStart
  <2>4. Size[units[n].name] \in Nat /\ Size[units[n].name] >= 8
    BY UnitSize
  <2> QED BY <2>3, <2>4
<1> QED BY <1>2, <1>4, <1>5, <1>6

\* A transport with something to write.
LEMMA TransportOf ==
    ASSUME NEW names \in Seq(Names), NEW t, t = [NewTransport EXCEPT !.pending = names]
    PROVE  /\ t \in Transports /\ t.pending = names
           /\ ~ t.header_sent /\ ~ t.header_received /\ ~ t.write_complete /\ ~ t.read_complete
<1>1. NewTransport \in Transports
    BY DEF Transports, NewTransport
<1> QED BY <1>1 DEF Transports, NewTransport

\* A connection as it is made.
Fresh(c) ==
    /\ c \in Connections /\ c.selected = "undefined"
    /\ c.held = 0 /\ c.frame_size = 0 /\ ~ c.remote_open /\ ~ c.ended
    /\ \A P \in Protocols : /\ ~ c[P].header_sent /\ ~ c[P].header_received
                            /\ ~ c[P].write_complete /\ ~ c[P].read_complete

\* A new connection is fresh.
LEMMA NewIs ==
    ASSUME NEW kind \in SaslKinds, NEW known \in Known \cup {{}}, NEW eager \in BOOLEAN,
           NEW c, c = New(kind, known, eager)
    PROVE  /\ Fresh(c) /\ c.kind = kind /\ c.eager = eager /\ ~ c.local_open
           /\ c.amqp = NewTransport /\ c.sasl = NewTransport
<1>1. NewTransport \in Transports
    BY DEF Transports, NewTransport
<1>2. c \in Connections
    BY <1>1 DEF New, Connections
<1>3. /\ c.selected = "undefined" /\ c.held = 0 /\ c.frame_size = 0 /\ ~ c.remote_open /\ ~ c.ended
      /\ c.kind = kind /\ c.eager = eager /\ ~ c.local_open
      /\ c.amqp = NewTransport /\ c.sasl = NewTransport
    BY DEF New
<1>4. \A P \in Protocols : c[P] = NewTransport
    BY <1>3 DEF Protocols
<1> QED BY <1>2, <1>3, <1>4 DEF Fresh, NewTransport

\* The server at first.
LEMMA ServerFresh ==
    ASSUME NEW kind \in SaslKinds \ {"Client"}, NEW eager \in BOOLEAN, eager => kind # "undefined",
           NEW s, s = NewServer(kind, eager)
    PROVE  /\ Fresh(s) /\ OwnServer(s) /\ Writing("server", s, <<>>)
           /\ (Uses(s) = "sasl" => kind = "Server")
<1>1. {} \in Known \cup {{}}
    OBVIOUS
<1>2. PICK n : n = New(kind, {}, eager)
    OBVIOUS
<1>3. /\ Fresh(n) /\ n.kind = kind /\ n.eager = eager /\ ~ n.local_open
      /\ n.amqp = NewTransport /\ n.sasl = NewTransport
    BY <1>1, <1>2, NewIs
<1>4. PICK names : names = IF kind = "undefined" THEN <<>> ELSE <<"mechanisms">>
    OBVIOUS
<1>5. names \in Seq(Names)
  <2>1. "mechanisms" \in Names
    BY DEF Names, SaslFrames
  <2>2. <<>> \in Seq(Names) /\ \A v \in Names : <<v>> \in Seq(Names)
    OBVIOUS
  <2>3. <<"mechanisms">> \in Seq(Names)
    BY <2>1, <2>2, Zenon
  <2> QED BY <1>4, <2>2, <2>3
<1>6. PICK t : t = [NewTransport EXCEPT !.pending = names]
    OBVIOUS
<1>7. /\ t \in Transports /\ t.pending = names
      /\ ~ t.header_sent /\ ~ t.header_received /\ ~ t.write_complete /\ ~ t.read_complete
    BY <1>5, <1>6, TransportOf
<1>8. n \in Connections /\ "sasl" \in Protocols
    BY <1>3 DEF Fresh, Protocols
<1>9. s = [n EXCEPT !["sasl"] = t]
  <2>1. s = [n EXCEPT !.sasl.pending = names]
    BY <1>2, <1>4 DEF NewServer
  <2>2. s = [n EXCEPT !.sasl = [n.sasl EXCEPT !.pending = names]]
    BY <1>8, <2>1 DEF Connections
  <2> QED BY <1>3, <1>6, <2>2
<1>10. s \in Connections /\ s["sasl"] = t /\ Alike(n, s, {"sasl"})
    BY <1>7, <1>8, <1>9, TransportSet
<1>11. /\ s.kind = kind /\ s.eager = eager /\ s.selected = "undefined" /\ s.amqp = NewTransport
       /\ s.held = 0 /\ s.frame_size = 0 /\ ~ s.remote_open /\ ~ s.ended /\ s.sasl = t
    BY <1>3, <1>10, AlikeFields DEF Fresh
<1>12. /\ s.amqp.pending = <<>>
       /\ ~ s.amqp.header_sent /\ ~ s.amqp.header_received
       /\ ~ s.amqp.write_complete /\ ~ s.amqp.read_complete
    BY <1>11 DEF NewTransport
<1>13. Fresh(s)
    BY <1>7, <1>10, <1>11, <1>12 DEF Fresh, Protocols
<1>14. /\ s.sasl.pending \in {<<>>, <<"mechanisms">>}
       /\ kind # "undefined" => s.sasl.pending # <<>>
       /\ kind = "undefined" => s.sasl.pending = <<>>
  <2>1. <<"mechanisms">> # <<>>
    <3>1. Len(<<"mechanisms">>) = 1 /\ Len(<<>>) = 0
        OBVIOUS
    <3> QED BY <3>1
  <2>2. s.sasl.pending = names
    BY <1>7, <1>11
  <2>3. CASE kind = "undefined"
    BY <1>4, <2>2, <2>3
  <2>4. CASE kind # "undefined"
    <3>1. names = <<"mechanisms">>
        BY <1>4, <2>4
    <3> QED BY <2>1, <2>2, <2>4, <3>1
  <2> QED BY <2>3, <2>4
<1>15. kind \in {"undefined", "Server", "Selective"}
    BY DEF SaslKinds
<1>16. OwnServer(s)
    BY <1>7, <1>11, <1>12, <1>14, <1>15 DEF OwnServer
<1>17. Writing("server", s, <<>>)
  <2>1. PICK none : none = <<>>
    OBVIOUS
  <2>2. none \in Seq(Vocabulary("server")) /\ Shaped(none) /\ \A P : ~ Has(none, P)
    BY <2>1, NoUnits
  <2>3. \A P \in Protocols : ~ s[P].header_sent
    BY <1>13 DEF Fresh
  <2>4. s.amqp.pending \in Seq({"open", "empty"})
    BY <1>12
  <2> QED BY <2>1, <2>2, <2>3, <2>4 DEF Writing
<1>18. Uses(s) = "sasl" => kind = "Server"
    BY <1>11, <1>15 DEF Uses
<1> QED BY <1>13, <1>16, <1>17, <1>18

LEMMA AmqpSet ==
    ASSUME NEW l \in Connections, NEW t \in Transports, NEW o, o = [l EXCEPT !["amqp"] = t]
    PROVE  o \in Connections /\ o["amqp"] = t /\ Alike(l, o, {"amqp"})
BY DEF Connections, Alike, ConnFieldNames

\* What Output makes of a turn, by the transport that it writes with.
Wrote(turn, done, P) ==
    /\ done \in Turns
    /\ SameSelf(turn.conn, done.conn)
    /\ P \in Protocols =>
         /\ done.conn[P].pending = <<>> /\ done.conn[P].header_sent
         /\ SameReading(turn.conn[P], done.conn[P])
         /\ \A Q \in Protocols \ {P} : done.conn[Q] = turn.conn[Q]
         /\ done.out = IF turn.conn.ended THEN turn.out
                       ELSE turn.out \o Added(turn.conn[P], P)

LEMMA OutputWrote ==
    ASSUME NEW turn \in Turns
    PROVE  Wrote(turn, Output(turn), WritesTo(turn.conn))
BY OutputIs DEF Wrote

\* The client at first: it has written its first header.
LEMMA ClientFresh ==
    ASSUME NEW known \in Known, NEW u, u = NewClient(known)
    PROVE  /\ u \in Turns /\ OwnClient(u.conn) /\ Writing("client", u.conn, u.out)
           /\ u.conn.held = 0 /\ u.conn.frame_size = 0 /\ ~ u.conn.remote_open
           /\ \A P \in Protocols : ~ u.conn[P].header_received
           /\ ~ u.conn.sasl.read_complete /\ ~ u.conn.sasl.write_complete
           /\ ~ Said(u.out, Replies)
           /\ u.conn.kind = "Client" => ~ Has(u.out, "amqp")
<1>0. "client" \in Peers /\ "amqp" \in Protocols /\ "sasl" \in Protocols
    BY DEF Peers, Protocols
<1>1. PICK kind : kind = IF known = {} THEN "undefined" ELSE "Client"
    OBVIOUS
<1>x. PICK eager \in BOOLEAN : eager = FALSE
    OBVIOUS
<1>2. PICK n : n = New(kind, known, eager)
    OBVIOUS
<1>3. kind \in SaslKinds /\ known \in Known \cup {{}} /\ kind \in {"Client", "undefined"}
    BY <1>1 DEF SaslKinds
<1>4. /\ Fresh(n) /\ n.kind = kind /\ n.amqp = NewTransport /\ n.sasl = NewTransport
    BY <1>2, <1>3, NewIs
<1>5. <<"open">> \in Seq(Names) /\ <<"open">> \in Seq({"open", "empty"})
  <2>1. "open" \in Names
    BY DEF Names
  <2>2. \A v \in Names : <<v>> \in Seq(Names)
    OBVIOUS
  <2> QED BY <2>1, <2>2
<1>6. PICK t : t = [NewTransport EXCEPT !.pending = <<"open">>]
    OBVIOUS
<1>7. /\ t \in Transports /\ t.pending = <<"open">>
      /\ ~ t.header_sent /\ ~ t.header_received /\ ~ t.write_complete /\ ~ t.read_complete
    BY <1>5, <1>6, TransportOf
<1>8. PICK l : l = [n EXCEPT !.local_open = TRUE]
    OBVIOUS
<1>9. n \in Connections
    BY <1>4 DEF Fresh
<1>10. l \in Connections /\ l.local_open = TRUE /\ Alike(n, l, {"local_open"})
    BY <1>8, <1>9, LocalOpenSet
<1>11. PICK o : o = [l EXCEPT !["amqp"] = t]
    OBVIOUS
<1>12. o \in Connections /\ o["amqp"] = t /\ Alike(l, o, {"amqp"})
  <2>1. l \in Connections /\ t \in Transports
    BY <1>7, <1>10
  <2> QED BY <1>11, <2>1, AmqpSet
<1>13. /\ l.kind = n.kind /\ l.selected = n.selected /\ l.sasl = n.sasl /\ l.held = n.held
       /\ l.frame_size = n.frame_size /\ l.remote_open = n.remote_open /\ l.ended = n.ended
    BY <1>10, AlikeFields
<1>14. /\ o.kind = l.kind /\ o.selected = l.selected /\ o.sasl = l.sasl /\ o.held = l.held
       /\ o.frame_size = l.frame_size /\ o.remote_open = l.remote_open /\ o.ended = l.ended
       /\ o.local_open = l.local_open
    BY <1>12, AlikeFields
<1>15. /\ o.kind = kind /\ o.sasl = NewTransport /\ o.held = 0 /\ o.frame_size = 0
       /\ ~ o.remote_open /\ ~ o.ended /\ o.local_open /\ o.amqp = t
    BY <1>4, <1>10, <1>12, <1>13, <1>14 DEF Fresh
<1>16. o = [n EXCEPT !.local_open = TRUE, !.amqp.pending = <<"open">>]
  <2>1. l.amqp = NewTransport
    BY <1>4, <1>10, AlikeFields
  <2>2. o = [l EXCEPT !.amqp = [l.amqp EXCEPT !.pending = <<"open">>]]
    BY <1>6, <1>11, <2>1
  <2>3. o = [l EXCEPT !.amqp.pending = <<"open">>]
    BY <1>10, <2>2 DEF Connections
  <2> QED BY <1>8, <2>3
<1>17. PICK turn : turn = [conn |-> o, out |-> <<>>, promises |-> 0, thrown |-> FALSE]
    OBVIOUS
<1>18. turn \in Turns /\ turn.conn = o /\ turn.out = <<>>
    BY <1>12, <1>17 DEF Turns
<1>19. u = Output(turn)
    BY <1>1, <1>2, <1>x, <1>16, <1>17 DEF NewClient
<1>20. /\ o.sasl.pending = <<>> /\ ~ o.sasl.header_sent /\ ~ o.sasl.header_received
       /\ ~ o.sasl.read_complete /\ ~ o.sasl.write_complete
    BY <1>15 DEF NewTransport
<1>21. PICK P : P = WritesTo(turn.conn)
    OBVIOUS
<1>22. P = (IF kind = "Client" THEN "sasl" ELSE "amqp")
    BY <1>3, <1>15, <1>18, <1>20, <1>21 DEF WritesTo, Uses
<1>23. P \in Protocols
    BY <1>0, <1>22
<1>24. /\ u \in Turns
       /\ SameSelf(o, u.conn)
       /\ u.conn[P].pending = <<>> /\ u.conn[P].header_sent
       /\ SameReading(o[P], u.conn[P])
       /\ \A Q \in Protocols \ {P} : u.conn[Q] = o[Q]
       /\ u.out = turn.out \o Added(o[P], P)
  <2>1. /\ u \in Turns
        /\ SameSelf(turn.conn, u.conn)
        /\ P \in Protocols =>
             /\ u.conn[P].pending = <<>> /\ u.conn[P].header_sent
             /\ SameReading(turn.conn[P], u.conn[P])
             /\ \A Q \in Protocols \ {P} : u.conn[Q] = turn.conn[Q]
             /\ u.out = IF turn.conn.ended THEN turn.out
                        ELSE turn.out \o Added(turn.conn[P], P)
    <3>1. turn \in Turns
        BY <1>18
    <3>2. Wrote(turn, Output(turn), WritesTo(turn.conn))
        BY ONLY <3>1, OutputWrote
    <3>3. Wrote(turn, u, P)
        BY <1>19, <1>21, <3>2
    <3> QED BY <3>3 DEF Wrote
  <2>2. turn.conn = o /\ ~ o.ended
    BY <1>15, <1>18
  <2> QED BY <1>23, <2>1, <2>2
<1>25. \A Q \in Protocols : SameReading(o[Q], u.conn[Q])
    BY <1>24 DEF SameReading
<1>26. PICK none : none = <<>>
    OBVIOUS
<1>27. /\ none \in Seq(Units) /\ none \in Seq(Vocabulary("client")) /\ Shaped(none)
       /\ none \o turn.out = none
       /\ \A Q : ~ Has(none, Q) /\ \A names : ~ Said(none, names)
    BY <1>18, <1>26, NoUnits, ConcatEmptySeq
<1>28. Writing("client", o, none)
  <2>1. \A Q \in Protocols : ~ o[Q].header_sent
    BY <1>7, <1>15, <1>20 DEF Protocols
  <2> QED BY <1>5, <1>7, <1>15, <1>27, <2>1 DEF Writing
<1>29. MaySpeak("client", o, none)
  <2>1. <<>> \in Seq(Spoken("client", "sasl")) /\ Len(<<>>) <= 1
    OBVIOUS
  <2> QED BY <1>20, <1>27, <2>1 DEF MaySpeak
<1>30. Writing("client", u.conn, none \o u.out)
    BY <1>0, <1>18, <1>19, <1>27, <1>28, <1>29, OutputWrites
<1>31. u.out \in Seq(Units)
    BY <1>24, TurnFields
<1>32. none \o u.out = u.out
    BY <1>26, <1>31, ConcatEmptySeq
<1>33. u.conn.kind = kind /\ u.conn.held = 0 /\ u.conn.frame_size = 0 /\ ~ u.conn.remote_open
       /\ u.conn.local_open
    BY <1>15, <1>24 DEF SameSelf
<1>34. /\ \A Q \in Protocols : ~ u.conn[Q].header_received
       /\ ~ u.conn.sasl.read_complete /\ ~ u.conn.sasl.write_complete
       /\ ~ u.conn.amqp.read_complete /\ ~ u.conn.amqp.write_complete
    BY <1>7, <1>15, <1>20, <1>25 DEF SameReading, Protocols
<1>35. OwnClient(u.conn)
  <2>1. CASE kind = "Client"
    BY <1>3, <1>22, <1>24, <1>33, <1>34, <2>1 DEF OwnClient
  <2>2. CASE kind = "undefined"
    <3>1. u.conn.sasl = o.sasl
        BY <1>0, <1>22, <1>24, <2>2
    <3> QED BY <1>20, <1>33, <1>34, <2>2, <3>1 DEF OwnClient
  <2> QED BY <1>3, <2>1, <2>2
<1>36. PICK x : x = Added(o[P], P)
    OBVIOUS
<1>37. o[P] \in Transports /\ o[P].pending \in Seq(Spoken("client", P))
  <2>1. o[P] \in Transports
    BY <1>12, <1>23, ConnFields
  <2>2. CASE kind = "Client"
    <3>1. o[P].pending = <<>>
        BY <1>20, <1>22, <2>2
    <3>2. \A S : <<>> \in Seq(S)
        OBVIOUS
    <3> QED BY <2>1, <3>1, <3>2
  <2>3. CASE kind # "Client"
    <3>1. P = "amqp" /\ o[P].pending = <<"open">>
        BY <1>7, <1>15, <1>22, <2>3
    <3> QED BY <1>5, <2>1, <3>1 DEF Spoken
  <2> QED BY <2>2, <2>3
<1>38. /\ x \in Seq(Vocabulary("client"))
       /\ ~ o[P].header_sent => Len(x) = Len(o[P].pending) + 1
       /\ \A i \in 1..Len(x) : /\ x[i].protocol = P
                               /\ x[i].name = "header" <=> (i = 1 /\ ~ o[P].header_sent)
    BY <1>0, <1>23, <1>36, <1>37, AddedIs
<1>39. u.out = x
  <2>1. x \in Seq(Units)
    BY <1>0, <1>38, SpokenToUnits
  <2> QED BY <1>18, <1>24, <1>36, <2>1, ConcatEmptySeq
<1>40. DOMAIN x = 1..Len(x)
    BY <1>38, LenProperties
<1>41. ~ Said(x, Replies)
  <2>1. CASE kind = "Client"
    <3>1. P = "sasl" /\ ~ o[P].header_sent /\ Len(o[P].pending) = 0
        BY <1>20, <1>22, <2>1
    <3>2. Len(x) = 1 /\ x[1].name = "header"
        BY <1>38, <3>1
    <3>3. \A i \in 1..Len(x) : x[i].name = "header"
        BY <3>2
    <3> QED BY <1>40, <3>3 DEF Said, Replies
  <2>2. CASE kind # "Client"
    <3>1. P = "amqp"
        BY <1>22, <2>2
    <3>2. Replies \subseteq Questions \cup Replies \cup Outcomes
        OBVIOUS
    <3> QED BY <1>0, <1>38, <3>1, <3>2, AmqpSays
  <2> QED BY <2>1, <2>2
<1>42. kind = "Client" => ~ Has(x, "amqp")
    BY <1>22, <1>38, <1>40 DEF Has
<1> QED BY <1>24, <1>30, <1>32, <1>33, <1>34, <1>35, <1>39, <1>41, <1>42

\* All of it holds at first.
LEMMA HoldsAtFirst ==
    ASSUME NEW known \in Known, NEW kind \in SaslKinds \ {"Client"}, NEW eager \in BOOLEAN,
           eager => kind # "undefined",
           NEW u, u = NewClient(known), NEW s, s = NewServer(kind, eager)
    PROVE  /\ u.conn \in Connections /\ u.out \in Seq(Units) /\ s \in Connections
           /\ Holds(u.conn, s, u.out, <<>>, 0, 0, 0, FALSE)
<1>1. /\ u \in Turns /\ OwnClient(u.conn) /\ Writing("client", u.conn, u.out)
      /\ u.conn.held = 0 /\ u.conn.frame_size = 0 /\ ~ u.conn.remote_open
      /\ \A P \in Protocols : ~ u.conn[P].header_received
      /\ ~ u.conn.sasl.read_complete /\ ~ u.conn.sasl.write_complete
      /\ ~ Said(u.out, Replies)
      /\ u.conn.kind = "Client" => ~ Has(u.out, "amqp")
    BY ClientFresh
<1>2. u.conn \in Connections /\ u.out \in Seq(Units)
    BY <1>1, TurnFields
<1>3. Fresh(s) /\ OwnServer(s) /\ Writing("server", s, <<>>)
    BY ServerFresh
<1>4. PICK none : none = <<>>
    OBVIOUS
<1>5. /\ none \in Seq(Units) /\ Bytes(none) = 0 /\ OnEdge(none, 0) /\ ~ StartsAt(none, 0)
      /\ DOMAIN none = {}
      /\ \A P : ~ Has(none, P) /\ ~ PastOf(none, 0, P)
      /\ \A names : ~ Said(none, names)
    BY <1>4, NoUnits
<1>6. PICK c : c = u.conn
    OBVIOUS
<1>7. PICK cw : cw = u.out
    OBVIOUS
<1>8. Bytes(cw) \in Nat /\ OnEdge(cw, 0) /\ InParts(cw, 0, 0) /\ \A P : ~ PastOf(cw, 0, P)
    BY <1>2, <1>7, NothingRead
<1>9. /\ s \in Connections /\ s.held = 0 /\ s.frame_size = 0 /\ ~ s.remote_open
      /\ \A P \in Protocols : ~ s[P].header_received /\ ~ s[P].read_complete
    BY <1>3 DEF Fresh
<1>10. Heard(c, none, 0)
  <2>1. c.held = 0 /\ c.frame_size = 0 /\ ~ c.remote_open
        /\ \A P \in Protocols : ~ c[P].header_received
    BY <1>1, <1>6
  <2> QED BY <1>5, <2>1 DEF Heard
<1>11. Heard(s, cw, 0)
    BY <1>8, <1>9 DEF Heard
<1>12. Heeds(c, none, 0, s.eager)
    BY <1>1, <1>5, <1>6 DEF Heeds, InParts
<1>13. InParts(cw, s.held, 0)
    BY <1>8, <1>9
<1>14. /\ ~ c.sasl.read_complete /\ ~ c.sasl.write_complete /\ ~ Said(cw, Replies)
       /\ c.kind = "Client" => ~ Has(cw, "amqp")
       /\ ~ s.sasl.read_complete
    BY <1>1, <1>6, <1>7, <1>9 DEF Protocols
<1>15. Granted(none)
    BY <1>5 DEF Granted
<1>16. \A held, names : ~ Past(none, held, names) /\ ~ Due(none, held, names) /\ Last(none, held, names)
    BY <1>5 DEF Past, Due, Last
<1>17. Agreed(c, s, cw, none, FALSE)
    BY <1>5, <1>14, <1>15, <1>16 DEF Agreed
<1>18. ~ Due(cw, s.held, Replies) /\ Last(cw, s.held, Replies)
    BY <1>14 DEF Due, Last, Said
<1>19. 0 \in 0..1 /\ ~ (0 = 1) /\ ~ (0 > 0)
    OBVIOUS
<1>20. Turned(c, s, cw, none, 0, FALSE)
    BY <1>5, <1>14, <1>16, <1>18, <1>19 DEF Turned
<1>21. Holds(c, s, cw, none, 0, 0, 0, FALSE)
    BY <1>1, <1>3, <1>4, <1>6, <1>7, <1>10, <1>11, <1>12, <1>13, <1>17, <1>20 DEF Holds, Met
<1> QED BY <1>2, <1>4, <1>6, <1>7, <1>9, <1>21

-----------------------------------------------------------------------------
(* The specification.                                                      *)

\* What holds of the two peers in every state.
HoldsNow ==
    Holds(conn["client"], conn["server"], wire["client"], wire["server"],
          fed["client"], fed["server"], deciding, granted)

IInv == TypeOK /\ HoldsNow

\* What a step of the client makes of both.
ClientGoesOn(u, to) ==
    /\ u.conn \in Connections /\ wire["client"] \o u.out \in Seq(Units) /\ u.promises = 0
    /\ Holds(u.conn, conn["server"], wire["client"] \o u.out, wire["server"],
             fed["client"], to, deciding, granted)

ServerGoesOn(u, to, k, g) ==
    /\ u.conn \in Connections /\ wire["server"] \o u.out \in Seq(Units)
    /\ Holds(conn["client"], u.conn, wire["client"], wire["server"] \o u.out,
             to, fed["server"], k, g)

\* The values that the lemmas above are about, in a state.
LEMMA TypesNow ==
    ASSUME IInv
    PROVE  /\ conn["client"] \in Connections /\ conn["server"] \in Connections
           /\ wire["client"] \in Seq(Units) /\ wire["server"] \in Seq(Units)
           /\ fed["client"] \in Nat /\ fed["server"] \in Nat
           /\ granted \in BOOLEAN /\ deciding \in 0..1
           /\ HoldsNow
           /\ Other("client") = "server" /\ Other("server") = "client"
           /\ "client" \in Peers /\ "server" \in Peers /\ "client" # "server"
           /\ Peers = {"client", "server"}
           /\ Began("client") = Begins(conn["client"]) /\ Began("server") = Begins(conn["server"])
<1>1. Began("client") = Begins(conn["client"]) /\ Began("server") = Begins(conn["server"])
    BY DEF Began, Begins
<1>2. "client" \in Peers /\ "server" \in Peers /\ Peers = {"client", "server"}
    BY DEF Peers
<1>3. TypeOK /\ HoldsNow
    BY DEF IInv
<1>4. Other("client") = "server" /\ Other("server") = "client"
    BY DEF Other
<1> QED BY <1>1, <1>2, <1>3, <1>4 DEF TypeOK

\* At most one promise is open.
LEMMA PromiseBound ==
    ASSUME NEW c, NEW s, NEW cw, NEW sw, NEW fc, NEW fs, NEW k, NEW g,
           Holds(c, s, cw, sw, fc, fs, k, g)
    PROVE  k \in 0..1
BY DEF Holds, Met, Turned

\* A step of the client, as a step of the specification.
LEMMA ClientStays ==
    ASSUME IInv, NEW u, NEW to \in Nat, ClientGoesOn(u, to), Did("client", u),
           fed' = [fed EXCEPT !["server"] = to], UNCHANGED <<granted, rounds>>,
           beats' \in [Peers -> 0..MaxBeats]
    PROVE  IInv'
<1>0. /\ "client" \in Peers /\ "server" \in Peers /\ "client" # "server" /\ granted \in BOOLEAN
      /\ deciding \in 0..1
    BY TypesNow
<1>1. TypeOK
    BY DEF IInv
<1>2. /\ u.conn \in Connections /\ wire["client"] \o u.out \in Seq(Units) /\ u.promises = 0
      /\ Holds(u.conn, conn["server"], wire["client"] \o u.out, wire["server"],
               fed["client"], to, deciding, granted)
    BY DEF ClientGoesOn
<1>3. /\ conn' = [conn EXCEPT !["client"] = u.conn]
      /\ wire' = [wire EXCEPT !["client"] = wire["client"] \o u.out]
      /\ deciding' = deciding + u.promises
    BY DEF Did
<1>4. /\ conn' \in [Peers -> Connections] /\ conn'["client"] = u.conn
      /\ conn'["server"] = conn["server"]
    BY <1>0, <1>1, <1>2, <1>3 DEF TypeOK
<1>5. /\ wire' \in [Peers -> Seq(Units)] /\ wire'["client"] = wire["client"] \o u.out
      /\ wire'["server"] = wire["server"]
    BY <1>0, <1>1, <1>2, <1>3 DEF TypeOK
<1>6. /\ fed' \in [Peers -> Nat] /\ fed'["client"] = fed["client"] /\ fed'["server"] = to
    BY <1>0, <1>1 DEF TypeOK
<1>7. deciding' = deciding /\ granted' = granted
    BY <1>0, <1>2, <1>3
<1>8. HoldsNow'
    BY <1>2, <1>4, <1>5, <1>6, <1>7 DEF HoldsNow
<1>9. TypeOK'
    BY <1>0, <1>1, <1>4, <1>5, <1>6, <1>7 DEF TypeOK
<1> QED BY <1>8, <1>9 DEF IInv

\* A step of the server.
LEMMA ServerStays ==
    ASSUME IInv, NEW u, NEW to \in Nat, NEW k, NEW g \in BOOLEAN, ServerGoesOn(u, to, k, g),
           conn' = [conn EXCEPT !["server"] = u.conn],
           wire' = [wire EXCEPT !["server"] = wire["server"] \o u.out],
           deciding' = k, granted' = g, fed' = [fed EXCEPT !["client"] = to],
           rounds' \in 0..MaxRounds, beats' \in [Peers -> 0..MaxBeats]
    PROVE  IInv'
<1>0. "client" \in Peers /\ "server" \in Peers /\ "client" # "server"
    BY TypesNow
<1>1. TypeOK
    BY DEF IInv
<1>2. /\ u.conn \in Connections /\ wire["server"] \o u.out \in Seq(Units)
      /\ Holds(conn["client"], u.conn, wire["client"], wire["server"] \o u.out,
               to, fed["server"], k, g)
    BY DEF ServerGoesOn
<1>4. /\ conn' \in [Peers -> Connections] /\ conn'["server"] = u.conn
      /\ conn'["client"] = conn["client"]
    BY <1>0, <1>1, <1>2 DEF TypeOK
<1>5. /\ wire' \in [Peers -> Seq(Units)] /\ wire'["server"] = wire["server"] \o u.out
      /\ wire'["client"] = wire["client"]
    BY <1>0, <1>1, <1>2 DEF TypeOK
<1>6. /\ fed' \in [Peers -> Nat] /\ fed'["server"] = fed["server"] /\ fed'["client"] = to
    BY <1>0, <1>1 DEF TypeOK
<1>7. k \in 0..1
    BY <1>2, PromiseBound
<1>8. HoldsNow'
    BY <1>2, <1>4, <1>5, <1>6 DEF HoldsNow
<1>9. TypeOK'
    BY <1>4, <1>5, <1>6, <1>7 DEF TypeOK
<1> QED BY <1>8, <1>9 DEF IInv

\* It holds at first, ...
LEMMA AtFirst == Init => IInv
<1> SUFFICES ASSUME Init PROVE IInv
    OBVIOUS
<1>0. "client" \in Peers /\ "server" \in Peers /\ "client" # "server" /\ Peers = {"client", "server"}
    BY DEF Peers
<1>1. PICK known \in Known, kind \in SaslKinds \ {"Client"}, eager \in BOOLEAN :
         /\ eager => kind # "undefined"
         /\ conn = [p \in Peers |-> IF p = "client" THEN NewClient(known).conn
                                    ELSE NewServer(kind, eager)]
         /\ wire = [p \in Peers |-> IF p = "client" THEN NewClient(known).out ELSE <<>>]
    BY DEF Init
<1>2. PICK u : u = NewClient(known)
    OBVIOUS
<1>3. PICK s : s = NewServer(kind, eager)
    OBVIOUS
<1>4. /\ u.conn \in Connections /\ u.out \in Seq(Units) /\ s \in Connections
      /\ Holds(u.conn, s, u.out, <<>>, 0, 0, 0, FALSE)
    BY <1>1, <1>2, <1>3, HoldsAtFirst
<1>5. conn = [p \in Peers |-> IF p = "client" THEN u.conn ELSE s]
    BY <1>1, <1>2, <1>3
<1>6. wire = [p \in Peers |-> IF p = "client" THEN u.out ELSE <<>>]
    BY <1>1, <1>2
<1>7. conn["client"] = u.conn /\ conn["server"] = s /\ conn \in [Peers -> Connections]
    BY <1>0, <1>4, <1>5
<1>8. wire["client"] = u.out /\ wire["server"] = <<>> /\ wire \in [Peers -> Seq(Units)]
  <2>1. \A S : <<>> \in Seq(S)
    OBVIOUS
  <2> QED BY <1>0, <1>4, <1>6, <2>1
<1>9. fed["client"] = 0 /\ fed["server"] = 0 /\ fed \in [Peers -> Nat]
    BY <1>0 DEF Init
<1>10. deciding = 0 /\ granted = FALSE /\ rounds = 0 /\ beats = [p \in Peers |-> 0]
    BY DEF Init
<1>11. HoldsNow
    BY <1>4, <1>7, <1>8, <1>9, <1>10 DEF HoldsNow
<1>12. MaxRounds \in Nat /\ MaxBeats \in Nat
    BY Bounds
<1>13. deciding \in 0..1 /\ granted \in BOOLEAN /\ rounds \in 0..MaxRounds
  <2>1. deciding \in 0..1 /\ rounds \in 0..MaxRounds
    BY <1>10, <1>12
  <2>2. granted \in BOOLEAN
    BY <1>10
  <2> QED BY <2>1, <2>2
<1>14. beats \in [Peers -> 0..MaxBeats]
  <2>1. 0 \in 0..MaxBeats
    BY <1>12
  <2> QED BY <1>10, <2>1
<1>15. TypeOK
    BY <1>7, <1>8, <1>9, <1>13, <1>14 DEF TypeOK
<1> QED BY <1>11, <1>15 DEF IInv

\* ... when bytes come, however many at once, ...
LEMMA DataKeeps ==
    ASSUME IInv, NEW p \in Peers, Data(p)
    PROVE  IInv'
<1>0. /\ conn["client"] \in Connections /\ conn["server"] \in Connections
      /\ wire["client"] \in Seq(Units) /\ wire["server"] \in Seq(Units)
      /\ fed["client"] \in Nat /\ fed["server"] \in Nat /\ granted \in BOOLEAN /\ deciding \in 0..1
      /\ Other("client") = "server" /\ Other("server") = "client"
      /\ Peers = {"client", "server"}
      /\ Began("client") = Begins(conn["client"]) /\ Began("server") = Begins(conn["server"])
    BY TypesNow
<1>1. Holds(conn["client"], conn["server"], wire["client"], wire["server"],
            fed["client"], fed["server"], deciding, granted)
    BY TypesNow DEF HoldsNow
<1>2. Bytes(wire["client"]) \in Nat /\ Bytes(wire["server"]) \in Nat
    BY <1>0, NothingAtEnd
<1>3. /\ granted' = granted /\ rounds' = rounds /\ beats' = beats
      /\ rounds \in 0..MaxRounds /\ beats \in [Peers -> 0..MaxBeats]
    BY DEF Data, IInv, TypeOK
<1>4. CASE p = "client"
  <2>1. /\ ~ conn["client"].ended
        /\ \E to \in fed["server"] + 1 .. Bytes(wire["server"]) :
             /\ Did("client", Input(Began("client"), wire["server"], to))
             /\ fed' = [fed EXCEPT !["server"] = to]
    BY <1>0, <1>4 DEF Data
  <2>2. PICK to \in fed["server"] + 1 .. Bytes(wire["server"]) :
             /\ Did("client", Input(Began("client"), wire["server"], to))
             /\ fed' = [fed EXCEPT !["server"] = to]
    BY <2>1
  <2>3. to \in Nat /\ fed["server"] <= to /\ to <= Bytes(wire["server"])
    BY <1>0, <1>2
  <2>4. PICK u : u = Input(Begins(conn["client"]), wire["server"], to)
    OBVIOUS
  <2>5. ClientGoesOn(u, to)
    BY <1>0, <1>1, <2>1, <2>3, <2>4, ClientTakes, SMTT(30) DEF ClientGoesOn
  <2>6. Did("client", u)
    BY <1>0, <2>2, <2>4
  <2> QED BY <1>3, <2>2, <2>3, <2>5, <2>6, ClientStays
<1>5. CASE p = "server"
  <2>1. /\ ~ conn["server"].ended
        /\ \E to \in fed["client"] + 1 .. Bytes(wire["client"]) :
             /\ Did("server", Input(Began("server"), wire["client"], to))
             /\ fed' = [fed EXCEPT !["client"] = to]
    BY <1>0, <1>5 DEF Data
  <2>2. PICK to \in fed["client"] + 1 .. Bytes(wire["client"]) :
             /\ Did("server", Input(Began("server"), wire["client"], to))
             /\ fed' = [fed EXCEPT !["client"] = to]
    BY <2>1
  <2>3. to \in Nat /\ fed["client"] < to /\ to <= Bytes(wire["client"])
    BY <1>0, <1>2
  <2>4. PICK u : u = Input(Begins(conn["server"]), wire["client"], to)
    OBVIOUS
  <2>5. ServerGoesOn(u, to, deciding + u.promises, granted)
    BY <1>0, <1>1, <2>1, <2>3, <2>4, ServerTakes, SMTT(30) DEF ServerGoesOn
  <2>6. Did("server", u)
    BY <1>0, <2>2, <2>4
  <2>7. /\ conn' = [conn EXCEPT !["server"] = u.conn]
        /\ wire' = [wire EXCEPT !["server"] = wire["server"] \o u.out]
        /\ deciding' = deciding + u.promises
    BY <2>6 DEF Did
  <2> QED BY <1>0, <1>3, <2>2, <2>3, <2>5, <2>7, ServerStays
<1> QED BY <1>0, <1>4, <1>5

\* ... with every heartbeat, ...
LEMMA BeatKeeps ==
    ASSUME IInv, NEW p \in Peers, Beat(p)
    PROVE  IInv'
<1>0. /\ conn["client"] \in Connections /\ conn["server"] \in Connections
      /\ wire["client"] \in Seq(Units) /\ wire["server"] \in Seq(Units)
      /\ fed["client"] \in Nat /\ fed["server"] \in Nat /\ granted \in BOOLEAN /\ deciding \in 0..1
      /\ Peers = {"client", "server"}
      /\ Began("client") = Begins(conn["client"]) /\ Began("server") = Begins(conn["server"])
    BY TypesNow
<1>1. Holds(conn["client"], conn["server"], wire["client"], wire["server"],
            fed["client"], fed["server"], deciding, granted)
    BY TypesNow DEF HoldsNow
<1>2. /\ conn[p].remote_open /\ ~ conn[p].ended /\ beats[p] < MaxBeats
      /\ Did(p, Output(Encode(Began(p), "amqp", "empty")))
      /\ granted' = granted /\ rounds' = rounds /\ fed' = fed
      /\ beats' = [beats EXCEPT ![p] = @ + 1]
    BY DEF Beat, Beating
<1>3. /\ rounds \in 0..MaxRounds /\ beats \in [Peers -> 0..MaxBeats] /\ fed \in [Peers -> Nat]
    BY DEF IInv, TypeOK
<1>4. beats' \in [Peers -> 0..MaxBeats]
  <2>1. beats[p] + 1 \in 0..MaxBeats
    BY <1>2, <1>3, Bounds
  <2> QED BY <1>2, <1>3, <2>1
<1>5. CASE p = "client"
  <2>1. PICK u : u = Output(Encode(Begins(conn["client"]), "amqp", "empty"))
    OBVIOUS
  <2>2. ClientGoesOn(u, fed["server"])
    BY <1>0, <1>1, <1>2, <1>5, <2>1, ClientBeats DEF ClientGoesOn
  <2>3. Did("client", u)
    BY <1>0, <1>2, <1>5, <2>1
  <2>4. fed' = [fed EXCEPT !["server"] = fed["server"]]
    BY <1>2, <1>3
  <2> QED BY <1>0, <1>2, <1>4, <2>2, <2>3, <2>4, ClientStays
<1>6. CASE p = "server"
  <2>1. PICK u : u = Output(Encode(Begins(conn["server"]), "amqp", "empty"))
    OBVIOUS
  <2>2. ServerGoesOn(u, fed["client"], deciding + u.promises, granted)
    BY <1>0, <1>1, <1>2, <1>6, <2>1, ServerBeats DEF ServerGoesOn
  <2>3. /\ conn' = [conn EXCEPT !["server"] = u.conn]
        /\ wire' = [wire EXCEPT !["server"] = wire["server"] \o u.out]
        /\ deciding' = deciding + u.promises
    BY <1>0, <1>2, <1>6, <2>1 DEF Did
  <2>4. fed' = [fed EXCEPT !["client"] = fed["client"]]
    BY <1>2, <1>3
  <2>5. fed["client"] \in Nat /\ granted \in BOOLEAN /\ granted' = granted /\ rounds' \in 0..MaxRounds
    BY <1>0, <1>2, <1>3
  <2> QED BY <1>4, <2>2, <2>3, <2>4, <2>5, ServerStays
<1> QED BY <1>0, <1>5, <1>6

\* What the mechanism decides leaves what holds.
LEMMA DecidesKeeps ==
    ASSUME IInv, NEW u, Decides(u), NEW g \in BOOLEAN, ServerGoesOn(u, fed["client"], deciding - 1, g),
           granted' = g, rounds' \in 0..MaxRounds
    PROVE  IInv'
<1>1. /\ conn' = [conn EXCEPT !["server"] = u.conn]
      /\ wire' = [wire EXCEPT !["server"] = wire["server"] \o u.out]
      /\ deciding' = deciding - 1 /\ fed' = fed /\ beats' = beats
    BY DEF Decides
<1>2. /\ beats \in [Peers -> 0..MaxBeats] /\ fed \in [Peers -> Nat]
    BY DEF IInv, TypeOK
<1>3. fed["client"] \in Nat
    BY TypesNow
<1>4. fed' = [fed EXCEPT !["client"] = fed["client"]] /\ beats' \in [Peers -> 0..MaxBeats]
    BY <1>1, <1>2
<1> QED BY <1>1, <1>3, <1>4, ServerStays

\* The mechanism may tell this, of a client that is not accepted.
Tellable(c, s, cw, sw, fc, fs, k, g, name) ==
    /\ c \in Connections /\ s \in Connections /\ fc \in Nat /\ fs \in Nat /\ g \in BOOLEAN
    /\ k > 0 /\ Holds(c, s, cw, sw, fc, fs, k, g)
    /\ name \in (Questions \cup Outcomes) \ {"ok"}

\* TellTurn, of what is Tellable.
LEMMA ToldGoesOn ==
    ASSUME NEW c, NEW s, NEW cw, NEW sw, NEW fc, NEW fs, NEW k, NEW g, NEW name,
           Tellable(c, s, cw, sw, fc, fs, k, g, name),
           NEW u, u = Output(Encode(Begins(s), "sasl", name))
    PROVE  /\ u.conn \in Connections /\ sw \o u.out \in Seq(Units)
           /\ Holds(c, u.conn, cw, sw \o u.out, fc, fs, k - 1, g)
<1>1. /\ c \in Connections /\ s \in Connections /\ fc \in Nat /\ fs \in Nat /\ g \in BOOLEAN
      /\ k > 0 /\ Holds(c, s, cw, sw, fc, fs, k, g)
      /\ name \in (Questions \cup Outcomes) \ {"ok"}
    BY DEF Tellable
<1> QED BY <1>1, TellTurn

\* ... and with every decision of the mechanism.
LEMMA DecidedKeeps ==
    ASSUME IInv, Decided
    PROVE  IInv'
<1>0. /\ conn["client"] \in Connections /\ conn["server"] \in Connections
      /\ wire["client"] \in Seq(Units) /\ wire["server"] \in Seq(Units)
      /\ fed["client"] \in Nat /\ fed["server"] \in Nat /\ granted \in BOOLEAN /\ deciding \in 0..1
      /\ Began("server") = Begins(conn["server"])
    BY TypesNow
<1>1. Holds(conn["client"], conn["server"], wire["client"], wire["server"],
            fed["client"], fed["server"], deciding, granted)
    BY TypesNow DEF HoldsNow
<1>2. rounds \in 0..MaxRounds /\ MaxRounds \in Nat
    BY Bounds DEF IInv, TypeOK
<1>3. CASE Accepts
  <2>1. PICK u : u = Accepted(Begins(conn["server"]))
    OBVIOUS
  <2>2. Decides(u) /\ granted' = TRUE /\ rounds' = rounds /\ deciding > 0
    BY <1>0, <1>3, <2>1 DEF Accepts, Decides
  <2>3. ServerGoesOn(u, fed["client"], deciding - 1, TRUE)
    BY <1>0, <1>1, <2>1, <2>2, AcceptTurn DEF ServerGoesOn
  <2> QED BY <1>2, <2>2, <2>3, DecidesKeeps
<1>4. ASSUME NEW name \in (Questions \cup Outcomes) \ {"ok"},
             Decides(Output(Encode(Began("server"), "sasl", name))), granted' = granted,
             rounds' \in 0..MaxRounds
      PROVE  IInv'
  <2>1. PICK u : u = Output(Encode(Begins(conn["server"]), "sasl", name))
    OBVIOUS
  <2>2. Decides(u) /\ deciding > 0
    BY <1>0, <1>4, <2>1 DEF Decides
  <2>3. ServerGoesOn(u, fed["client"], deciding - 1, granted)
    <3>1. /\ u.conn \in Connections /\ wire["server"] \o u.out \in Seq(Units)
          /\ Holds(conn["client"], u.conn, wire["client"], wire["server"] \o u.out,
                   fed["client"], fed["server"], deciding - 1, granted)
      <4>1. Tellable(conn["client"], conn["server"], wire["client"], wire["server"],
                     fed["client"], fed["server"], deciding, granted, name)
            BY <1>0, <1>1, <1>4, <2>2 DEF Tellable
      <4> QED BY <2>1, <4>1, ToldGoesOn
    <3> QED BY <3>1 DEF ServerGoesOn
  <2> QED BY <1>0, <1>4, <2>2, <2>3, DecidesKeeps
<1>5. "auth" \in (Questions \cup Outcomes) \ {"ok"} /\ "challenge" \in (Questions \cup Outcomes) \ {"ok"}
    BY DEF Questions, Outcomes
<1>6. CASE Refuses
    BY <1>2, <1>4, <1>5, <1>6 DEF Refuses
<1>7. CASE Asks
  <2>1. rounds' \in 0..MaxRounds
    BY <1>2, <1>7 DEF Asks
  <2> QED BY <1>4, <1>5, <1>7, <2>1 DEF Asks
<1>8. CASE Fails
  <2>1. PICK u : u = SaslFailed(Output(Encode(Begins(conn["server"]), "sasl", "sys")))
    OBVIOUS
  <2>2. Decides(u) /\ granted' = granted /\ rounds' = rounds /\ deciding > 0
    BY <1>0, <1>8, <2>1 DEF Fails, Decides
  <2>3. ServerGoesOn(u, fed["client"], deciding - 1, granted)
    BY <1>0, <1>1, <2>1, <2>2, FailTurn DEF ServerGoesOn
  <2> QED BY <1>0, <1>2, <2>2, <2>3, DecidesKeeps
<1> QED BY <1>3, <1>6, <1>7, <1>8 DEF Decided

LEMMA StepKeeps == IInv /\ [Next]_vars => IInv'
<1> SUFFICES ASSUME IInv, [Next]_vars PROVE IInv'
    OBVIOUS
<1>1. CASE Decided
    BY <1>1, DecidedKeeps
<1>2. ASSUME NEW p \in Peers, Data(p) PROVE IInv'
    BY <1>2, DataKeeps
<1>3. ASSUME NEW p \in Peers, Beat(p) PROVE IInv'
    BY <1>3, BeatKeeps
<1>4. CASE UNCHANGED vars
    BY <1>4 DEF vars, IInv, TypeOK, HoldsNow
<1> QED BY <1>1, <1>2, <1>3, <1>4 DEF Next

\* What is proved of SaslLayers: in every reachable state, whatever the cut of the bytes and the
\* order of the steps, both peers and what is under way between them are in step.
THEOREM Inductive == Spec => []IInv
<1>1. Init => IInv
    BY AtFirst
<1>2. IInv /\ [Next]_vars => IInv'
    BY StepKeeps
<1> QED BY <1>1, <1>2, PTL DEF Spec

\* TypeOK: of the connection records, wire and counters; in particular the mechanism never has more
\* than one promise open (sasl.js:171 to 244).
THEOREM LayersAreTyped == Spec => []TypeOK
<1>1. IInv => TypeOK
    BY DEF IInv
<1> QED BY <1>1, Inductive, PTL

\* What a peer has read, of what holds.
LEMMA HeardNow ==
    ASSUME IInv, NEW p \in Peers
    PROVE  /\ conn[p] \in Connections /\ wire[Other(p)] \in Seq(Units) /\ fed[Other(p)] \in Nat
           /\ Heard(conn[p], wire[Other(p)], fed[Other(p)])
           /\ ~ conn[p].ended => Heeds(conn[p], wire[Other(p)], fed[Other(p)], conn["server"].eager)
<1>1. /\ conn["client"] \in Connections /\ conn["server"] \in Connections
      /\ wire["client"] \in Seq(Units) /\ wire["server"] \in Seq(Units)
      /\ fed["client"] \in Nat /\ fed["server"] \in Nat
      /\ Other("client") = "server" /\ Other("server") = "client"
      /\ Peers = {"client", "server"}
    BY TypesNow
<1>2. Holds(conn["client"], conn["server"], wire["client"], wire["server"],
            fed["client"], fed["server"], deciding, granted)
    BY TypesNow DEF HoldsNow
<1>3. /\ Heard(conn["client"], wire["server"], fed["server"])
      /\ Heard(conn["server"], wire["client"], fed["client"])
      /\ ~ conn["client"].ended =>
             Heeds(conn["client"], wire["server"], fed["server"], conn["server"].eager)
      /\ ~ conn["server"].ended => InParts(wire["client"], conn["server"].held, fed["client"])
    BY <1>2 DEF Holds
<1>4. CASE p = "client"
    BY <1>1, <1>3, <1>4
<1>5. CASE p = "server"
    BY <1>1, <1>3, <1>5 DEF Heeds
<1> QED BY <1>1, <1>4, <1>5

\* What input keeps begins with the first byte of a unit, nothing is lost before it, and the size it
\* waits for is that of the frame (connection.js:549 to 579, transport.js:67 to 122).
THEOREM KeptFromAUnitHolds == Spec => []KeptFromAUnit
<1>1. IInv => KeptFromAUnit
  <2> SUFFICES ASSUME IInv, NEW p \in Peers, ~ conn[p].ended
               PROVE  /\ \/ conn[p].held = Bytes(wire[Other(p)])
                         \/ StartsAt(wire[Other(p)], conn[p].held)
                      /\ conn[p].held <= fed[Other(p)]
                      /\ conn[p].frame_size > 0 =>
                           /\ conn[p].frame_size = SizeAt(wire[Other(p)], conn[p].held)
                           /\ conn[p].frame_size > fed[Other(p)] - conn[p].held
    BY DEF KeptFromAUnit, Listens
  <2>1. PICK units : units = wire[Other(p)]
    OBVIOUS
  <2>2. PICK count : count = fed[Other(p)]
    OBVIOUS
  <2>3. PICK c : c = conn[p]
    OBVIOUS
  <2>4. /\ c \in Connections /\ units \in Seq(Units) /\ count \in Nat /\ Heard(c, units, count)
    BY <2>1, <2>2, <2>3, HeardNow
  <2>5. /\ c.held <= count /\ OnEdge(units, c.held)
        /\ c.frame_size > 0 => Awaited(units, c.held, count, c.frame_size)
    BY <2>3, <2>4 DEF Heard
  <2>6. c.held \in Nat
    BY <2>4, ConnFields
  <2>7. c.held = Bytes(units) \/ StartsAt(units, c.held)
    <3>1. PICK n \in 1..(Len(units) + 1) : Offsets(units)[n] = c.held
        BY <2>5 DEF OnEdge
    <3>2. Len(units) \in Nat
        BY <2>4, UnitSize
    <3>3. n = Len(units) + 1 \/ n \in 1..Len(units)
        BY <3>2
    <3> QED BY <3>1, <3>3 DEF Bytes, StartsAt
  <2>8. ASSUME c.frame_size > 0
        PROVE  c.frame_size = SizeAt(units, c.held) /\ c.frame_size > count - c.held
    <3>1. PICK k \in 1..Len(units) : /\ Offsets(units)[k] = c.held /\ units[k].name # "header"
                                     /\ c.frame_size = Size[units[k].name]
                                     /\ count < c.held + c.frame_size
        BY <2>5, <2>8 DEF Awaited
    <3>2. SizeAt(units, c.held) = Size[units[k].name]
        BY <2>4, <3>1, UnitAtStart
    <3>3. Size[units[k].name] \in Nat
        BY <2>4, UnitSize
    <3> QED BY <2>4, <2>6, <3>1, <3>2, <3>3
  <2> QED BY <2>1, <2>2, <2>3, <2>5, <2>7, <2>8
<1> QED BY <1>1, Inductive, PTL

\* A unit that is there to its last byte has been read, but for the AMQP header of an eager server that
\* came with the outcome (sasl.js:307, connection.js:577).
THEOREM NothingWaitsHolds == Spec => []NothingWaits
<1>1. IInv => NothingWaits
  <2> SUFFICES ASSUME IInv, NEW p \in Peers, ~ conn[p].ended, StartsAt(wire[Other(p)], conn[p].held)
               PROVE  LET u == UnitAt(wire[Other(p)], conn[p].held)
                      IN  \/ fed[Other(p)] < conn[p].held + Size[u.name]
                          \/ u = Header("amqp") /\ conn[p].kind = "Client" /\ conn["server"].eager
    BY DEF NothingWaits, Listens
  <2>1. Heeds(conn[p], wire[Other(p)], fed[Other(p)], conn["server"].eager)
    BY HeardNow
  <2> QED BY <2>1 DEF Heeds, InParts
<1> QED BY <1>1, Inductive, PTL

\* The client writes AMQP, and the server reads an open, only when the mechanism has accepted; and the
\* outcome is written before the AMQP of the server (sasl.js:171 to 244 and 304 to 348).
THEOREM AcceptedFirstHolds == Spec => []AcceptedFirst
<1>1. IInv => AcceptedFirst
  <2> SUFFICES ASSUME IInv PROVE AcceptedFirst
    OBVIOUS
  <2>1. Holds(conn["client"], conn["server"], wire["client"], wire["server"],
              fed["client"], fed["server"], deciding, granted)
    BY TypesNow DEF HoldsNow
  <2>2. /\ Agreed(conn["client"], conn["server"], wire["client"], wire["server"], granted)
        /\ OwnServer(conn["server"]) /\ wire["server"] \in Seq(Vocabulary("server"))
    BY <2>1 DEF Holds, Met, Writing
  <2>3. conn["client"].kind = "Client" =>
             \A k \in DOMAIN wire["client"] : wire["client"][k].protocol = "amqp" => granted
    BY <2>2 DEF Agreed, Has
  <2>4. Uses(conn["server"]) = "sasl" /\ conn["server"].remote_open => granted
    BY <2>2 DEF Agreed, OwnServer
  <2>5. ASSUME Uses(conn["server"]) = "sasl", NEW k \in DOMAIN wire["server"],
               wire["server"][k].protocol = "amqp"
        PROVE  \E j \in 1..(k - 1) : wire["server"][j] = [protocol |-> "sasl", name |-> "ok"]
    <3>1. PICK j \in 1..(k - 1) : wire["server"][j].name = "ok"
        BY <2>2, <2>5 DEF Agreed, Granted
    <3>2. DOMAIN wire["server"] = 1..Len(wire["server"]) /\ Len(wire["server"]) \in Nat
        BY <2>2, LenProperties
    <3>3. j \in 1..Len(wire["server"])
        BY <3>2
    <3>4. PICK v : v = wire["server"][j]
        OBVIOUS
    <3>5. v \in Vocabulary("server")
        BY <2>2, <3>3, <3>4
    <3>6. "server" \in Peers /\ v.name \in Outcomes
        BY <3>1, <3>4 DEF Peers, Outcomes
    <3>7. v.protocol = "sasl"
        BY <3>5, <3>6, OutcomesAreSasl
    <3>8. v \in Units
        BY <3>5, <3>6, VocabularyIs
    <3>9. v = [protocol |-> "sasl", name |-> "ok"]
        BY <3>1, <3>4, <3>7, <3>8 DEF Units
    <3> QED BY <3>4, <3>9
  <2> QED BY <2>3, <2>4, <2>5 DEF AcceptedFirst
<1> QED BY <1>1, Inductive, PTL
=============================================================================
