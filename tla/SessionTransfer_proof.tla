------------------------ MODULE SessionTransfer_proof ------------------------
(***************************************************************************)
(* Types and flow control of SessionTransfer, for every number of links,   *)
(* capacity, credit window and option.  Typed adds to TypeOK what the      *)
(* handlers rely on when they follow references: frames on the stream are  *)
(* well formed, and what is in the sending buffer was sent on a link.      *)
(*                                                                         *)
(* The receiver's ring never overflows, and no message completes on a link *)
(* whose receiver has no credit left.  Neither is inductive.               *)
(* FlowAccounting is: it relates the counts of both ends to the frames     *)
(* that are under way in both directions.  Two sums only ever grow, Room   *)
(* (transfers received plus free slots) and Granted (messages received     *)
(* plus credit); whatever the sender may still do was covered by one of    *)
(* them when the flow that allowed it was written.                         *)
(*                                                                         *)
(* First come lemmas on the two parts of a session that are pure           *)
(* algorithms.  The ring of deliveries: its operations give rings, and     *)
(* while ids are pushed in order and nothing is taken but from the head,   *)
(* by_id finds what it is asked for and pop_if takes off the longest       *)
(* prefix there is.  write_dispositions: every batch has an end, the kth   *)
(* batch exists, each frame speaks of deliveries of the list, in the state *)
(* of one of them, and if no delivery is there twice no two frames speak   *)
(* of the same one.                                                        *)
(***************************************************************************)
EXTENDS SessionTransfer, Induction_proof, SequenceTheorems

-----------------------------------------------------------------------------
(* CircularBuffer.                                                          *)

\* A place computed modulo the capacity is a slot of the ring, and a remainder is
\* never more than the number it is taken of.
LEMMA ModRange ==
    ASSUME NEW n \in Nat, NEW m \in Nat \ {0}
    PROVE  n % m \in 0..(m - 1) /\ n % m <= n
<1>1. n % m \in 0..(m - 1)
    OBVIOUS
<1>2. n % m <= n
    OBVIOUS
<1> QED BY <1>1, <1>2

\* The number of entries pop_if takes off is between 0 and the number there are.
LEMMA CountRange ==
    ASSUME NEW n \in Nat, NEW T, T \subseteq 0..(n - 1)
    PROVE  Cardinality(T) \in 0..n
<1>1. IsFiniteSet(0..(n - 1)) /\ Cardinality(0..(n - 1)) = n
    BY FS_Interval
<1>2. IsFiniteSet(T) /\ Cardinality(T) <= n
    BY <1>1, FS_Subset
<1>3. Cardinality(T) \in Nat
    BY <1>2, FS_CardinalityType
<1> QED BY <1>2, <1>3

\* A fresh buffer is one.
LEMMA EmptyBufferType ==
    ASSUME NEW capacity \in Nat \ {0}, NEW IdSet
    PROVE  /\ EmptyBuffer(capacity) \in Buffer(capacity, IdSet)
           /\ Available(EmptyBuffer(capacity)) = capacity
BY DEF EmptyBuffer, Buffer, Available

\* push on a buffer that is not full gives a buffer with one place less.
LEMMA PushType ==
    ASSUME NEW capacity \in Nat \ {0}, NEW IdSet, NEW b \in Buffer(capacity, IdSet),
           NEW id \in IdSet, Available(b) > 0
    PROVE  /\ Push(b, id) \in Buffer(capacity, IdSet)
           /\ Available(Push(b, id)) = Available(b) - 1
           /\ \A e \in IdSet : (\E s \in 0..(capacity - 1) : Push(b, id).entries[s] = e)
                  => e = id \/ \E s \in 0..(capacity - 1) : b.entries[s] = e
<1> DEFINE after == (b.tail + 1) % capacity
           entries == [b.entries EXCEPT ![b.tail] = id]
<1>1. /\ b.capacity = capacity /\ b.size \in 0..capacity /\ b.head \in 0..(capacity - 1)
      /\ b.tail \in 0..(capacity - 1)
      /\ b.entries \in [0..(capacity - 1) -> IdSet \cup {Undefined}]
    BY DEF Buffer
<1>2. after \in 0..(capacity - 1)
  <2>1. b.tail + 1 \in Nat
    BY <1>1
  <2> QED BY <2>1, ModRange
<1>3. b.size + 1 \in 0..capacity
    BY <1>1 DEF Available
<1>4. entries \in [0..(capacity - 1) -> IdSet \cup {Undefined}]
    BY <1>1
<1>5. Push(b, id) = [capacity |-> capacity, size |-> b.size + 1, head |-> b.head,
                     tail |-> after, entries |-> entries]
    BY <1>1 DEF Push
<1> HIDE DEF after, entries
<1>6. Push(b, id) \in Buffer(capacity, IdSet)
    BY <1>1, <1>2, <1>3, <1>4, <1>5 DEF Buffer
<1>7. Available(Push(b, id)) = Available(b) - 1
    BY <1>1, <1>5 DEF Available
<1>8. \A e \in IdSet : (\E s \in 0..(capacity - 1) : Push(b, id).entries[s] = e)
          => e = id \/ \E s \in 0..(capacity - 1) : b.entries[s] = e
    BY <1>1, <1>5 DEF entries
<1> QED BY <1>6, <1>7, <1>8

\* Taking n entries off gives a buffer with n places more and no new entry.
LEMMA DropType ==
    ASSUME NEW capacity \in Nat \ {0}, NEW IdSet, NEW b \in Buffer(capacity, IdSet),
           NEW n \in 0..b.size
    PROVE  /\ Drop(b, n) \in Buffer(capacity, IdSet)
           /\ Available(Drop(b, n)) = Available(b) + n
           /\ \A s \in 0..(capacity - 1) : Drop(b, n).entries[s] \in {b.entries[s], Undefined}
<1> DEFINE dropped == {Slot(b, i) : i \in 0..(n - 1)}
           entries == [s \in 0..(capacity - 1) |->
                          IF s \in dropped THEN Undefined ELSE b.entries[s]]
<1>1. /\ b.capacity = capacity /\ b.size \in 0..capacity /\ b.head \in 0..(capacity - 1)
      /\ b.tail \in 0..(capacity - 1)
      /\ b.entries \in [0..(capacity - 1) -> IdSet \cup {Undefined}]
    BY DEF Buffer
<1>2. Slot(b, n) \in 0..(capacity - 1)
  <2>1. b.head + n \in Nat
    BY <1>1
  <2> QED BY <1>1, <2>1, ModRange DEF Slot
<1>3. b.size - n \in 0..capacity
    BY <1>1
<1>4. /\ entries \in [0..(capacity - 1) -> IdSet \cup {Undefined}]
      /\ \A s \in 0..(capacity - 1) : entries[s] \in {b.entries[s], Undefined}
    BY <1>1
<1>5. Drop(b, n) = [capacity |-> capacity, size |-> b.size - n, head |-> Slot(b, n),
                    tail |-> b.tail, entries |-> entries]
    BY <1>1 DEF Drop
<1> HIDE DEF dropped, entries
<1>6. Drop(b, n) \in Buffer(capacity, IdSet)
    BY <1>1, <1>2, <1>3, <1>4, <1>5 DEF Buffer
<1>7. Available(Drop(b, n)) = Available(b) + n
    BY <1>1, <1>5 DEF Available
<1> QED BY <1>4, <1>5, <1>6, <1>7

\* by_id gives an entry of the buffer or Undefined.
LEMMA ByIdType ==
    ASSUME NEW capacity \in Nat \ {0}, NEW IdSet \in SUBSET Int, NEW b \in Buffer(capacity, IdSet),
           NEW id \in Int
    PROVE  \/ ById(b, id) = Undefined
           \/ \E s \in 0..(capacity - 1) : ById(b, id) = b.entries[s]
<1> DEFINE index == b.head + (id - b.entries[b.head])
<1>1. /\ b.capacity = capacity /\ b.head \in 0..(capacity - 1)
      /\ b.entries \in [0..(capacity - 1) -> IdSet \cup {Undefined}]
    BY DEF Buffer
<1>2. index \in Int
  <2>1. b.entries[b.head] \in IdSet \cup {Undefined}
    BY <1>1
  <2>2. Undefined \in Int
    BY DEF Undefined
  <2>3. b.entries[b.head] \in Int
    BY <2>1, <2>2
  <2> QED BY <1>1, <2>3
<1>3. index % capacity \in 0..(capacity - 1)
    BY <1>2
<1> QED BY <1>1, <1>3 DEF ById

\* The slot i places behind the head, without the remainder.
LEMMA SlotIs ==
    ASSUME NEW capacity \in Nat \ {0}, NEW b, b.capacity = capacity,
           b.head \in 0..(capacity - 1), NEW i \in 0..capacity
    PROVE  Slot(b, i) = IF b.head + i < capacity THEN b.head + i ELSE b.head + i - capacity
<1> DEFINE n == b.head + i
<1>1. n \in Nat /\ n < 2 * capacity
    OBVIOUS
<1>2. CASE n < capacity
  <2>1. n % capacity = n
    BY <1>1, <1>2
  <2> QED BY <1>2, <2>1 DEF Slot
<1>3. CASE ~ (n < capacity)
  <2>1. n - capacity \in 0..(capacity - 1) /\ n = (n - capacity) + capacity * 1
    BY <1>1, <1>3
  <2>2. n % capacity = n - capacity
    BY <1>1, <2>1
  <2> QED BY <1>3, <2>2 DEF Slot
<1> QED BY <1>2, <1>3

\* A ring that holds the ids from first on, in order, and nothing else.
InOrder(b, first) ==
    /\ b.tail = Slot(b, b.size)
    /\ \A i \in 0..(b.size - 1) : b.entries[Slot(b, i)] = first + i

LEMMA SlotsDiffer ==
    ASSUME NEW capacity \in Nat \ {0}, NEW b, b.capacity = capacity,
           b.head \in 0..(capacity - 1)
    PROVE  /\ \A i \in 0..capacity : Slot(b, i) \in 0..(capacity - 1)
           /\ \A i, j \in 0..(capacity - 1) : Slot(b, i) = Slot(b, j) => i = j
<1>1. \A i \in 0..capacity :
          Slot(b, i) = IF b.head + i < capacity THEN b.head + i ELSE b.head + i - capacity
    BY SlotIs
<1>2. \A i \in 0..(capacity - 1) : i \in 0..capacity
    OBVIOUS
<1> QED BY <1>1, <1>2

LEMMA EmptyInOrder ==
    ASSUME NEW capacity \in Nat \ {0}, NEW first
    PROVE  InOrder(EmptyBuffer(capacity), first)
<1>1. /\ EmptyBuffer(capacity).size = 0 /\ EmptyBuffer(capacity).tail = 0
      /\ EmptyBuffer(capacity).head = 0 /\ EmptyBuffer(capacity).capacity = capacity
    BY DEF EmptyBuffer
<1>2. Slot(EmptyBuffer(capacity), 0) = 0
    BY <1>1, SlotIs
<1> QED BY <1>1, <1>2 DEF InOrder

\* The next id is pushed behind those there are.
LEMMA PushInOrder ==
    ASSUME NEW capacity \in Nat \ {0}, NEW IdSet, NEW b \in Buffer(capacity, IdSet),
           NEW first \in Int, InOrder(b, first), Available(b) > 0, NEW id, id = first + b.size
    PROVE  InOrder(Push(b, id), first) /\ Push(b, id).size = b.size + 1
<1> DEFINE p == Push(b, id)
<1>1. /\ b.capacity = capacity /\ b.size \in 0..(capacity - 1) /\ b.head \in 0..(capacity - 1)
      /\ b.tail \in 0..(capacity - 1)
      /\ b.entries \in [0..(capacity - 1) -> IdSet \cup {Undefined}]
    BY DEF Buffer, Available
<1>2. /\ p.capacity = capacity /\ p.size = b.size + 1 /\ p.head = b.head
      /\ p.tail = (b.tail + 1) % capacity /\ p.entries = [b.entries EXCEPT ![b.tail] = id]
    BY <1>1 DEF Push
<1> HIDE DEF p
<1>3. \A i \in 0..capacity :
          /\ Slot(p, i) = Slot(b, i) /\ Slot(b, i) \in 0..(capacity - 1)
          /\ Slot(b, i) = IF b.head + i < capacity THEN b.head + i ELSE b.head + i - capacity
  <2>1. \A i \in 0..capacity : Slot(p, i) = Slot(b, i)
    BY <1>1, <1>2 DEF Slot
  <2>2. \A i \in 0..capacity :
            Slot(b, i) = IF b.head + i < capacity THEN b.head + i ELSE b.head + i - capacity
    BY <1>1, SlotIs
  <2> QED BY <1>1, <2>1, <2>2
<1>4. p.tail = Slot(p, p.size)
  <2> DEFINE t == [b EXCEPT !.head = b.tail]
  <2>1. b.tail = IF b.head + b.size < capacity THEN b.head + b.size
                 ELSE b.head + b.size - capacity
    <3>1. b.size \in 0..capacity
        BY <1>1
    <3>2. b.tail = Slot(b, b.size)
        BY DEF InOrder
    <3> QED BY <1>3, <3>1, <3>2
  <2>2. p.size \in 0..capacity
    BY <1>1, <1>2
  <2>3. Slot(p, p.size) = IF b.head + p.size < capacity THEN b.head + p.size
                          ELSE b.head + p.size - capacity
    BY <1>1, <1>3, <2>2
  <2>4. t.head = b.tail /\ t.capacity = capacity
    BY <1>1 DEF Buffer
  <2> HIDE DEF t
  <2>5. Slot(t, 1) = IF b.tail + 1 < capacity THEN b.tail + 1 ELSE b.tail + 1 - capacity
    <3>1. 1 \in 0..capacity /\ t.head \in 0..(capacity - 1)
        BY <1>1, <2>4
    <3>2. Slot(t, 1) = IF t.head + 1 < capacity THEN t.head + 1 ELSE t.head + 1 - capacity
        BY <2>4, <3>1, SlotIs
    <3> QED BY <2>4, <3>2
  <2>6. p.tail = Slot(t, 1)
    BY <1>2, <2>4 DEF Slot
  <2> DEFINE h == b.head
             z == b.size
             u == b.tail
  <2>7. h \in Nat /\ z \in Nat /\ u = (IF h + z < capacity THEN h + z ELSE h + z - capacity)
        /\ z < capacity /\ h < capacity
    BY <1>1, <2>1
  <2>8. p.tail = IF u + 1 < capacity THEN u + 1 ELSE u + 1 - capacity
    BY <2>5, <2>6
  <2>9. Slot(p, p.size) = IF h + (z + 1) < capacity THEN h + (z + 1) ELSE h + (z + 1) - capacity
    BY <1>2, <2>3
  <2> HIDE DEF h, z, u
  <2> QED BY <2>7, <2>8, <2>9
<1>5. ASSUME NEW i \in 0..(p.size - 1)
      PROVE  p.entries[Slot(p, i)] = first + i
  <2>1. /\ i \in 0..capacity /\ i \in 0..(capacity - 1) /\ Slot(p, i) = Slot(b, i)
        /\ Slot(b, i) \in 0..(capacity - 1) /\ b.size \in 0..(capacity - 1)
    <3>1. i \in 0..capacity /\ i \in 0..(capacity - 1)
        BY <1>1, <1>2
    <3> QED BY <1>1, <1>3, <3>1
  <2>2. CASE i = b.size
    BY <1>1, <1>2, <2>1, <2>2 DEF InOrder
  <2>3. CASE i # b.size
    <3>1. i \in 0..(b.size - 1)
        BY <1>1, <1>2, <2>3
    <3>2. Slot(b, i) # b.tail
        BY <1>1, <2>1, <2>3, SlotsDiffer DEF InOrder
    <3> QED BY <1>1, <1>2, <2>1, <3>1, <3>2 DEF InOrder
  <2> QED BY <2>2, <2>3
<1> QED BY <1>2, <1>4, <1>5 DEF InOrder, p

\* The n oldest are taken off.
LEMMA DropInOrder ==
    ASSUME NEW capacity \in Nat \ {0}, NEW IdSet, NEW b \in Buffer(capacity, IdSet),
           NEW first \in Int, InOrder(b, first), NEW n \in 0..b.size
    PROVE  InOrder(Drop(b, n), first + n) /\ Drop(b, n).size = b.size - n
<1> DEFINE p == Drop(b, n)
           dropped == {Slot(b, i) : i \in 0..(n - 1)}
<1>1. /\ b.capacity = capacity /\ b.size \in 0..capacity /\ b.head \in 0..(capacity - 1)
      /\ b.tail \in 0..(capacity - 1) /\ n \in 0..capacity
    BY DEF Buffer
<1>2. /\ p.capacity = capacity /\ p.size = b.size - n /\ p.head = Slot(b, n)
      /\ p.tail = b.tail
      /\ \A s \in 0..(capacity - 1) : s \notin dropped => p.entries[s] = b.entries[s]
    BY <1>1 DEF Drop
<1> HIDE DEF p
<1>3. /\ p.head = IF b.head + n < capacity THEN b.head + n ELSE b.head + n - capacity
      /\ p.head \in 0..(capacity - 1)
    BY <1>1, <1>2, SlotIs, SlotsDiffer
<1>4. ASSUME NEW i \in 0..(b.size - n)
      PROVE  Slot(p, i) = Slot(b, n + i)
  <2>1. i \in 0..capacity /\ n + i \in 0..capacity
    BY <1>1
  <2>2. Slot(p, i) = IF p.head + i < capacity THEN p.head + i ELSE p.head + i - capacity
    BY <1>2, <1>3, <2>1, SlotIs
  <2>3. Slot(b, n + i) = IF b.head + (n + i) < capacity THEN b.head + (n + i)
                         ELSE b.head + (n + i) - capacity
    BY <1>1, <2>1, SlotIs
  <2> QED BY <1>1, <1>3, <2>1, <2>2, <2>3
<1>5. p.tail = Slot(p, p.size)
  <2>1. b.size - n \in 0..(b.size - n) /\ n + (b.size - n) = b.size
    BY <1>1
  <2> QED BY <1>2, <1>4, <2>1 DEF InOrder
<1>6. ASSUME NEW i \in 0..(p.size - 1)
      PROVE  p.entries[Slot(p, i)] = (first + n) + i
  <2>1. i \in 0..(b.size - n) /\ n + i \in 0..(b.size - 1) /\ n + i \in 0..(capacity - 1)
        /\ n + i \in 0..capacity /\ i \in Nat
    BY <1>1, <1>2
  <2>2. Slot(p, i) = Slot(b, n + i) /\ Slot(b, n + i) \in 0..(capacity - 1)
    BY <1>1, <1>4, <2>1, SlotsDiffer
  <2>3. Slot(b, n + i) \notin dropped
    <3>1. SUFFICES ASSUME NEW j \in 0..(n - 1), Slot(b, n + i) = Slot(b, j)
                   PROVE  FALSE
        OBVIOUS
    <3>2. j \in 0..(capacity - 1) /\ j # n + i
        BY <1>1, <2>1
    <3> QED BY <1>1, <2>1, <3>1, <3>2, SlotsDiffer
  <2>4. b.entries[Slot(b, n + i)] = first + (n + i)
    BY <2>1 DEF InOrder
  <2> QED BY <1>1, <1>2, <2>1, <2>2, <2>3, <2>4
<1> QED BY <1>2, <1>5, <1>6 DEF InOrder, p

\* by_id finds every id that is there.
LEMMA ByIdFinds ==
    ASSUME NEW capacity \in Nat \ {0}, NEW IdSet, NEW b \in Buffer(capacity, IdSet),
           NEW first \in Int, InOrder(b, first), NEW id \in first..(first + b.size - 1)
    PROVE  ById(b, id) = id
<1> DEFINE i == id - first
<1>1. /\ b.capacity = capacity /\ b.size \in 1..capacity /\ b.head \in 0..(capacity - 1)
    BY DEF Buffer
<1>2. i \in 0..(b.size - 1) /\ i \in 0..capacity /\ 0 \in 0..(b.size - 1) /\ 0 \in 0..capacity
    BY <1>1
<1>3. Slot(b, 0) = b.head
    BY <1>1, <1>2, SlotIs
<1>4. b.entries[b.head] = first
    BY <1>2, <1>3 DEF InOrder
<1>5. b.entries[(b.head + i) % capacity] = id
    BY <1>1, <1>2 DEF InOrder, Slot
<1> QED BY <1>1, <1>2, <1>4, <1>5 DEF ById

\* What pop_if takes off: the oldest ids, up to one that is not done.
LEMMA PopIfInOrder ==
    ASSUME NEW capacity \in Nat \ {0}, NEW IdSet, NEW b \in Buffer(capacity, IdSet),
           NEW first \in Int, InOrder(b, first), NEW done
    PROVE  \E n \in 0..b.size :
               /\ InOrder(PopIf(b, done), first + n) /\ PopIf(b, done).size = b.size - n
               /\ \A id \in first..(first + n - 1) : id \in done
<1> DEFINE popped == {i \in 0..(b.size - 1) : \A j \in 0..i : b.entries[Slot(b, j)] \in done}
           Kept == {i \in 0..b.size : i \notin popped}
<1>1. b.size \in 0..capacity /\ b.size \in Kept
    BY DEF Buffer
<1>2. PICK n \in Kept : \A y \in Kept : n <= y
  <2>1. Kept \in SUBSET Nat
    BY <1>1
  <2> HIDE DEF Kept
  <2> QED BY <1>1, <2>1, LeastExists
<1>3. n \in 0..b.size /\ n \notin popped
    BY <1>2
<1>4. \A i \in 0..(n - 1) : i \in popped
  <2>1. SUFFICES ASSUME NEW i \in 0..(n - 1), i \notin popped
                 PROVE  FALSE
    OBVIOUS
  <2>2. i \in Kept
    BY <1>1, <1>3, <2>1
  <2> HIDE DEF Kept
  <2> QED BY <1>2, <1>3, <2>2
<1>5. popped = 0..(n - 1)
  <2>1. ASSUME NEW i \in popped PROVE i \in 0..(n - 1)
    <3>1. SUFFICES ASSUME n <= i PROVE FALSE
        BY <1>1, <1>3
    <3>2. n \in popped
        BY <1>1, <1>3, <3>1
    <3> QED BY <1>3, <3>2
  <2> HIDE DEF popped
  <2> QED BY <1>4, <2>1
<1>6. PopIf(b, done) = Drop(b, n)
  <2>1. Cardinality(0..(n - 1)) = n
    BY <1>1, <1>3, FS_Interval
  <2> QED BY <1>5, <2>1 DEF PopIf, PopCount
<1>7. InOrder(Drop(b, n), first + n) /\ Drop(b, n).size = b.size - n
    BY <1>3, DropInOrder
<1>8. ASSUME NEW id \in first..(first + n - 1) PROVE id \in done
  <2>1. id - first \in 0..(n - 1) /\ id - first \in 0..(b.size - 1)
    BY <1>1, <1>3
  <2>2. b.entries[Slot(b, id - first)] \in done
    BY <1>4, <2>1
  <2>3. b.entries[Slot(b, id - first)] = first + (id - first)
    BY <2>1 DEF InOrder
  <2> QED BY <2>1, <2>2, <2>3
<1> QED BY <1>3, <1>6, <1>7, <1>8

-----------------------------------------------------------------------------
(* write_dispositions.                                                      *)

\* Every set of places has a kth smallest, for every k up to its size.
LEMMA NthExists ==
    ASSUME NEW n \in Nat, NEW S \in SUBSET (1..n), NEW k \in 1..Cardinality(S)
    PROVE  Nth(S, k) \in S /\ Cardinality({r \in S : r < Nth(S, k)}) = k - 1
<1> DEFINE Below(x) == {r \in S : r < x}
           Late == {x \in S : Cardinality(Below(x)) >= k - 1}
<1>0. \A x \in S : x \in Nat
    OBVIOUS
<1>1. IsFiniteSet(S) /\ Cardinality(S) \in Nat
  <2>1. IsFiniteSet(1..n)
    BY FS_Interval
  <2>2. IsFiniteSet(S)
    BY <2>1, FS_Subset
  <2> QED BY <2>2, FS_CardinalityType
<1>2. S # {}
    BY <1>1, FS_EmptySet
<1>3. \A s \in S : IsFiniteSet(Below(s)) /\ Cardinality(Below(s)) \in Nat
  <2>1. \A s \in S : Below(s) \in SUBSET S
    OBVIOUS
  <2>2. \A s \in S : IsFiniteSet(Below(s))
    BY <1>1, <2>1, FS_Subset
  <2> QED BY <2>2, FS_CardinalityType
<1>4. PICK top \in S : \A y \in S : y <= top
    BY <1>2, GreatestExists
<1>5. top \in Late
  <2>1. Below(top) = S \ {top}
    <3>1. \A r \in S : r < top <=> r # top
        BY <1>0, <1>4
    <3> QED BY <3>1
  <2>2. Cardinality(S \ {top}) = Cardinality(S) - 1
    BY <1>1, <1>4, FS_RemoveElement
  <2>3. Cardinality(Below(top)) = Cardinality(S) - 1
    BY <2>1, <2>2
  <2> HIDE DEF Below
  <2> QED BY <1>1, <1>4, <2>3
<1>6. PICK s \in Late : \A y \in Late : s <= y
  <2>1. Late \in SUBSET Nat
    BY <1>0
  <2> HIDE DEF Late
  <2> QED BY <1>5, <2>1, LeastExists
<1>7. Cardinality(Below(s)) = k - 1
  <2>1. SUFFICES ASSUME Cardinality(Below(s)) > k - 1
                 PROVE  FALSE
    BY <1>3, <1>6
  <2>2. Below(s) # {}
    <3>1. Cardinality(Below(s)) # 0
        BY <1>3, <2>1
    <3> HIDE DEF Below
    <3> QED BY <3>1, FS_EmptySet
  <2>3. PICK p \in Below(s) : \A y \in Below(s) : y <= p
    <3>1. Below(s) \in SUBSET (1..n)
        OBVIOUS
    <3> HIDE DEF Below
    <3> QED BY <2>2, <3>1, GreatestExists
  <2>4. p \in S /\ p < s
    BY <2>3
  <2>5. Below(p) = Below(s) \ {p}
    <3>1. \A r \in S : r < p <=> r < s /\ r # p
        BY <1>0, <1>6, <2>3, <2>4
    <3> QED BY <3>1
  <2>6. Cardinality(Below(s) \ {p}) = Cardinality(Below(s)) - 1
    <3>1. IsFiniteSet(Below(s))
        BY <1>3, <1>6
    <3> HIDE DEF Below
    <3> QED BY <2>3, <3>1, FS_RemoveElement
  <2>7. Cardinality(Below(p)) >= k - 1
    <3>1. Cardinality(Below(p)) = Cardinality(Below(s)) - 1
        BY <2>5, <2>6
    <3> HIDE DEF Below
    <3> QED BY <1>3, <1>6, <2>1, <3>1
  <2>8. p \in Late
    BY <2>4, <2>7
  <2>9. s <= p
    BY <1>6, <2>8
  <2> QED BY <1>0, <1>6, <2>4, <2>9
<1>8. s \in S
    BY <1>6
<1> QED BY <1>7, <1>8 DEF Nth

\* A batch that has a place has a last one.
LEMMA BatchEndExists ==
    ASSUME NEW ds, Len(ds) \in Nat, NEW s \in Starts(ds)
    PROVE  BatchEnd(ds, s) \in 1..Len(ds) /\ BatchStart(ds)[BatchEnd(ds, s)] = s
<1> DEFINE Members == {e \in 1..Len(ds) : BatchStart(ds)[e] = s}
<1>1. s \in Members
    BY DEF Starts
<1>2. PICK e \in Members : \A y \in Members : y <= e
  <2>1. Members \in SUBSET (1..Len(ds))
    OBVIOUS
  <2> HIDE DEF Members
  <2> QED BY <1>1, <2>1, GreatestExists
<1>3. e = Len(ds) \/ BatchStart(ds)[e + 1] # s
  <2>1. SUFFICES ASSUME e # Len(ds), BatchStart(ds)[e + 1] = s
                 PROVE  FALSE
    OBVIOUS
  <2>2. e + 1 \in Members
    BY <2>1
  <2> QED BY <1>2, <2>2
<1> QED BY <1>2, <1>3 DEF BatchEnd

Deliveries(IdSet, StateSet) == [id : IdSet, state : StateSet, settled : BOOLEAN]

DispositionFrames(IdSet, StateSet) ==
    [type : {"disposition"}, role : {"sender", "receiver"}, first : IdSet, last : IdSet,
     state : StateSet, settled : BOOLEAN]

\* What write_dispositions writes for any list of deliveries.
LEMMA WriteDispositionsType ==
    ASSUME NEW IdSet, NEW StateSet, NEW ds \in Seq(Deliveries(IdSet, StateSet)),
           NEW role \in {"sender", "receiver"}
    PROVE  WriteDispositions(ds, role) \in Seq(DispositionFrames(IdSet, StateSet))
<1> DEFINE count == Cardinality(Starts(ds))
<1>1. Len(ds) \in Nat /\ \A i \in 1..Len(ds) : ds[i] \in Deliveries(IdSet, StateSet)
    OBVIOUS
<1>2. Starts(ds) \in SUBSET (1..Len(ds))
    BY DEF Starts
<1>3. count \in Nat
  <2>1. IsFiniteSet(1..Len(ds))
    BY <1>1, FS_Interval
  <2>2. IsFiniteSet(Starts(ds))
    BY <1>2, <2>1, FS_Subset
  <2> QED BY <2>2, FS_CardinalityType
<1>4. \A k \in 1..count : Disposition(ds, Nth(Starts(ds), k), role) \in DispositionFrames(IdSet, StateSet)
  <2>1. SUFFICES ASSUME NEW k \in 1..count
                 PROVE  Disposition(ds, Nth(Starts(ds), k), role) \in DispositionFrames(IdSet, StateSet)
    OBVIOUS
  <2> DEFINE s == Nth(Starts(ds), k)
  <2>2. s \in Starts(ds)
    BY <1>1, <1>2, NthExists
  <2> HIDE DEF s
  <2>3. BatchEnd(ds, s) \in 1..Len(ds)
    BY <1>1, <2>2, BatchEndExists
  <2>4. ds[s] \in Deliveries(IdSet, StateSet) /\ ds[BatchEnd(ds, s)] \in Deliveries(IdSet, StateSet)
    BY <1>1, <1>2, <2>2, <2>3
  <2>5. Disposition(ds, s, role) \in DispositionFrames(IdSet, StateSet)
    BY <2>4 DEF Disposition, Deliveries, DispositionFrames
  <2> QED BY <2>5 DEF s
<1> HIDE DEF count
<1>5. [k \in 1..count |-> Disposition(ds, Nth(Starts(ds), k), role)]
          \in Seq(DispositionFrames(IdSet, StateSet))
    BY <1>3, <1>4
<1> QED BY <1>5 DEF WriteDispositions, count

\* BatchStart is what its recursion says.
LEMMA BatchStartUnfolds ==
    ASSUME NEW ds, Len(ds) \in Nat
    PROVE  \A i \in 1..Len(ds) :
               BatchStart(ds)[i] = IF i = 1 \/ StartsBatch(ds, BatchStart(ds)[i - 1], i) THEN i
                                   ELSE BatchStart(ds)[i - 1]
<1> DEFINE n == Len(ds)
           Body(g) == [i \in 1..n |-> IF i = 1 \/ StartsBatch(ds, g[i - 1], i) THEN i ELSE g[i - 1]]
           step == [p \in (1..n) \X Nat |->
                       IF p[1] = 1 \/ StartsBatch(ds, p[2], p[1]) THEN p[1] ELSE p[2]]
           start == CHOOSE g : g = Body(g)
<1>1. step \in [(1..n) \X Nat -> Nat]
    OBVIOUS
<1>2. PICK f \in [0..n -> Nat] : Recurs(f, n, 0, step)
  <2> HIDE DEF step, n
  <2>1. n \in Nat
    BY DEF n
  <2> QED BY <1>1, <2>1, Recursion
<1> DEFINE g == [i \in 1..n |-> f[i]]
<1>3. g = Body(g)
  <2>1. ASSUME NEW i \in 1..n
        PROVE  f[i] = IF i = 1 \/ StartsBatch(ds, f[i - 1], i) THEN i ELSE f[i - 1]
    <3>1. i - 1 \in 0..n
        OBVIOUS
    <3>2. <<i, f[i - 1]>> \in (1..n) \X Nat
        BY <1>2, <3>1
    <3> QED BY <1>2, <3>2 DEF Recurs
  <2>2. ASSUME NEW i \in 1..n
        PROVE  g[i] = Body(g)[i]
    <3>1. CASE i = 1
        BY <2>1, <3>1
    <3>2. CASE i # 1
      <4>1. i - 1 \in 1..n /\ g[i - 1] = f[i - 1] /\ g[i] = f[i]
        BY <3>2
      <4> HIDE DEF g
      <4> QED BY <2>1, <4>1
    <3> QED BY <3>1, <3>2
  <2> QED BY <2>2
<1>4. start = Body(start)
  <2> HIDE DEF Body, g
  <2> QED BY <1>3
<1>5. BatchStart(ds) = start
    BY DEF BatchStart
<1> HIDE DEF start
<1> QED BY <1>4, <1>5

\* The places of a batch lie together, from its start on.
LEMMA BatchTogether ==
    ASSUME NEW ds, Len(ds) \in Nat, NEW e \in 1..Len(ds)
    PROVE  /\ BatchStart(ds)[e] \in 1..e
           /\ \A i \in BatchStart(ds)[e]..e : BatchStart(ds)[i] = BatchStart(ds)[e]
<1> DEFINE start == BatchStart(ds)
           Own == {i \in 1..e : start[i] = i}
<1>1. \A i \in 1..Len(ds) : start[i] \in {i, start[i - 1]} /\ (i = 1 => start[i] = 1)
    BY BatchStartUnfolds
<1> HIDE DEF start
<1>2. PICK s \in Own : \A y \in Own : y <= s
  <2>1. Own \in SUBSET (1..e) /\ 1 \in Own
    BY <1>1
  <2>2. e \in Nat
    OBVIOUS
  <2> HIDE DEF Own
  <2> QED BY <2>1, <2>2, GreatestExists
<1> DEFINE Other == {i \in s..e : start[i] # s}
<1>3. Other = {}
  <2>1. SUFFICES ASSUME Other # {} PROVE FALSE
    OBVIOUS
  <2>2. PICK i \in Other : \A y \in Other : i <= y
    <3>1. Other \in SUBSET Nat
        OBVIOUS
    <3> HIDE DEF Other
    <3> QED BY <2>1, <3>1, LeastExists
  <2>3. s \in Nat \ {0} /\ i \in Nat /\ e \in Nat /\ i \in 1..e /\ i > s /\ i \notin Own
    <3>1. s \in 1..e /\ i \in s..e /\ start[i] # s /\ start[s] = s
        BY <1>2, <2>2
    <3>2. i \in 1..e /\ i > s
        BY <3>1
    <3>3. i \notin Own
      <4> HIDE DEF Own, Other
      <4> QED BY <1>2, <3>1, <3>2
    <3> QED BY <3>1, <3>2, <3>3
  <2>4. i - 1 \in s..e /\ i - 1 \notin Other
    <3>1. i - 1 \in s..e /\ ~ (i <= i - 1)
        BY <2>3
    <3> HIDE DEF Other
    <3> QED BY <2>2, <3>1
  <2>5. start[i - 1] = s
    BY <2>4
  <2>6. start[i] = i
    BY <1>1, <2>2, <2>3, <2>5
  <2> QED BY <2>3, <2>6
<1>4. \A i \in s..e : start[i] = s
    BY <1>3
<1>5. s \in 1..e /\ e \in s..e
    BY <1>2
<1> QED BY <1>4, <1>5 DEF start

\* A frame speaks of deliveries of its own batch only, if none is in the list twice.
LEMMA BatchRange ==
    ASSUME NEW IdSet \in SUBSET Int, NEW StateSet, NEW ds \in Seq(Deliveries(IdSet, StateSet)),
           \A i, j \in 1..Len(ds) : ds[i].id = ds[j].id => i = j,
           NEW s \in Starts(ds), NEW x \in ds[s].id..ds[BatchEnd(ds, s)].id
    PROVE  \E i \in 1..Len(ds) : BatchStart(ds)[i] = s /\ ds[i].id = x
<1> DEFINE e == BatchEnd(ds, s)
<1>1. Len(ds) \in Nat /\ \A i \in 1..Len(ds) : ds[i].id \in Int
  <2>1. Len(ds) \in Nat /\ \A i \in 1..Len(ds) : ds[i] \in Deliveries(IdSet, StateSet)
    OBVIOUS
  <2> QED BY <2>1 DEF Deliveries
<1>2. e \in 1..Len(ds) /\ BatchStart(ds)[e] = s
    BY <1>1, BatchEndExists
<1> HIDE DEF e
<1>3. s \in 1..e /\ \A i \in s..e : BatchStart(ds)[i] = s
    BY <1>1, <1>2, BatchTogether
<1>4. \A i \in (s + 1)..e : ~ StartsBatch(ds, s, i)
  <2>1. SUFFICES ASSUME NEW i \in (s + 1)..e
                 PROVE  ~ StartsBatch(ds, s, i)
    OBVIOUS
  <2>2. /\ i \in 1..Len(ds) /\ i # 1 /\ i # s /\ BatchStart(ds)[i] = s
        /\ BatchStart(ds)[i - 1] = s
    BY <1>2, <1>3
  <2> QED BY <1>1, <2>2, BatchStartUnfolds
<1>5. CASE s = 1
  <2>1. \A i \in 2..e : ds[i].id = ds[1].id + (i - 1)
    BY <1>1, <1>2, <1>4, <1>5 DEF StartsBatch
  <2>2. \A i \in 1..e : ds[i].id = ds[1].id + (i - 1)
    BY <1>1, <1>2, <1>3, <2>1
  <2> DEFINE i == x - ds[1].id + 1
  <2>3. x \in ds[1].id..ds[e].id /\ ds[1].id \in Int
    BY <1>1, <1>2, <1>5 DEF e
  <2>4. ds[e].id = ds[1].id + (e - 1)
    BY <1>2, <2>2
  <2>5. i \in 1..e /\ x = ds[1].id + (i - 1)
    BY <1>2, <2>3, <2>4
  <2> HIDE DEF i
  <2>6. i \in 1..Len(ds) /\ BatchStart(ds)[i] = s /\ ds[i].id = x
    BY <1>2, <1>3, <1>5, <2>2, <2>5
  <2> QED BY <2>6
<1>6. CASE s # 1
  <2>1. e = s
    <3>1. SUFFICES ASSUME e # s PROVE FALSE
        OBVIOUS
    <3>2. s + 1 \in (s + 1)..e /\ s \in 1..Len(ds) /\ s + 1 \in 1..Len(ds)
        BY <1>2, <1>3, <3>1
    <3>3. ds[s].id + ((s + 1) - s) - 1 = ds[s + 1].id
        BY <1>4, <1>6, <3>2 DEF StartsBatch
    <3>4. ds[s + 1].id = ds[s].id
        BY <1>1, <3>2, <3>3
    <3>5. s + 1 = s
        BY <3>2, <3>4
    <3> QED BY <3>2, <3>5
  <2>2. x = ds[s].id
    BY <1>1, <1>2, <2>1 DEF e
  <2> QED BY <1>2, <2>1, <2>2
<1> QED BY <1>5, <1>6

\* The ids a disposition frame speaks of.
Covered(f) == f.first..f.last

\* The frames for a list in which no delivery is twice: each speaks of deliveries of the
\* list only, and no two of the same one.
LEMMA FramesApart ==
    ASSUME NEW IdSet \in SUBSET Int, NEW StateSet, NEW ds \in Seq(Deliveries(IdSet, StateSet)),
           \A i, j \in 1..Len(ds) : ds[i].id = ds[j].id => i = j, NEW role
    PROVE  LET fs == WriteDispositions(ds, role)
           IN  /\ \A k \in DOMAIN fs : \A x \in Covered(fs[k]) :
                      \E i \in 1..Len(ds) : ds[i].id = x
               /\ \A j, k \in DOMAIN fs : j # k => Covered(fs[j]) \cap Covered(fs[k]) = {}
<1> DEFINE fs == WriteDispositions(ds, role)
           count == Cardinality(Starts(ds))
<1>1. Len(ds) \in Nat /\ Starts(ds) \in SUBSET (1..Len(ds))
    BY DEF Starts
<1>2. DOMAIN fs = 1..count
    BY DEF WriteDispositions
<1>3. ASSUME NEW k \in DOMAIN fs
      PROVE  /\ Nth(Starts(ds), k) \in Starts(ds)
             /\ Cardinality({r \in Starts(ds) : r < Nth(Starts(ds), k)}) = k - 1
             /\ fs[k] = Disposition(ds, Nth(Starts(ds), k), role)
  <2>1. k \in 1..count
    BY <1>2
  <2>2. Nth(Starts(ds), k) \in Starts(ds)
        /\ Cardinality({r \in Starts(ds) : r < Nth(Starts(ds), k)}) = k - 1
    BY <1>1, <2>1, NthExists
  <2> QED BY <2>1, <2>2 DEF WriteDispositions
<1> HIDE DEF fs
<1>4. ASSUME NEW k \in DOMAIN fs, NEW x \in Covered(fs[k])
      PROVE  \E i \in 1..Len(ds) : BatchStart(ds)[i] = Nth(Starts(ds), k) /\ ds[i].id = x
  <2> DEFINE s == Nth(Starts(ds), k)
  <2>1. s \in Starts(ds) /\ fs[k] = Disposition(ds, s, role)
    BY <1>3
  <2> HIDE DEF s
  <2>2. x \in ds[s].id..ds[BatchEnd(ds, s)].id
    BY <1>4, <2>1 DEF Disposition, Covered
  <2>3. \E i \in 1..Len(ds) : BatchStart(ds)[i] = s /\ ds[i].id = x
    BY <2>1, <2>2, BatchRange
  <2> QED BY <2>3 DEF s
<1>5. ASSUME NEW j \in DOMAIN fs, NEW k \in DOMAIN fs, j # k,
             NEW x \in Covered(fs[j]), x \in Covered(fs[k])
      PROVE  FALSE
  <2>1. PICK i \in 1..Len(ds) : BatchStart(ds)[i] = Nth(Starts(ds), j) /\ ds[i].id = x
    BY <1>4
  <2>2. PICK h \in 1..Len(ds) : BatchStart(ds)[h] = Nth(Starts(ds), k) /\ ds[h].id = x
    BY <1>4, <1>5
  <2>3. Nth(Starts(ds), j) = Nth(Starts(ds), k)
    BY <2>1, <2>2
  <2>4. j - 1 = k - 1
    BY <1>3, <2>3
  <2>5. j \in Int /\ k \in Int
    BY <1>2
  <2> QED BY <1>5, <2>4, <2>5
<1>6. \A k \in DOMAIN fs : \A x \in Covered(fs[k]) : \E i \in 1..Len(ds) : ds[i].id = x
    BY <1>4
<1>7. \A j, k \in DOMAIN fs : j # k => Covered(fs[j]) \cap Covered(fs[k]) = {}
    BY <1>5
<1> QED BY <1>6, <1>7 DEF fs

\* A frame's settled flag is that of every delivery it speaks of, and its state is that
\* of one of the list.
LEMMA FramesAgree ==
    ASSUME NEW IdSet \in SUBSET Int, NEW StateSet, NEW ds \in Seq(Deliveries(IdSet, StateSet)),
           \A i, j \in 1..Len(ds) : ds[i].id = ds[j].id => i = j, NEW role,
           NEW k \in DOMAIN WriteDispositions(ds, role)
    PROVE  LET f == WriteDispositions(ds, role)[k]
           IN  /\ \E i \in 1..Len(ds) : f.state = ds[i].state
               /\ \A x \in Covered(f) :
                      \E i \in 1..Len(ds) : ds[i].id = x /\ ds[i].settled = f.settled
<1> DEFINE f == WriteDispositions(ds, role)[k]
           s == Nth(Starts(ds), k)
<1>1. Len(ds) \in Nat /\ Starts(ds) \in SUBSET (1..Len(ds))
    BY DEF Starts
<1>2. k \in 1..Cardinality(Starts(ds)) /\ f = Disposition(ds, s, role)
    BY DEF WriteDispositions
<1>3. s \in Starts(ds) /\ s \in 1..Len(ds)
    BY <1>1, <1>2, NthExists
<1> HIDE DEF f, s
<1>4. f.state = ds[s].state /\ f.settled = ds[s].settled
      /\ Covered(f) = ds[s].id..ds[BatchEnd(ds, s)].id
    BY <1>2 DEF Disposition, Covered
<1>5. ASSUME NEW i \in 1..Len(ds), BatchStart(ds)[i] = s
      PROVE  ds[i].settled = ds[s].settled
  <2>1. s \in 1..i /\ \A j \in s..i : BatchStart(ds)[j] = s
    BY <1>1, <1>5, BatchTogether
  <2> DEFINE Odd == {j \in s..i : ds[j].settled # ds[s].settled}
  <2>2. SUFFICES ASSUME Odd # {} PROVE FALSE
    BY <2>1
  <2>3. PICK j \in Odd : \A y \in Odd : j <= y
    <3>1. Odd \in SUBSET Nat
        BY <2>1
    <3> HIDE DEF Odd
    <3> QED BY <2>2, <3>1, LeastExists
  <2>4. /\ j \in Int /\ s < j /\ j <= i /\ j - 1 \in s..i /\ j - 1 \notin Odd
        /\ j \in 1..Len(ds) /\ j # 1 /\ j # s
    BY <2>1, <2>3
  <2>5. ds[j - 1].settled = ds[s].settled
    BY <2>4
  <2>6. ~ StartsBatch(ds, s, j)
    BY <1>1, <2>1, <2>4, BatchStartUnfolds
  <2>7. ds[j - 1].settled = ds[j].settled
    BY <2>6 DEF StartsBatch
  <2> QED BY <2>3, <2>5, <2>7
<1>6. ASSUME NEW x \in Covered(f)
      PROVE  \E i \in 1..Len(ds) : ds[i].id = x /\ ds[i].settled = f.settled
  <2>1. x \in ds[s].id..ds[BatchEnd(ds, s)].id
    BY <1>4
  <2>2. PICK i \in 1..Len(ds) : BatchStart(ds)[i] = s /\ ds[i].id = x
    BY <1>3, <2>1, BatchRange
  <2> QED BY <1>4, <1>5, <2>2
<1> QED BY <1>3, <1>4, <1>6 DEF f

TransferFrames ==
    [type : {"transfer"}, handle : Links, delivery_id : Ids, settled : BOOLEAN,
     more : BOOLEAN, part : Nat, transfer_id : Nat, number : Nat]

FlowFrames ==
    [type : {"flow"}, handle : Links \cup {NoHandle}, next_incoming_id : Nat,
     incoming_window : Nat, delivery_count : Nat, link_credit : Nat]

ToReceiver == TransferFrames \cup DispositionFrames(Ids, States)
ToSender == FlowFrames \cup DispositionFrames(Ids, States)

BufferedIsSent ==
    \A i \in 0..(OutCapacity - 1) :
        outbuf.entries[i] # Undefined => sent[outbuf.entries[i]].link \in Links

Typed ==
    /\ TypeOK
    /\ s2r \in Seq(ToReceiver)
    /\ r2s \in Seq(ToSender)
    /\ BufferedIsSent

-----------------------------------------------------------------------------
(* Lemmas shared by several actions.                                        *)

\* A buffer that only loses entries, and deliveries that keep their link.
LEMMA BufferedKept ==
    ASSUME BufferedIsSent, outbuf \in Buffer(OutCapacity, Ids),
           \A i \in 0..(OutCapacity - 1) : outbuf'.entries[i] \in {outbuf.entries[i], Undefined},
           \A e \in Ids : sent'[e].link = sent[e].link
    PROVE  BufferedIsSent'
<1> SUFFICES ASSUME NEW i \in 0..(OutCapacity - 1), outbuf'.entries[i] # Undefined
             PROVE  sent'[outbuf'.entries[i]].link \in Links
    BY DEF BufferedIsSent
<1>1. outbuf'.entries[i] = outbuf.entries[i]
    OBVIOUS
<1>2. outbuf.entries[i] \in Ids
    BY <1>1 DEF Buffer
<1> QED BY <1>1, <1>2 DEF BufferedIsSent

\* A delivery by_id finds in the sending buffer was sent on a link.
LEMMA FoundOutgoing ==
    ASSUME Typed, NEW id \in Int, ById(outbuf, id) # Undefined
    PROVE  ById(outbuf, id) \in Ids /\ sent[ById(outbuf, id)].link \in Links
<1>1. outbuf \in Buffer(OutCapacity, Ids) /\ BufferedIsSent
    BY DEF Typed, TypeOK
<1>2. Ids \in SUBSET Int
    BY Bounds DEF Ids
<1>3. PICK s \in 0..(OutCapacity - 1) : ById(outbuf, id) = outbuf.entries[s]
    BY <1>1, <1>2, Capacities, ByIdType
<1>4. outbuf.entries[s] \in Ids
    BY <1>1, <1>3 DEF Buffer
<1> QED BY <1>1, <1>3, <1>4 DEF BufferedIsSent

\* The delivery the sending loop looks at, and the number of frames it may send.
LEMMA PendingType ==
    ASSUME Typed, CanSend
    PROVE  /\ Pending \in Ids
           /\ sent[Pending].link \in Links
           /\ TransferWindow \in Int /\ NumToSend \in Nat \ {0}
           /\ NumToSend <= TransferWindow
           /\ NumToSend <= sent[Pending].frames - sent[Pending].next_to_send
<1>1. out \in Outgoing /\ sent \in [Ids -> SentDelivery]
    BY DEF Typed, TypeOK
<1>2. Pending \in Ids /\ sent[Pending].link \in Links
  <2>1. out.next_pending_delivery \in Int
    BY <1>1 DEF Outgoing
  <2> QED BY <2>1, FoundOutgoing DEF CanSend, Pending
<1>3. TransferWindow \in Int
    BY <1>1 DEF TransferWindow, Outgoing
<1>4. sent[Pending].frames \in Nat /\ sent[Pending].next_to_send \in Nat
    BY <1>1, <1>2, Bounds DEF SentDelivery
<1>5. NumToSend > 0
    BY DEF CanSend
<1> QED BY <1>2, <1>3, <1>4, <1>5 DEF NumToSend, Lesser

\* Dispositions may be appended to either direction of the stream.
LEMMA DispositionsFit ==
    ASSUME NEW ds \in Seq(Deliveries(Ids, States)), NEW role \in {"sender", "receiver"}
    PROVE  /\ WriteDispositions(ds, role) \in Seq(ToReceiver)
           /\ WriteDispositions(ds, role) \in Seq(ToSender)
<1>1. WriteDispositions(ds, role) \in Seq(DispositionFrames(Ids, States))
    BY WriteDispositionsType
<1> QED BY <1>1, SeqMonotonic DEF ToReceiver, ToSender

\* pop_if leaves a buffer, with at least as much room, and nothing new in it.
LEMMA PopIfType ==
    ASSUME NEW capacity \in Nat \ {0}, NEW S, NEW b \in Buffer(capacity, S), NEW done
    PROVE  /\ PopIf(b, done) \in Buffer(capacity, S)
           /\ Available(PopIf(b, done)) >= Available(b)
           /\ \A s \in 0..(capacity - 1) : PopIf(b, done).entries[s] \in {b.entries[s], Undefined}
<1> DEFINE popped == {i \in 0..(b.size - 1) : \A j \in 0..i : b.entries[Slot(b, j)] \in done}
           n == Cardinality(popped)
<1>1. b.size \in 0..capacity /\ b.capacity = capacity
    BY DEF Buffer
<1>2. n \in 0..b.size
  <2>1. popped \subseteq 0..(b.size - 1)
    OBVIOUS
  <2>2. b.size \in Nat
    BY <1>1
  <2> HIDE DEF popped
  <2>3. Cardinality(popped) \in 0..b.size
    BY <2>1, <2>2, CountRange
  <2> QED BY <2>3
<1>3. PopIf(b, done) = Drop(b, n)
    BY DEF PopIf, PopCount
<1> HIDE DEF n
<1>4. /\ Drop(b, n) \in Buffer(capacity, S)
      /\ Available(Drop(b, n)) = Available(b) + n
      /\ \A s \in 0..(capacity - 1) : Drop(b, n).entries[s] \in {b.entries[s], Undefined}
    BY <1>2, DropType
<1>5. Available(b) \in Nat
    BY <1>1 DEF Available
<1> QED BY <1>2, <1>3, <1>4, <1>5

-----------------------------------------------------------------------------
(* The initial state.                                                       *)

LEMMA InitTyped == Init => Typed
<1> SUFFICES ASSUME Init PROVE Typed
    OBVIOUS
<1> USE Capacities, LinkOptions, Bounds DEF Init
<1>1. outbuf \in Buffer(OutCapacity, Ids) /\ inbuf \in Buffer(InCapacity, Ids)
    BY EmptyBufferType
<1>2. \A i \in 0..(OutCapacity - 1) : outbuf.entries[i] = Undefined
    BY DEF EmptyBuffer
<1>3. out \in Outgoing /\ inc \in Incoming
    BY DEF Outgoing, Incoming
<1>4. sent \in [Ids -> SentDelivery]
    BY DEF SentDelivery, States
<1>5. got \in [Ids -> GotDelivery]
    BY DEF GotDelivery, States
<1>6. rcv \in [Links -> ReceiverLink] /\ snd \in [Links -> SenderLink]
    BY DEF ReceiverLink, SenderLink
<1>7. sproc \in [registered : BOOLEAN, processing : BOOLEAN] /\ registered \in BOOLEAN
      /\ delivered \in Seq(Ids) /\ failed = "none" /\ s2r = <<>> /\ r2s = <<>>
    OBVIOUS
<1>8. TypeOK
    BY <1>1, <1>3, <1>4, <1>5, <1>6, <1>7 DEF TypeOK
<1> QED BY <1>2, <1>7, <1>8 DEF Typed, BufferedIsSent

-----------------------------------------------------------------------------
(* The steps of the sending peer.                                           *)

LEMMA SendTyped ==
    ASSUME Typed, NEW l \in Links, NEW n \in 1..MaxFrames, Send(l, n)
    PROVE  Typed'
<1> DEFINE id == out.next_delivery_id
<1> USE Capacities
<1>0. out \in Outgoing /\ out' = [out EXCEPT !.next_delivery_id = id + 1] /\ id < MaxDeliveries
    BY DEF Typed, TypeOK, Send
<1>1. id \in Ids
    BY <1>0, Bounds DEF Outgoing, Ids
<1>2. out' \in Outgoing
    BY <1>0 DEF Outgoing
<1>3. CASE Available(outbuf) > 0
  <2>1. /\ outbuf' = Push(outbuf, id)
        /\ outbuf \in Buffer(OutCapacity, Ids)
        /\ sent' = [sent EXCEPT ![id] = [link |-> l, frames |-> n, next_to_send |-> 0,
                       settled |-> l \in SettledFirst, remote_settled |-> FALSE,
                       remote_state |-> NoState]]
    BY <1>3 DEF Typed, TypeOK, Send
  <2>2. outbuf' \in Buffer(OutCapacity, Ids)
    BY <1>1, <1>3, <2>1, PushType
  <2>3. sent' \in [Ids -> SentDelivery]
    <3>1. [link |-> l, frames |-> n, next_to_send |-> 0, settled |-> l \in SettledFirst,
           remote_settled |-> FALSE, remote_state |-> NoState] \in SentDelivery
        BY Bounds DEF SentDelivery, States
    <3>2. sent \in [Ids -> SentDelivery]
        BY DEF Typed, TypeOK
    <3> QED BY <1>1, <2>1, <3>1, <3>2
  <2>4. sproc' \in [registered : BOOLEAN, processing : BOOLEAN]
    BY <1>3 DEF Typed, TypeOK, Send
  <2>5. BufferedIsSent'
    <3> SUFFICES ASSUME NEW i \in 0..(OutCapacity - 1), outbuf'.entries[i] # Undefined
                 PROVE  sent'[outbuf'.entries[i]].link \in Links
        BY DEF BufferedIsSent
    <3> DEFINE e == outbuf'.entries[i]
    <3>1. e \in Ids
        BY <2>2 DEF Buffer
    <3>2. e = id \/ \E s \in 0..(OutCapacity - 1) : outbuf.entries[s] = e
        BY <1>1, <1>3, <2>1, <3>1, PushType
    <3>3. CASE e = id
        BY <1>1, <2>1, <3>3 DEF Typed, TypeOK
    <3>4. CASE e # id
      <4>1. sent'[e] = sent[e]
        BY <2>1, <3>1, <3>4 DEF Typed, TypeOK
      <4>2. sent[e].link \in Links
        BY <3>2, <3>4 DEF Typed, BufferedIsSent
      <4> QED BY <4>1, <4>2
    <3> QED BY <3>3, <3>4
  <2> QED BY <1>2, <2>2, <2>3, <2>4, <2>5 DEF Typed, TypeOK, Send, receiver
<1>4. CASE ~ (Available(outbuf) > 0)
    BY <1>2, <1>4 DEF Typed, TypeOK, Send, receiver, BufferedIsSent
<1> QED BY <1>3, <1>4

LEMMA SettleTyped ==
    ASSUME Typed, NEW id \in Ids, Settle(id)
    PROVE  Typed'
<1>0. /\ out \in Outgoing /\ sent \in [Ids -> SentDelivery]
      /\ \/ out' = out
         \/ out' = [out EXCEPT !.pending_dispositions = Append(@, id)]
      /\ sent' = [sent EXCEPT ![id].settled = TRUE]
    BY DEF Typed, TypeOK, Settle
<1>1. out' \in Outgoing
  <2> DEFINE pending == Append(out.pending_dispositions, id)
  <2>1. pending \in Seq(Ids)
    BY <1>0 DEF Outgoing
  <2>2. out' = out \/ out' = [out EXCEPT !.pending_dispositions = pending]
    BY <1>0
  <2> HIDE DEF pending
  <2> QED BY <1>0, <2>1, <2>2 DEF Outgoing
<1>2. sent' \in [Ids -> SentDelivery] /\ \A e \in Ids : sent'[e].link = sent[e].link
  <2> DEFINE delivery == [sent[id] EXCEPT !.settled = TRUE]
  <2>1. delivery \in SentDelivery /\ delivery.link = sent[id].link
    BY <1>0 DEF SentDelivery
  <2>2. sent' = [sent EXCEPT ![id] = delivery]
    BY <1>0
  <2> HIDE DEF delivery
  <2> QED BY <1>0, <2>1, <2>2
<1>3. sproc' \in [registered : BOOLEAN, processing : BOOLEAN]
    BY DEF Typed, TypeOK, Settle
<1>4. BufferedIsSent'
    BY <1>2, BufferedKept DEF Typed, TypeOK, Settle
<1> QED BY <1>1, <1>2, <1>3, <1>4 DEF Typed, TypeOK, Settle, receiver

LEMMA SendPendingTyped ==
    ASSUME Typed, SendPending
    PROVE  Typed'
<1> DEFINE d == Pending
           l == sent[d].link
           done == sent[d].next_to_send + NumToSend = sent[d].frames
           burst == [k \in 1..NumToSend |-> Transfer(d, k)]
<1>1. /\ out \in Outgoing /\ sent \in [Ids -> SentDelivery] /\ snd \in [Links -> SenderLink]
      /\ s2r \in Seq(ToReceiver)
    BY DEF Typed, TypeOK
<1>2. /\ d \in Ids /\ l \in Links /\ NumToSend \in Nat \ {0}
      /\ NumToSend <= sent[d].frames - sent[d].next_to_send
  <2>1. CanSend
    BY DEF SendPending
  <2> QED BY <2>1, PendingType
<1>3. sent[d] \in SentDelivery /\ snd[l] \in SenderLink
    BY <1>1, <1>2
<1>4. /\ out' = [out EXCEPT !.next_transfer_id = @ + NumToSend,
                            !.next_pending_delivery = IF done THEN @ + 1 ELSE @]
      /\ sent' = IF done THEN [sent EXCEPT ![d].remote_settled = @ \/ sent[d].settled]
                 ELSE [sent EXCEPT ![d].next_to_send = @ + NumToSend]
      /\ snd' = IF done
                THEN [snd EXCEPT ![l] = [credit |-> @.credit - 1,
                                         delivery_count |-> @.delivery_count + 1]]
                ELSE snd
      /\ s2r' = s2r \o burst
      /\ sproc' = [sproc EXCEPT !.processing = TRUE]
      /\ UNCHANGED <<outbuf, receiver, r2s>>
    BY DEF SendPending
<1> HIDE DEF d, l
<1>5. out' \in Outgoing
  <2> DEFINE transfers == out.next_transfer_id + NumToSend
             next == IF done THEN out.next_pending_delivery + 1
                     ELSE out.next_pending_delivery
  <2>1. transfers \in Nat /\ next \in Nat
    BY <1>1, <1>2 DEF Outgoing
  <2>2. out' = [out EXCEPT !.next_transfer_id = transfers, !.next_pending_delivery = next]
    BY <1>4
  <2> HIDE DEF transfers, next
  <2> QED BY <1>1, <2>1, <2>2 DEF Outgoing
<1>6. sent' \in [Ids -> SentDelivery] /\ \A e \in Ids : sent'[e].link = sent[e].link
  <2> DEFINE settled == sent[d].remote_settled \/ sent[d].settled
             next == sent[d].next_to_send + NumToSend
  <2>1. settled \in BOOLEAN
    OBVIOUS
  <2>2. next \in 0..MaxFrames
    BY <1>2, <1>3, Bounds DEF SentDelivery
  <2>3. \/ sent' = [sent EXCEPT ![d] = [sent[d] EXCEPT !.remote_settled = settled]]
        \/ sent' = [sent EXCEPT ![d] = [sent[d] EXCEPT !.next_to_send = next]]
    BY <1>1, <1>2, <1>4
  <2> HIDE DEF settled, next
  <2>4. /\ [sent[d] EXCEPT !.remote_settled = settled] \in SentDelivery
        /\ [sent[d] EXCEPT !.next_to_send = next] \in SentDelivery
    BY <1>3, <2>1, <2>2 DEF SentDelivery
  <2>5. sent' \in [Ids -> SentDelivery]
    BY <1>1, <1>2, <2>3, <2>4
  <2>6. /\ [sent[d] EXCEPT !.remote_settled = settled].link = sent[d].link
        /\ [sent[d] EXCEPT !.next_to_send = next].link = sent[d].link
    BY <1>3 DEF SentDelivery
  <2>7. \A e \in Ids : sent'[e].link = sent[e].link
    BY <1>1, <1>2, <2>3, <2>6
  <2> QED BY <2>5, <2>7
<1>7. snd' \in [Links -> SenderLink]
  <2> DEFINE used == [credit |-> snd[l].credit - 1, delivery_count |-> snd[l].delivery_count + 1]
  <2>1. used \in SenderLink
    BY <1>3 DEF SenderLink
  <2>2. snd' = snd \/ snd' = [snd EXCEPT ![l] = used]
    <3>1. CASE done
      <4>1. snd' = [snd EXCEPT ![l] = [credit |-> @.credit - 1,
                                       delivery_count |-> @.delivery_count + 1]]
        BY <1>4, <3>1
      <4> QED BY <4>1
    <3>2. CASE ~ done
        BY <1>4, <3>2
    <3> QED BY <3>1, <3>2
  <2>3. snd \in [Links -> SenderLink] /\ l \in Links
    BY <1>1, <1>2
  <2> HIDE DEF used, l, done
  <2>4. [snd EXCEPT ![l] = used] \in [Links -> SenderLink]
    BY <2>1, <2>3
  <2> QED BY <2>2, <2>3, <2>4
<1>8. sproc' \in [registered : BOOLEAN, processing : BOOLEAN]
    BY <1>4 DEF Typed, TypeOK
<1>9. s2r' \in Seq(ToReceiver)
  <2>1. \A k \in 1..NumToSend : Transfer(d, k) \in TransferFrames
    <3> SUFFICES ASSUME NEW k \in 1..NumToSend PROVE Transfer(d, k) \in TransferFrames
        OBVIOUS
    <3> DEFINE part == sent[d].next_to_send + k - 1
               more == part + 1 < sent[d].frames
               transfer_id == out.next_transfer_id + k - 1
    <3>1. /\ sent[d].settled \in BOOLEAN /\ sent[d].next_to_send \in Nat
          /\ snd[l].delivery_count \in Nat /\ out.next_transfer_id \in Nat
      <4>1. sent[d] \in SentDelivery /\ snd[l] \in SenderLink /\ out \in Outgoing
        BY <1>1, <1>3
      <4> QED BY <4>1, Bounds DEF SentDelivery, SenderLink, Outgoing
    <3>2. part \in Nat /\ more \in BOOLEAN /\ transfer_id \in Nat
        BY <1>2, <3>1
    <3>3. Transfer(d, k) = [type |-> "transfer", handle |-> l, delivery_id |-> d,
                            settled |-> sent[d].settled, more |-> more, part |-> part,
                            transfer_id |-> transfer_id, number |-> snd[l].delivery_count]
        BY DEF Transfer, l
    <3> HIDE DEF part, more, transfer_id, d, l
    <3> QED BY <1>2, <3>1, <3>2, <3>3 DEF TransferFrames
  <2>2. burst \in Seq(ToReceiver)
    BY <1>2, <2>1 DEF ToReceiver
  <2> HIDE DEF burst
  <2> QED BY <1>1, <1>4, <2>2, ConcatProperties
<1>10. BufferedIsSent'
    BY <1>4, <1>6, BufferedKept DEF Typed, TypeOK
<1> QED BY <1>4, <1>5, <1>6, <1>7, <1>8, <1>9, <1>10 DEF Typed, TypeOK, receiver

LEMMA NotifiedType ==
    ASSUME Typed
    PROVE  /\ Notified \in [Ids -> SentDelivery]
           /\ \A e \in Ids : Notified[e].link = sent[e].link
<1>1. sent \in [Ids -> SentDelivery]
    BY DEF Typed, TypeOK
<1>2. \A e \in Ids : /\ [sent[e] EXCEPT !.settled = TRUE] \in SentDelivery
                     /\ [sent[e] EXCEPT !.settled = TRUE].link = sent[e].link
    BY <1>1 DEF SentDelivery
<1> QED BY <1>1, <1>2 DEF Notified

\* What write_dispositions is given by either side.
LEMMA UpdatedOutgoingType ==
    ASSUME Typed
    PROVE  UpdatedOutgoing \in Seq(Deliveries(Ids, States))
<1>1. out.pending_dispositions \in Seq(Ids)
    BY DEF Typed, TypeOK, Outgoing
<1>2. \A id \in Ids : [id |-> id, state |-> NoState, settled |-> Notified[id].settled]
                          \in Deliveries(Ids, States)
    BY NotifiedType DEF SentDelivery, Deliveries, States
<1> QED BY <1>1, <1>2 DEF UpdatedOutgoing

LEMMA UpdatedIncomingType ==
    ASSUME Typed
    PROVE  UpdatedIncoming \in Seq(Deliveries(Ids, States))
<1>1. inc.updated \in Seq(Ids) /\ got \in [Ids -> GotDelivery]
    BY DEF Typed, TypeOK, Incoming
<1>2. \A id \in Ids : [id |-> id, state |-> got[id].state, settled |-> got[id].settled]
                          \in Deliveries(Ids, States)
    BY <1>1 DEF GotDelivery, Deliveries
<1> QED BY <1>1, <1>2 DEF UpdatedIncoming

LEMMA FinishProcessTyped ==
    ASSUME Typed, FinishProcess
    PROVE  Typed'
<1>1. /\ out \in Outgoing /\ outbuf \in Buffer(OutCapacity, Ids) /\ s2r \in Seq(ToReceiver)
      /\ out' = [out EXCEPT !.updated = {}, !.pending_dispositions = <<>>]
      /\ sent' = Notified
      /\ s2r' = s2r \o WriteDispositions(UpdatedOutgoing, "sender")
      /\ outbuf' = PopIf(outbuf, {id \in Ids : FullySettled(Notified[id])})
      /\ sproc' = [registered |-> FALSE, processing |-> FALSE]
      /\ UNCHANGED <<snd, receiver, r2s>>
    BY DEF Typed, TypeOK, FinishProcess
<1>2. out' \in Outgoing
  <2> DEFINE none == {}
             empty == <<>>
  <2>1. none \in SUBSET Ids /\ empty \in Seq(Ids)
    OBVIOUS
  <2>2. out' = [out EXCEPT !.updated = none, !.pending_dispositions = empty]
    BY <1>1
  <2> HIDE DEF none, empty
  <2> QED BY <1>1, <2>1, <2>2 DEF Outgoing
<1>3. sent' \in [Ids -> SentDelivery] /\ \A e \in Ids : sent'[e].link = sent[e].link
    BY <1>1, NotifiedType
<1>4. /\ outbuf' \in Buffer(OutCapacity, Ids)
      /\ \A i \in 0..(OutCapacity - 1) : outbuf'.entries[i] \in {outbuf.entries[i], Undefined}
    BY <1>1, Capacities, PopIfType
<1>5. UpdatedOutgoing \in Seq(Deliveries(Ids, States))
    BY UpdatedOutgoingType
<1>6. s2r' \in Seq(ToReceiver)
  <2>1. WriteDispositions(UpdatedOutgoing, "sender") \in Seq(ToReceiver)
    BY <1>5, DispositionsFit
  <2> QED BY <1>1, <2>1, ConcatProperties
<1>7. BufferedIsSent'
    BY <1>1, <1>3, <1>4, BufferedKept DEF Typed
<1> QED BY <1>1, <1>2, <1>3, <1>4, <1>6, <1>7 DEF Typed, TypeOK, receiver

\* The frame at the head of the stream to the sender, by its type.
LEMMA SenderReadsType ==
    ASSUME Typed, NEW type, SenderReads(type)
    PROVE  /\ Head(r2s) \in ToSender /\ r2s' \in Seq(ToSender)
           /\ type = "flow" => Head(r2s) \in FlowFrames
           /\ type = "disposition" => Head(r2s) \in DispositionFrames(Ids, States)
           /\ sproc' \in [registered : BOOLEAN, processing : BOOLEAN]
<1>1. r2s \in Seq(ToSender) /\ r2s # <<>> /\ Head(r2s).type = type /\ r2s' = Tail(r2s)
    BY DEF Typed, SenderReads
<1>2. Head(r2s) \in ToSender /\ r2s' \in Seq(ToSender)
    BY <1>1, HeadTailProperties
<1>3. sproc' \in [registered : BOOLEAN, processing : BOOLEAN]
    BY DEF Typed, TypeOK, SenderReads
<1> QED BY <1>1, <1>2, <1>3 DEF ToSender, FlowFrames, DispositionFrames

LEMMA SenderOnFlowTyped ==
    ASSUME Typed, SenderOnFlow
    PROVE  Typed'
<1> DEFINE f == Head(r2s)
           l == f.handle
           credit == f.delivery_count + f.link_credit - snd[l].delivery_count
<1>1. f \in FlowFrames /\ r2s' \in Seq(ToSender)
      /\ sproc' \in [registered : BOOLEAN, processing : BOOLEAN]
    BY SenderReadsType DEF SenderOnFlow
<1>2. out \in Outgoing /\ snd \in [Links -> SenderLink]
    BY DEF Typed, TypeOK
<1>3. /\ out' = [out EXCEPT !.remote_next_transfer_id = f.next_incoming_id,
                            !.remote_window = f.incoming_window]
      /\ snd' = IF l = NoHandle THEN snd ELSE [snd EXCEPT ![l].credit = credit]
      /\ UNCHANGED <<outbuf, sent, receiver, s2r>>
    BY DEF SenderOnFlow, CreditAfter
<1> HIDE DEF f
<1>4. out' \in Outgoing
  <2>1. f.next_incoming_id \in Nat /\ f.incoming_window \in Nat
    BY <1>1 DEF FlowFrames
  <2> QED BY <1>2, <1>3, <2>1 DEF Outgoing
<1>5. snd' \in [Links -> SenderLink]
  <2>1. CASE l = NoHandle
    BY <1>2, <1>3, <2>1
  <2>2. CASE l # NoHandle
    <3>1. l \in Links
        BY <1>1, <2>2 DEF FlowFrames
    <3>2. credit \in Int
        BY <1>1, <1>2, <3>1 DEF FlowFrames, SenderLink
    <3> HIDE DEF credit, l
    <3> QED BY <1>2, <1>3, <2>2, <3>1, <3>2 DEF SenderLink
  <2> QED BY <2>1, <2>2
<1> QED BY <1>1, <1>3, <1>4, <1>5 DEF Typed, TypeOK, receiver, BufferedIsSent

LEMMA SenderOnDispositionTyped ==
    ASSUME Typed, SenderOnDisposition
    PROVE  Typed'
<1> DEFINE f == Head(r2s)
           found == {ById(outbuf, i) : i \in f.first..f.last} \ {Undefined}
           hit == {d \in found : ~ sent[d].remote_settled /\ (f.settled \/ f.state # NoState)}
           Heard(id) == [sent[id] EXCEPT
                            !.remote_settled = f.settled,
                            !.remote_state = IF f.state = NoState THEN @ ELSE f.state]
<1>1. f \in DispositionFrames(Ids, States) /\ r2s' \in Seq(ToSender)
      /\ sproc' \in [registered : BOOLEAN, processing : BOOLEAN]
    BY SenderReadsType DEF SenderOnDisposition
<1>2. /\ out \in Outgoing /\ sent \in [Ids -> SentDelivery]
      /\ outbuf \in Buffer(OutCapacity, Ids)
    BY DEF Typed, TypeOK
<1>3. /\ out' = [out EXCEPT !.updated = @ \cup hit]
      /\ sent' = [id \in Ids |-> IF id \notin hit THEN sent[id] ELSE Heard(id)]
      /\ UNCHANGED <<outbuf, snd, receiver, s2r>>
    BY DEF SenderOnDisposition
<1>4. hit \subseteq Ids
  <2>1. f.first..f.last \subseteq Int
    OBVIOUS
  <2>2. \A i \in f.first..f.last : ById(outbuf, i) # Undefined => ById(outbuf, i) \in Ids
    BY <2>1, FoundOutgoing
  <2> QED BY <2>2
<1> HIDE DEF hit
<1>5. out' \in Outgoing
  <2> DEFINE updated == out.updated \cup hit
  <2>1. updated \in SUBSET Ids
    BY <1>2, <1>4 DEF Outgoing
  <2>2. out' = [out EXCEPT !.updated = updated]
    BY <1>3
  <2> HIDE DEF updated
  <2> QED BY <1>2, <2>1, <2>2 DEF Outgoing
<1>6. \A id \in Ids : Heard(id) \in SentDelivery /\ Heard(id).link = sent[id].link
  <2> SUFFICES ASSUME NEW id \in Ids
               PROVE  Heard(id) \in SentDelivery /\ Heard(id).link = sent[id].link
    OBVIOUS
  <2> DEFINE state == IF f.state = NoState THEN sent[id].remote_state ELSE f.state
             settled == f.settled
  <2>1. sent[id] \in SentDelivery /\ state \in States /\ settled \in BOOLEAN
    BY <1>1, <1>2 DEF SentDelivery, DispositionFrames
  <2>2. Heard(id) = [sent[id] EXCEPT !.remote_settled = settled, !.remote_state = state]
    OBVIOUS
  <2> HIDE DEF state, settled, Heard
  <2> QED BY <2>1, <2>2 DEF SentDelivery
<1> HIDE DEF Heard
<1>7. sent' \in [Ids -> SentDelivery] /\ \A e \in Ids : sent'[e].link = sent[e].link
    BY <1>2, <1>3, <1>6
<1>8. BufferedIsSent'
    BY <1>2, <1>3, <1>7, BufferedKept DEF Typed
<1> QED BY <1>1, <1>3, <1>5, <1>7, <1>8 DEF Typed, TypeOK, receiver

-----------------------------------------------------------------------------
(* The steps of the receiving peer.                                         *)

\* The frame at the head of the stream to the receiver, by its type.
LEMMA ReceiverReadsType ==
    ASSUME Typed, NEW type, ReceiverReads(type)
    PROVE  /\ Head(s2r) \in ToReceiver /\ s2r' \in Seq(ToReceiver)
           /\ type = "transfer" => Head(s2r) \in TransferFrames
           /\ type = "disposition" => Head(s2r) \in DispositionFrames(Ids, States)
<1>1. s2r \in Seq(ToReceiver) /\ s2r # <<>> /\ Head(s2r).type = type /\ s2r' = Tail(s2r)
    BY DEF Typed, ReceiverReads
<1>2. Head(s2r) \in ToReceiver /\ s2r' \in Seq(ToReceiver)
    BY <1>1, HeadTailProperties
<1> QED BY <1>1, <1>2 DEF ToReceiver, TransferFrames, DispositionFrames

\* The pieces a transfer that does not fail changes.
LEMMA ReceivedType ==
    ASSUME Typed, NEW f \in TransferFrames, Fault(f) = "none"
    PROVE  /\ Received(f) \in GotDelivery
           /\ BufferWith(f) \in Buffer(InCapacity, Ids)
           /\ NextDelivery(f) \in Nat \cup {Undefined}
<1>1. /\ got \in [Ids -> GotDelivery] /\ inbuf \in Buffer(InCapacity, Ids) /\ inc \in Incoming
      /\ f.delivery_id \in Ids /\ f.handle \in Links /\ f.part \in Nat /\ f.settled \in BOOLEAN
    BY DEF Typed, TypeOK, TransferFrames
<1>2. got[f.delivery_id] \in GotDelivery
    BY <1>1
<1>3. Received(f) \in GotDelivery
  <2>1. CASE Continues(f)
    <3> DEFINE parts == Append(got[f.delivery_id].parts, f.part)
    <3>1. parts \in Seq(Nat)
        BY <1>1, <1>2 DEF GotDelivery
    <3>2. Received(f) = [got[f.delivery_id] EXCEPT !.parts = parts]
        BY <2>1 DEF Received
    <3> HIDE DEF parts
    <3> QED BY <1>2, <3>1, <3>2 DEF GotDelivery
  <2>2. CASE ~ Continues(f)
    <3> DEFINE parts == <<f.part>>
    <3>1. parts \in Seq(Nat) /\ NoState \in States
        BY <1>1 DEF States
    <3>2. Received(f) = [link |-> f.handle, parts |-> parts, settled |-> FALSE,
                         state |-> NoState, remote_settled |-> f.settled, updates |-> 0]
        BY <2>2 DEF Received
    <3> HIDE DEF parts
    <3> QED BY <1>1, <3>1, <3>2 DEF GotDelivery
  <2> QED BY <2>1, <2>2
<1>4. BufferWith(f) \in Buffer(InCapacity, Ids)
  <2>1. CASE Continues(f)
    BY <1>1, <2>1 DEF BufferWith
  <2>2. CASE ~ Continues(f)
    <3>1. Available(inbuf) # 0
        BY <2>2 DEF Fault
    <3>2. Available(inbuf) > 0
        BY <1>1, <3>1, Capacities DEF Available, Buffer
    <3> QED BY <1>1, <2>2, <3>2, Capacities, PushType DEF BufferWith
  <2> QED BY <2>1, <2>2
<1>5. NextDelivery(f) \in Nat \cup {Undefined}
    BY <1>1, Bounds DEF NextDelivery, Expected, Incoming, Ids
<1> QED BY <1>3, <1>4, <1>5

LEMMA ReceiverOnTransferTyped ==
    ASSUME Typed, ReceiverOnTransfer
    PROVE  Typed'
<1> DEFINE f == Head(s2r)
           l == f.handle
           id == f.delivery_id
<1>1. f \in TransferFrames /\ s2r' \in Seq(ToReceiver)
    BY ReceiverReadsType DEF ReceiverOnTransfer
<1>2. /\ inc \in Incoming /\ got \in [Ids -> GotDelivery] /\ rcv \in [Links -> ReceiverLink]
      /\ delivered \in Seq(Ids) /\ registered \in BOOLEAN
    BY DEF Typed, TypeOK
<1>3. /\ UNCHANGED <<sender, r2s>>
      /\ IF Fault(f) # "none" THEN TransferFails(f)
         ELSE IF f.more THEN TransferMore(f) ELSE TransferLast(f)
    BY DEF ReceiverOnTransfer
<1> HIDE DEF f
<1>4. l \in Links /\ id \in Ids /\ rcv[l] \in ReceiverLink
    BY <1>1, <1>2 DEF TransferFrames
<1> HIDE DEF l, id
<1>5. inc.next_transfer_id + 1 \in Nat /\ inc.updated \in Seq(Ids)
    BY <1>2 DEF Incoming
<1>6. CASE Fault(f) # "none"
  <2>1. /\ failed' \in {"none", "frame sequence error", "circular buffer overflow"}
        /\ inc' = [inc EXCEPT !.next_transfer_id = @ + 1]
        /\ UNCHANGED <<inbuf, got, rcv, registered, delivered>>
    BY <1>3, <1>6 DEF TransferFails, Fault
  <2>2. inc' \in Incoming
    <3> DEFINE n == inc.next_transfer_id + 1
    <3>1. n \in Nat /\ inc' = [inc EXCEPT !.next_transfer_id = n]
        BY <1>5, <2>1
    <3> HIDE DEF n
    <3> QED BY <1>2, <3>1 DEF Incoming
  <2> QED BY <1>1, <1>3, <2>1, <2>2 DEF Typed, TypeOK, sender, BufferedIsSent
<1>7. CASE Fault(f) = "none" /\ f.more
  <2>1. TransferMore(f)
    BY <1>3, <1>7
  <2>2. Received(f) \in GotDelivery /\ inbuf' \in Buffer(InCapacity, Ids)
        /\ NextDelivery(f) \in Nat \cup {Undefined}
    BY <1>1, <1>7, <2>1, ReceivedType DEF TransferMore
  <2>3. inc' \in Incoming
    <3> DEFINE n == inc.next_transfer_id + 1
               i == NextDelivery(f)
    <3>1. inc' = [inc EXCEPT !.next_transfer_id = n, !.next_delivery_id = i]
        BY <2>1 DEF TransferMore
    <3>2. n \in Nat /\ i \in Nat \cup {Undefined}
        BY <1>5, <2>2
    <3> HIDE DEF n, i
    <3> QED BY <1>2, <3>1, <3>2 DEF Incoming
  <2>4. got' \in [Ids -> GotDelivery]
    BY <1>2, <1>4, <2>1, <2>2 DEF TransferMore, id
  <2>5. rcv' \in [Links -> ReceiverLink]
    <3>1. rcv' = [rcv EXCEPT ![l] = [rcv[l] EXCEPT !.incomplete = id]]
        BY <1>2, <1>4, <2>1 DEF TransferMore, l, id
    <3>2. [rcv[l] EXCEPT !.incomplete = id] \in ReceiverLink
        BY <1>4 DEF ReceiverLink
    <3> QED BY <1>2, <1>4, <3>1, <3>2
  <2> QED BY <1>1, <1>3, <2>1, <2>2, <2>3, <2>4, <2>5
             DEF TransferMore, Typed, TypeOK, sender, BufferedIsSent
<1>8. CASE Fault(f) = "none" /\ ~ f.more
  <2> DEFINE left == IF rcv[l].credit > 0 THEN rcv[l].credit - 1 ELSE rcv[l].credit
             delta == CreditWindow[l] - left
             topup == CreditWindow[l] > 0 /\ delta > 0 /\ 4 * delta >= CreditWindow[l]
             accept == l \in AutoAccept
  <2>1. /\ inbuf' = BufferWith(f)
        /\ got' = [got EXCEPT ![id] =
                      IF accept THEN [Received(f) EXCEPT !.state = "accepted",
                                                         !.settled = l \notin SettlesSecond,
                                                         !.updates = 1]
                      ELSE Received(f)]
        /\ rcv' = [rcv EXCEPT ![l] =
                      [credit |-> IF topup THEN left + delta ELSE left,
                       delivery_count |-> rcv[l].delivery_count + 1,
                       issue_flow |-> rcv[l].issue_flow \/ topup,
                       incomplete |-> Undefined]]
        /\ inc' = [inc EXCEPT !.next_transfer_id = @ + 1,
                              !.next_delivery_id = NextDelivery(f),
                              !.updated = IF accept /\ ~ Received(f).remote_settled
                                          THEN Append(@, id) ELSE @]
        /\ registered' = (registered \/ topup \/ accept)
        /\ delivered' = Append(delivered, id)
        /\ UNCHANGED failed
    BY <1>3, <1>8 DEF TransferLast, l, id
  <2>2. Received(f) \in GotDelivery /\ inbuf' \in Buffer(InCapacity, Ids)
        /\ NextDelivery(f) \in Nat \cup {Undefined}
    BY <1>1, <1>8, <2>1, ReceivedType
  <2>3. inc' \in Incoming
    <3> DEFINE n == inc.next_transfer_id + 1
               i == NextDelivery(f)
               u == IF accept /\ ~ Received(f).remote_settled THEN Append(inc.updated, id)
                    ELSE inc.updated
    <3>1. inc' = [inc EXCEPT !.next_transfer_id = n, !.next_delivery_id = i, !.updated = u]
        BY <2>1
    <3>2. n \in Nat /\ i \in Nat \cup {Undefined} /\ u \in Seq(Ids)
        BY <1>4, <1>5, <2>2
    <3> HIDE DEF n, i, u
    <3> QED BY <1>2, <3>1, <3>2 DEF Incoming
  <2>4. got' \in [Ids -> GotDelivery]
    <3> DEFINE settled == l \notin SettlesSecond
    <3>1. settled \in BOOLEAN /\ "accepted" \in States
        BY DEF States
    <3> HIDE DEF settled
    <3>2. [Received(f) EXCEPT !.state = "accepted", !.settled = settled, !.updates = 1]
              \in GotDelivery
        BY <2>2, <3>1 DEF GotDelivery
    <3> QED BY <1>2, <1>4, <2>1, <2>2, <3>2 DEF settled
  <2>5. rcv' \in [Links -> ReceiverLink]
    <3>1. left \in Nat
        BY <1>4 DEF ReceiverLink
    <3>2. CreditWindow[l] \in Nat
        BY <1>4, LinkOptions
    <3>3. left + delta = CreditWindow[l]
        BY <3>1, <3>2
    <3> DEFINE credit == IF topup THEN left + delta ELSE left
               asks == rcv[l].issue_flow \/ topup
    <3>4. credit \in Nat /\ asks \in BOOLEAN
        BY <3>1, <3>2, <3>3
    <3>5. rcv[l].delivery_count + 1 \in Nat
        BY <1>4 DEF ReceiverLink
    <3>6. rcv' = [rcv EXCEPT ![l] = [credit |-> credit,
                      delivery_count |-> rcv[l].delivery_count + 1,
                      issue_flow |-> asks, incomplete |-> Undefined]]
        BY <2>1
    <3> HIDE DEF credit, asks
    <3>7. [credit |-> credit, delivery_count |-> rcv[l].delivery_count + 1,
           issue_flow |-> asks, incomplete |-> Undefined] \in ReceiverLink
        BY <3>4, <3>5 DEF ReceiverLink
    <3> QED BY <1>2, <1>4, <3>6, <3>7
  <2>6. registered' \in BOOLEAN
    BY <2>1
  <2>7. delivered' \in Seq(Ids)
    BY <1>2, <1>4, <2>1
  <2> HIDE DEF left, delta, topup, accept
  <2> QED BY <1>1, <1>3, <2>1, <2>2, <2>3, <2>4, <2>5, <2>6, <2>7
             DEF Typed, TypeOK, sender, BufferedIsSent
<1> QED BY <1>6, <1>7, <1>8

LEMMA GiveOutcomeTyped ==
    ASSUME Typed, NEW id \in Ids, NEW outcome \in Outcomes, GiveOutcome(id, outcome)
    PROVE  Typed'
<1>1. /\ inc \in Incoming /\ got \in [Ids -> GotDelivery] /\ got[id] \in GotDelivery
    BY DEF Typed, TypeOK
<1> DEFINE settled == got[id].link \notin SettlesSecond
           updates == got[id].updates + 1
           updated == Append(inc.updated, id)
           object == [got[id] EXCEPT !.state = outcome, !.updates = updates, !.settled = settled]
<1>2. /\ got' = [got EXCEPT ![id] = object]
      /\ \/ inc' = inc
         \/ inc' = [inc EXCEPT !.updated = updated]
      /\ registered' = TRUE
      /\ UNCHANGED <<sender, inbuf, rcv, delivered, failed, s2r, r2s>>
    BY <1>1 DEF GiveOutcome
<1>3. settled \in BOOLEAN /\ updates \in Nat /\ updated \in Seq(Ids) /\ outcome \in States
    BY <1>1 DEF GotDelivery, Incoming, States
<1> HIDE DEF settled, updates, updated
<1>4. object \in GotDelivery
    BY <1>1, <1>3 DEF GotDelivery
<1> HIDE DEF object
<1>5. got' \in [Ids -> GotDelivery]
    BY <1>1, <1>2, <1>4
<1>6. inc' \in Incoming
    BY <1>1, <1>2, <1>3 DEF Incoming
<1> QED BY <1>2, <1>5, <1>6 DEF Typed, TypeOK, sender, BufferedIsSent

LEMMA AddCreditTyped ==
    ASSUME Typed, NEW l \in Links, AddCredit(l)
    PROVE  Typed'
<1> DEFINE object == [rcv[l] EXCEPT !.credit = @ + 1, !.issue_flow = TRUE]
<1>1. rcv \in [Links -> ReceiverLink] /\ rcv[l] \in ReceiverLink
    BY DEF Typed, TypeOK
<1>2. /\ rcv' = [rcv EXCEPT ![l] = object]
      /\ registered' = TRUE
      /\ UNCHANGED <<sender, inc, inbuf, got, delivered, failed, s2r, r2s>>
    BY <1>1 DEF AddCredit
<1>3. object \in ReceiverLink
  <2> DEFINE credit == rcv[l].credit + 1
  <2>1. credit \in Nat
    BY <1>1 DEF ReceiverLink
  <2>2. object = [rcv[l] EXCEPT !.credit = credit, !.issue_flow = TRUE]
    OBVIOUS
  <2> HIDE DEF credit, object
  <2> QED BY <1>1, <2>1, <2>2 DEF ReceiverLink
<1> HIDE DEF object
<1>4. rcv' \in [Links -> ReceiverLink]
    BY <1>1, <1>2, <1>3
<1> QED BY <1>2, <1>4 DEF Typed, TypeOK, sender, BufferedIsSent

LEMMA ReceiverOnDispositionTyped ==
    ASSUME Typed, ReceiverOnDisposition
    PROVE  Typed'
<1> DEFINE f == Head(s2r)
           found == {ById(inbuf, i) : i \in f.first..f.last} \ {Undefined}
           hit == {d \in found : ~ got[d].remote_settled /\ f.settled}
           Heard(id) == [got[id] EXCEPT !.remote_settled = TRUE,
                                        !.settled = @ \/ got[id].link \in SettlesSecond]
<1>1. s2r' \in Seq(ToReceiver)
    BY ReceiverReadsType DEF ReceiverOnDisposition
<1>2. got \in [Ids -> GotDelivery]
    BY DEF Typed, TypeOK
<1>3. /\ got' = [id \in Ids |-> IF id \notin hit THEN got[id] ELSE Heard(id)]
      /\ registered' = TRUE
      /\ UNCHANGED <<sender, inc, inbuf, rcv, delivered, failed, r2s>>
    BY DEF ReceiverOnDisposition
<1> HIDE DEF hit
<1>4. \A id \in Ids : Heard(id) \in GotDelivery
  <2> SUFFICES ASSUME NEW id \in Ids PROVE Heard(id) \in GotDelivery
    OBVIOUS
  <2> DEFINE settled == got[id].settled \/ got[id].link \in SettlesSecond
  <2>1. settled \in BOOLEAN /\ got[id] \in GotDelivery
    BY <1>2
  <2>2. Heard(id) = [got[id] EXCEPT !.remote_settled = TRUE, !.settled = settled]
    OBVIOUS
  <2> HIDE DEF settled, Heard
  <2> QED BY <2>1, <2>2 DEF GotDelivery
<1> HIDE DEF Heard
<1>5. got' \in [Ids -> GotDelivery]
    BY <1>2, <1>3, <1>4
<1> QED BY <1>1, <1>3, <1>5 DEF Typed, TypeOK, sender, BufferedIsSent

\* A flow tells the truth about the state it is written in.
LEMMA FlowType ==
    ASSUME Typed, NEW b \in Buffer(InCapacity, Ids)
    PROVE  /\ SessionFlow(b) \in FlowFrames
           /\ \A l \in Links : LinkFlow(b, l) \in FlowFrames
<1>1. Uint(inc.next_transfer_id) \in Nat
  <2>1. inc.next_transfer_id \in Nat
    BY DEF Typed, TypeOK, Incoming
  <2> QED BY <2>1, Modulus, ModRange DEF Uint
<1>2. Available(b) \in Nat
    BY Capacities DEF Available, Buffer
<1>3. SessionFlow(b) \in FlowFrames
    BY <1>1, <1>2 DEF SessionFlow, FlowFrames
<1>4. ASSUME NEW l \in Links
      PROVE  LinkFlow(b, l) \in FlowFrames
  <2>1. rcv[l].delivery_count \in Nat /\ rcv[l].credit \in Nat
    BY DEF Typed, TypeOK, ReceiverLink
  <2> QED BY <1>3, <2>1 DEF LinkFlow, FlowFrames
<1> QED BY <1>3, <1>4

LEMMA ReceiverProcessTyped ==
    ASSUME Typed, ReceiverProcess
    PROVE  Typed'
<1> DEFINE top == IF WindowLow \/ Asking # {}
                  THEN Uint(inc.next_transfer_id) + Available(Freed)
                  ELSE inc.max_transfer_id
           opening == IF WindowLow THEN <<SessionFlow(Freed)>> ELSE <<>>
           announced == WriteDispositions(UpdatedIncoming, "receiver")
<1>1. /\ inc \in Incoming /\ inbuf \in Buffer(InCapacity, Ids) /\ got \in [Ids -> GotDelivery]
      /\ rcv \in [Links -> ReceiverLink] /\ r2s \in Seq(ToSender)
    BY DEF Typed, TypeOK
<1>2. PICK order \in [1..Cardinality(Asking) -> Asking] :
          r2s' = r2s \o announced \o opening
                     \o [k \in 1..Cardinality(Asking) |-> LinkFlow(Freed, order[k])]
    BY DEF ReceiverProcess
<1>3. /\ inbuf' = Freed
      /\ inc' = [inc EXCEPT !.updated = <<>>, !.max_transfer_id = top]
      /\ rcv' = [l \in Links |-> [rcv[l] EXCEPT !.issue_flow = FALSE]]
      /\ registered' = FALSE
      /\ UNCHANGED <<sender, got, delivered, failed, s2r>>
    BY DEF ReceiverProcess
<1>4. Freed \in Buffer(InCapacity, Ids)
    BY <1>1, Capacities, PopIfType DEF Freed
<1>5. inc' \in Incoming
  <2>1. Uint(inc.next_transfer_id) \in Nat
    BY <1>1, Modulus DEF Incoming, Uint
  <2>2. Available(Freed) \in Nat
    BY <1>4, Capacities DEF Available, Buffer
  <2>3. top \in Nat
    BY <1>1, <2>1, <2>2 DEF Incoming
  <2> DEFINE empty == <<>>
  <2>4. empty \in Seq(Ids) /\ inc' = [inc EXCEPT !.updated = empty, !.max_transfer_id = top]
    BY <1>3
  <2> HIDE DEF top, empty
  <2> QED BY <1>1, <2>3, <2>4 DEF Incoming
<1>6. rcv' \in [Links -> ReceiverLink]
    BY <1>1, <1>3 DEF ReceiverLink
<1>7. r2s' \in Seq(ToSender)
  <2>1. announced \in Seq(ToSender)
    <3>1. UpdatedIncoming \in Seq(Deliveries(Ids, States))
        BY UpdatedIncomingType
    <3> QED BY <3>1, DispositionsFit
  <2>2. opening \in Seq(ToSender)
    <3>1. SessionFlow(Freed) \in ToSender
        BY <1>4, FlowType DEF ToSender
    <3> QED BY <3>1
  <2>3. [k \in 1..Cardinality(Asking) |-> LinkFlow(Freed, order[k])] \in Seq(ToSender)
    <3>1. IsFiniteSet(Asking)
        BY LinkOptions, FS_Subset DEF Asking
    <3>2. Cardinality(Asking) \in Nat
        BY <3>1, FS_CardinalityType
    <3>3. \A k \in 1..Cardinality(Asking) : LinkFlow(Freed, order[k]) \in ToSender
      <4>1. \A k \in 1..Cardinality(Asking) : order[k] \in Links
        BY <1>2 DEF Asking
      <4> QED BY <1>4, <4>1, FlowType DEF ToSender
    <3> QED BY <3>2, <3>3
  <2> HIDE DEF announced, opening
  <2>4. r2s \o announced \in Seq(ToSender)
    BY <1>1, <2>1, ConcatProperties
  <2>5. r2s \o announced \o opening \in Seq(ToSender)
    BY <2>2, <2>4, ConcatProperties
  <2> QED BY <1>2, <2>3, <2>5, ConcatProperties
<1> QED BY <1>3, <1>4, <1>5, <1>6, <1>7 DEF Typed, TypeOK, sender, BufferedIsSent

-----------------------------------------------------------------------------

\* Every reachable state is well formed, whatever the applications do (TypeOK, and the
\* frames and references the handlers follow without a check).
THEOREM TypeCorrect == Spec => []Typed
<1>1. Typed /\ [Next]_vars => Typed'
  <2> SUFFICES ASSUME Typed, [Next]_vars PROVE Typed'
    OBVIOUS
  <2>1. CASE UNCHANGED vars
    BY <2>1 DEF vars, sender, receiver, Typed, TypeOK, BufferedIsSent
  <2>2. CASE SenderApplication
    BY <2>2, SendTyped, SettleTyped DEF SenderApplication
  <2>3. CASE ReceiverApplication
    BY <2>3, GiveOutcomeTyped, AddCreditTyped DEF ReceiverApplication
  <2>4. CASE SenderPeer
    BY <2>4, SendPendingTyped, FinishProcessTyped, SenderOnFlowTyped,
       SenderOnDispositionTyped DEF SenderPeer
  <2>5. CASE ReceiverPeer
    BY <2>5, ReceiverOnTransferTyped, ReceiverOnDispositionTyped, ReceiverProcessTyped
       DEF ReceiverPeer
  <2> QED BY <2>1, <2>2, <2>3, <2>4, <2>5 DEF Next
<1> QED BY <1>1, InitTyped, PTL DEF Spec

\* The type invariant the runs check, for every value of the constants.
THEOREM TypesHold == Spec => []TypeOK
<1>1. Typed => TypeOK
    BY DEF Typed
<1> QED BY <1>1, TypeCorrect, PTL

-----------------------------------------------------------------------------
(* Flow control.                                                            *)

\* FlowAccounting, regrouped by what a step can disturb: the sender, the frames to the
\* receiver, and the frames to the sender.
SenderWithin ==
    /\ out.next_transfer_id <= Room
    /\ out.remote_next_transfer_id # Undefined =>
           out.remote_next_transfer_id + out.remote_window <= Room
    /\ \A l \in Links : snd[l].delivery_count + snd[l].credit <= Granted(l)

StreamCounted ==
    /\ TransfersCounted
    /\ MessagesCounted
    /\ \A k \in DOMAIN s2r : Completing(k) => s2r[k].number < Granted(s2r[k].handle)

FlowsWithin ==
    \A k \in DOMAIN r2s : r2s[k].type = "flow" =>
        /\ r2s[k].next_incoming_id + r2s[k].incoming_window <= Room
        /\ r2s[k].handle # NoHandle =>
               r2s[k].delivery_count + r2s[k].link_credit <= Granted(r2s[k].handle)

Accounted == SenderWithin /\ StreamCounted /\ FlowsWithin

LEMMA Regrouped == Accounted <=> FlowAccounting
BY DEF Accounted, FlowAccounting, SenderWithin, StreamCounted, FlowsWithin, WindowIsRoom,
       CreditIsGranted

-----------------------------------------------------------------------------
(* What a step has to show of the two sums and of the streams.              *)

\* What the types say of the sums, and of the frames in each direction.
Numbers ==
    /\ Room \in Nat /\ out.next_transfer_id \in Nat /\ inc.next_transfer_id \in Nat
    /\ Available(inbuf) \in Nat
    /\ \A l \in Links : /\ Granted(l) \in Nat
                        /\ snd[l].delivery_count \in Nat /\ snd[l].credit \in Int
                        /\ rcv[l].delivery_count \in Nat /\ rcv[l].credit \in Nat

StreamShape ==
    /\ DOMAIN s2r = 1..Len(s2r) /\ Len(s2r) \in Nat
    /\ \A k \in DOMAIN s2r :
           \/ s2r[k] \in DispositionFrames(Ids, States) /\ s2r[k].type = "disposition"
           \/ /\ s2r[k] \in TransferFrames /\ s2r[k].type = "transfer"
              /\ s2r[k].handle \in Links /\ s2r[k].more \in BOOLEAN
              /\ s2r[k].transfer_id \in Nat /\ s2r[k].number \in Nat

FlowsShape ==
    /\ DOMAIN r2s = 1..Len(r2s) /\ Len(r2s) \in Nat
    /\ \A k \in DOMAIN r2s :
           \/ r2s[k] \in DispositionFrames(Ids, States) /\ r2s[k].type = "disposition"
           \/ /\ r2s[k] \in FlowFrames /\ r2s[k].type = "flow"
              /\ r2s[k].handle \in Links \cup {NoHandle}
              /\ r2s[k].next_incoming_id \in Nat /\ r2s[k].incoming_window \in Nat
              /\ r2s[k].delivery_count \in Nat /\ r2s[k].link_credit \in Nat

LEMMA Shapes == Typed => Numbers /\ StreamShape /\ FlowsShape
<1> SUFFICES ASSUME Typed PROVE Numbers /\ StreamShape /\ FlowsShape
    OBVIOUS
<1>1. Available(inbuf) \in Nat
  <2>1. inbuf \in Buffer(InCapacity, Ids)
    BY DEF Typed, TypeOK
  <2> QED BY <2>1, Capacities DEF Buffer, Available
<1>2. out.next_transfer_id \in Nat /\ inc.next_transfer_id \in Nat
    BY DEF Typed, TypeOK, Outgoing, Incoming
<1>3. \A l \in Links : snd[l] \in SenderLink /\ rcv[l] \in ReceiverLink
    BY DEF Typed, TypeOK
<1>4. Numbers
    BY <1>1, <1>2, <1>3 DEF Numbers, Room, Granted, SenderLink, ReceiverLink
<1>5. s2r \in Seq(ToReceiver) /\ r2s \in Seq(ToSender)
    BY DEF Typed
<1>6. /\ DOMAIN s2r = 1..Len(s2r) /\ Len(s2r) \in Nat /\ \A k \in DOMAIN s2r : s2r[k] \in ToReceiver
      /\ DOMAIN r2s = 1..Len(r2s) /\ Len(r2s) \in Nat /\ \A k \in DOMAIN r2s : r2s[k] \in ToSender
    BY <1>5
<1>7. StreamShape
    BY <1>6 DEF StreamShape, ToReceiver, TransferFrames, DispositionFrames
<1>8. FlowsShape
    BY <1>6 DEF FlowsShape, ToSender, FlowFrames, DispositionFrames
<1> QED BY <1>4, <1>7, <1>8

LEMMA ShapesNext == Typed' => Numbers' /\ StreamShape' /\ FlowsShape'
BY Shapes, PTL

\* The two sums do not shrink.
Growing ==
    /\ Room' >= Room
    /\ \A l \in Links : Granted(l)' >= Granted(l)

\* The sender's counts stay, or follow a flow.
LEMMA SenderStaysWithin ==
    ASSUME Typed, Typed', SenderWithin, Growing,
           out'.next_transfer_id = out.next_transfer_id,
           out'.remote_next_transfer_id = out.remote_next_transfer_id,
           out'.remote_window = out.remote_window,
           \A l \in Links : snd'[l] = snd[l]
    PROVE  SenderWithin'
<1>1. out.remote_next_transfer_id \in Nat \cup {Undefined} /\ out.remote_window \in Nat
    BY DEF Typed, TypeOK, Outgoing
<1>2. Undefined \in Int
    BY DEF Undefined
<1>3. Numbers /\ Numbers'
    BY Shapes, ShapesNext
<1> QED BY <1>1, <1>2, <1>3 DEF SenderWithin, Growing, Numbers

\* The stream to the receiver stays, loses its head, or gains dispositions, while no
\* end counts a transfer or a message.
LEMMA StreamStaysCounted ==
    ASSUME Typed, Typed', StreamCounted, Growing, NEW shift \in {0, 1},
           \A k \in DOMAIN s2r' : s2r'[k].type = "transfer" =>
               k + shift \in DOMAIN s2r /\ s2r'[k] = s2r[k + shift],
           inc'.next_transfer_id = inc.next_transfer_id,
           out'.next_transfer_id = out.next_transfer_id,
           \A l \in Links : /\ snd'[l].delivery_count = snd[l].delivery_count
                            /\ rcv'[l].delivery_count = rcv[l].delivery_count
    PROVE  StreamCounted'
<1>1. Numbers /\ Numbers' /\ StreamShape /\ StreamShape'
    BY Shapes, ShapesNext
<1>2. \A k \in DOMAIN s2r' : k \in Nat
    BY <1>1 DEF StreamShape
<1>3. TransfersCounted'
    BY <1>2 DEF StreamCounted, TransfersCounted
<1>4. \A k \in DOMAIN s2r' : Completing(k)' =>
          /\ k + shift \in DOMAIN s2r /\ Completing(k + shift) /\ s2r'[k] = s2r[k + shift]
          /\ s2r'[k].handle \in Links /\ s2r'[k].number \in Nat
    BY <1>1 DEF Completing, StreamShape
<1>5. MessagesCounted'
    BY <1>2, <1>4 DEF StreamCounted, MessagesCounted
<1>6. \A k \in DOMAIN s2r' : Completing(k)' => s2r'[k].number < Granted(s2r[k].handle)'
    BY <1>1, <1>4 DEF StreamCounted, Growing, Numbers
<1> QED BY <1>3, <1>5, <1>6 DEF StreamCounted

\* Every flow on the stream was there before, or is within the sums.
LEMMA FlowsStayWithin ==
    ASSUME Typed, Typed', FlowsWithin, Growing,
           \A k \in DOMAIN r2s' : r2s'[k].type = "flow" =>
               \/ \E j \in DOMAIN r2s : r2s'[k] = r2s[j]
               \/ /\ r2s'[k].next_incoming_id + r2s'[k].incoming_window <= Room'
                  /\ r2s'[k].handle # NoHandle =>
                         r2s'[k].delivery_count + r2s'[k].link_credit
                             <= Granted(r2s[k].handle)'
    PROVE  FlowsWithin'
<1> SUFFICES ASSUME NEW k \in DOMAIN r2s', r2s'[k].type = "flow",
                    NEW j \in DOMAIN r2s, r2s'[k] = r2s[j]
             PROVE  /\ r2s'[k].next_incoming_id + r2s'[k].incoming_window <= Room'
                    /\ r2s'[k].handle # NoHandle =>
                           r2s'[k].delivery_count + r2s'[k].link_credit
                               <= Granted(r2s[k].handle)'
    BY DEF FlowsWithin
<1>1. Numbers /\ Numbers' /\ FlowsShape
    BY Shapes, ShapesNext
<1>2. /\ r2s[j].handle \in Links \cup {NoHandle}
      /\ r2s[j].next_incoming_id \in Nat /\ r2s[j].incoming_window \in Nat
      /\ r2s[j].delivery_count \in Nat /\ r2s[j].link_credit \in Nat
    BY <1>1 DEF FlowsShape
<1> QED BY <1>1, <1>2 DEF FlowsWithin, Growing, Numbers

\* A step in which neither end counts anything: frames may leave the head of a stream,
\* dispositions and true flows may be added, and the sums may grow.
LEMMA QuietStep ==
    ASSUME Typed, Typed', Accounted, Growing, NEW shift \in {0, 1},
           \A k \in DOMAIN s2r' : s2r'[k].type = "transfer" =>
               k + shift \in DOMAIN s2r /\ s2r'[k] = s2r[k + shift],
           \A k \in DOMAIN r2s' : r2s'[k].type = "flow" =>
               \/ \E j \in DOMAIN r2s : r2s'[k] = r2s[j]
               \/ /\ r2s'[k].next_incoming_id + r2s'[k].incoming_window <= Room'
                  /\ r2s'[k].handle # NoHandle =>
                         r2s'[k].delivery_count + r2s'[k].link_credit
                             <= Granted(r2s[k].handle)',
           inc'.next_transfer_id = inc.next_transfer_id,
           out'.next_transfer_id = out.next_transfer_id,
           out'.remote_next_transfer_id = out.remote_next_transfer_id,
           out'.remote_window = out.remote_window,
           \A l \in Links : snd'[l] = snd[l] /\ rcv'[l].delivery_count = rcv[l].delivery_count
    PROVE  Accounted'
<1>1. SenderWithin'
    BY SenderStaysWithin DEF Accounted
<1>2. StreamCounted'
    BY StreamStaysCounted DEF Accounted
<1>3. FlowsWithin'
    BY FlowsStayWithin DEF Accounted
<1> QED BY <1>1, <1>2, <1>3 DEF Accounted

\* Nothing grows when the receiver's counts, buffer and links are left alone.
LEMMA ReceiverUntouched ==
    ASSUME Typed, inc'.next_transfer_id = inc.next_transfer_id, inbuf' = inbuf, rcv' = rcv
    PROVE  Growing
<1>1. Room' = Room /\ \A l \in Links : Granted(l)' = Granted(l)
    BY DEF Room, Granted
<1>2. Numbers
    BY Shapes
<1> QED BY <1>1, <1>2 DEF Growing, Numbers

\* The head of the stream to the receiver is taken off.
LEMMA HeadTaken ==
    ASSUME Typed, s2r # <<>>, s2r' = Tail(s2r)
    PROVE  /\ Len(s2r) \in Nat \ {0} /\ Head(s2r) = s2r[1]
           /\ DOMAIN s2r = 1..Len(s2r) /\ DOMAIN s2r' = 1..(Len(s2r) - 1)
           /\ \A k \in DOMAIN s2r' : k + 1 \in DOMAIN s2r /\ s2r'[k] = s2r[k + 1]
<1>1. s2r \in Seq(ToReceiver)
    BY DEF Typed
<1> QED BY <1>1

\* The head of the stream to the sender is taken off.
LEMMA FlowTaken ==
    ASSUME Typed, r2s # <<>>, r2s' = Tail(r2s)
    PROVE  /\ Len(r2s) \in Nat \ {0} /\ Head(r2s) = r2s[1] /\ 1 \in DOMAIN r2s
           /\ \A k \in DOMAIN r2s' : k + 1 \in DOMAIN r2s /\ r2s'[k] = r2s[k + 1]
<1>1. r2s \in Seq(ToSender)
    BY DEF Typed
<1> QED BY <1>1

\* The frames of a stream that something was appended to.
LEMMA Appended ==
    ASSUME NEW S, NEW s \in Seq(S), NEW t \in Seq(S)
    PROVE  /\ Len(s) \in Nat /\ DOMAIN s = 1..Len(s) /\ DOMAIN t = 1..Len(t)
           /\ \A k \in DOMAIN (s \o t) :
                  \/ k \in DOMAIN s /\ (s \o t)[k] = s[k]
                  \/ k - Len(s) \in DOMAIN t /\ (s \o t)[k] = t[k - Len(s)]
OBVIOUS

\* What a frame says of a counter is never above the counter.
LEMMA UintFits ==
    ASSUME NEW n \in Nat
    PROVE  Uint(n) \in Nat /\ Uint(n) <= n
BY Modulus, ModRange DEF Uint

\* A sequence whose elements all satisfy more.
LEMMA SeqWithin ==
    ASSUME NEW S, NEW T, NEW s \in Seq(S), \A k \in DOMAIN s : s[k] \in T
    PROVE  s \in Seq(T)
OBVIOUS

-----------------------------------------------------------------------------
(* The steps of the sending peer.                                           *)

LEMMA SendAccounted ==
    ASSUME Typed, Typed', Accounted, NEW l \in Links, NEW n \in 1..MaxFrames, Send(l, n)
    PROVE  Accounted'
<1>1. /\ inc' = inc /\ inbuf' = inbuf /\ rcv' = rcv /\ s2r' = s2r /\ r2s' = r2s /\ snd' = snd
      /\ out \in Outgoing
      /\ out' = [out EXCEPT !.next_delivery_id = out.next_delivery_id + 1]
    BY DEF Send, receiver, Typed, TypeOK
<1>2. /\ out'.next_transfer_id = out.next_transfer_id
      /\ out'.remote_next_transfer_id = out.remote_next_transfer_id
      /\ out'.remote_window = out.remote_window
    BY <1>1 DEF Outgoing
<1>3. Growing
    BY <1>1, ReceiverUntouched
<1>4. \A k \in DOMAIN s2r' : k + 0 \in DOMAIN s2r /\ s2r'[k] = s2r[k + 0]
    BY <1>1, Shapes DEF StreamShape
<1> QED BY <1>1, <1>2, <1>3, <1>4, QuietStep

LEMMA SettleAccounted ==
    ASSUME Typed, Typed', Accounted, NEW id \in Ids, Settle(id)
    PROVE  Accounted'
<1>1. /\ inc' = inc /\ inbuf' = inbuf /\ rcv' = rcv /\ s2r' = s2r /\ r2s' = r2s /\ snd' = snd
      /\ out \in Outgoing
      /\ \/ out' = out
         \/ out' = [out EXCEPT !.pending_dispositions = Append(@, id)]
    BY DEF Settle, receiver, Typed, TypeOK
<1>2. /\ out'.next_transfer_id = out.next_transfer_id
      /\ out'.remote_next_transfer_id = out.remote_next_transfer_id
      /\ out'.remote_window = out.remote_window
    BY <1>1 DEF Outgoing
<1>3. Growing
    BY <1>1, ReceiverUntouched
<1>4. \A k \in DOMAIN s2r' : k + 0 \in DOMAIN s2r /\ s2r'[k] = s2r[k + 0]
    BY <1>1, Shapes DEF StreamShape
<1> QED BY <1>1, <1>2, <1>3, <1>4, QuietStep

LEMMA FinishProcessAccounted ==
    ASSUME Typed, Typed', Accounted, FinishProcess
    PROVE  Accounted'
<1> DEFINE told == WriteDispositions(UpdatedOutgoing, "sender")
<1>1. /\ inc' = inc /\ inbuf' = inbuf /\ rcv' = rcv /\ r2s' = r2s /\ snd' = snd
      /\ s2r' = s2r \o told
      /\ out \in Outgoing
      /\ out' = [out EXCEPT !.updated = {}, !.pending_dispositions = <<>>]
    BY DEF FinishProcess, receiver, Typed, TypeOK
<1>2. /\ out'.next_transfer_id = out.next_transfer_id
      /\ out'.remote_next_transfer_id = out.remote_next_transfer_id
      /\ out'.remote_window = out.remote_window
    BY <1>1 DEF Outgoing
<1>3. Growing
    BY <1>1, ReceiverUntouched
<1>4. told \in Seq(DispositionFrames(Ids, States))
    BY UpdatedOutgoingType, WriteDispositionsType
<1> HIDE DEF told
<1>5. \A k \in DOMAIN s2r' : s2r'[k].type = "transfer" =>
          k + 0 \in DOMAIN s2r /\ s2r'[k] = s2r[k + 0]
  <2>1. s2r \in Seq(ToReceiver) /\ told \in Seq(ToReceiver)
    BY <1>4, SeqMonotonic DEF Typed, ToReceiver
  <2>2. \A k \in DOMAIN told : told[k].type = "disposition"
    <3>1. \A k \in DOMAIN told : told[k] \in DispositionFrames(Ids, States)
        BY <1>4
    <3> QED BY <3>1 DEF DispositionFrames
  <2> QED BY <1>1, <2>1, <2>2, Appended
<1> QED BY <1>1, <1>2, <1>3, <1>5, QuietStep

LEMMA SenderOnDispositionAccounted ==
    ASSUME Typed, Typed', Accounted, SenderOnDisposition
    PROVE  Accounted'
<1>1. /\ inc' = inc /\ inbuf' = inbuf /\ rcv' = rcv /\ s2r' = s2r /\ snd' = snd
      /\ r2s # <<>> /\ r2s' = Tail(r2s) /\ out \in Outgoing
      /\ \E ids : out' = [out EXCEPT !.updated = ids]
    BY DEF SenderOnDisposition, SenderReads, receiver, Typed, TypeOK
<1>2. /\ out'.next_transfer_id = out.next_transfer_id
      /\ out'.remote_next_transfer_id = out.remote_next_transfer_id
      /\ out'.remote_window = out.remote_window
    BY <1>1 DEF Outgoing
<1>3. Growing
    BY <1>1, ReceiverUntouched
<1>4. \A k \in DOMAIN s2r' : k + 0 \in DOMAIN s2r /\ s2r'[k] = s2r[k + 0]
    BY <1>1, Shapes DEF StreamShape
<1>5. \A k \in DOMAIN r2s' : \E j \in DOMAIN r2s : r2s'[k] = r2s[j]
    BY <1>1, FlowTaken
<1> QED BY <1>1, <1>2, <1>3, <1>4, <1>5, QuietStep

\* A flow brings the sender's window and credit to what was on the stream.
LEMMA SenderOnFlowAccounted ==
    ASSUME Typed, Typed', Accounted, SenderOnFlow
    PROVE  Accounted'
<1> DEFINE f == Head(r2s)
           l == f.handle
           credit == f.delivery_count + f.link_credit - snd[l].delivery_count
<1>1. /\ inc' = inc /\ inbuf' = inbuf /\ rcv' = rcv /\ s2r' = s2r
      /\ r2s # <<>> /\ r2s' = Tail(r2s) /\ f.type = "flow"
      /\ out \in Outgoing /\ snd \in [Links -> SenderLink]
      /\ out' = [out EXCEPT !.remote_next_transfer_id = f.next_incoming_id,
                            !.remote_window = f.incoming_window]
      /\ snd' = IF l = NoHandle THEN snd ELSE [snd EXCEPT ![l].credit = credit]
    BY DEF SenderOnFlow, CreditAfter, SenderReads, receiver, Typed, TypeOK
<1>2. Growing
    BY <1>1, ReceiverUntouched
<1>3. /\ Numbers /\ Numbers' /\ FlowsShape /\ f = r2s[1] /\ 1 \in DOMAIN r2s
    BY <1>1, Shapes, ShapesNext, FlowTaken
<1>4. /\ l \in Links \cup {NoHandle}
      /\ f.next_incoming_id \in Nat /\ f.incoming_window \in Nat
      /\ f.delivery_count \in Nat /\ f.link_credit \in Nat
      /\ f.next_incoming_id + f.incoming_window <= Room
      /\ l # NoHandle => f.delivery_count + f.link_credit <= Granted(l)
    BY <1>1, <1>3 DEF FlowsShape, Accounted, FlowsWithin
<1>5. Room' = Room /\ \A x \in Links : Granted(x)' = Granted(x)
    BY <1>1 DEF Room, Granted
<1> HIDE DEF f, l
<1>6. /\ out'.next_transfer_id = out.next_transfer_id
      /\ out'.remote_next_transfer_id = f.next_incoming_id
      /\ out'.remote_window = f.incoming_window
    BY <1>1 DEF Outgoing
<1>7. \A x \in Links : /\ snd'[x].delivery_count = snd[x].delivery_count
                       /\ snd'[x].delivery_count + snd'[x].credit <= Granted(x)'
  <2> SUFFICES ASSUME NEW x \in Links
               PROVE  /\ snd'[x].delivery_count = snd[x].delivery_count
                      /\ snd'[x].delivery_count + snd'[x].credit <= Granted(x)'
    OBVIOUS
  <2>1. CASE l = NoHandle \/ l # x
    <3>1. snd'[x] = snd[x]
        BY <1>1, <2>1
    <3> QED BY <1>5, <3>1 DEF Accounted, SenderWithin
  <2>2. CASE l # NoHandle /\ l = x
    <3>1. snd[x] \in SenderLink /\ snd[x].delivery_count \in Nat
        BY <1>1, <1>3 DEF Numbers
    <3>2. credit \in Int
        BY <1>4, <2>2, <3>1
    <3>3. snd[x].delivery_count + credit = f.delivery_count + f.link_credit
        BY <1>4, <2>2, <3>1
    <3>4. snd'[x] = [snd[x] EXCEPT !.credit = credit]
        BY <1>1, <2>2
    <3> HIDE DEF credit
    <3>5. snd'[x].delivery_count = snd[x].delivery_count /\ snd'[x].credit = credit
        BY <3>1, <3>4 DEF SenderLink
    <3> QED BY <1>4, <1>5, <2>2, <3>3, <3>5
  <2> QED BY <2>1, <2>2
<1>8. SenderWithin'
    BY <1>4, <1>5, <1>6, <1>7 DEF SenderWithin, Accounted
<1>9. StreamCounted'
  <2>1. \A k \in DOMAIN s2r' : k + 0 \in DOMAIN s2r /\ s2r'[k] = s2r[k + 0]
    BY <1>1, Shapes DEF StreamShape
  <2> QED BY <1>1, <1>2, <1>6, <1>7, <2>1, StreamStaysCounted DEF Accounted
<1>10. FlowsWithin'
  <2>1. \A k \in DOMAIN r2s' : \E j \in DOMAIN r2s : r2s'[k] = r2s[j]
    BY <1>1, FlowTaken
  <2> QED BY <1>2, <2>1, FlowsStayWithin DEF Accounted
<1> QED BY <1>8, <1>9, <1>10 DEF Accounted

\* What the loop sends fits in the window, and completes a message only on credit.
LEMMA SendPendingAccounted ==
    ASSUME Typed, Typed', Accounted, SendPending
    PROVE  Accounted'
<1> DEFINE d == Pending
           l == sent[d].link
           num == NumToSend
           done == sent[d].next_to_send + num = sent[d].frames
           burst == [k \in 1..num |-> Transfer(d, k)]
           transfers == out.next_transfer_id + num
           next == IF done THEN out.next_pending_delivery + 1 ELSE out.next_pending_delivery
<1>1. /\ inc' = inc /\ inbuf' = inbuf /\ rcv' = rcv /\ r2s' = r2s
      /\ out \in Outgoing /\ snd \in [Links -> SenderLink] /\ sent \in [Ids -> SentDelivery]
      /\ s2r \in Seq(ToReceiver) /\ s2r' = s2r \o burst
      /\ out' = [out EXCEPT !.next_transfer_id = transfers, !.next_pending_delivery = next]
      /\ snd' = IF done
                THEN [snd EXCEPT ![l] = [credit |-> snd[l].credit - 1,
                                         delivery_count |-> snd[l].delivery_count + 1]]
                ELSE snd
      /\ CanSend
    BY DEF SendPending, receiver, Typed, TypeOK
<1>2. /\ d \in Ids /\ l \in Links /\ TransferWindow \in Int /\ num \in Nat \ {0}
      /\ num <= TransferWindow /\ num <= sent[d].frames - sent[d].next_to_send
      /\ snd[l].credit > 0
    BY <1>1, PendingType DEF CanSend
<1>3. /\ sent[d].frames \in Nat /\ sent[d].next_to_send \in Nat
    BY <1>1, <1>2, Bounds DEF SentDelivery
<1>4. Numbers /\ Numbers' /\ StreamShape /\ StreamShape'
    BY Shapes, ShapesNext
<1>5. Growing
    BY <1>1, ReceiverUntouched
<1>6. Room' = Room /\ \A x \in Links : Granted(x)' = Granted(x)
    BY <1>1 DEF Room, Granted
<1>7. out.next_transfer_id + num <= Room
  <2>1. out.remote_next_transfer_id # Undefined /\ out.remote_window # 0
    BY <1>2 DEF TransferWindow
  <2>2. out.remote_next_transfer_id \in Nat /\ out.remote_window \in Nat
    BY <1>1, <2>1 DEF Outgoing
  <2>3. num <= out.remote_window - (out.next_transfer_id - out.remote_next_transfer_id)
    BY <1>2, <2>1 DEF TransferWindow
  <2>4. out.remote_next_transfer_id + out.remote_window <= Room
    BY <2>1 DEF Accounted, SenderWithin
  <2> HIDE DEF num
  <2> QED BY <1>2, <1>4, <2>2, <2>3, <2>4 DEF Numbers
<1>8. \A i \in 1..num :
          /\ burst[i].type = "transfer" /\ burst[i].handle = l
          /\ burst[i].transfer_id = out.next_transfer_id + i - 1
          /\ burst[i].number = snd[l].delivery_count
          /\ ~ burst[i].more => done /\ i = num
  <2> SUFFICES ASSUME NEW i \in 1..num
               PROVE  /\ burst[i].type = "transfer" /\ burst[i].handle = l
                      /\ burst[i].transfer_id = out.next_transfer_id + i - 1
                      /\ burst[i].number = snd[l].delivery_count
                      /\ ~ burst[i].more => done /\ i = num
    OBVIOUS
  <2>1. burst[i] = Transfer(d, i)
    OBVIOUS
  <2>2. /\ burst[i].type = "transfer" /\ burst[i].handle = l
        /\ burst[i].transfer_id = out.next_transfer_id + i - 1
        /\ burst[i].number = snd[l].delivery_count
        /\ ~ burst[i].more => ~ (sent[d].next_to_send + i - 1 + 1 < sent[d].frames)
    BY <2>1 DEF Transfer
  <2> HIDE DEF burst, num, d, l
  <2>3. ~ burst[i].more => sent[d].next_to_send + i >= sent[d].frames
    BY <1>3, <2>2
  <2>4. ~ burst[i].more => done /\ i = num
    BY <1>2, <1>3, <2>3
  <2> QED BY <2>2, <2>4
<1> HIDE DEF d, l, num
<1>9. /\ out'.next_transfer_id = transfers
      /\ out'.remote_next_transfer_id = out.remote_next_transfer_id
      /\ out'.remote_window = out.remote_window
  <2> HIDE DEF transfers, next
  <2> QED BY <1>1 DEF Outgoing
<1>10. \A x \in Links :
          /\ snd'[x].delivery_count + snd'[x].credit = snd[x].delivery_count + snd[x].credit
          /\ snd'[x].delivery_count >= snd[x].delivery_count
          /\ done /\ x = l => snd'[x].delivery_count = snd[x].delivery_count + 1
  <2> SUFFICES ASSUME NEW x \in Links
               PROVE  /\ snd'[x].delivery_count + snd'[x].credit
                             = snd[x].delivery_count + snd[x].credit
                      /\ snd'[x].delivery_count >= snd[x].delivery_count
                      /\ done /\ x = l => snd'[x].delivery_count = snd[x].delivery_count + 1
    OBVIOUS
  <2>1. snd[x].delivery_count \in Nat /\ snd[x].credit \in Int
    BY <1>4 DEF Numbers
  <2>2. CASE done /\ x = l
    <3>1. snd'[x] = [credit |-> snd[x].credit - 1, delivery_count |-> snd[x].delivery_count + 1]
        BY <1>1, <1>2, <2>2
    <3> QED BY <2>1, <3>1
  <2>3. CASE ~ (done /\ x = l)
    <3>1. snd'[x] = snd[x]
        BY <1>1, <1>2, <2>3
    <3> QED BY <2>1, <2>3, <3>1
  <2> QED BY <2>2, <2>3
<1>11. SenderWithin'
    BY <1>2, <1>4, <1>6, <1>7, <1>9, <1>10 DEF SenderWithin, Accounted
<1>12. /\ DOMAIN s2r = 1..Len(s2r) /\ Len(s2r) \in Nat
       /\ \A k \in DOMAIN s2r' :
              \/ k \in DOMAIN s2r /\ s2r'[k] = s2r[k]
              \/ k - Len(s2r) \in 1..num /\ s2r'[k] = burst[k - Len(s2r)]
       /\ \A k \in DOMAIN s2r' : k \in Nat
  <2>1. burst \in Seq(ToReceiver) /\ DOMAIN burst = 1..num
    <3>1. burst = [k \in 1..num |-> Transfer(d, k)]
        OBVIOUS
    <3>2. \A k \in 1..num : s2r'[Len(s2r) + k] \in ToReceiver
                            /\ s2r'[Len(s2r) + k] = burst[k]
      <4>1. s2r' \in Seq(ToReceiver)
        BY DEF Typed
      <4>2. burst = [k \in 1..num |-> Transfer(d, k)] /\ Len(burst) = num
        BY <1>2
      <4> HIDE DEF burst
      <4> QED BY <1>1, <1>2, <4>1, <4>2
    <3> QED BY <1>2, <3>1, <3>2
  <2> HIDE DEF burst
  <2>2. \A k \in DOMAIN s2r' : \/ k \in DOMAIN s2r /\ s2r'[k] = s2r[k]
                               \/ k - Len(s2r) \in DOMAIN burst /\ s2r'[k] = burst[k - Len(s2r)]
    <3>1. s2r \in Seq(ToReceiver) /\ s2r' = s2r \o burst
        BY <1>1
    <3>2. \A k \in DOMAIN (s2r \o burst) :
              \/ k \in DOMAIN s2r /\ (s2r \o burst)[k] = s2r[k]
              \/ k - Len(s2r) \in DOMAIN burst /\ (s2r \o burst)[k] = burst[k - Len(s2r)]
        BY <2>1, <3>1, Appended
    <3> QED BY <3>1, <3>2
  <2>3. DOMAIN s2r = 1..Len(s2r) /\ Len(s2r) \in Nat /\ \A k \in DOMAIN s2r' : k \in Nat
    BY <1>4 DEF StreamShape
  <2> QED BY <2>1, <2>2, <2>3
<1> HIDE DEF burst, done, transfers
<1>13. TransfersCounted'
  <2>1. /\ inc.next_transfer_id \in Nat /\ out.next_transfer_id \in Nat
        /\ inc'.next_transfer_id = inc.next_transfer_id
        /\ out'.next_transfer_id = out.next_transfer_id + num
        /\ inc.next_transfer_id <= out.next_transfer_id
    BY <1>1, <1>4, <1>9
       DEF Numbers, Accounted, StreamCounted, TransfersCounted, transfers
  <2>2. ASSUME NEW k \in DOMAIN s2r', s2r'[k].type = "transfer"
        PROVE  \/ /\ k \in DOMAIN s2r /\ s2r'[k] = s2r[k] /\ s2r[k].transfer_id \in Nat
                  /\ s2r[k].transfer_id \in inc.next_transfer_id..(out.next_transfer_id - 1)
               \/ /\ k - Len(s2r) \in 1..num
                  /\ s2r'[k].transfer_id = out.next_transfer_id + (k - Len(s2r)) - 1
    <3>1. CASE k \in DOMAIN s2r /\ s2r'[k] = s2r[k]
        BY <1>4, <2>2, <3>1 DEF StreamShape, Accounted, StreamCounted, TransfersCounted
    <3>2. CASE k - Len(s2r) \in 1..num /\ s2r'[k] = burst[k - Len(s2r)]
        BY <1>8, <3>2
    <3> QED BY <1>12, <3>1, <3>2
  <2>3. ASSUME NEW k \in DOMAIN s2r', s2r'[k].type = "transfer"
        PROVE  s2r'[k].transfer_id \in inc'.next_transfer_id..(out'.next_transfer_id - 1)
    <3>1. CASE s2r'[k].transfer_id \in inc.next_transfer_id..(out.next_transfer_id - 1)
        BY <1>2, <2>1, <3>1
    <3>2. CASE /\ k - Len(s2r) \in 1..num
               /\ s2r'[k].transfer_id = out.next_transfer_id + (k - Len(s2r)) - 1
      <4>1. PICK i \in 1..num : i = k - Len(s2r)
        BY <3>2
      <4>2. s2r'[k].transfer_id = out.next_transfer_id + i - 1
        BY <3>2, <4>1
      <4>3. num \in Nat /\ i \in Nat /\ 1 <= i /\ i <= num
        BY <1>2, <4>1
      <4> HIDE DEF num
      <4>4. /\ s2r'[k].transfer_id \in Int /\ inc'.next_transfer_id <= s2r'[k].transfer_id
            /\ s2r'[k].transfer_id <= out'.next_transfer_id - 1
        BY <2>1, <4>2, <4>3
      <4> QED BY <2>1, <4>4
    <3> QED BY <2>2, <2>3, <3>1, <3>2
  <2>4. ASSUME NEW j \in DOMAIN s2r', NEW k \in DOMAIN s2r', j < k,
               s2r'[j].type = "transfer", s2r'[k].type = "transfer"
        PROVE  s2r'[j].transfer_id < s2r'[k].transfer_id
    <3>1. CASE j \in DOMAIN s2r /\ k \in DOMAIN s2r /\ s2r'[j] = s2r[j] /\ s2r'[k] = s2r[k]
        BY <2>4, <3>1 DEF Accounted, StreamCounted, TransfersCounted
    <3>2. CASE /\ s2r'[j].transfer_id \in inc.next_transfer_id..(out.next_transfer_id - 1)
               /\ k - Len(s2r) \in 1..num
               /\ s2r'[k].transfer_id = out.next_transfer_id + (k - Len(s2r)) - 1
        BY <1>2, <2>1, <3>2
    <3>3. CASE /\ j - Len(s2r) \in 1..num /\ k - Len(s2r) \in 1..num
               /\ s2r'[j].transfer_id = out.next_transfer_id + (j - Len(s2r)) - 1
               /\ s2r'[k].transfer_id = out.next_transfer_id + (k - Len(s2r)) - 1
      <4>1. j \in Nat /\ k \in Nat /\ Len(s2r) \in Nat
        BY <1>12
      <4> QED BY <2>1, <2>4, <3>3, <4>1
    <3>4. ~ (j - Len(s2r) \in 1..num /\ k \in DOMAIN s2r)
      <4>1. j \in Nat /\ k \in Nat /\ Len(s2r) \in Nat /\ DOMAIN s2r = 1..Len(s2r)
        BY <1>12
      <4>2. k \in DOMAIN s2r => k <= Len(s2r)
        BY <4>1
      <4>3. j - Len(s2r) \in 1..num => j > Len(s2r)
        BY <1>2, <4>1
      <4> QED BY <2>4, <4>1, <4>2, <4>3
    <3> QED BY <2>2, <2>4, <3>1, <3>2, <3>3, <3>4
  <2>5. inc'.next_transfer_id <= out'.next_transfer_id
    BY <1>2, <2>1
  <2> QED BY <2>3, <2>4, <2>5 DEF TransfersCounted
<1>14. \A k \in DOMAIN s2r' : Completing(k)' =>
          \/ k \in DOMAIN s2r /\ Completing(k) /\ s2r'[k] = s2r[k]
          \/ /\ k = Len(s2r) + num /\ done /\ s2r'[k].handle = l
             /\ s2r'[k].number = snd[l].delivery_count
  <2> SUFFICES ASSUME NEW k \in DOMAIN s2r', s2r'[k].type = "transfer", ~ s2r'[k].more
               PROVE  \/ k \in DOMAIN s2r /\ Completing(k) /\ s2r'[k] = s2r[k]
                      \/ /\ k = Len(s2r) + num /\ done /\ s2r'[k].handle = l
                         /\ s2r'[k].number = snd[l].delivery_count
    BY Zenon DEF Completing
  <2>1. CASE k \in DOMAIN s2r /\ s2r'[k] = s2r[k]
    BY <2>1 DEF Completing
  <2>2. CASE k - Len(s2r) \in 1..num /\ s2r'[k] = burst[k - Len(s2r)]
    <3>1. PICK i \in 1..num : i = k - Len(s2r)
        BY <2>2
    <3>2. done /\ i = num /\ s2r'[k].handle = l /\ s2r'[k].number = snd[l].delivery_count
        BY <1>8, <2>2, <3>1
    <3>3. k = Len(s2r) + num
        BY <1>2, <1>12, <3>1, <3>2
    <3> QED BY <3>2, <3>3
  <2> QED BY <1>12, <2>1, <2>2
<1>15. \A k \in DOMAIN s2r : Completing(k) => s2r[k].handle \in Links /\ s2r[k].number \in Nat
    BY <1>4 DEF StreamShape, Completing
<1>16. MessagesCounted'
  <2>1. \A x \in Links : rcv'[x].delivery_count <= snd'[x].delivery_count
    <3> SUFFICES ASSUME NEW x \in Links
                 PROVE  rcv'[x].delivery_count <= snd'[x].delivery_count
        OBVIOUS
    <3>1. /\ rcv'[x].delivery_count \in Nat /\ snd[x].delivery_count \in Nat
          /\ snd'[x].delivery_count \in Nat
        BY <1>4 DEF Numbers
    <3>2. rcv'[x].delivery_count <= snd[x].delivery_count
        BY <1>1 DEF Accounted, StreamCounted, MessagesCounted
    <3>3. snd[x].delivery_count <= snd'[x].delivery_count
        BY <1>10
    <3> QED BY <3>1, <3>2, <3>3
  <2>2. ASSUME NEW k \in DOMAIN s2r', Completing(k)'
        PROVE  s2r'[k].number \in rcv'[s2r'[k].handle].delivery_count
                                      ..(snd'[s2r'[k].handle].delivery_count - 1)
    <3>1. CASE k \in DOMAIN s2r /\ Completing(k) /\ s2r'[k] = s2r[k]
      <4> DEFINE x == s2r[k].handle
      <4>1. x \in Links /\ s2r[k].number \in Nat
        BY <1>15, <3>1
      <4>2. s2r[k].number \in rcv[x].delivery_count..(snd[x].delivery_count - 1)
        BY <3>1 DEF Accounted, StreamCounted, MessagesCounted
      <4>3. snd[x].delivery_count <= snd'[x].delivery_count /\ rcv'[x] = rcv[x]
        BY <1>1, <1>10, <4>1
      <4>4. /\ rcv[x].delivery_count \in Nat /\ snd[x].delivery_count \in Nat
            /\ snd'[x].delivery_count \in Nat
        BY <1>4, <4>1 DEF Numbers
      <4> HIDE DEF x
      <4>5. s2r[k].number \in rcv'[x].delivery_count..(snd'[x].delivery_count - 1)
        BY <4>1, <4>2, <4>3, <4>4
      <4> QED BY <3>1, <4>5 DEF x
    <3>2. CASE done /\ s2r'[k].handle = l /\ s2r'[k].number = snd[l].delivery_count
      <4>1. /\ rcv[l].delivery_count \in Nat /\ snd[l].delivery_count \in Nat
            /\ rcv'[l] = rcv[l] /\ snd'[l].delivery_count = snd[l].delivery_count + 1
        BY <1>1, <1>2, <1>4, <1>10, <3>2 DEF Numbers
      <4>2. rcv[l].delivery_count <= snd[l].delivery_count
        BY <1>2 DEF Accounted, StreamCounted, MessagesCounted
      <4>3. snd[l].delivery_count \in rcv'[l].delivery_count..(snd'[l].delivery_count - 1)
        BY <4>1, <4>2
      <4> QED BY <3>2, <4>3
    <3> QED BY <1>14, <2>2, <3>1, <3>2
  <2>3. ASSUME NEW j \in DOMAIN s2r', NEW k \in DOMAIN s2r', j < k,
               Completing(j)', Completing(k)', s2r'[j].handle = s2r'[k].handle
        PROVE  s2r'[j].number < s2r'[k].number
    <3>1. j \in DOMAIN s2r /\ Completing(j) /\ s2r'[j] = s2r[j]
        BY <1>2, <1>12, <1>14, <2>3
    <3>2. CASE k \in DOMAIN s2r /\ Completing(k) /\ s2r'[k] = s2r[k]
        BY <2>3, <3>1, <3>2 DEF Accounted, StreamCounted, MessagesCounted
    <3>3. CASE s2r'[k].handle = l /\ s2r'[k].number = snd[l].delivery_count
      <4>1. s2r[j].number \in rcv[l].delivery_count..(snd[l].delivery_count - 1)
        BY <2>3, <3>1, <3>3 DEF Accounted, StreamCounted, MessagesCounted
      <4> QED BY <1>2, <1>4, <3>1, <3>3, <4>1 DEF Numbers
    <3> QED BY <1>14, <2>3, <3>2, <3>3
  <2> QED BY <2>1, <2>2, <2>3 DEF MessagesCounted
<1>17. \A k \in DOMAIN s2r' : Completing(k)' => s2r'[k].number < Granted(s2r[k].handle)'
  <2> SUFFICES ASSUME NEW k \in DOMAIN s2r', Completing(k)'
               PROVE  s2r'[k].number < Granted(s2r[k].handle)'
    OBVIOUS
  <2>1. CASE k \in DOMAIN s2r /\ Completing(k) /\ s2r'[k] = s2r[k]
    BY <1>6, <1>15, <2>1 DEF Accounted, StreamCounted
  <2>2. CASE s2r'[k].handle = l /\ s2r'[k].number = snd[l].delivery_count
    BY <1>2, <1>4, <1>6, <2>2 DEF Accounted, SenderWithin, Numbers
  <2> QED BY <1>14, <2>1, <2>2
<1>18. FlowsWithin'
    BY <1>1, <1>5, FlowsStayWithin DEF Accounted
<1> QED BY <1>11, <1>13, <1>16, <1>17, <1>18 DEF Accounted, StreamCounted

-----------------------------------------------------------------------------
(* The steps of the receiving peer.                                         *)

\* A transfer that arrives has a slot: the sender sent it into the window.
LEMMA TransferHasRoom ==
    ASSUME Typed, Accounted, s2r # <<>>, Head(s2r).type = "transfer"
    PROVE  Available(inbuf) > 0
<1>1. Head(s2r) = s2r[1] /\ 1 \in DOMAIN s2r
  <2>1. s2r \in Seq(ToReceiver)
    BY DEF Typed
  <2> QED BY <2>1
<1>2. /\ s2r[1].transfer_id \in inc.next_transfer_id..(out.next_transfer_id - 1)
      /\ out.next_transfer_id <= inc.next_transfer_id + Available(inbuf)
    BY <1>1 DEF Accounted, StreamCounted, TransfersCounted, SenderWithin, Room
<1>3. /\ inc.next_transfer_id \in Nat /\ out.next_transfer_id \in Nat
      /\ Available(inbuf) \in Nat /\ s2r[1].transfer_id \in Nat
    BY <1>1, Shapes DEF Numbers, StreamShape
<1> QED BY <1>2, <1>3

\* A transfer that is taken off the stream is counted by the receiver.
LEMMA TransferIsCounted ==
    ASSUME Typed, TransfersCounted, s2r # <<>>, Head(s2r).type = "transfer",
           s2r' = Tail(s2r), inc'.next_transfer_id = inc.next_transfer_id + 1,
           out'.next_transfer_id = out.next_transfer_id
    PROVE  TransfersCounted'
<1>1. /\ Head(s2r) = s2r[1] /\ 1 \in DOMAIN s2r
      /\ \A k \in DOMAIN s2r' : k \in Nat \ {0} /\ k + 1 \in DOMAIN s2r /\ s2r'[k] = s2r[k + 1]
    BY HeadTaken
<1>2. /\ inc.next_transfer_id \in Nat /\ out.next_transfer_id \in Nat
      /\ \A k \in DOMAIN s2r : s2r[k].type = "transfer" => s2r[k].transfer_id \in Nat
    BY Shapes DEF Numbers, StreamShape
<1>3. s2r[1].transfer_id \in inc.next_transfer_id..(out.next_transfer_id - 1)
    BY <1>1 DEF TransfersCounted
<1>4. inc'.next_transfer_id <= out'.next_transfer_id
    BY <1>1, <1>2, <1>3
<1>5. ASSUME NEW k \in DOMAIN s2r', s2r'[k].type = "transfer"
      PROVE  s2r'[k].transfer_id \in inc'.next_transfer_id..(out'.next_transfer_id - 1)
  <2>1. k \in Nat \ {0} /\ k + 1 \in DOMAIN s2r /\ s2r'[k] = s2r[k + 1] /\ 1 < k + 1
    BY <1>1
  <2>2. /\ s2r[1].transfer_id < s2r[k + 1].transfer_id
        /\ s2r[k + 1].transfer_id \in inc.next_transfer_id..(out.next_transfer_id - 1)
    BY <1>1, <1>5, <2>1 DEF TransfersCounted
  <2> QED BY <1>1, <1>2, <1>3, <1>5, <2>1, <2>2
<1>6. ASSUME NEW j \in DOMAIN s2r', NEW k \in DOMAIN s2r', j < k,
             s2r'[j].type = "transfer", s2r'[k].type = "transfer"
      PROVE  s2r'[j].transfer_id < s2r'[k].transfer_id
  <2>1. j + 1 < k + 1
    BY <1>1, <1>6
  <2> QED BY <1>1, <1>6, <2>1 DEF TransfersCounted
<1> QED BY <1>4, <1>5, <1>6 DEF TransfersCounted

\* A step that counts a transfer but no message.
LEMMA PartAccounted ==
    ASSUME Typed, Typed', Accounted, Growing, s2r # <<>>, Head(s2r).type = "transfer",
           s2r' = Tail(s2r), inc'.next_transfer_id = inc.next_transfer_id + 1,
           out' = out, snd' = snd, r2s' = r2s,
           \A l \in Links : rcv'[l].delivery_count = rcv[l].delivery_count
    PROVE  Accounted'
<1>1. \A k \in DOMAIN s2r' : k \in Nat /\ k + 1 \in DOMAIN s2r /\ s2r'[k] = s2r[k + 1]
    BY HeadTaken
<1>2. Numbers /\ Numbers' /\ StreamShape /\ StreamShape'
    BY Shapes, ShapesNext
<1>3. SenderWithin'
    BY SenderStaysWithin DEF Accounted
<1>4. TransfersCounted'
    BY TransferIsCounted DEF Accounted, StreamCounted
<1>5. \A k \in DOMAIN s2r' : Completing(k)' =>
          /\ k + 1 \in DOMAIN s2r /\ Completing(k + 1) /\ s2r'[k] = s2r[k + 1]
          /\ s2r'[k].handle \in Links /\ s2r'[k].number \in Nat
    BY <1>1, <1>2 DEF Completing, StreamShape
<1>6. MessagesCounted'
  <2>1. MessagesCounted
    BY DEF Accounted, StreamCounted
  <2>2. \A l \in Links : rcv'[l].delivery_count <= snd'[l].delivery_count
    BY <2>1 DEF MessagesCounted
  <2>3. \A k \in DOMAIN s2r' : Completing(k)' =>
            s2r'[k].number \in rcv'[s2r'[k].handle].delivery_count
                                  ..(snd'[s2r'[k].handle].delivery_count - 1)
    BY <1>5, <2>1 DEF MessagesCounted
  <2>4. ASSUME NEW j \in DOMAIN s2r', NEW k \in DOMAIN s2r', j < k,
               Completing(j)', Completing(k)', s2r'[j].handle = s2r'[k].handle
        PROVE  s2r'[j].number < s2r'[k].number
    <3>1. /\ j + 1 \in DOMAIN s2r /\ Completing(j + 1) /\ s2r'[j] = s2r[j + 1]
          /\ k + 1 \in DOMAIN s2r /\ Completing(k + 1) /\ s2r'[k] = s2r[k + 1]
        BY <1>5, <2>4
    <3>2. j + 1 < k + 1
        BY <1>1, <2>4
    <3> QED BY <2>1, <2>4, <3>1, <3>2 DEF MessagesCounted
  <2> QED BY <2>2, <2>3, <2>4 DEF MessagesCounted
<1>7. \A k \in DOMAIN s2r' : Completing(k)' => s2r'[k].number < Granted(s2r[k].handle)'
    BY <1>2, <1>5 DEF Accounted, StreamCounted, Growing, Numbers
<1>8. FlowsWithin'
    BY FlowsStayWithin DEF Accounted
<1> QED BY <1>3, <1>4, <1>6, <1>7, <1>8 DEF Accounted, StreamCounted

\* What on_transfer does to the receiver's room: a transfer counted, a slot taken or not.
LEMMA BufferWithRoom ==
    ASSUME Typed, Accounted, s2r # <<>>, NEW f \in TransferFrames,
           Head(s2r).type = "transfer", inbuf' = BufferWith(f),
           inc'.next_transfer_id = inc.next_transfer_id + 1
    PROVE  Room' >= Room
<1>1. Available(inbuf) > 0 /\ Numbers
    BY TransferHasRoom, Shapes
<1>2. f.delivery_id \in Ids /\ inbuf \in Buffer(InCapacity, Ids)
    BY DEF TransferFrames, Typed, TypeOK
<1>3. Available(BufferWith(f)) \in {Available(inbuf), Available(inbuf) - 1}
    BY <1>1, <1>2, Capacities, PushType DEF BufferWith
<1>4. Room' = inc.next_transfer_id + 1 + Available(BufferWith(f))
    BY DEF Room
<1> QED BY <1>1, <1>3, <1>4 DEF Room, Numbers

LEMMA ReceiverOnTransferAccounted ==
    ASSUME Typed, Typed', Accounted, failed = "none", ReceiverOnTransfer
    PROVE  Accounted' /\ NeverOverflows'
<1> DEFINE f == Head(s2r)
           l == f.handle
<1>1. /\ s2r # <<>> /\ s2r' = Tail(s2r) /\ f.type = "transfer"
      /\ out' = out /\ snd' = snd /\ r2s' = r2s
      /\ inc \in Incoming /\ rcv \in [Links -> ReceiverLink]
      /\ IF Fault(f) # "none" THEN TransferFails(f)
         ELSE IF f.more THEN TransferMore(f) ELSE TransferLast(f)
    BY DEF ReceiverOnTransfer, ReceiverReads, sender, Typed, TypeOK
<1>2. f \in TransferFrames /\ l \in Links /\ rcv[l] \in ReceiverLink
    BY <1>1, ReceiverReadsType DEF ReceiverOnTransfer, TransferFrames
<1>3. Available(inbuf) > 0 /\ Numbers /\ Numbers' /\ StreamShape /\ StreamShape'
    BY <1>1, TransferHasRoom, Shapes, ShapesNext
<1>4. inc'.next_transfer_id = inc.next_transfer_id + 1
    BY <1>1 DEF TransferFails, TransferMore, TransferLast, Incoming
<1>5. CASE TransferFails(f)
  <2>1. inbuf' = inbuf /\ rcv' = rcv /\ failed' = Fault(f)
    BY <1>5 DEF TransferFails
  <2>2. Growing
    BY <1>3, <1>4, <2>1 DEF Growing, Room, Granted, Numbers
  <2>3. failed' # "circular buffer overflow"
    <3>1. Available(inbuf) # 0
        BY <1>3
    <3>2. Fault(f) \in {"none", "frame sequence error"}
        BY <3>1 DEF Fault
    <3> QED BY <2>1, <3>2
  <2> QED BY <1>1, <1>4, <2>1, <2>2, <2>3, PartAccounted DEF NeverOverflows
<1>6. CASE TransferMore(f)
  <2>1. /\ inbuf' = BufferWith(f) /\ failed' = failed
        /\ rcv' = [rcv EXCEPT ![l] = [rcv[l] EXCEPT !.incomplete = f.delivery_id]]
    BY <1>1, <1>2, <1>6 DEF TransferMore
  <2> HIDE DEF f, l
  <2>2. \A x \in Links : /\ rcv'[x].delivery_count = rcv[x].delivery_count
                         /\ rcv'[x].credit = rcv[x].credit
    BY <1>1, <1>2, <2>1 DEF ReceiverLink
  <2>3. Room' >= Room
    BY <1>1, <1>2, <1>4, <2>1, BufferWithRoom DEF f
  <2>4. Growing
    BY <1>3, <2>2, <2>3 DEF Growing, Granted, Numbers
  <2> QED BY <1>1, <1>4, <2>1, <2>2, <2>4, PartAccounted DEF NeverOverflows, f
<1>7. CASE TransferLast(f) /\ ~ f.more
  <2> DEFINE left == IF rcv[l].credit > 0 THEN rcv[l].credit - 1 ELSE rcv[l].credit
             delta == CreditWindow[l] - left
             topup == CreditWindow[l] > 0 /\ delta > 0 /\ 4 * delta >= CreditWindow[l]
             credit == IF topup THEN left + delta ELSE left
             asks == rcv[l].issue_flow \/ topup
             count == rcv[l].delivery_count + 1
  <2>1. /\ inbuf' = BufferWith(f) /\ failed' = failed
        /\ rcv' = [rcv EXCEPT ![l] = [credit |-> credit, delivery_count |-> count,
                                      issue_flow |-> asks, incomplete |-> Undefined]]
    BY <1>7 DEF TransferLast
  <2>2. /\ credit \in Nat /\ credit >= rcv[l].credit - 1 /\ count = rcv[l].delivery_count + 1
    <3>1. rcv[l].credit \in Nat
        BY <1>2 DEF ReceiverLink
    <3>2. CreditWindow[l] \in Nat
        BY <1>2, LinkOptions
    <3>3. left \in Nat /\ left >= rcv[l].credit - 1
        BY <3>1
    <3>4. topup => left + delta > left
        BY <3>2, <3>3
    <3>5. left + delta \in Int
        BY <3>2, <3>3
    <3> HIDE DEF left, delta, topup
    <3> QED BY <3>1, <3>3, <3>4, <3>5
  <2> HIDE DEF credit, asks, count, f, l
  <2>3. /\ rcv'[l].delivery_count = count /\ rcv'[l].credit = credit
        /\ \A x \in Links \ {l} : rcv'[x] = rcv[x]
    BY <1>1, <1>2, <2>1
  <2>4. Room' >= Room
    BY <1>1, <1>2, <1>4, <2>1, BufferWithRoom DEF f
  <2>5. \A x \in Links : Granted(x)' >= Granted(x)
    <3> SUFFICES ASSUME NEW x \in Links PROVE Granted(x)' >= Granted(x)
        OBVIOUS
    <3>1. rcv[x].delivery_count \in Nat /\ rcv[x].credit \in Nat
        BY <1>3 DEF Numbers
    <3>2. CASE x = l
        BY <2>2, <2>3, <3>1, <3>2 DEF Granted
    <3>3. CASE x # l
        BY <2>3, <3>1, <3>3 DEF Granted
    <3> QED BY <3>2, <3>3
  <2>6. Growing
    BY <2>4, <2>5 DEF Growing
  <2>7. SenderWithin'
    BY <1>1, <2>6, SenderStaysWithin DEF Accounted
  <2>8. TransfersCounted'
    BY <1>1, <1>4, TransferIsCounted DEF Accounted, StreamCounted, f
  <2>9. /\ f = s2r[1] /\ 1 \in DOMAIN s2r /\ Completing(1)
        /\ \A k \in DOMAIN s2r' : k \in Nat \ {0} /\ k + 1 \in DOMAIN s2r /\ s2r'[k] = s2r[k + 1]
    BY <1>1, <1>7, HeadTaken DEF Completing, f
  <2>10. \A k \in DOMAIN s2r' : Completing(k)' =>
            /\ k + 1 \in DOMAIN s2r /\ Completing(k + 1) /\ s2r'[k] = s2r[k + 1]
            /\ s2r'[k].handle \in Links /\ s2r'[k].number \in Nat
    BY <1>3, <2>9 DEF Completing, StreamShape
  <2>11. /\ f.number \in rcv[l].delivery_count..(snd[l].delivery_count - 1)
         /\ f.number \in Nat
    BY <1>2, <1>3, <2>9 DEF Accounted, StreamCounted, MessagesCounted, l, TransferFrames
  <2>12. MessagesCounted'
    <3>1. ASSUME NEW x \in Links
          PROVE  rcv'[x].delivery_count <= snd'[x].delivery_count
      <4>1. /\ rcv[x].delivery_count <= snd[x].delivery_count
            /\ rcv[x].delivery_count \in Nat /\ snd[x].delivery_count \in Nat
        BY <1>3 DEF Accounted, StreamCounted, MessagesCounted, Numbers
      <4>2. CASE x = l
        BY <1>1, <2>2, <2>3, <2>11, <4>1, <4>2
      <4>3. CASE x # l
        BY <1>1, <2>3, <4>1, <4>3
      <4> QED BY <4>2, <4>3
    <3>2. ASSUME NEW k \in DOMAIN s2r', Completing(k)'
          PROVE  s2r'[k].number \in rcv'[s2r'[k].handle].delivery_count
                                        ..(snd'[s2r'[k].handle].delivery_count - 1)
      <4> DEFINE x == s2r[k + 1].handle
                 number == s2r[k + 1].number
      <4>1. /\ k + 1 \in DOMAIN s2r /\ Completing(k + 1) /\ s2r'[k] = s2r[k + 1]
            /\ x \in Links /\ number \in Nat /\ k \in Nat \ {0}
        BY <2>9, <2>10, <3>2
      <4>2. number \in rcv[x].delivery_count..(snd[x].delivery_count - 1)
        BY <4>1 DEF Accounted, StreamCounted, MessagesCounted
      <4>3. rcv[x].delivery_count \in Nat /\ snd[x].delivery_count \in Nat
        BY <1>3, <4>1 DEF Numbers
      <4>4. x = l => f.number < number
        <5>1. 1 < k + 1 /\ k + 1 \in DOMAIN s2r
            BY <4>1
        <5> QED BY <2>9, <4>1, <5>1 DEF Accounted, StreamCounted, MessagesCounted, l
      <4> HIDE DEF x, number
      <4>5. number \in rcv'[x].delivery_count..(snd'[x].delivery_count - 1)
        <5>1. CASE x = l
            BY <1>1, <2>2, <2>3, <2>11, <4>1, <4>2, <4>3, <4>4, <5>1
        <5>2. CASE x # l
            BY <1>1, <2>3, <4>1, <4>2, <5>2
        <5> QED BY <5>1, <5>2
      <4> QED BY <4>1, <4>5 DEF x, number
    <3>3. ASSUME NEW j \in DOMAIN s2r', NEW k \in DOMAIN s2r', j < k,
                 Completing(j)', Completing(k)', s2r'[j].handle = s2r'[k].handle
          PROVE  s2r'[j].number < s2r'[k].number
      <4>1. j + 1 < k + 1
        BY <2>9, <3>3
      <4> QED BY <2>10, <3>3, <4>1 DEF Accounted, StreamCounted, MessagesCounted
    <3> QED BY <3>1, <3>2, <3>3 DEF MessagesCounted
  <2>13. \A k \in DOMAIN s2r' : Completing(k)' => s2r'[k].number < Granted(s2r[k].handle)'
    BY <1>3, <2>5, <2>10 DEF Accounted, StreamCounted, Numbers
  <2>14. FlowsWithin'
    BY <1>1, <2>6, FlowsStayWithin DEF Accounted
  <2>15. NeverOverflows'
    BY <2>1 DEF NeverOverflows
  <2> QED BY <2>7, <2>8, <2>12, <2>13, <2>14, <2>15 DEF Accounted, StreamCounted
<1> QED BY <1>1, <1>5, <1>6, <1>7

LEMMA GiveOutcomeAccounted ==
    ASSUME Typed, Typed', Accounted, NEW id \in Ids, NEW outcome \in Outcomes,
           GiveOutcome(id, outcome)
    PROVE  Accounted'
<1>1. /\ inbuf' = inbuf /\ rcv' = rcv /\ s2r' = s2r /\ r2s' = r2s /\ snd' = snd /\ out' = out
      /\ inc \in Incoming
      /\ \/ inc' = inc
         \/ inc' = [inc EXCEPT !.updated = Append(@, id)]
    BY DEF GiveOutcome, sender, Typed, TypeOK
<1>2. inc'.next_transfer_id = inc.next_transfer_id
    BY <1>1 DEF Incoming
<1>3. Growing
    BY <1>1, <1>2, ReceiverUntouched
<1>4. \A k \in DOMAIN s2r' : k + 0 \in DOMAIN s2r /\ s2r'[k] = s2r[k + 0]
    BY <1>1, Shapes DEF StreamShape
<1> QED BY <1>1, <1>2, <1>3, <1>4, QuietStep

LEMMA AddCreditAccounted ==
    ASSUME Typed, Typed', Accounted, NEW l \in Links, AddCredit(l)
    PROVE  Accounted'
<1> DEFINE credit == rcv[l].credit + 1
<1>1. /\ inbuf' = inbuf /\ inc' = inc /\ s2r' = s2r /\ r2s' = r2s /\ snd' = snd /\ out' = out
      /\ rcv \in [Links -> ReceiverLink] /\ rcv[l] \in ReceiverLink
      /\ rcv' = [rcv EXCEPT ![l] = [rcv[l] EXCEPT !.credit = credit, !.issue_flow = TRUE]]
    BY DEF AddCredit, sender, Typed, TypeOK
<1>2. credit \in Nat /\ credit > rcv[l].credit
    BY <1>1 DEF ReceiverLink
<1> HIDE DEF credit
<1>3. \A x \in Links : /\ rcv'[x].delivery_count = rcv[x].delivery_count
                       /\ \/ rcv'[x].credit = rcv[x].credit
                          \/ x = l /\ rcv'[x].credit = credit
  <2> SUFFICES ASSUME NEW x \in Links
               PROVE  /\ rcv'[x].delivery_count = rcv[x].delivery_count
                      /\ \/ rcv'[x].credit = rcv[x].credit
                         \/ x = l /\ rcv'[x].credit = credit
    OBVIOUS
  <2>1. CASE x = l
    <3>1. rcv'[x] = [rcv[l] EXCEPT !.credit = credit, !.issue_flow = TRUE]
        BY <1>1, <2>1
    <3>2. rcv'[x].delivery_count = rcv[l].delivery_count /\ rcv'[x].credit = credit
        BY <1>1, <3>1 DEF ReceiverLink
    <3> QED BY <2>1, <3>2
  <2>2. CASE x # l
    <3>1. rcv'[x] = rcv[x]
        BY <1>1, <2>2
    <3> QED BY <3>1
  <2> QED BY <2>1, <2>2
<1>4. Growing
  <2>1. Numbers
    BY Shapes
  <2>2. Room' >= Room
    BY <1>1, <2>1 DEF Room, Numbers
  <2>3. \A x \in Links : Granted(x)' >= Granted(x)
    BY <1>2, <1>3, <2>1 DEF Granted, Numbers
  <2> QED BY <2>2, <2>3 DEF Growing
<1>5. \A k \in DOMAIN s2r' : k + 0 \in DOMAIN s2r /\ s2r'[k] = s2r[k + 0]
    BY <1>1, Shapes DEF StreamShape
<1> QED BY <1>1, <1>3, <1>4, <1>5, QuietStep

LEMMA ReceiverOnDispositionAccounted ==
    ASSUME Typed, Typed', Accounted, ReceiverOnDisposition
    PROVE  Accounted'
<1>1. /\ inbuf' = inbuf /\ rcv' = rcv /\ inc' = inc /\ r2s' = r2s /\ snd' = snd /\ out' = out
      /\ s2r # <<>> /\ s2r' = Tail(s2r)
    BY DEF ReceiverOnDisposition, ReceiverReads, sender
<1>2. Growing
    BY <1>1, ReceiverUntouched
<1>3. \A k \in DOMAIN s2r' : k + 1 \in DOMAIN s2r /\ s2r'[k] = s2r[k + 1]
    BY <1>1, HeadTaken
<1> QED BY <1>1, <1>2, <1>3, QuietStep

\* The flows _process writes say exactly what the two sums are afterwards.
LEMMA ReceiverProcessAccounted ==
    ASSUME Typed, Typed', Accounted, ReceiverProcess
    PROVE  Accounted'
<1> DEFINE count == Cardinality(Asking)
           announced == WriteDispositions(UpdatedIncoming, "receiver")
           opening == IF WindowLow THEN <<SessionFlow(Freed)>> ELSE <<>>
           top == IF WindowLow \/ Asking # {}
                  THEN Uint(inc.next_transfer_id) + Available(Freed)
                  ELSE inc.max_transfer_id
<1>1. PICK order \in [1..count -> Asking] :
          r2s' = r2s \o announced \o opening \o [k \in 1..count |-> LinkFlow(Freed, order[k])]
    BY DEF ReceiverProcess
<1> DEFINE asked == [k \in 1..count |-> LinkFlow(Freed, order[k])]
<1>2. /\ inbuf \in Buffer(InCapacity, Ids) /\ inc \in Incoming /\ rcv \in [Links -> ReceiverLink]
      /\ r2s \in Seq(ToSender)
      /\ inbuf' = Freed /\ s2r' = s2r /\ snd' = snd /\ out' = out
      /\ inc' = [inc EXCEPT !.updated = <<>>, !.max_transfer_id = top]
      /\ rcv' = [l \in Links |-> [rcv[l] EXCEPT !.issue_flow = FALSE]]
    BY DEF ReceiverProcess, sender, Typed, TypeOK
<1>3. inc'.next_transfer_id = inc.next_transfer_id
  <2> HIDE DEF top
  <2> QED BY <1>2 DEF Incoming
<1>4. \A l \in Links : /\ rcv'[l].delivery_count = rcv[l].delivery_count
                       /\ rcv'[l].credit = rcv[l].credit
    BY <1>2 DEF ReceiverLink
<1>5. Freed \in Buffer(InCapacity, Ids) /\ Available(Freed) >= Available(inbuf)
    BY <1>2, Capacities, PopIfType DEF Freed
<1>6. Numbers /\ Numbers' /\ Room' = inc.next_transfer_id + Available(Freed)
      /\ \A l \in Links : Granted(l)' = Granted(l)
  <2>1. Numbers /\ Numbers'
    BY Shapes, ShapesNext
  <2>2. Room' = inc.next_transfer_id + Available(Freed)
    BY <1>2, <1>3 DEF Room
  <2>3. \A l \in Links : Granted(l)' = Granted(l)
    BY <1>4 DEF Granted
  <2> QED BY <2>1, <2>2, <2>3
<1>7. Growing
    BY <1>2, <1>5, <1>6 DEF Growing, Room, Numbers
<1>8. Uint(inc.next_transfer_id) + Available(Freed) <= Room'
  <2>1. Uint(inc.next_transfer_id) \in Nat /\ Uint(inc.next_transfer_id) <= inc.next_transfer_id
    <3>1. inc.next_transfer_id \in Nat
        BY <1>6 DEF Numbers
    <3> QED BY <3>1, UintFits
  <2>2. Available(Freed) \in Nat
    BY <1>2, <1>6 DEF Numbers
  <2> QED BY <1>6, <2>1, <2>2 DEF Numbers
<1>9. /\ SessionFlow(Freed) \in FlowFrames
      /\ \A l \in Links : LinkFlow(Freed, l) \in FlowFrames
    BY <1>5, FlowType
<1>10. count \in Nat /\ \A k \in 1..count : order[k] \in Links
  <2>1. IsFiniteSet(Asking)
    BY LinkOptions, FS_Subset DEF Asking
  <2>2. count \in Nat
    BY <2>1, FS_CardinalityType
  <2> QED BY <1>1, <2>2 DEF Asking
<1> HIDE DEF count
<1>11. /\ announced \in Seq(DispositionFrames(Ids, States)) /\ announced \in Seq(ToSender)
       /\ opening \in Seq(ToSender) /\ asked \in Seq(ToSender)
  <2>1. announced \in Seq(DispositionFrames(Ids, States)) /\ announced \in Seq(ToSender)
    BY UpdatedIncomingType, WriteDispositionsType, DispositionsFit
  <2>2. SessionFlow(Freed) \in ToSender /\ \A k \in 1..count : LinkFlow(Freed, order[k]) \in ToSender
    BY <1>9, <1>10 DEF ToSender
  <2>3. opening \in Seq(ToSender)
    BY <2>2
  <2>4. asked \in Seq(ToSender)
    BY <1>10, <2>2
  <2> QED BY <2>1, <2>3, <2>4
<1>12. /\ \A k \in DOMAIN announced : announced[k].type = "disposition"
       /\ \A k \in DOMAIN opening : opening[k] = SessionFlow(Freed)
       /\ \A k \in DOMAIN asked : \E l \in Links : asked[k] = LinkFlow(Freed, l)
  <2>1. \A k \in DOMAIN announced : announced[k] \in DispositionFrames(Ids, States)
    <3> HIDE DEF announced
    <3> QED BY <1>11
  <2>2. \A k \in DOMAIN announced : announced[k].type = "disposition"
    BY <2>1 DEF DispositionFrames
  <2>3. \A k \in DOMAIN opening : opening[k] = SessionFlow(Freed)
    OBVIOUS
  <2>4. \A k \in DOMAIN asked : \E l \in Links : asked[k] = LinkFlow(Freed, l)
    BY <1>10
  <2> QED BY <2>2, <2>3, <2>4
<1> HIDE DEF announced, opening, asked
<1>13. \A k \in DOMAIN r2s' :
          \/ \E j \in DOMAIN r2s : r2s'[k] = r2s[j]
          \/ r2s'[k].type = "disposition"
          \/ r2s'[k] = SessionFlow(Freed)
          \/ \E l \in Links : r2s'[k] = LinkFlow(Freed, l)
  <2> DEFINE Allowed == {f \in ToSender : \/ \E j \in DOMAIN r2s : f = r2s[j]
                                          \/ f.type = "disposition"
                                          \/ f = SessionFlow(Freed)
                                          \/ \E l \in Links : f = LinkFlow(Freed, l)}
  <2>1. \A k \in DOMAIN r2s : r2s[k] \in Allowed
    BY <1>2
  <2>2. \A k \in DOMAIN announced : announced[k] \in Allowed
    BY <1>11, <1>12
  <2>3. \A k \in DOMAIN opening : opening[k] \in Allowed
    BY <1>11, <1>12
  <2>4. \A k \in DOMAIN asked : asked[k] \in Allowed
    BY <1>11, <1>12
  <2>5. r2s' = r2s \o announced \o opening \o asked
    BY <1>1 DEF asked
  <2>6. \A f \in Allowed : \/ \E j \in DOMAIN r2s : f = r2s[j]
                           \/ f.type = "disposition"
                           \/ f = SessionFlow(Freed)
                           \/ \E l \in Links : f = LinkFlow(Freed, l)
    OBVIOUS
  <2> HIDE DEF Allowed
  <2>7. /\ r2s \in Seq(Allowed) /\ announced \in Seq(Allowed)
        /\ opening \in Seq(Allowed) /\ asked \in Seq(Allowed)
    BY <1>2, <1>11, <2>1, <2>2, <2>3, <2>4, SeqWithin
  <2>8. r2s' \in Seq(Allowed)
    BY <2>5, <2>7
  <2>9. \A k \in DOMAIN r2s' : r2s'[k] \in Allowed
    BY <2>8
  <2> QED BY <2>6, <2>9
<1>14. ASSUME NEW k \in DOMAIN r2s', r2s'[k].type = "flow"
       PROVE  \/ \E j \in DOMAIN r2s : r2s'[k] = r2s[j]
              \/ /\ r2s'[k].next_incoming_id + r2s'[k].incoming_window <= Room'
                 /\ r2s'[k].handle # NoHandle =>
                        r2s'[k].delivery_count + r2s'[k].link_credit
                            <= Granted(r2s[k].handle)'
  <2>1. CASE r2s'[k] = SessionFlow(Freed)
    <3>1. /\ r2s'[k].next_incoming_id = Uint(inc.next_transfer_id)
          /\ r2s'[k].incoming_window = Available(Freed) /\ r2s'[k].handle = NoHandle
        BY <2>1 DEF SessionFlow
    <3> QED BY <1>8, <3>1
  <2>2. ASSUME NEW l \in Links, r2s'[k] = LinkFlow(Freed, l)
        PROVE  /\ r2s'[k].next_incoming_id + r2s'[k].incoming_window <= Room'
               /\ r2s'[k].delivery_count + r2s'[k].link_credit <= Granted(r2s[k].handle)'
    <3>1. /\ r2s'[k].next_incoming_id = Uint(inc.next_transfer_id)
          /\ r2s'[k].incoming_window = Available(Freed) /\ r2s'[k].handle = l
          /\ r2s'[k].delivery_count = rcv[l].delivery_count
          /\ r2s'[k].link_credit = rcv[l].credit
        BY <2>2 DEF SessionFlow, LinkFlow
    <3>2. Granted(r2s[k].handle)' = rcv[l].delivery_count + rcv[l].credit
        BY <1>4, <3>1 DEF Granted
    <3>3. rcv[l].delivery_count + rcv[l].credit <= Granted(r2s[k].handle)'
        BY <1>6, <3>2 DEF Numbers
    <3> QED BY <1>8, <3>1, <3>3
  <2>3. r2s'[k].type # "disposition"
    BY <1>14
  <2> QED BY <1>13, <2>1, <2>2, <2>3
<1>15. \A k \in DOMAIN s2r' : k + 0 \in DOMAIN s2r /\ s2r'[k] = s2r[k + 0]
    BY <1>2, Shapes DEF StreamShape
<1> QED BY <1>2, <1>3, <1>4, <1>7, <1>14, <1>15, QuietStep

-----------------------------------------------------------------------------
(* The theorems.                                                            *)

LEMMA InitAccounted == Init => Accounted
<1> SUFFICES ASSUME Init PROVE Accounted
    OBVIOUS
<1>1. /\ out.next_transfer_id = 0 /\ out.remote_next_transfer_id = Undefined
      /\ inc.next_transfer_id = 0 /\ inbuf = EmptyBuffer(InCapacity)
      /\ s2r = <<>> /\ r2s = <<>>
      /\ \A l \in Links : /\ snd[l].delivery_count = 0 /\ snd[l].credit = 0
                          /\ rcv[l].delivery_count = 0 /\ rcv[l].credit \in Nat
    BY LinkOptions DEF Init
<1>2. Available(inbuf) = InCapacity
    BY <1>1, Capacities, EmptyBufferType
<1>3. SenderWithin
    BY <1>1, <1>2, Capacities DEF SenderWithin, Room, Granted
<1>4. StreamCounted
    BY <1>1 DEF StreamCounted, TransfersCounted, MessagesCounted
<1>5. FlowsWithin
    BY <1>1 DEF FlowsWithin
<1> QED BY <1>3, <1>4, <1>5 DEF Accounted

LEMMA StepAccounted ==
    Typed /\ Typed' /\ Accounted /\ NeverOverflows /\ [Next]_vars
        => Accounted' /\ NeverOverflows'
<1> SUFFICES ASSUME Typed, Typed', Accounted, NeverOverflows, [Next]_vars
             PROVE  Accounted' /\ NeverOverflows'
    OBVIOUS
<1>1. CASE UNCHANGED vars
    BY <1>1 DEF vars, sender, receiver, Accounted, SenderWithin, StreamCounted, FlowsWithin,
                TransfersCounted, MessagesCounted, Completing, Granted, Room, NeverOverflows
<1>2. CASE SenderApplication
  <2>1. failed' = failed
    BY <1>2 DEF SenderApplication, Send, Settle, receiver
  <2> QED BY <1>2, <2>1, SendAccounted, SettleAccounted DEF SenderApplication, NeverOverflows
<1>3. CASE ReceiverApplication
  <2>1. failed' = failed
    BY <1>3 DEF ReceiverApplication, GiveOutcome, AddCredit
  <2> QED BY <1>3, <2>1, GiveOutcomeAccounted, AddCreditAccounted
             DEF ReceiverApplication, NeverOverflows
<1>4. CASE SenderPeer
  <2>1. failed' = failed
    BY <1>4 DEF SenderPeer, SendPending, FinishProcess, SenderOnFlow, SenderOnDisposition, receiver
  <2> QED BY <1>4, <2>1, SendPendingAccounted, FinishProcessAccounted, SenderOnFlowAccounted,
             SenderOnDispositionAccounted DEF SenderPeer, NeverOverflows
<1>5. CASE ReceiverOnTransfer
  <2>1. failed = "none"
    BY <1>5 DEF ReceiverOnTransfer, ReceiverReads
  <2> QED BY <1>5, <2>1, ReceiverOnTransferAccounted
<1>6. CASE ReceiverOnDisposition \/ ReceiverProcess
  <2>1. failed' = failed
    BY <1>6 DEF ReceiverOnDisposition, ReceiverProcess
  <2> QED BY <1>6, <2>1, ReceiverOnDispositionAccounted, ReceiverProcessAccounted
             DEF NeverOverflows
<1> QED BY <1>1, <1>2, <1>3, <1>4, <1>5, <1>6 DEF Next, ReceiverPeer

\* Both ends' counts always agree with the frames under way, and the receiver's ring
\* never overflows (Incoming.on_transfer never throws "circular buffer overflow").
THEOREM FlowControl == Spec => [](FlowAccounting /\ NeverOverflows)
<1>1. Init => NeverOverflows
    BY DEF Init, NeverOverflows
<1>2. Accounted <=> FlowAccounting
    BY Regrouped
<1>3. Spec => [](Accounted /\ NeverOverflows)
    BY <1>1, InitAccounted, StepAccounted, TypeCorrect, PTL DEF Spec
<1> QED BY <1>2, <1>3, PTL

\* The ring of unsettled deliveries never overflows, whatever the receiving application
\* leaves unsettled and however flows and transfers cross.
THEOREM RingNeverOverflows == Spec => []NeverOverflows
BY FlowControl, PTL

\* No message completes on a link whose receiver has no credit left: the credit of a
\* link is never overdrawn, however flows and transfers cross.
THEOREM CreditIsNeverOverdrawn == Spec => []CreditCovered
<1>1. Typed /\ Accounted => CreditCovered
  <2> SUFFICES ASSUME Typed, Accounted, s2r # <<>>, Head(s2r).type = "transfer",
                      ~ Head(s2r).more
               PROVE  rcv[Head(s2r).handle].credit > 0
    BY DEF CreditCovered
  <2> DEFINE f == s2r[1]
             l == f.handle
  <2>1. Head(s2r) = f /\ 1 \in DOMAIN s2r
    <3>1. s2r \in Seq(ToReceiver)
        BY DEF Typed
    <3> QED BY <3>1
  <2>2. Completing(1)
    BY <2>1 DEF Completing
  <2>3. /\ l \in Links /\ f.number \in Nat /\ Numbers
    BY <2>1, <2>2, Shapes DEF StreamShape, Completing
  <2>4. /\ f.number \in rcv[l].delivery_count..(snd[l].delivery_count - 1)
        /\ f.number < rcv[l].delivery_count + rcv[l].credit
    BY <2>1, <2>2 DEF Accounted, StreamCounted, MessagesCounted, Granted
  <2>5. rcv[l].delivery_count \in Nat /\ rcv[l].credit \in Nat /\ snd[l].delivery_count \in Nat
    BY <2>3 DEF Numbers
  <2> HIDE DEF f, l
  <2>6. rcv[l].credit > 0
    BY <2>3, <2>4, <2>5
  <2> QED BY <2>1, <2>6 DEF l
<1>2. Accounted <=> FlowAccounting
    BY Regrouped
<1> QED BY <1>1, <1>2, FlowControl, TypeCorrect, PTL

=============================================================================
