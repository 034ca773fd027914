--------------------------- MODULE CircularBuffer ---------------------------
(***************************************************************************)
(* The ring of unsettled deliveries that each direction of a session keeps *)
(* (src/lib/session.js, CircularBuffer).  A delivery object is represented *)
(* by its delivery-id, so an entry is an id or Undefined.  The methods are *)
(* operators on a buffer value, which SessionTransfer applies to the two   *)
(* buffers it has.                                                         *)
(***************************************************************************)
EXTENDS Integers, FiniteSets

\* A slot that was never written or was popped, and a failed lookup.
Undefined == -1

\* The values a buffer of this capacity can take when it holds ids of Ids.
Buffer(capacity, Ids) ==
    [capacity : {capacity}, size : 0..capacity,
     head : 0..(capacity - 1), tail : 0..(capacity - 1),
     entries : [0..(capacity - 1) -> Ids \cup {Undefined}]]

EmptyBuffer(capacity) ==
    [capacity |-> capacity, size |-> 0, head |-> 0, tail |-> 0,
     entries |-> [i \in 0..(capacity - 1) |-> Undefined]]

\* The slot that is i places behind the head.
Slot(b, i) == (b.head + i) % b.capacity

\* Mutation of Available: one slot too many.
AvailableAndOne(b) == b.capacity - b.size + 1

Available(b) == b.capacity - b.size

\* push: the caller looks at Available first, where the code throws.
Push(b, id) ==
    [capacity |-> b.capacity, size |-> b.size + 1,
     head |-> b.head, tail |-> (b.tail + 1) % b.capacity,
     entries |-> [b.entries EXCEPT ![b.tail] = id]]

\* Mutation of PopCount: entries beyond a gap count too.
MatchCount(b, done) == Cardinality({i \in 0..(b.size - 1) : b.entries[Slot(b, i)] \in done})

\* pop_if, whose f is given as the set of ids that satisfy it: how many entries from
\* the head on are in the set without a gap ...
PopCount(b, done) ==
    Cardinality({i \in 0..(b.size - 1) :
                    \A j \in 0..i : b.entries[Slot(b, j)] \in done})

\* The buffer without its n oldest entries ...
Drop(b, n) ==
    LET dropped == {Slot(b, i) : i \in 0..(n - 1)}
    IN  [capacity |-> b.capacity, size |-> b.size - n,
         head |-> Slot(b, n), tail |-> b.tail,
         entries |-> [s \in 0..(b.capacity - 1) |->
                         IF s \in dropped THEN Undefined ELSE b.entries[s]]]

\* ... which is what pop_if leaves.
PopIf(b, done) == Drop(b, PopCount(b, done))

(***************************************************************************)
(* by_id: the code bounds the distance from the head above but not below,  *)
(* so an id older than the head's reaches the slots before the head.  A    *)
(* negative index is no slot of a JavaScript array, unless the remainder   *)
(* is -0, which is index 0.                                                *)
(***************************************************************************)
ById(b, id) ==
    LET gap == id - b.entries[b.head]
        index == b.head + gap
    IN  IF b.size > 0 /\ gap < b.size /\ (index >= 0 \/ index % b.capacity = 0)
        THEN b.entries[index % b.capacity]
        ELSE Undefined

\* The ids in the buffer, oldest first.
Contents(b) == [k \in 1..b.size |-> b.entries[Slot(b, k - 1)]]

=============================================================================
