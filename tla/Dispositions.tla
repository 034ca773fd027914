---------------------------- MODULE Dispositions ----------------------------
(***************************************************************************)
(* write_dispositions (src/lib/session.js): the disposition frames that    *)
(* announce a list of updated deliveries.  A run of consecutive ids whose  *)
(* outcomes may be batched becomes one frame.  A delivery is a record with *)
(* the fields id, state and settled.                                       *)
(***************************************************************************)
EXTENDS Integers, Sequences, FiniteSets

NoState == "none"

\* message.are_outcomes_equivalent: only "accepted" is batched.
OutcomesEquivalent(a, b) ==
    \/ a = NoState /\ b = NoState
    \/ a = b /\ a = "accepted"

(***************************************************************************)
(* May ds[i] not join the batch that began at s?  The code compares the    *)
(* outcome with that of the last delivery of the batch only when the batch *)
(* already has two (first !== last), and next_id runs one behind in every  *)
(* batch but the first, because a flush resets it without advancing it.    *)
(***************************************************************************)
StartsBatch(ds, s, i) ==
    LET next_id == ds[s].id + (i - s) - (IF s = 1 THEN 0 ELSE 1)
    IN  \/ /\ ds[s].id # ds[i - 1].id
           /\ ~ OutcomesEquivalent(ds[i - 1].state, ds[i].state)
        \/ ds[i - 1].settled # ds[i].settled
        \/ next_id # ds[i].id

\* The place in ds of the first delivery of the batch that ds[i] is in.
BatchStart(ds) ==
    LET start[i \in 1..Len(ds)] ==
            IF i = 1 \/ StartsBatch(ds, start[i - 1], i) THEN i ELSE start[i - 1]
    IN  start

\* Where the batches start, the kth smallest of a set of places, and where a batch ends.
Starts(ds) == {i \in 1..Len(ds) : BatchStart(ds)[i] = i}

Nth(places, k) ==
    CHOOSE s \in places : Cardinality({r \in places : r < s}) = k - 1

BatchEnd(ds, s) ==
    CHOOSE e \in 1..Len(ds) :
        BatchStart(ds)[e] = s /\ (e = Len(ds) \/ BatchStart(ds)[e + 1] # s)

(***************************************************************************)
(* One frame per batch, in order: the ids from the first delivery's to the *)
(* last one's, with the state and the settled flag of the first.           *)
(***************************************************************************)
Disposition(ds, s, role) ==
    [type |-> "disposition", role |-> role,
     first |-> ds[s].id, last |-> ds[BatchEnd(ds, s)].id,
     state |-> ds[s].state, settled |-> ds[s].settled]

WriteDispositions(ds, role) ==
    [k \in 1..Cardinality(Starts(ds)) |-> Disposition(ds, Nth(Starts(ds), k), role)]

=============================================================================
