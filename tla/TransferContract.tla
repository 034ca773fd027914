-------------------------- MODULE TransferContract --------------------------
(***************************************************************************)
(* What a session promises the two applications, without buffers, credit,  *)
(* windows or frames: the messages given to send arrive whole, once and in *)
(* the order they were sent; an outcome the sender hears of is the one the *)
(* receiving application gave that very message; and a message counts as   *)
(* settled by the remote only if the receiver settled it, or if it was     *)
(* sent settled.  A message is known by its place in outbox, less one.     *)
(***************************************************************************)
EXTENDS Integers, Sequences

CONSTANTS Messages, Ids, Outcomes, NoState

VARIABLES
    outbox,            \* the messages send has taken
    inbox,             \* the messages the receiving application was given
    presettled,        \* the ids that were sent settled
    given,             \* the outcome the receiving application gave, by id
    settled_there,     \* the ids the receiver has settled
    heard,             \* the outcome the sender was told, by id
    settled_remotely   \* the ids the sender takes to be settled by the remote

vars == <<outbox, inbox, presettled, given, settled_there, heard, settled_remotely>>

Init ==
    /\ outbox = <<>>
    /\ inbox = <<>>
    /\ presettled = {}
    /\ given = [id \in Ids |-> NoState]
    /\ settled_there = {}
    /\ heard = [id \in Ids |-> NoState]
    /\ settled_remotely = {}

Send(message) ==
    /\ Len(outbox) \in Ids
    /\ outbox' = Append(outbox, message)
    /\ presettled' \in {presettled, presettled \cup {Len(outbox)}}
    /\ UNCHANGED <<inbox, given, settled_there, heard, settled_remotely>>

\* The next message arrives; a receiver that accepts by itself does so at once.
Arrive ==
    /\ Len(inbox) < Len(outbox)
    /\ inbox' = Append(inbox, outbox[Len(inbox) + 1])
    /\ \/ UNCHANGED <<given, settled_there>>
       \/ /\ given' = [given EXCEPT ![Len(inbox)] = "accepted"]
          /\ settled_there' \in {settled_there, settled_there \cup {Len(inbox)}}
    /\ UNCHANGED <<outbox, presettled, heard, settled_remotely>>

Give(id, outcome) ==
    /\ id < Len(inbox)
    /\ given' = [given EXCEPT ![id] = outcome]
    /\ settled_there' \in {settled_there, settled_there \cup {id}}
    /\ UNCHANGED <<outbox, inbox, presettled, heard, settled_remotely>>

\* The sender's settlement reaches a receiver that settles second.
SettleThere(ids) ==
    /\ \A id \in ids : id < Len(outbox)
    /\ settled_there' = settled_there \cup ids
    /\ UNCHANGED <<outbox, inbox, presettled, given, heard, settled_remotely>>

\* The sender hears of the outcome, and perhaps of the settlement, of some messages.
Hear(ids) ==
    /\ \A id \in ids : given[id] # NoState
    /\ heard' = [id \in Ids |-> IF id \in ids THEN given[id] ELSE heard[id]]
    /\ settled_remotely' \in {settled_remotely,
                              settled_remotely \cup (ids \cap settled_there)}
    /\ UNCHANGED <<outbox, inbox, presettled, given, settled_there>>

\* There is nothing to wait for once all of a presettled message is on its way.
LetGo(id) ==
    /\ id \in presettled
    /\ settled_remotely' = settled_remotely \cup {id}
    /\ UNCHANGED <<outbox, inbox, presettled, given, settled_there, heard>>

Next ==
    \/ \E message \in Messages : Send(message)
    \/ Arrive
    \/ \E id \in Ids, outcome \in Outcomes : Give(id, outcome)
    \/ \E ids \in SUBSET Ids : SettleThere(ids) \/ Hear(ids)
    \/ \E id \in Ids : LetGo(id)

Spec == Init /\ [][Next]_vars

=============================================================================
