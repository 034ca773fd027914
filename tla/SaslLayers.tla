----------------------------- MODULE SaslLayers -----------------------------
(***************************************************************************)
(* The layers of a connection on one socket: the bytes of the peer, cut    *)
(* anywhere, put together again by input of src/lib/connection.js and read *)
(* by src/lib/transport.js; the negotiation of src/lib/sasl.js, in which   *)
(* the server's mechanism may take its time; and the hand-over to AMQP,    *)
(* up to the open of both.                                                 *)
(*                                                                         *)
(* What is written is a sequence of units: a protocol header or a frame.   *)
(* Of a byte only its offset in that sequence matters.                     *)
(***************************************************************************)
EXTENDS Integers, Sequences

CONSTANTS
    Size,       \* bytes of a unit, by its name; a header has 8
    Offered,    \* sequence of the server's mechanisms
    Known,      \* sets of mechanisms the client may have, {} for no SASL layer
    MaxRounds,  \* bound: challenges
    MaxBeats    \* bound: empty frames of each peer

Peers == {"client", "server"}
Other(p) == IF p = "client" THEN "server" ELSE "client"

Outcomes == {"ok", "auth", "sys"}
SaslFrames == {"mechanisms", "init", "challenge", "response"} \cup Outcomes
Names == {"header", "open", "empty"} \cup SaslFrames

\* A frame is read when more than 4 bytes of it are there, and its size is in the first 4.
ASSUME Sizes == Size \in [Names -> {n \in Nat : n >= 8}] /\ Size["header"] = 8
ASSUME ClientMechanisms == \A known \in Known : known \subseteq {Offered[i] : i \in DOMAIN Offered} \cup {"other"}
ASSUME Bounds == MaxRounds \in Nat /\ MaxBeats \in Nat

VARIABLES
    conn,       \* peer -> its Connection and transports
    wire,       \* peer -> the units it has written
    fed,        \* peer -> bytes of its units that have come to the other
    deciding,   \* promises of the server's mechanism still to be settled
    granted,    \* history: the mechanism has accepted the client
    rounds,     \* challenges so far
    beats       \* peer -> empty frames so far

vars == <<conn, wire, fed, deciding, granted, rounds, beats>>

Protocols == {"amqp", "sasl"}
Units == [protocol: Protocols, name: Names]
Header(protocol) == [protocol |-> protocol, name |-> "header"]

Transports ==
    [pending: Seq(Names), header_sent: BOOLEAN, header_received: BOOLEAN,
     write_complete: BOOLEAN, read_complete: BOOLEAN]

NewTransport ==
    [pending |-> <<>>, header_sent |-> FALSE, header_received |-> FALSE,
     write_complete |-> FALSE, read_complete |-> FALSE]

(***************************************************************************)
(* sasl_transport is undefined, or one of the three of sasl.js.  A         *)
(* Selective one has selected nothing until a header comes.  eager is no   *)
(* part of the code: a server of another make, which writes its header     *)
(* and its open as soon as it has accepted the client.                     *)
(***************************************************************************)
SaslKinds == {"undefined", "Client", "Server", "Selective"}

Connections ==
    [kind: SaslKinds, known: Known \cup {{}}, eager: BOOLEAN,
     selected: Protocols \cup {"undefined"},
     amqp: Transports, sasl: Transports,
     held: Nat,             \* offset of the first byte that input keeps, or of the next
     frame_size: {0} \cup {Size[n] : n \in Names}, \* that input waits for, 0 for undefined
     local_open: BOOLEAN, remote_open: BOOLEAN,
     transport_error: BOOLEAN,
     ended: BOOLEAN]        \* socket.end() was called

TypeOK ==
    /\ conn \in [Peers -> Connections]
    /\ wire \in [Peers -> Seq(Units)]
    /\ fed \in [Peers -> Nat]
    /\ deciding \in 0 .. 1
    /\ granted \in BOOLEAN
    /\ rounds \in 0 .. MaxRounds
    /\ beats \in [Peers -> 0 .. MaxBeats]

-----------------------------------------------------------------------------
(* The bytes on the wire.                                                  *)

\* The offset of the k-th unit, and of the end for one more than there are.
Offsets(units) ==
    LET start[k \in 1 .. Len(units) + 1] ==
          IF k = 1 THEN 0 ELSE start[k - 1] + Size[units[k - 1].name]
    IN  start

Bytes(units) == Offsets(units)[Len(units) + 1]

StartsAt(units, offset) == \E k \in 1 .. Len(units) : Offsets(units)[k] = offset

\* The unit of which this is the first byte, if there is one.
UnitAt(units, offset) ==
    IF StartsAt(units, offset)
    THEN units[CHOOSE k \in 1 .. Len(units) : Offsets(units)[k] = offset]
    ELSE [protocol |-> "none", name |-> "none"]

\* readUInt32BE: of a header, or in the middle of a unit, that is a big number.
SizeAt(units, offset) ==
    LET u == UnitAt(units, offset)
    IN  IF u.name \in Names \ {"header"} THEN Size[u.name] ELSE 2 ^ 20

-----------------------------------------------------------------------------
(* Writing.  A turn is a record of the connection and of what it writes.   *)

HasPending(t) == t.pending # <<>> \/ ~ t.header_sent

Uses(c) == IF c.kind = "Selective" THEN c.selected
           ELSE IF c.kind = "undefined" THEN "amqp" ELSE "sasl"

\* Mutation of HasWritesPending: what the next layer has to write is forgotten.
HasPendingHere(c) ==
    CASE Uses(c) = "undefined" -> FALSE
      [] Uses(c) = "amqp" -> HasPending(c.amqp)
      [] Uses(c) = "sasl" -> HasPending(c.sasl)

HasWritesPending(c) ==
    CASE Uses(c) = "undefined" -> FALSE
      [] Uses(c) = "amqp" -> HasPending(c.amqp)
      [] Uses(c) = "sasl" -> HasPending(c.sasl) \/ HasPending(c.amqp)

\* Mutation of WritesTo: AMQP does not wait for the outcome, but for the frames before.
WritesWhenIdle(c) ==
    IF Uses(c) = "sasl" /\ c.sasl.header_sent /\ c.sasl.pending = <<>> THEN "amqp" ELSE Uses(c)

\* The transport that write comes to; a server's outcome goes before what follows.
WritesTo(c) ==
    IF Uses(c) = "sasl" /\ c.sasl.write_complete /\ (c.kind = "Client" \/ c.sasl.pending = <<>>)
    THEN "amqp" ELSE Uses(c)

\* Transport.write to a socket: one that was ended takes nothing more.
Written(turn, protocol) ==
    LET t == turn.conn[protocol]
        units == (IF t.header_sent THEN <<>> ELSE <<Header(protocol)>>)
                   \o [i \in DOMAIN t.pending |-> [protocol |-> protocol, name |-> t.pending[i]]]
    IN  [turn EXCEPT !.conn[protocol].pending = <<>>,
                     !.conn[protocol].header_sent = TRUE,
                     !.out = IF turn.conn.ended THEN @ ELSE @ \o units]

Output(turn) ==
    LET done == IF Uses(turn.conn) = "undefined" THEN turn ELSE Written(turn, WritesTo(turn.conn))
    IN  [done EXCEPT !.conn.ended = @ \/ (done.conn.transport_error /\ ~ HasWritesPending(done.conn))]

Encode(turn, protocol, name) == [turn EXCEPT !.conn[protocol].pending = Append(@, name)]

SaslFailed(turn) == [turn EXCEPT !.conn.transport_error = TRUE, !.conn.ended = TRUE]

-----------------------------------------------------------------------------
(* The handlers of the frames.                                             *)

\* The first of the server's that the client has.
Chosen(known) ==
    LET suitable == {i \in DOMAIN Offered : Offered[i] \in known}
    IN  IF suitable = {} THEN "none"
        ELSE Offered[CHOOSE i \in suitable : \A j \in suitable : i <= j]

\* Mutation of Outcome: the client goes on reading the frames of SASL.
OutcomeReadOn(turn, code) ==
    LET told == [turn EXCEPT !.conn.sasl.write_complete = TRUE]
    IN  IF code = "ok" THEN told ELSE SaslFailed(told)

\* on_sasl_outcome.
Outcome(turn, code) ==
    LET told == [turn EXCEPT !.conn.sasl.write_complete = TRUE]
    IN  IF code = "ok" THEN [told EXCEPT !.conn.sasl.read_complete = TRUE] ELSE SaslFailed(told)

\* on_sasl_mechanisms; the mechanisms of rhea call back at once.
Mechanisms(turn) ==
    IF Chosen(turn.conn.known) = "none" THEN SaslFailed(turn)
    ELSE Output(Encode(turn, "sasl", "init"))

Challenge(turn) == Output(Encode(turn, "sasl", "response"))

\* on_sasl_init and on_sasl_response of the server: a promise is made.
Promise(turn) == [turn EXCEPT !.promises = @ + 1]

\* on_open; the local end is opened in a tick.
Opened(turn) == [turn EXCEPT !.conn.remote_open = TRUE]

Handled(turn, unit) ==
    CASE unit.name = "mechanisms" -> Mechanisms(turn)
      [] unit.name = "challenge" -> Challenge(turn)
      [] unit.name \in Outcomes -> Outcome(turn, unit.name)
      [] unit.name \in {"init", "response"} -> Promise(turn)
      [] unit.name = "open" -> Opened(turn)
      [] unit.name = "empty" -> turn

-----------------------------------------------------------------------------
(* Reading.                                                                *)

\* The transport that read comes to.
ReadsWith(c) == IF Uses(c) = "sasl" /\ c.sasl.read_complete THEN "amqp" ELSE Uses(c)

\* Of Selective: the layer is that of the header, once it is there.
Selected(turn, units, to) ==
    IF Uses(turn.conn) = "undefined" /\ to - turn.conn.held >= 8
    THEN [turn EXCEPT !.conn.selected = UnitAt(units, turn.conn.held).protocol]
    ELSE turn

\* The header: the wrong one is a protocol error.
HeaderRead(turn, protocol, units, to) ==
    IF turn.conn[protocol].header_received \/ to - turn.conn.held < 8 THEN turn
    ELSE IF UnitAt(units, turn.conn.held) = Header(protocol)
    THEN [turn EXCEPT !.conn[protocol].header_received = TRUE, !.conn.held = @ + 8]
    ELSE [turn EXCEPT !.thrown = TRUE]

Whole(units, from, to) == from < to - 4 /\ to >= from + SizeAt(units, from)

(***************************************************************************)
(* Transport.read: the header and then each frame that is whole, until the *)
(* handler of one makes reading complete.                                  *)
(***************************************************************************)
Read(turn, protocol, units, to) ==
    LET begun == HeaderRead(turn, protocol, units, to)
        after[k \in 0 .. Len(units)] ==
          IF k = 0 THEN begun
          ELSE LET t == after[k - 1]
                   from == t.conn.held
                   unit == UnitAt(units, from)
               IN  IF \/ t.thrown \/ ~ t.conn[protocol].header_received
                      \/ t.conn[protocol].read_complete \/ ~ Whole(units, from, to)
                   THEN t
                   ELSE IF unit.protocol # protocol THEN [t EXCEPT !.thrown = TRUE]
                   ELSE Handled([t EXCEPT !.conn.held = from + SizeAt(units, from)], unit)
    IN  after[Len(units)]

\* Mutation of PeekSize: before the header is read too.
PeekAlways(c, units, rest) == IF rest >= 4 THEN SizeAt(units, c.held) ELSE 0

PeekSize(c, units, rest) ==
    IF ReadsWith(c) # "undefined" /\ c[ReadsWith(c)].header_received /\ rest >= 4
    THEN SizeAt(units, c.held) ELSE 0

\* Mutation of Kept: of what could not be read, nothing is kept.
KeptNothing(turn, units, to) == [turn EXCEPT !.conn.held = to, !.conn.frame_size = 0]

\* What could not be read is kept, with the size of its frame if that is known.
Kept(turn, units, to) ==
    [turn EXCEPT !.conn.frame_size = PeekSize(turn.conn, units, to - turn.conn.held)]

(***************************************************************************)
(* _process, in the tick after input: an open is written in answer to the  *)
(* peer's.                                                                 *)
(***************************************************************************)
Process(turn) ==
    IF turn.conn.remote_open /\ ~ turn.conn.local_open
    THEN Output(Encode([turn EXCEPT !.conn.local_open = TRUE], "amqp", "open"))
    ELSE turn

\* input, when the bytes up to this offset are there, and the tick after it.
Input(turn, units, to) ==
    LET c == turn.conn
        selected == Selected([turn EXCEPT !.conn.frame_size = 0], units, to)
        read == IF ReadsWith(selected.conn) = "undefined" THEN selected
                ELSE Read(selected, ReadsWith(selected.conn), units, to)
        kept == Kept(read, units, to)
    IN  IF c.frame_size > 0 /\ to - c.held < c.frame_size THEN turn
        ELSE IF read.thrown THEN [read EXCEPT !.conn.ended = TRUE, !.conn.held = to]
        ELSE Process(IF HasWritesPending(kept.conn) THEN Output(kept) ELSE kept)

-----------------------------------------------------------------------------
(* The steps.                                                              *)

\* A turn of one peer: what it did to its connection, and what it wrote.
Began(p) == [conn |-> conn[p], out |-> <<>>, promises |-> 0, thrown |-> FALSE]

Did(p, turn) ==
    /\ conn' = [conn EXCEPT ![p] = turn.conn]
    /\ wire' = [wire EXCEPT ![p] = @ \o turn.out]
    /\ deciding' = deciding + turn.promises

New(kind, known, eager) ==
    [kind |-> kind, known |-> known, eager |-> eager, selected |-> "undefined",
     amqp |-> NewTransport, sasl |-> NewTransport, held |-> 0, frame_size |-> 0,
     local_open |-> FALSE, remote_open |-> FALSE, transport_error |-> FALSE, ended |-> FALSE]

\* connect and its callback: the open waits, and the first header is written.
NewClient(known) ==
    LET opening == [New(IF known = {} THEN "undefined" ELSE "Client", known, FALSE) EXCEPT
                      !.local_open = TRUE, !.amqp.pending = <<"open">>]
    IN  Output([conn |-> opening, out |-> <<>>, promises |-> 0, thrown |-> FALSE])

\* accept: a server that is not Selective has SASL, or has it disabled.
NewServer(kind, eager) ==
    [New(kind, {}, eager) EXCEPT
        !.sasl.pending = IF kind = "undefined" THEN <<>> ELSE <<"mechanisms">>]

Init ==
    /\ \E known \in Known, kind \in SaslKinds \ {"Client"}, eager \in BOOLEAN :
         /\ eager => kind # "undefined"
         /\ conn = [p \in Peers |-> IF p = "client" THEN NewClient(known).conn
                                    ELSE NewServer(kind, eager)]
         /\ wire = [p \in Peers |-> IF p = "client" THEN NewClient(known).out ELSE <<>>]
    /\ fed = [p \in Peers |-> 0]
    /\ deciding = 0
    /\ granted = FALSE
    /\ rounds = 0
    /\ beats = [p \in Peers |-> 0]

\* Bytes of the peer come, as many at once as the network gives.
Data(p) ==
    LET q == Other(p)
    IN  /\ ~ conn[p].ended
        /\ \E to \in fed[q] + 1 .. Bytes(wire[q]) :
             /\ Did(p, Input(Began(p), wire[q], to))
             /\ fed' = [fed EXCEPT ![q] = to]
        /\ UNCHANGED <<granted, rounds, beats>>

\* What do_step writes, and the layers it leaves.
Accepted(turn) ==
    LET told == Output(Encode(turn, "sasl", "ok"))
        done == [told EXCEPT !.conn.sasl.write_complete = TRUE, !.conn.sasl.read_complete = TRUE]
    IN  IF done.conn.eager
        THEN Output(Encode([done EXCEPT !.conn.local_open = TRUE], "amqp", "open"))
        ELSE done

Decides(turn) ==
    /\ deciding > 0
    /\ conn' = [conn EXCEPT !["server"] = turn.conn]
    /\ wire' = [wire EXCEPT !["server"] = @ \o turn.out]
    /\ deciding' = deciding - 1
    /\ UNCHANGED <<fed, beats>>

\* do_step, of a mechanism that accepts or refuses the client, or asks for more.
Accepts ==
    /\ Decides(Accepted(Began("server")))
    /\ granted' = TRUE
    /\ UNCHANGED rounds

Refuses ==
    /\ Decides(Output(Encode(Began("server"), "sasl", "auth")))
    /\ UNCHANGED <<granted, rounds>>

Asks ==
    /\ rounds < MaxRounds
    /\ Decides(Output(Encode(Began("server"), "sasl", "challenge")))
    /\ rounds' = rounds + 1
    /\ UNCHANGED granted

\* do_fail, of a callback that fails.
Fails ==
    /\ Decides(SaslFailed(Output(Encode(Began("server"), "sasl", "sys"))))
    /\ UNCHANGED <<granted, rounds>>

Beating(p) ==
    conn[p].local_open /\ conn[p].remote_open /\ ~ conn[p].ended /\ beats[p] < MaxBeats

\* The heartbeat of a connection that is open: an empty frame.
Beat(p) ==
    /\ Beating(p)
    /\ beats' = [beats EXCEPT ![p] = @ + 1]
    /\ Did(p, Output(Encode(Began(p), "amqp", "empty")))
    /\ UNCHANGED <<fed, granted, rounds>>

Decided == Accepts \/ Refuses \/ Asks \/ Fails

Next == Decided \/ \E p \in Peers : Data(p) \/ Beat(p)

Spec == Init /\ [][Next]_vars

(***************************************************************************)
(* What was written comes, and the mechanism decides in the end: weak      *)
(* fairness of Data and Decided, each told by the variable that no other   *)
(* step changes in that way, with the condition under which it is enabled  *)
(* written out.  Beat is not fair: a connection has heartbeats only if the *)
(* open of its peer asks for them (connection.js:514 and 585).             *)
(***************************************************************************)
FairSpec ==
    /\ Spec
    /\ []<>(deciding = 0) \/ []<><<deciding' < deciding>>_vars
    /\ \A p \in Peers :
         \/ []<>(conn[p].ended \/ fed[Other(p)] = Bytes(wire[Other(p)]))
         \/ []<><<fed'[Other(p)] # fed[Other(p)]>>_vars

-----------------------------------------------------------------------------
(* What the code should do.                                                *)

\* p goes on with the bytes of its peer.
Listens(p) == ~ conn[p].ended

\* Units of the peer that p has read to their end.
Taken(p) == {k \in 1 .. Len(wire[Other(p)]) : Offsets(wire[Other(p)])[k + 1] <= conn[p].held}

(***************************************************************************)
(* However the bytes are cut, and whichever layer reads: what input keeps  *)
(* begins with the first byte of a unit, nothing that has come is lost     *)
(* before it, and the size that input waits for is that of the frame       *)
(* (connection.js:549 to 579, transport.js:67 to 122, sasl.js:307).        *)
(***************************************************************************)
KeptFromAUnit ==
    \A p \in Peers : Listens(p) =>
        LET units == wire[Other(p)]
        IN  /\ conn[p].held = Bytes(units) \/ StartsAt(units, conn[p].held)
            /\ conn[p].held <= fed[Other(p)]
            /\ conn[p].frame_size > 0 => conn[p].frame_size = SizeAt(units, conn[p].held)
                                          /\ conn[p].frame_size > fed[Other(p)] - conn[p].held

(***************************************************************************)
(* A unit that is there to its last byte has been read, but for what came  *)
(* together with the outcome: that waits for further bytes, which a peer   *)
(* that is no rhea need not send soon (sasl.js:307, connection.js:577).    *)
(***************************************************************************)
NothingWaits ==
    \A p \in Peers : Listens(p) =>
        LET units == wire[Other(p)]
        IN  \/ ~ StartsAt(units, conn[p].held)
            \/ LET u == UnitAt(units, conn[p].held)
               IN  \/ fed[Other(p)] < conn[p].held + Size[u.name]
                   \/ u = Header("amqp") /\ conn[p].kind = "Client" /\ conn["server"].eager

(***************************************************************************)
(* A layer is left by both sides at the same place: AMQP is written by the *)
(* client, and read by the server, only once the mechanism has accepted,   *)
(* whatever was cut or came late; and the server's outcome is written      *)
(* before its AMQP (sasl.js:171 to 244 and 304 to 348).                    *)
(***************************************************************************)
AcceptedFirst ==
    LET first(p, unit) == \E k \in DOMAIN wire[p] :
                             wire[p][k].protocol = "amqp" /\ \A j \in 1 .. k - 1 : wire[p][j] # unit
    IN  /\ conn["client"].kind = "Client" =>
             \A k \in DOMAIN wire["client"] : wire["client"][k].protocol = "amqp" => granted
        /\ Uses(conn["server"]) = "sasl" =>
             /\ conn["server"].remote_open => granted
             /\ ~ first("server", [protocol |-> "sasl", name |-> "ok"])

BothOpen == \A p \in Peers : conn[p].local_open /\ conn[p].remote_open

\* The client has read the outcome, and of what came with it not even the header.
LeftUnread ==
    LET client == conn["client"]
    IN  /\ client.kind = "Client" /\ client.sasl.read_complete /\ conn["server"].eager
        /\ UnitAt(wire["server"], client.held) = Header("amqp")
        /\ fed["server"] >= client.held + 8

(***************************************************************************)
(* The negotiation ends with both connections open or with the end of the  *)
(* socket, for every pair of layers, every answer of the mechanism and     *)
(* every way to cut the bytes.  There is one way to wait for ever: the     *)
(* AMQP that a server of another make sends in one piece with its outcome  *)
(* is read when further bytes come (sasl.js:307), and none need come.      *)
(***************************************************************************)
NegotiationEnds ==
    <>(BothOpen \/ (\E p \in Peers : conn[p].ended) \/ []LeftUnread)

(***************************************************************************)
(* A client that was accepted opens its connection and the server its own, *)
(* though the outcome, the headers and the opens may come in one piece or  *)
(* byte by byte (sasl.js:304 to 348, connection.js:568 to 582); but for    *)
(* the same server of another make.                                        *)
(***************************************************************************)
AcceptedOpens == granted ~> (BothOpen \/ []LeftUnread)
=============================================================================
