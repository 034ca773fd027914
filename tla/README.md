# Verification of rhea

rhea is an AMQP 1.0 library for JavaScript. A program uses it as a client, a
server or both: it opens connections, begins sessions on them, attaches senders
and receivers, and gets everything that happens as events. This directory holds
TLA+ models of its protocol engine, the TLC configurations that check them and
the TLAPS proofs about them. Paths below are relative to the root of the
repository; `session.js:75` stands for line 75 of `lib/session.js`.

## Inventory

| part | state it keeps | operations | what makes it correct |
|---|---|---|---|
| ring of deliveries (`session.js` CircularBuffer) | capacity, size, head, tail, entries | push, pop_if, by_id, available | holds what was pushed, in order; a lookup finds the delivery of that id or nothing |
| session, outgoing half (Outgoing) | ring, next_delivery_id, next_pending_delivery, next_transfer_id, the peer's window, updated and pending dispositions | send, update, process, on_flow, on_disposition | never sends beyond window or credit, keeps order, forgets a delivery only when it is settled, tells the application what the peer said |
| session, incoming half (Incoming) | ring, next_delivery_id, next_transfer_id, max_transfer_id, updated | on_transfer, update, process, on_disposition | the ring never overflows, messages come whole and in order, the window is reopened |
| links (`link.js`) | credit, delivery_count, issue_flow, drain flags, settle modes, name and handles | send, flow, drain_credit, set_drained, on_flow, attach, detach, close, remove | both ends agree on credit; drain ends at the same count on both ends |
| batching of dispositions (write_dispositions) | none | one function | a frame covers only deliveries of that state and settled flag |
| endpoint state (`endpoint.js`) | local_open, remote_open, pending open and close requests, marker | open, close, remote_opened, remote_closed, need_open, need_close, disconnected, reconnect | one open and one close frame per open and close; closed means closed on both sides |
| connection (`connection.js`) | endpoint state, channel maps, socket, timers, registered, partial input | connect, accept, input, output, close, idle, abort_socket, _disconnected, reconnect | one socket at a time, one disconnected event per loss, a reconnect when the policy says so |
| reconnect policy (restrict, backoff) | delay, remaining attempts | one function each | delays double up to the limit, attempts stop at theirs |
| default session (session_per_connection) | the session | get_session | never hands out a session that is gone |
| transport (`transport.js`) and input | header flags, pending frames, chunks | write, read, peek_size, input | the frames read are those written, however the bytes are cut |
| SASL (`sasl.js`) | layer in use, mechanism, outcome | steps of the negotiation | bytes go to the layer they belong to; nothing of AMQP before the outcome |
| type codec (`types.js`), frames, message, terminus | tables | read and write | what is written is what is read |
| container, ws, eventTypes, errors, log, util, filter | little or none | | |

The parts interact by calls and events on one thread. A frame read by
`Connection.input` goes through `Transport.read` to `on_...` of the connection,
its session and its link, which change state, raise events whose listeners may
call back into the library, and mostly end in `Connection._register`. That
schedules one `_process` with `process.nextTick`; `_process` walks the sessions
and links and writes the frames that the changed state calls for. So a handler
is atomic, but between a change and the frames that announce it other handlers
and the application may run, and between two peers everything crosses.

What is hard here, and listed line by line under `hazards` in PROJECT.json:
flows, transfers and dispositions that cross on the wire; counters that both
ends keep separately; deliveries that leave the rings in an order different from
that of their settlement; exceptions in the middle of an update; work that is
done one or two ticks later; timers, socket events and reconnects in any order;
bytes that are cut anywhere.

## Modules

| module | what it is |
|---|---|
| `CircularBuffer` | the ring, as operators on a buffer value |
| `Dispositions` | write_dispositions, as an operator on the list of updated deliveries |
| `SessionTransfer` | two peers that transfer messages over one session: both halves, the links' credit and the stream of frames in each direction. Uses the two modules above |
| `TransferContract` | what a session promises the applications, without buffers, windows or frames |
| `MCSessionTransfer` | the credit windows of the runs |
| `LinkCredit`, `MCLinkCredit` | the senders of one peer and the receivers of the other that share a session: credit, drain, the sendable event |
| `EndpointState` | the state of one end and its methods, as operators on a record |
| `LinkLifecycle` | two peers that attach and detach links over one open session: the handles, the stream, and what handlers leave to later ticks. Uses `EndpointState` |
| `Connection` | a client's connection over the sockets it uses one after the other: open and close, loss, timers, reconnection and its limit, the default session and a link in it. Uses `EndpointState` |
| `SaslLayers`, `MCSaslLayers` | two peers on one socket: bytes cut anywhere, the transports, the SASL negotiation, the hand-over to AMQP |
| `Types` | the type codec: wrap, write, read, unwrap, and the tables of the composite types |
| `Messages` | frames and message sections, on top of `Types` |
| `Codec`, `MCCodec` | one value, frame or message written and read back, as a machine that TLC can enumerate. Uses the two modules above |
| `SessionTransfer_proof` | lemmas about the ring and about write_dispositions; the types of `SessionTransfer` are invariant; flow control is sound |
| `SessionOrder_proof` | frames and outcomes come in order, and the buffers lose nothing |
| `SessionContract_proof` | `SessionTransfer` implements `TransferContract` |
| `LinkCredit_proof` | the types of `LinkCredit` are invariant; no credit is overdrawn, both ends agree on it, drains leave none; only a lack of credit holds a message back |
| `Connection_proof` | the types of `Connection` are invariant; sockets, timers and attempts; the order of frames on every socket; a closed connection stays closed |
| `LinkLifecycle_proof` | the types of `LinkLifecycle` are invariant; handles, removal, refusals, and what is left at rest |
| `SaslLayers_proof` | the types of `SaslLayers` are invariant; each layer gets its own bytes, none wait; no AMQP before the mechanism has accepted |
| `Induction_proof` | least and greatest elements, and functions by recursion, for the proofs that need an induction |

### SessionTransfer and the code

The sending peer is `out` (Outgoing without its ring), `outbuf` (its ring),
`sent` (the delivery objects, by id), `snd` (its links) and `sproc`; the
receiving peer is `inc`, `inbuf`, `got`, `rcv` and `registered`. `s2r` and `r2s`
are the frames under way. A delivery object is known by its delivery-id, which
is what the rings hold.

| action | code |
|---|---|
| `Send` | Sender.send, Session.send, Outgoing.send |
| `Settle` | delivery.update(true), Outgoing.update |
| `SendPending` | one round of the while loop of Outgoing.process that sends |
| `FinishProcess` | the rest of Outgoing.process: events with auto_settle, dispositions, pop_if |
| `SenderOnFlow`, `SenderOnDisposition` | Session.on_flow and on_disposition with what they call |
| `ReceiverOnTransfer` | Incoming.on_transfer with FlowController and auto_accept, its exceptions included |
| `GiveOutcome` | delivery.accept, release, reject, modified: Incoming.update |
| `AddCredit` | Receiver.add_credit |
| `ReceiverOnDisposition` | Incoming.on_disposition with auto_settle |
| `ReceiverProcess` | Incoming.process, then the links' flows |

Each is the whole handler. `Outgoing.process` is two actions only because its
loop has a variable number of rounds: while `sproc.processing` holds nothing
else of the sender can run, so the rounds and the rest are one run of the code
(the receiver, another process, may read between them). A call that a callback
makes from inside `process` is modelled as a step just before or after it.

What is left out: transfers in the other direction (Session.on_flow also calls
Incoming.on_flow, which concerns only those), the opening of session and links,
draining and the sendable event (see `LinkCredit`), message contents and frame
encoding. A payload is the number of its frame. `transfer_id` and `number` in
the modelled transfer frames are counts the properties need; AMQP keeps them
implicitly, and no action reads them.

The applications do what they may at any time. What is unusual is switched on by
`Liberties`: `overrun` sends into a full buffer, `forget` settles before an
outcome is known, `repeat` gives an outcome twice.

### LinkLifecycle and the code

A peer keeps `links` (the names in session.links), `state` and `handle` (each
link's endpoint state and local handle), `remote_handles`, `ticks` (the queue of
process.nextTick), and `fault` once a handler has thrown. A link is known by its
name: a name gets a new link only after remove_link, so there is one object of a
name at a time, and an entry of remote.handles that outlived its link is
`Removed`.

| action | code |
|---|---|
| `OpenLink` | open_sender, open_receiver: create_link, attach |
| `CloseLink`, `ReopenLink` | link.close and detach; link.open |
| `ReadAttach`, `ReadDetach` | Session.on_attach and on_detach with those of the link, exceptions included |
| `ProcessTick` | Connection._process down to link._process |
| `CloseTick`, `RemoveTick` | the two functions that on_detach leaves to process.nextTick |

The frames of one chunk are read one after the other before any tick runs
(`reading`), and the next chunk only when the queue is empty. An application may
call between any two steps of its peer: from a listener, a timer or a tick of
its own. `on_detach` takes its token from `Date.now()`: two detaches read in the
same millisecond have the same token, later ones may have another.

The usual application closes a link while the peer has it open. `Liberties` adds
`early` (before the peer's attach), `late` (between the peer's detach and the
tick that answers it) and `reopen`. Left out: the difference between close and
detach, errors, the role of a link (both peers opening the same name in the same
role), flows, and session and connection, which stay open; a thrown error stops
the peer, where the code ends the socket.

### LinkCredit and the code

`snd` and `rcv` are the links of the two sides, `ring` the deliveries of
`session.outgoing` that all senders share, `unaccepted` the receiver's
`incoming.updated`, `s2r` and `r2s` the frames under way. The window of the
session is left out here, as credit was kept simple in `SessionTransfer`: each
module has one of the two limits in full.

| action | code |
|---|---|
| `Offer` | Sender.send, as an application calls it that looks at sendable(), or waits for the event |
| `SendAtOnce` | Sender.send, as an application calls it that looks at nothing |
| `SenderOnFlow` | Session.on_flow and Sender.on_flow with the listeners of sender_draining and sendable |
| `SenderOnDisposition` | Outgoing.on_disposition and the `_process` it registers |
| `SenderProcess` | Outgoing.process (transfers in order up to the first without credit, then pop_if), the sendable event, then Sender._process: the drain, and the flow |
| `ReceiverOnTransfer` | Incoming.on_transfer, FlowController.update, auto_accept |
| `ReceiverOnFlow` | Receiver.on_flow, receiver_drained |
| `AddCredit`, `DrainCredit` | Receiver.add_credit and drain_credit |
| `ReceiverProcess` | the dispositions of Incoming.process, then Receiver._process |

The sending application does what the README allows. It sends while sendable()
is true and goes on in the event, like examples/simple_send.js; as neither
sendable() nor send takes off credit, such a loop sends all it has, or fills the
ring, however little credit there is. Or it sends at once without asking, for
which no credit is needed, only room. When asked to drain it sends what it can
and calls set_drained(true). The one liberty, `topup`, is the receiver's: it adds
credit by hand while a drain is under way.

### Connection and the code

`c` is the Connection object with what hangs on it: the endpoint states of the
connection, its default session and one link, the frames that wait in the
transport, the socket in use, and a variable for each timer. `net` says what has
become of each socket. `closed`, `wanted` and `attempts` are histories that no
action of the library reads.

| action | code |
|---|---|
| `SocketConnected` | on_connect: socket_ready, conn_established_counter, output |
| `SocketEnd`, `SocketError` | the callbacks of the socket: eof, on_error and `_disconnected`, `_disconnect` of session and link, restrict, scheduled_reconnect |
| `Reconnect` | the timer: reconnect, `_reset_remote_state`, `_reconnect` of all three, `_connect` |
| `PeerOpen`, `PeerBegins`, `PeerAttaches` | input with on_open, on_begin, on_attach |
| `PeerEnds`, `PeerCloses` | on_end and on_close, with what they leave to a tick |
| `ChunkBegins`, `ChunkGoesOn`, `ProtocolError` | input of less than a frame; its catch branch |
| `SaslFails` | sasl_failed |
| `Idle`, `Abort` | idle; abort_socket and its `_disconnected` |
| `OpenLink`, `CloseSession`, `RemoveSession`, `CloseConnection` | open_sender or open_receiver with get_session, session.close, session.remove, close |

`process.nextTick` runs before the next callback of a socket or a timer, so an
action ends with the ticks it leaves (`Turn`): `_process` of what is mapped,
then `output`. The heartbeat that fires writes an empty frame and is set again,
and changes nothing else. Delays are not modelled: a timer that runs may fire.

`Liberties`: `loss` lets the socket be lost while the application waits for the
answer to its close or the peer end the session then, and lets it close at any
time; `down` opens a link between a loss and the next attempt; `stale` opens one
in a default session that was closed or removed; `late` lets a socket that was
replaced, or that never connected, still report an end or an error; `midframe`
loses a socket in the middle of a frame. What each of them shows is said under
"Observations".

### SaslLayers and the code

What a peer writes is a sequence of units (a protocol header, a SASL frame, an
AMQP frame), and a byte is an offset in that sequence. `conn` is a peer's
Connection with its AMQP transport and its SASL one, `wire` what it has written,
`fed` how many bytes of that have come to the other, `deciding` the promises of
the server's mechanism.

| definition | code |
|---|---|
| `Data` | the data callback with all that input does with it: frames read in a loop, the rest kept, errors caught |
| `Input`, `Process`, `Kept`, `PeekSize` | input: chunks, frame_size, previous_input, peek_size |
| `Read`, `HeaderRead`, `Whole` | Transport.read, read_complete, header_received |
| `Output`, `Written`, `WritesTo` | output, Transport.write, SaslTransport's has_writes_pending and write |
| `Handled`, `Mechanisms`, `Challenge`, `Outcome`, `Opened` | on_sasl_mechanisms and the others of sasl.js; on_open |
| `Selected`, `Uses` | Selective.read and the transport it picks |
| `Accepts`, `Refuses`, `Asks`, `Fails` | the mechanism's promise settles: outcome ok, auth, a challenge, sys |
| `Beat` | the heartbeat of a peer that has opened |

The client has no SASL layer, the mechanism the server offers, or another; the
server has none, a SASL one or one that selects by the header. A server of
another make (`eager`) is there too: it writes outcome, header and open in one
piece, which rhea does not.

### Types, Messages and the code

A JavaScript value is a pair of its kind and its content. `Wrap...` and `Unwrap`
are the conversions between such values and typed ones, `Write` and `Read` those
between typed values and bytes, with the growing buffer of Writer (`Ensure`),
the sizes written afterwards (`Backfill`) and 64-bit integers in two halves. A
byte is a digit of base `Base`: widths and comparisons are written with `Base`
where the code has 256, 0x7f, 2^31 and so on. `FrameFields`, `SaslFields`,
`TerminusFields`, `OutcomeFields`, `SectionFields` are the composite tables of
frames.js, terminus.js, message.js and errors.js, field by field, with their
codes. `WriteFrame`, `ReadFrame` are those of frames.js, `Encode`, `Decode`,
`Sections` those of message.js. A machine of two steps (`PutValue`, `PutFrame`
or `PutMessage`, then `Get`) lets TLC go through the inputs. Float, double,
decimal and char are not modelled, nor arrays of anything but symbols, nor
described arrays.

## Runs

| run | question | expected |
|---|---|---|
| `session_safety` | Do the counts of both ends agree, does on_transfer never throw, does nothing get lost from the buffers, and does the session implement `TransferContract`? | holds |
| `session_live` | Does every message arrive and get settled and freed? | holds |
| `large_message` | The same for messages of more frames than the window | violated |
| `batched_outcome` | Is the outcome reported the one that was given? | violated |
| `links` | Do attach and detach always find what they expect, do both sides end up with the same links, is a link removed only when both sides are done with it, and is what was closed gone for good? | holds |
| `links_free` | Does a detach find its own link, whatever the applications do and however handles are reused? | holds |
| `credit` | Is credit never negative and do both ends end with the same, is a drain answered and does it leave no credit and nothing under way, is a message held back by a lack of credit only, and is every sender that waits told, but where another link's message holds the full ring? | holds |
| `drain_window` | Does receiver_drained mean that nothing more comes, for a receiver with a credit window? | violated |
| `connection` | Is there one socket at a time, on each one an ordered sequence of frames, are silent peers noticed and kept from thinking us silent, are attempts limited, and does a link come back whenever and however often the socket is lost? | holds |
| `closed_again` | Does a connection stay closed if it is closed at any time? | violated |
| `sasl` | Does each layer get its own bytes, however they are cut, is nothing of AMQP read or written before the mechanism has accepted, and does the negotiation end, but for what a server of another make sends with its outcome? | holds |
| `codec` | Are values, frames and messages read back as what was written, with sizes that are true and no byte lost? | holds |

**Bounds.** `session_safety` has three links that differ in everything: link 0
prefetches one message and accepts by itself, link 1 has manual credit and
settles second, link 2 prefetches five and is sent settled. Buffers of two with
three messages of one or two frames make rings wrap and fill, the window close
in the middle of a message, credit run out, and flows cross transfers and
dispositions; the ids go once round the ring. `session_live` needs a window that
comes back without the help of a link: link 1 prefetches eight and asks for a
flow only every second message. Applications may stop at any time, so no run
checks deadlock; the liveness properties say what must not stop.

The runs of links have two names and five calls (four in `links_free`): two
links open, one closed and opened again, and a close of the other, by either
peer, so that handles are reused while frames and ticks of the old link are
pending, both peers open or close the same link at once, and a chunk holds
detach and attach.

`credit` has two links on a ring of two deliveries, each with two messages, so
that one sender fills the ring, with or without the credit for it, and keeps the
other waiting. Link 1 has credit by hand, up to two, and drains; link 2 prefetches
two. Drain, credit and messages then cross in every order.

`connection` has four sockets, one more than the limit of two reconnects allows
without an established connection in between, so that the limit is reached, and
counted anew after a success. Four calls are enough to open a link, close or
remove the session, open another and close the connection. The last socket is
not lost, or nothing could be said of what must happen in the end.

`sasl` has units of 8, 9 and 11 bytes, which let a chunk end before, inside and
after the four bytes of a frame's size, two rounds of challenges, and up to two
heartbeats of each peer that has opened, which push out what waits at the other.
Any number of bytes under way may be one chunk.

`codec` has bytes of base 4: a uint then has 256 values, all of which are tried;
64-bit numbers are tried next to every boundary. Strings have every length up to
a little more than one byte counts, and one that makes the buffer of
`FirstBuffer` bytes (4) double twice. A composite has any two of its fields set
(`MaxFields`), to the first or the second value of their type, and the others
left out. `SafeHigh` is 9, where the code has 2097153.

**Fairness.** `FairSpec` asks for weak fairness of the steps the runtime takes
by itself: a `_process` that was registered with `process.nextTick` runs, and a
frame on a live stream is read. It asks nothing of the applications: they need
not send, settle or accept. `session_live` therefore has receivers that accept
by themselves. In `LinkLifecycle` and `LinkCredit` it is the same: frames are
read and ticks run, and applications call what they like, up to their bound. In
`Connection` a timer that runs fires (`Reconnect`, `Abort`), a socket connects
or reports an error, the peer answers what it was sent (`Peer`), and the socket
that was ended is ended by the other side: the operating system and a live peer
do this. Nothing is asked of the idle timer, of losses or of the application. In
`SaslLayers` bytes that were written come and the mechanism's promise settles;
the conditions are written out instead of with `WF_`, which for actions of this
size is much faster to check. A heartbeat may come but need not: there are
heartbeats only if the peer's open asks for them (connection.js:514, 585).
`NegotiationEnds` does not ask the application for anything: opening is part of
connecting and accepting.

**The violations** are disagreements between the code and what its
documentation, comments or tests say. PROJECT.json quotes the lines.

* `large_message`: on_transfer registers no `_process` for a frame that more
  will follow (session.js:379-381), so the window is not reopened before the
  message is complete.
* `batched_outcome`: write_dispositions (session.js:102) does not compare the
  outcomes of the first two deliveries of a batch.
* `drain_window`: FlowController.update (link.js:27-32) goes on granting credit
  while a drain is under way, and Receiver.on_flow (link.js:354-361) takes the
  sender's answer over as if it had not.
* `closed_again`: close() does nothing while a reconnect is scheduled, because
  local_open is false then (endpoint.js:48-64), and the timer is not cleared.

## Observations

What follows came up while modelling and is reproduced with other constants. No
documentation is contradicted, or it takes an unusual application, so no run
states it.

Session and links:

* A receiver with rcv_settle_mode 1 settles by a flag only (session.js:303,
  link.js:34-36); the sender waits for a disposition that is never sent and
  keeps the slot. `SettlesSecond = {0}` with one link that does not accept by
  itself violates `EveryMessageSettled`.
* by_id (session.js:75) accepts ids older than the head's. An application that
  gives an outcome twice (`repeat`) settles another delivery: `KeepsContract` is
  violated. So is `PendingIsFound`, with `repeat` as with `forget`: a disposition
  for an id that was taken off the ring settles the newer delivery in its slot,
  and pop_if then takes that one off before it was sent (`OutCapacity` 2,
  `MaxDeliveries` 5, `MaxFrames` 2).
* send consumes a delivery-id before the buffer overflow is thrown
  (session.js:175, 191); the sender then never gets past that id (`overrun`:
  `PendingIsFound`), and the receiver sees a delivery left out (`InSequence`).
* A delivery that is settled before its outcome is known (`forget`) leaves its
  slot while the receiver has not settled: `FreedWhenSettled` is violated.
* on_attach opens the local end whatever the application did before
  (link.js:143). A link that is closed before the peer's attach stays open on
  both sides, or is attached and detached for ever, depending on the chunks
  (`early`: `ClosedForGood`). An application that opens and closes like that again
  and again in the end makes a handler throw (`MaxCalls = 7`: `NeverRefused`).
* close and open in one turn are written as attach, detach (link.js:120-131;
  `reopen`: `NeverRefused`).
* A call in the window of `late` resets the marker, the tick then does nothing,
  and the closed link stays in session.links with its handle (link.js:172-176).

Credit (`LinkCredit`):

* Nothing keeps an application from queuing more than it has credit for: send
  looks at no credit, and sendable() at one that only process takes off
  (link.js:310-312, session.js:268). The loop of process stops at a message
  without credit (session.js:277-279), and messages of other links wait behind it
  although they have credit, until that link is given more. If the ring is full by
  then, an application with credit that waits for `sendable` (README.md:615-618)
  is not told either: `SendableIsTold` is violated in run `credit` if its last
  disjunct, `Held`, is taken away. Link 1 sends a message before it has credit,
  link 2 puts one behind it and waits.
* In the same place a drain gives up credit for which there were messages: those
  that stand in the ring behind one of another link without credit. The receiver
  is told `receiver_drained`, and they stay where they are, though the sender is to
  send "all available messages within the credit limit" (eventTypes.js:70-73). So
  `DrainedMeansNone` speaks of credit and of messages under way, not of the ring.
* Credit added by hand during a drain (`topup`) is lost to one side and can make
  the sender's credit negative; the loop of `_get_drain` then never ends, for it
  counts down to zero (link.js:290-292). `NeverOverdrawn` is violated, with
  `PrefetchFour` even without `topup`.
* The receiver's drain flag is never reset, so each later flow asks for a drain
  again; a receiver with a window is left without credit by a drain, until the
  application adds some.

Connection (`Connection`, by liberty):

* `midframe`: what input keeps of an unfinished frame survives
  `_reset_remote_state` (connection.js:275-290, 551-577), the next socket's
  first bytes are appended to it, and the connection is ended with a protocol
  error, or waits: `LinkComesBack`.
* `down`: the begin and attach of a link that is opened between the loss and the
  next attempt go into the transport that reconnect throws away, and, as it was
  not open when the socket was lost, nothing writes them again: `LinkComesBack`.
* `stale`: session_per_connection forgets its session only on session_close from
  the peer (connection.js:90); a link opened in one that was closed or removed
  is never attached: `LinkComesBack`.
* `late`: the listeners of a replaced socket stay, and a late end or error
  counts as a loss of the new one: `OneSocket`, `FramesInOrder`,
  `SilenceIsNoticed`, `PeerHearsFromUs`, `AttemptsAreLimited`,
  `ClosedStaysClosed`, `LinkComesBack`.
* `loss`: besides `closed_again`, an end of the peer that crosses our close is
  answered by an end after it, where nothing may follow a close:
  `ClosedStaysClosed`, `FramesInOrder`.
* After two parts of a frame the idle timer is cleared and not set again
  (connection.js:549-560) before the frame is whole; `SilenceIsNoticed` says so.
* restrict counts past zero, so an attempt after the last refused one would be
  allowed again (connection.js:107); set_reconnect given a number uses
  options.reconnect and not its argument (connection.js:188-189);
  transport_error is never reset.

SASL (`SaslLayers`):

* What comes in one chunk with the outcome waits for further bytes
  (sasl.js:306-307, connection.js:574-577). The client of an eager server that
  writes outcome, header and open in one piece, and then waits, never learns that
  it was answered, unless a heartbeat comes. `NegotiationEnds` and `AcceptedOpens`
  name that state, `LeftUnread`, as the only one in which anybody may wait for
  ever; without it both are violated in run `sasl`. A server of rhea writes no
  AMQP before it has read the client's.
* On auth and sys the client's write is complete too, so that it still writes
  AMQP header and open to a socket that it has ended (sasl.js:310-318,
  connection.js:581). A server that refuses leaves it to the client to end the
  socket.
* PLAIN and XOAUTH2 allocate their responses by characters and not bytes
  (sasl.js:80, 136).

Codec (by reading, as the model has no characters and no JavaScript objects):

* The footer is written before the body (message.js:145-156).
* List0 gives every empty list the same array (types.js:130-132, 317).
* read_ulong and read_long take 64-bit values up to 2^53 + 2^32 for numbers that
  are precise (types.js:235, 273); write_long throws for -2^63
  (types.js:242-248).
* binary given a string counts characters (types.js:411); arrays of symbols are
  always Sym8 (types.js:896-910), so a longer one throws.
* A described value as body loses its descriptor (types.js:576-585);
  data_sections of one buffer comes back as one buffer, of none as no body
  (message.js:84-92, 128-139).
* delivery_state has no wrapper (frames.js:219), default values of fields are
  never applied, and mandatory ones are only looked at when they are given
  explicitly.

## Proofs

The proofs are for every value of the constants: any number of links, names,
sockets and calls, any capacity, credit window, limit and outcome. They assume
what the modules assume by name: capacities are positive, links are a finite set
of handles, credit windows are natural numbers, a session has two peers. Where a
theorem has a hypothesis it names the liberties, listed with each module above,
that break the property; "Observations" says how.

### SessionTransfer

`SessionTransfer_proof` proves `TypesHold` (`Spec => []TypeOK`). `TypeOK` is not
inductive: a handler uses what a frame says, so the invariant `Typed` also says
that the frames under way and the ids in the rings have the right form, and that
a buffered id belongs to a delivery that was sent, so that its link exists.

It goes on with `FlowControl` (`Spec => [](FlowAccounting /\ NeverOverflows)`)
and from it `RingNeverOverflows` and `CreditIsNeverOverdrawn`. The argument is
about two sums. `Room`, the receiver's next_transfer_id plus the free slots of
its ring, is what the receiver can ever be sent; `Granted(l)`, a link's
delivery_count plus its credit, is how many messages its receiver has allowed.
No step lowers either of them (`Growing`): a transfer that takes a slot also
advances the counter, and a message that takes credit advances the count. Every
flow writes the sums as they are then, so a flow that is read late, and the
sender who believes it, promise no more than the sums now. The sender stays
within what it believes, the frames under way lie between what the receiver and
the sender have counted, and at the receiver the frame at hand is below both
sums: there is a free slot for it and credit. The invariant is stated as
`Accounted`, the conjuncts of `FlowAccounting` grouped by what a step can disturb
(the sender's counts, the transfers under way, the flows under way), with one
lemma for each action.

`SessionOrder_proof` proves `FramesInSequence`, `PendingStaysFound` and
`SlotsAreFreedWhenSettled` for applications that take no liberties (`Usual`):
each of the three liberties breaks one of them. The invariant `Ordered` follows
a delivery-id on its way. At the sender the ring holds consecutive ids, and
`next_pending_delivery` divides them into those sent and those to be sent; on
the stream the frames continue, id after id and part after part, what the
receiver has, up to what the sender has written; at the receiver an id is in the
ring, was settled, or has still to come; and outcomes travel once, for ids that
the receiver has whole. So a disposition that comes in is for an id whose slot
still holds it, which is what by_id takes for granted.

`SessionContract_proof` proves `ContractIsKept`, the refinement `KeepsContract`:
each step of the session is a step of `TransferContract` or leaves its variables
alone, under the refinement mapping of `SessionTransfer`. It needs `Usual` and
that receivers give no outcome but `accepted` (`OnlyAccepted`), because
write_dispositions puts different outcomes into one frame (run
`batched_outcome`). `Truthful` adds to `Ordered` that what is pending, under way
or noted as outcome of a delivery is what its receiver gave; `OutcomesAreGiven`
is the invariant half of it.

### LinkCredit

`LinkCredit_proof` proves `LinksAreTyped` (`Spec => []Typed`) whatever the
applications do, and the four invariants that run `credit` checks.

`NeverOverdrawn` and `CreditAgrees` follow from `Agreement`, which says of every
link what its two ends and the frames under way in both directions have to do with
each other (`Agreed`). It goes by limits: the limit of an end is delivery_count plus
credit, the count at which its credit is used up. A drain moves count and credit
but not the limit, which is what makes limits easier to follow than credit.

* `Counted`: the sender's limit is never beyond the receiver's, and what their
  counts differ by is the messages under way, unless a drain was answered.
* `Answered`: then there is one flow on the stream that gives the rest up. It bears
  the sender's count, no message of the link follows it, the sender has no credit,
  and the receiver's limit is that count: the receiver will get there by this flow.
* `Announced`: the flows on their way to the sender ask for limits between the two,
  each no lower than the one before; the last of them asks for the receiver's own
  limit, unless the receiver has yet to write a flow. One with drain, or a sender
  that is draining, is at the receiver's limit.
* `Emptied`: a link whose listeners were told `receiver_drained` has no credit at
  either end, equal counts, and no answer under way.

This needs `NoTopUp`: a receiver leaves its credit alone while it waits for a drain,
and drains no link that has a credit window, which tops up by itself. Without it the
answer to a drain overwrites delivery_count of a receiver that has meanwhile granted
more, and the limits part for good; run `drain_window` shows it for the window.

`DrainedMeansNone` follows from `Agreement` too (`Emptied` and `Counted`).

`HeldOnlyByCredit` needs no hypothesis, and nothing but the types besides itself. The
loop of process goes through the ring until it comes to a message whose link has no
credit left. What remains of the ring begins, once its settled head is popped, with
what was sent, and the first that is still queued is the one at which the loop
stopped; the loop has charged the messages before it, so that its link is down to no
credit (`BlockedIs`). The listeners of `sendable` only put messages behind it
(`ToldIs`, `Extends`), and if they put any another `_process` is registered; a drain
that gives up credit leaves none. Every other handler that raises the credit of a
sender or changes the ring registers a `_process` itself.

### Connection

`Connection_proof` proves `TypesHold` without hypothesis, and `NeverTwoSockets`,
`IdleTimerRuns`, `HeartbeatRuns` and `LimitHolds` for every liberty but `late`: a
socket that was replaced and reports an error after that starts another one. The
invariant `Steady` relates the socket in use, what has become of it and the timers:
when a reconnect is scheduled the socket is gone and all of its timers are
cleared; a socket that is up and was not ended has its idle timer, or the timer
that destroys it, or is in the middle of a frame; and attempts made, scheduled
and left add up to the limit.

Its second half proves `FramesComeInOrder` and `ClosedIsClosed` under
`Orderly`: neither `late` nor `loss`, a loss while a close waits for its answer
(run `closed_again`). The invariant `Ordered` relates what has been written on the socket
in use (`Told`) to the three endpoint states: the requests that are open are
those of ends that the socket has not seen yet, outer before inner, and none is
left of ends that it has.

### LinkLifecycle

`LinkLifecycle_proof` proves `TypesHold` and `DetachFindsIt` whatever the
applications do, and `DetachIsNeverRefused`: the only error a handler can throw is
"Attach already received". `Typed` adds to `TypeOK` that a link has a handle, that
no two links have the same, and that a token of on_detach is set only where the
peer has closed.

The entries of remote.handles outlive their links, so that `DetachFindsItsLink`
says nothing inductive: a handle may lead to a link of the past, as long as an
attach comes before the next detach on it. `Following` says, of each direction by
itself, what the frames on the stream will do if none of them is refused: every
detach finds its link open then (`Opens`) and the handle leading to it (`Follows`);
what the writer has still to write keeps to that (`Balanced` counts open requests
against close requests, `Leads` says that the handle of a link either leads to it
at the end of the stream or has an attach to come). The argument has one lemma
for each action, and in it one for the direction which the step reads and one for
the direction which it writes. `_process` appends a whole batch, a link's requests
in order, which is where `FrameType` has to alternate as it does.

`RemovedOnlyWhenClosed` is about every step, for applications that do not open
again a link which they have just closed (`reopen`). `Tidied` says of the queue of
ticks that a `_process` is in it wherever a request is not written yet, and of a
link with a removal in the queue that it is closed, that no other removal or
token is for it, and that a `_process` comes before the removal if it still has
something to write.

`NothingIsRefused` and `RestLeavesNoHalf` relate both directions. The first holds
for applications that take the liberty `late` at most: TLC finds `NeverRefused`
violated with `early` and with `reopen`. Attach and detach take turns in a
direction, so that the odd ones are the attaches, and `Phased` gives every link
two numbers at each end: how many frames the end has asked for, and how many of
the peer's it has read. The parity of the first is `local_open`, of the second
`remote_open` (`Counted`); they differ by at most one, which is the handshake. What
an end has read, what is on the stream and what the writer has still to write add
up to what the writer has asked for (`Numbered`, `Due`). So an attach on the stream
finds an even count, and the end not open; and an end that opens for an attach has
nothing due any more, since its peer must have read all it wrote to be that far.
`RestLeavesNoHalf` is for applications with no liberty at all: with `late` the
closed link stays. It adds `Answered`, that a token waits for its tick and that a
link closed on both sides has a token or a removal to come. At rest there is neither,
nothing is due, and the four numbers are equal.

### SaslLayers

`SaslLayers_proof` proves the four invariants that run `sasl` checks,
`LayersAreTyped`, `KeptFromAUnitHolds`, `NothingWaitsHolds` and
`AcceptedFirstHolds`, for every size of units from 8 bytes, set of mechanisms,
number of challenges and of heartbeats, and without a hypothesis: every pair of
layers, every cut of the bytes and every answer of the mechanism is in the
specification. They follow from one invariant, `Holds`:

* `OwnClient` and `OwnServer`: what each end is, whatever the other does.
* `Writing`: what an end has written is one header for each layer, each before
  its frames, with no SASL behind AMQP and none behind an outcome.
* `Heard`: an end has read up to the edge of a unit, the headers that it got are
  those before that place, and the size that it waits for is that of the frame
  there. `Heeds` and `InParts`: what comes next is not there to its last byte, but
  for the AMQP header which an eager server writes with its outcome.
* `Turned`: of questions of the server, replies of the client and open promises
  there is at most one, and none once there is an outcome.
* `Agreed`: the server leaves SASL exactly when the mechanism accepts, the client
  after it, and the server's AMQP comes behind its ok.

None of them is inductive alone. That nothing is left unread across the change
of layers depends on what follows an outcome, which must be nothing but AMQP;
that depends on the mechanism deciding once, and so on a client that replies only
to what it was asked and finds no question behind an outcome. An eager server,
which no code here is, loosens just the one place that "Observations" describes.

What `Read` does is a function by recursion over its rounds; each round keeps one
of `AmqpReads`, `ServerReads` and `ClientReads` and takes a unit, so that there
are enough rounds for it to come to a stop. The actions are then lemmas about one
connection (`ClientStep`, `ServerStep` and their like), and lemmas that bring the
two ends together.

The proof corrected the model in one place: `TypeOK` wanted the mechanisms that
an end knows to be a member of `Known`, which the empty set of a server need not
be. With the `Known` of run `sasl` it was, so that TLC did not notice.

### How the proofs are laid out

`SessionTransfer_proof` begins with what the ring and write_dispositions do: which
slots push, pop_if and by_id touch, and which ids the frames of a batch cover.
`Induction_proof` takes the place of an induction principle: least elements of
sets of naturals, and functions by recursion. The other modules state the
invariant first, then one lemma for each action or part of an action, then the
theorems.

### Only model-checked

All liveness properties, which are out of the prover's reach: `AcceptedOpens`,
`NegotiationEnds` and those of the other runs hold under the fairness that is
given above, on the instances of the runs. `Types`, `Messages` and `Codec` are
written with RECURSIVE operators, since values contain values; what they compute
for every input would need an induction over data, so they stay with TLC.

## Not modelled

* The container, the WebSocket adapter, event names, errors, logging, helpers
  and filters: plumbing and tables without state of their own.
* What SASL mechanisms compute from credentials; initial responses for a
  mechanism that the server does not have (sasl.js:195-198); bytes that come
  after a peer has ended its socket.
* The delays of backoff: only whether there is an attempt matters to the
  properties.
* Several sessions on one connection, channel and handle limits, and the end
  frame of a session with more than one link.
* Session.on_flow in both directions at once: transfers go one way.

## What remains

Every safety property that a run checks is proved, but for those of the codec.
What is left is outside this kind of proof: liveness, and the values of the code
(`Types`), which would need an induction over data. The model itself could grow
by the second direction of transfers on one session, several sessions on one
connection, and the arrays and floating-point types of the codec.
