------------------------------ MODULE Messages ------------------------------
(***************************************************************************)
(* Frames and messages in bytes: write_frame and read_frame of             *)
(* src/lib/frames.js, encode and decode of src/lib/message.js.             *)
(***************************************************************************)
EXTENDS Types

Performatives == DOMAIN FrameFields
SaslFrames == DOMAIN SaslFields

\* by_descriptor of frames.js.
NameOf(code) == CHOOSE name \in Performatives \cup SaslFrames : Code[name] = code

\* A frame; fields is a sequence, of which the value of an absent one is Undefined.
AmqpFrame(channel, name, fields, payload) ==
    [type |-> 0, channel |-> channel, name |-> name, fields |-> fields, payload |-> payload]
SaslFrame(name, fields) ==
    [type |-> 1, channel |-> 0, name |-> name, fields |-> fields, payload |-> <<>>]

(***************************************************************************)
(* write_frame: size, offset of the data in words of four bytes, type and  *)
(* channel come before the performative.  A frame with no name is empty:   *)
(* the heartbeat.                                                          *)
(***************************************************************************)
WriteFrame(frame) ==
    LET typed == PutUint(PutUint(Skip(Ensure(NewWriter, 4), 4), 2, 1), frame.type, 1)
        begun == PutUint(typed, frame.channel, 2)
        body == Put(Write(begun, CompositeOf(frame.name, frame.fields)), frame.payload)
        done == IF frame.name = "none" THEN begun ELSE body
    IN  [done EXCEPT !.bytes = Digits(Len(@), 4) \o SubSeq(@, 5, Len(@))]

\* Where the performative begins: past an extended header.
DataOffset(doff) == 1 + doff * 4

(***************************************************************************)
(* read_frame, of the bytes of one frame; "short" if they are too few.     *)
(***************************************************************************)
ReadFrame(bytes) ==
    LET at == DataOffset(bytes[5])
        performative == Read(bytes, at)
        name == NameOf(CodeOf(performative.typed.descriptor[1]))
        channel == IF bytes[6] = 0 THEN UintAt(bytes, 7, 2) ELSE 0
    IN  CASE Len(bytes) < UintAt(bytes, 1, 4) -> "short"
          [] bytes[5] < 2 \/ bytes[6] \notin {0, 1} -> "protocol error"
          [] at > Len(bytes) ->
                [type |-> bytes[6], channel |-> channel, name |-> "none", fields |-> <<>>,
                 payload |-> <<>>]
          [] OTHER ->
                [type |-> bytes[6], channel |-> channel, name |-> name,
                 fields |-> FieldsOf(name, performative.typed),
                 payload |-> SubSeq(bytes, performative.next, Len(bytes))]

-----------------------------------------------------------------------------
(* Messages.  The fields of header and properties are properties of one    *)
(* object in the code, with different names.  A body is a value or the     *)
(* content of one section of data or of a sequence, or of multiple ones.   *)

MapSections ==
    [delivery_annotations |-> 113, message_annotations |-> 114, application_properties |-> 116,
     footer |-> 120]
BodySections == [data |-> 117, sequence |-> 118, value |-> 119]

Body(kind, content, multiple) == [kind |-> kind, content |-> content, multiple |-> multiple]
NoBody == Body("none", <<>>, FALSE)

NoMessage ==
    [header |-> [i \in DOMAIN Fields.header |-> Undefined],
     properties |-> [i \in DOMAIN Fields.properties |-> Undefined],
     delivery_annotations |-> Undefined, message_annotations |-> Undefined,
     application_properties |-> Undefined, footer |-> Undefined, body |-> NoBody]

MapSection(name, m) ==
    IF m[name] = Undefined THEN <<>>
    ELSE <<Described(Descriptor(MapSections[name]),
                     WrapMap(m[name], name \in {"delivery_annotations", "message_annotations"}))>>

\* collect_sections, and wrap_body where there is no Section: that is a value, if only null.
BodyOf(m) ==
    IF m.body.kind = "none" THEN <<Described(Descriptor(BodySections["value"]), Empty("Null"))>>
    ELSE [i \in DOMAIN m.body.content |->
            Described(Descriptor(BodySections[m.body.kind]), Wrap(m.body.content[i]))]

\* The sections in the order of the wrappers: the footer comes before the body.
Sections(m) ==
    <<CompositeOf("header", m.header)>>
      \o MapSection("delivery_annotations", m) \o MapSection("message_annotations", m)
      \o <<CompositeOf("properties", m.properties)>>
      \o MapSection("application_properties", m) \o MapSection("footer", m) \o BodyOf(m)

Encode(m) == WriteAll(NewWriter, Sections(m), "none")

\* Mutation of BodyWith: of several sections the last is kept.
BodyWithLast(body, kind, v) == Body(kind, <<v>>, FALSE)

\* unwrap_body_section: a further section of the same kind makes it multiple.
BodyWith(body, kind, v) ==
    IF kind = "value" \/ body = NoBody THEN Body(kind, <<v>>, FALSE)
    ELSE IF body.kind = kind THEN Body(kind, Append(body.content, v), TRUE) ELSE body

\* What decode makes of one more section.
Unwrapped(m, section) ==
    LET code == CodeOf(section.descriptor[1])
        plain == Unwrap([section EXCEPT !.descriptor = <<>>])
        named(table) == CHOOSE name \in DOMAIN table : table[name] = code
    IN  IF code = Code["header"] THEN [m EXCEPT !.header = FieldsOf("header", section)]
        ELSE IF code = Code["properties"] THEN [m EXCEPT !.properties = FieldsOf("properties", section)]
        ELSE IF \E name \in DOMAIN MapSections : MapSections[name] = code
        THEN [m EXCEPT ![named(MapSections)] = plain]
        ELSE [m EXCEPT !.body = BodyWith(@, named(BodySections), plain)]

RECURSIVE DecodeFrom(_, _, _)

\* decode: sections as long as there are bytes.
DecodeFrom(m, bytes, at) ==
    IF at > Len(bytes) THEN m
    ELSE LET section == Read(bytes, at)
         IN  DecodeFrom(Unwrapped(m, section.typed), bytes, section.next)

Decode(bytes) == DecodeFrom(NoMessage, bytes, 1)
=============================================================================
