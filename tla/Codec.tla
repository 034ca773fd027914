------------------------------- MODULE Codec -------------------------------
(***************************************************************************)
(* A value, a frame or a message goes through the codec: one side writes   *)
(* it with a new Writer, the other reads the bytes.                        *)
(***************************************************************************)
EXTENDS Messages

CONSTANTS
    Samples(_),     \* values of a field, by its type
    Values,         \* types whose samples are written one by one
    FieldValues(_), \* a few values of a field, by its type: a sequence of at least two
    MaxFields,      \* bound: fields of a frame that are set together
    Channels,       \* channels of the frames
    Payloads,       \* payloads of the frames
    Bodies,         \* bodies of the messages
    Maps            \* values of the sections that are maps

VARIABLES
    item,           \* what was written
    writer,         \* the Writer after it
    read            \* what was read

vars == <<item, writer, read>>

Nothing == <<"nothing">>

Init ==
    /\ item = Nothing
    /\ writer = NewWriter
    /\ read = Nothing

\* A field of this type, in a list of its own.
PutValue ==
    /\ item = Nothing
    /\ \E type \in Values : \E v \in Samples(type) :
         /\ item' = <<"value", <<type, v>>>>
         /\ writer' = Write(NewWriter, WrapField(type, v))
    /\ UNCHANGED read

\* Fields, of which some are set to their first or their second value.
SomeFields(name) ==
    {[i \in DOMAIN Fields[name] |->
         IF i \in chosen THEN FieldValues(Fields[name][i])[which] ELSE Undefined] :
       chosen \in {s \in SUBSET {i \in DOMAIN Fields[name] : Fields[name][i] # "delivery_state"} :
                     Cardinality(s) <= MaxFields},
       which \in 1 .. 2}

PutFrame ==
    /\ item = Nothing
    /\ \E frame \in UNION {{AmqpFrame(channel, name, fields, payload) :
                               channel \in Channels, fields \in SomeFields(name),
                               payload \in IF name = "transfer" THEN Payloads ELSE {<<>>}} :
                             name \in Performatives}
                    \cup UNION {{SaslFrame(name, fields) : fields \in SomeFields(name)} :
                                  name \in SaslFrames}
                    \cup {AmqpFrame(0, "none", <<>>, <<>>)} :
         /\ item' = <<"frame", frame>>
         /\ writer' = WriteFrame(frame)
    /\ UNCHANGED read

PutMessage ==
    /\ item = Nothing
    /\ \E set \in (SomeFields("header") \X {NoMessage.properties})
                    \cup ({NoMessage.header} \X SomeFields("properties")),
          annotations, application, footer \in Maps \cup {Undefined}, body \in Bodies :
         LET m == [NoMessage EXCEPT !.header = set[1], !.properties = set[2],
                                    !.delivery_annotations = annotations,
                                    !.message_annotations = footer,
                                    !.application_properties = application,
                                    !.footer = footer, !.body = body]
         IN  /\ item' = <<"message", m>>
             /\ writer' = Encode(m)
    /\ UNCHANGED read

\* A frame of another make may have an extended header of four bytes.
Extended(bytes) ==
    Digits(Len(bytes) + 4, 4) \o <<3>> \o SubSeq(bytes, 6, 8) \o <<1, 1, 1, 1>>
      \o SubSeq(bytes, 9, Len(bytes))

Get ==
    /\ item # Nothing
    /\ read = Nothing
    /\ read' = CASE item[1] = "value" -> <<"value", Unwrap(Read(writer.bytes, 1).typed)>>
                 [] item[1] = "frame" -> <<"frame", ReadFrame(writer.bytes),
                                           ReadFrame(Extended(writer.bytes))>>
                 [] item[1] = "message" -> <<"message", Decode(writer.bytes)>>
    /\ UNCHANGED <<item, writer>>

Next == PutValue \/ PutFrame \/ PutMessage \/ Get

Spec == Init /\ [][Next]_vars

-----------------------------------------------------------------------------
(* References.                                                             *)

RECURSIVE SkipAt(_, _), SizesTrue(_, _, _)

\* The end of the value that begins here, told by its size alone.
SkipAt(bytes, at) ==
    LET type == bytes[at]
        width == Width(type)
    IN  CASE type = "described" -> SkipAt(bytes, SkipAt(bytes, at + 1))
          [] type # "described" /\ Category(type) = "fixed" -> at + 1 + width
          [] OTHER -> at + 1 + width + UintAt(bytes, at + 1, width)

\* n values begin here, and each ends where its size says, with what it contains.
SizesTrue(bytes, at, n) ==
    \/ n = 0
    \/ /\ SkipAt(bytes, at) = Read(bytes, at).next
       /\ bytes[at] = "described" => SizesTrue(bytes, at + 1, 2)
       /\ bytes[at] \in {"List32", "Map32"} =>
             SizesTrue(bytes, at + 9, UintAt(bytes, at + 5, 4))
       /\ SizesTrue(bytes, SkipAt(bytes, at), n - 1)

\* The numbers of a value and of one that came back for it.
Meant(type, v) ==
    IF type \in {"ulong", "long", "message_id"} /\ v[1] = "binary" /\ Len(v[2]) = 8
    THEN Number(IF type = "long" THEN SignedOf(v[2]) ELSE NumberOf(v[2])) ELSE v

\* A field that is absent may come back as null.
FieldMeant(v) == IF v = Undefined THEN Null ELSE v
FieldsMeant(fields) == [i \in DOMAIN fields |-> FieldMeant(fields[i])]

\* Of a body without content there is a null, and one section is not multiple.
BodyMeant(body) ==
    IF body = NoBody THEN Body("value", <<Null>>, FALSE)
    ELSE IF body.content = <<>> THEN NoBody
    ELSE [body EXCEPT !.multiple = Len(body.content) > 1]

-----------------------------------------------------------------------------
(* What the code should do.                                                *)

(***************************************************************************)
(* A value comes back as it was, whatever width was chosen for it: the     *)
(* numbers next to 0, to what a byte and to what four bytes hold, in       *)
(* buffers and with their signs, the strings around the length of a byte,  *)
(* lists and maps in each other (types.js:163 to 283, 331 to 497).         *)
(***************************************************************************)
ValuesComeBack ==
    read[1] = "value" => Meant(item[2][1], read[2]) = Meant(item[2][1], item[2][2])

(***************************************************************************)
(* Every size that was filled in afterwards is that of what follows it,    *)
(* on every level, so that a reader that skips a value by its size is      *)
(* where the next begins (types.js:838 to 869).                            *)
(***************************************************************************)
SizesAreTrue ==
    /\ item[1] = "value" => SizesTrue(writer.bytes, 1, 1)
    /\ item[1] = "frame" => /\ UintAt(writer.bytes, 1, 4) = Len(writer.bytes)
                            /\ item[2].name # "none" => SizesTrue(writer.bytes, 9, 1)
    /\ item[1] = "message" => SizesTrue(writer.bytes, 1, Len(Sections(item[2])))

(***************************************************************************)
(* The buffer has grown before anything is written or copied to it, and    *)
(* no number is too big for its field: nothing is cut off or thrown        *)
(* (types.js:743 to 753, 759 to 799).                                      *)
(***************************************************************************)
NothingIsLost == ~ writer.lost /\ ~ writer.thrown

(***************************************************************************)
(* The reader of a frame has the type, the channel, the fields and the     *)
(* payload that the writer had, also past an extended header               *)
(* (frames.js:63 to 121).                                                  *)
(***************************************************************************)
FramesComeBack ==
    read[1] = "frame" =>
        LET meant(f) == [f EXCEPT !.fields = FieldsMeant(@)]
        IN  meant(read[2]) = meant(item[2]) /\ read[3] = read[2]

(***************************************************************************)
(* A message comes back section by section, though the sections of the     *)
(* body are written after the footer and a body may have several           *)
(* (message.js:26 to 156 and 205 to 236).                                  *)
(***************************************************************************)
MessagesComeBack ==
    read[1] = "message" =>
        LET meant(m) == [m EXCEPT !.header = FieldsMeant(@), !.properties = FieldsMeant(@)]
        IN  meant(read[2]) = meant([item[2] EXCEPT !.body = BodyMeant(@)])
=============================================================================
