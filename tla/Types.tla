------------------------------- MODULE Types -------------------------------
(***************************************************************************)
(* The AMQP type codec of src/lib/types.js: how JavaScript values become   *)
(* typed ones (wrap), how these are written to a growing buffer (Writer)   *)
(* and read from it (Reader), and what the application sees of them        *)
(* (unwrap); and the composite types built on it.                          *)
(*                                                                         *)
(* A byte is a digit to the base Base, 256 in the code: what depends on    *)
(* the widths is the same for every even base, and a small one lets every  *)
(* boundary be reached.  A typecode takes one place in the buffer, as a    *)
(* byte does, but is written by its name.                                  *)
(***************************************************************************)
EXTENDS Integers, Sequences, FiniteSets, TLC

CONSTANTS
    Base,           \* values of a byte
    FirstBuffer,    \* bytes of a new Writer's buffer, 1024 in the code
    SafeHigh        \* 2097153 in the code: the high word that is no number any more

ASSUME BaseIsEven == Base \in Nat /\ Base > 2 /\ Base % 2 = 0
ASSUME BufferHolds == FirstBuffer \in Nat \ {0}
ASSUME SafeIsWord == SafeHigh \in 1 .. (Base ^ 4) \div 2

-----------------------------------------------------------------------------
(* Types.  The first half of the typecode gives category and width.        *)

Subcategory ==
    [Null |-> 4, True |-> 4, False |-> 4, Uint0 |-> 4, Ulong0 |-> 4, List0 |-> 4,
     Boolean |-> 5, Ubyte |-> 5, SmallUint |-> 5, SmallUlong |-> 5,
     Byte |-> 5, SmallInt |-> 5, SmallLong |-> 5,
     Ushort |-> 6, Short |-> 6, Uint |-> 7, Int |-> 7,
     Ulong |-> 8, Long |-> 8, Timestamp |-> 8, Uuid |-> 9,
     Vbin8 |-> 10, Str8 |-> 10, Sym8 |-> 10, Vbin32 |-> 11, Str32 |-> 11, Sym32 |-> 11,
     List8 |-> 12, Map8 |-> 12, List32 |-> 13, Map32 |-> 13, Array8 |-> 14, Array32 |-> 15]

Width(type) ==
    CASE Subcategory[type] = 4 -> 0
      [] Subcategory[type] \in {5, 10, 12, 14} -> 1
      [] Subcategory[type] = 6 -> 2
      [] Subcategory[type] \in {7, 11, 13, 15} -> 4
      [] Subcategory[type] = 8 -> 8
      [] Subcategory[type] = 9 -> 16

Category(type) ==
    CASE Subcategory[type] \in 4 .. 9 -> "fixed"
      [] Subcategory[type] \in 10 .. 11 -> "variable"
      [] Subcategory[type] \in 12 .. 13 -> "compound"
      [] Subcategory[type] \in 14 .. 15 -> "array"

Signed == {"Byte", "SmallInt", "SmallLong", "Short", "Int", "Long", "Timestamp"}
Strings == {"Str8", "Str32", "Sym8", "Sym32"}
Binaries == {"Vbin8", "Vbin32", "Uuid"}

\* The value of a type of width 0.
EmptyValue(type) ==
    CASE type \in {"Uint0", "Ulong0"} -> 0 [] type = "True" -> TRUE [] type = "False" -> FALSE
      [] type = "List0" -> <<>> [] type = "Null" -> "null"

\* A Typed: descriptor is a sequence of none or one, of is the type of an array's items.
Typed(type, value) == [type |-> type, value |-> value, descriptor |-> <<>>, of |-> "none"]
Empty(type) == Typed(type, EmptyValue(type))
Described(code, t) == [t EXCEPT !.descriptor = <<code>>]

-----------------------------------------------------------------------------
(* Numbers in bytes, the first byte first.                                 *)

Digits(n, width) == [i \in 1 .. width |-> (n \div Base ^ (width - i)) % Base]

NumberOf(bytes) ==
    LET upto[i \in 0 .. Len(bytes)] == IF i = 0 THEN 0 ELSE upto[i - 1] * Base + bytes[i]
    IN  upto[Len(bytes)]

\* Mutation of Negated: the carry stays in the last byte.
NegatedBytes(bytes) ==
    [i \in DOMAIN bytes |-> (Base - 1 - bytes[i] + IF i = Len(bytes) THEN 1 ELSE 0) % Base]

\* The loop of write_long: complement each byte and carry, from the last to the first.
Negated(bytes) ==
    LET n == Len(bytes)
        sum[i \in 1 .. n + 1] ==    \* a byte with its carry; the one after the last carries 1
            IF i = n + 1 THEN Base
            ELSE Base - 1 - bytes[i] + IF sum[i + 1] >= Base THEN 1 ELSE 0
    IN  [i \in 1 .. n |-> sum[i] % Base]

SignedOf(bytes) ==
    LET n == NumberOf(bytes)
    IN  IF bytes[1] < Base \div 2 THEN n ELSE n - Base ^ Len(bytes)

\* What Buffer's write methods take; others throw.
Fits(n, width, signed) ==
    IF signed THEN n >= -((Base ^ width) \div 2) /\ n < (Base ^ width) \div 2
    ELSE n >= 0 /\ n < Base ^ width

-----------------------------------------------------------------------------
(* The Writer.  Bytes up to position are kept; what is written past the    *)
(* end of the buffer is lost, and a number that does not fit throws.       *)

NewWriter == [bytes |-> <<>>, capacity |-> FirstBuffer, lost |-> FALSE, thrown |-> FALSE]

\* Mutation of Ensure: twice the size is taken to be enough.
EnsureTwice(w, length) ==
    IF w.capacity < length THEN [w EXCEPT !.capacity = 2 * @] ELSE w

Ensure(w, length) ==
    IF w.capacity < length
    THEN [w EXCEPT !.capacity = IF 2 * @ > length THEN 2 * @ ELSE length]
    ELSE w

Put(w, bytes) ==
    LET big == Ensure(w, Len(w.bytes) + Len(bytes))
    IN  [big EXCEPT !.bytes = @ \o bytes,
                    !.lost = @ \/ Len(w.bytes) + Len(bytes) > big.capacity]

PutUint(w, n, width) ==
    LET put == Put(w, Digits(n, width))
    IN  IF Fits(n, width, FALSE) THEN put ELSE [put EXCEPT !.thrown = TRUE]

\* position += width, without ensure: the next write makes the room.
Skip(w, width) == [w EXCEPT !.bytes = @ \o [i \in 1 .. width |-> 0]]

\* Mutation of Backfill: the size field counts itself.
BackfillAll(w, width, saved) ==
    [w EXCEPT !.bytes = SubSeq(@, 1, saved) \o Digits(Len(@) - saved, width)
                          \o SubSeq(@, saved + width + 1, Len(@)),
              !.thrown = @ \/ ~ Fits(Len(w.bytes) - saved, width, FALSE)]

\* backfill_size: what was written after the field at saved.
Backfill(w, width, saved) ==
    [w EXCEPT !.bytes = SubSeq(@, 1, saved) \o Digits(Len(@) - saved - width, width)
                          \o SubSeq(@, saved + width + 1, Len(@)),
              !.thrown = @ \/ ~ Fits(Len(w.bytes) - saved - width, width, FALSE)]

(***************************************************************************)
(* write_fixed_width.  A Long is written from its absolute value; a        *)
(* buffer, of a Uuid or a long that is no number, is copied.               *)
(***************************************************************************)
FixedBytes(type, value) ==
    CASE type = "Boolean" -> <<IF value THEN 1 ELSE 0>>
      [] type \in {"Long", "Timestamp"} /\ value[1] = "number" ->
            IF value[2] < 0 THEN Negated(Digits(-value[2], 8)) ELSE Digits(value[2], 8)
      [] type = "Ulong" /\ value[1] = "number" -> Digits(value[2], 8)
      [] type \in {"Long", "Ulong", "Timestamp", "Uuid"} /\ value[1] = "binary" -> value[2]
      [] type \in {"Byte", "SmallInt", "SmallLong", "Short", "Int"} ->
            Digits(value + Base ^ Width(type), Width(type))
      [] OTHER -> Digits(value, Width(type))

FixedFits(type, value) ==
    CASE type \in {"Boolean", "Uuid"} -> TRUE
      [] type \in {"Long", "Timestamp", "Ulong"} ->
            value[1] = "number" =>
                \/ Fits(value[2], 8, type # "Ulong") /\ value[2] # -((Base ^ 8) \div 2)
      [] OTHER -> Fits(value, Width(type), type \in Signed)

RECURSIVE Write(_, _), WriteValue(_, _, _, _), WriteAll(_, _, _)

\* write: a descriptor is a value before the typecode.
Write(w, t) ==
    LET described == IF t.descriptor = <<>> THEN w
                     ELSE Write(Put(w, <<"described">>), t.descriptor[1])
    IN  WriteValue(Put(described, <<t.type>>), t.type, t.value, t.of)

\* Items one by one: each with its own constructor, or of an array of this type.
WriteAll(w, items, of) ==
    IF items = <<>> THEN w
    ELSE WriteAll(IF of = "none" THEN Write(w, Head(items)) ELSE WriteValue(w, of, Head(items), "none"),
                  Tail(items), of)

\* write_value, with write_variable_width, write_compound and write_array.
WriteValue(w, type, value, of) ==
    LET width == Width(type)
        counted == PutUint(Skip(w, width), Len(value), width)
        items == IF Category(type) = "array" THEN Put(counted, <<of>>) ELSE counted
    IN  CASE width = 0 -> w
          [] Category(type) = "fixed" /\ width > 0 ->
                LET put == Put(w, FixedBytes(type, value))
                IN  IF FixedFits(type, value) THEN put ELSE [put EXCEPT !.thrown = TRUE]
          [] Category(type) = "variable" -> Put(PutUint(w, Len(value), width), value)
          [] OTHER -> Backfill(WriteAll(items, value, of), width, Len(w.bytes))

-----------------------------------------------------------------------------
(* The Reader: what begins at a position, and where that ends.             *)

UintAt(bytes, at, width) == NumberOf(SubSeq(bytes, at, at + width - 1))

\* A long: a number, or its bytes where a number of JavaScript may not hold it.
LongOf(bytes, signed) ==
    LET high == IF signed THEN SignedOf(SubSeq(bytes, 1, 4)) ELSE NumberOf(SubSeq(bytes, 1, 4))
    IN  IF high < SafeHigh /\ high > -SafeHigh
        THEN <<"number", IF signed THEN SignedOf(bytes) ELSE NumberOf(bytes)>>
        ELSE <<"binary", bytes>>

\* read_timestamp: a Date, given by its number, or an invalid one.
DateOf(long) == IF long[1] = "number" THEN long ELSE <<"invalid date", "null">>

\* read_fixed_width.
FixedOf(type, bytes) ==
    CASE type = "Boolean" -> bytes[1] # 0
      [] type = "Uuid" -> <<"binary", bytes>>
      [] type = "Ulong" -> LongOf(bytes, FALSE)
      [] type = "Long" -> LongOf(bytes, TRUE)
      [] type = "Timestamp" -> DateOf(LongOf(bytes, TRUE))
      [] type \in {"Byte", "SmallInt", "SmallLong", "Short", "Int"} -> SignedOf(bytes)
      [] OTHER -> NumberOf(bytes)

RECURSIVE Read(_, _), ReadValue(_, _, _), ReadAll(_, _, _, _)

\* read: descriptors come first, and the outermost is kept.
Read(bytes, at) ==
    IF bytes[at] = "described"
    THEN LET descriptor == Read(bytes, at + 1)
             value == Read(bytes, descriptor.next)
         IN  [value EXCEPT !.typed.descriptor = <<descriptor.typed>>]
    ELSE ReadValue(bytes, at + 1, bytes[at])

\* Items one by one, read like those of WriteAll were written.
ReadAll(bytes, at, n, of) ==
    IF n = 0 THEN [items |-> <<>>, next |-> at]
    ELSE LET first == IF of = "none" THEN Read(bytes, at) ELSE ReadValue(bytes, at, of)
             rest == ReadAll(bytes, first.next, n - 1, of)
         IN  [items |-> <<IF of = "none" THEN first.typed ELSE first.typed.value>> \o rest.items,
              next |-> rest.next]

\* read_value, with read_variable_width, read_compound and read_array.
ReadValue(bytes, at, type) ==
    LET width == Width(type)
        number == UintAt(bytes, at, width)      \* length or size
        count == UintAt(bytes, at + width, width)
        body == at + 2 * width
        of == IF Category(type) = "array" THEN bytes[body] ELSE "none"
        items == ReadAll(bytes, IF of = "none" THEN body ELSE body + 1, count, of)
    IN  CASE width = 0 -> [typed |-> Empty(type), next |-> at]
          [] Category(type) = "fixed" /\ width > 0 ->
                [typed |-> Typed(type, FixedOf(type, SubSeq(bytes, at, at + width - 1))),
                 next |-> at + width]
          [] Category(type) = "variable" ->
                [typed |-> Typed(type, SubSeq(bytes, at + width, at + width + number - 1)),
                 next |-> at + width + number]
          [] OTHER -> [typed |-> [Typed(type, items.items) EXCEPT !.of = of], next |-> items.next]

-----------------------------------------------------------------------------
(* Values of JavaScript: pairs of a kind and a value.  A string is given   *)
(* by its bytes, a map by its keys and values in turn, a composite by its  *)
(* name and its fields.                                                    *)

Null == <<"null", "null">>
Undefined == <<"undefined", "null">>
Number(n) == <<"number", n>>
String(bytes) == <<"string", bytes>>
Binary(bytes) == <<"binary", bytes>>
Bool(b) == <<"boolean", b>>
List(items) == <<"list", items>>
Map(items) == <<"map", items>>

\* A value of at most one byte.
Small(n) == n < Base

AllZero(bytes) == \A i \in DOMAIN bytes : bytes[i] = 0
AllOnes(bytes) == \A i \in DOMAIN bytes : bytes[i] = Base - 1

WrapUint(n) == IF n = 0 THEN Empty("Uint0") ELSE IF Small(n) THEN Typed("SmallUint", n)
               ELSE Typed("Uint", n)

WrapInt(n) == IF n >= Base \div 2 \/ n < -(Base \div 2) THEN Typed("Int", n) ELSE Typed("SmallInt", n)

\* wrap_ulong, of a number or a buffer of eight bytes.
WrapUlong(v) ==
    LET small == IF v[1] = "number" THEN Small(v[2]) ELSE AllZero(SubSeq(v[2], 1, 7))
        n == IF v[1] = "number" THEN v[2] ELSE v[2][8]
    IN  IF ~ small THEN Typed("Ulong", v)
        ELSE IF n = 0 THEN Empty("Ulong0") ELSE Typed("SmallUlong", n)

\* wrap_long, likewise; of a buffer the first seven bytes must be the sign of the last.
WrapLong(v) ==
    IF v[1] = "number"
    THEN IF v[2] >= Base \div 2 \/ v[2] < -(Base \div 2) THEN Typed("Long", v)
         ELSE Typed("SmallLong", v[2])
    ELSE LET negative == v[2][1] >= Base \div 2
             extended == IF negative THEN AllOnes(SubSeq(v[2], 1, 7)) ELSE AllZero(SubSeq(v[2], 1, 7))
         IN  IF extended /\ (v[2][8] >= Base \div 2) = negative
             THEN Typed("SmallLong", IF negative THEN -((Base - 1 - v[2][8]) + 1) ELSE v[2][8])
             ELSE Typed("Long", v)

\* wrap_binary, wrap_string and wrap_symbol: the narrow type or the wide one.
WrapBytes(bytes, narrow, wide) == Typed(IF Small(Len(bytes)) THEN narrow ELSE wide, bytes)
WrapSymbol(v) == WrapBytes(v[2], "Sym8", "Sym32")

\* types.wrap of a number: MIN_INT is one more than the least Int.
WrapNumber(n) ==
    IF n > 0 THEN IF n < Base ^ 4 THEN WrapUint(n) ELSE WrapUlong(Number(n))
    ELSE IF n > -((Base ^ 4) \div 2 - 1) THEN WrapInt(n) ELSE WrapLong(Number(n))

RECURSIVE Wrap(_), WrapMap(_, _)

\* types.wrap.
Wrap(v) ==
    CASE v[1] \in {"null", "undefined"} -> Empty("Null")
      [] v[1] = "boolean" -> Empty(IF v[2] THEN "True" ELSE "False")
      [] v[1] = "number" -> WrapNumber(v[2])
      [] v[1] = "string" -> WrapBytes(v[2], "Str8", "Str32")
      [] v[1] = "binary" -> WrapBytes(v[2], "Vbin8", "Vbin32")
      [] v[1] = "list" -> IF v[2] = <<>> THEN Empty("List0")
                          ELSE Typed("List32", [i \in DOMAIN v[2] |-> Wrap(v[2][i])])
      [] v[1] = "map" -> WrapMap(v, FALSE)
      [] v[1] = "typed" -> v[2]

\* wrap_map, and wrap_symbolic_map whose keys are symbols.
WrapMap(v, symbolic) ==
    Typed("Map32", [i \in DOMAIN v[2] |-> IF symbolic /\ i % 2 = 1 THEN WrapSymbol(v[2][i])
                                          ELSE Wrap(v[2][i])])

-----------------------------------------------------------------------------
(* Composite types: a described list of fields.                            *)

Uints(n) == [i \in 1 .. n |-> "uint"]

\* The types of the fields of the frames; "symbols" where there may be multiple ones.
FrameFields ==
    [open |-> <<"string", "string", "uint", "ushort", "uint", "symbols", "symbols", "symbols",
                "symbols", "symbolic_map">>,
     begin |-> <<"ushort", "uint", "uint", "uint", "uint", "symbols", "symbols", "symbolic_map">>,
     attach |-> <<"string", "uint", "boolean", "ubyte", "ubyte", "*", "*", "map", "boolean", "uint",
                  "ulong", "symbols", "symbols", "symbolic_map">>,
     flow |-> Uints(8) \o <<"boolean", "boolean", "symbolic_map">>,
     transfer |-> <<"uint", "uint", "binary", "uint", "boolean", "boolean", "ubyte", "delivery_state",
                    "boolean", "boolean", "boolean">>,
     disposition |-> <<"boolean", "uint", "uint", "boolean", "*", "boolean">>,
     detach |-> <<"uint", "boolean", "error">>, end |-> <<"error">>, close |-> <<"error">>]

FrameCode ==
    [open |-> 16, begin |-> 17, attach |-> 18, flow |-> 19, transfer |-> 20, disposition |-> 21,
     detach |-> 22, end |-> 23, close |-> 24]

SaslFields ==
    [sasl_mechanisms |-> <<"symbols">>, sasl_init |-> <<"symbol", "binary", "string">>,
     sasl_challenge |-> <<"binary">>, sasl_response |-> <<"binary">>,
     sasl_outcome |-> <<"ubyte", "binary">>]

SaslCode ==
    [sasl_mechanisms |-> 64, sasl_init |-> 65, sasl_challenge |-> 66, sasl_response |-> 67,
     sasl_outcome |-> 68]

\* The terminus of a link.
TerminusFields ==
    LET both == <<"string", "uint", "symbol", "uint", "boolean", "symbolic_map">>
    IN  [source |-> both \o <<"symbol", "symbolic_map", "*", "symbols", "symbols">>,
         target |-> both \o <<"symbols">>]

\* The outcomes of a delivery.
OutcomeFields ==
    [received |-> <<"uint", "ulong">>, accepted |-> <<>>, rejected |-> <<"error">>,
     released |-> <<>>, modified |-> <<"boolean", "boolean", "symbolic_map">>]

OutcomeCode == [received |-> 35, accepted |-> 36, rejected |-> 37, released |-> 38, modified |-> 39]

\* The sections of a message that are composites.
SectionFields ==
    [header |-> <<"boolean", "ubyte", "uint", "boolean", "uint">>,
     properties |-> <<"message_id", "binary", "string", "string", "string", "message_id", "symbol",
                      "symbol", "timestamp", "timestamp", "string", "uint", "string">>]

ErrorFields == [error |-> <<"symbol", "string", "map">>]

Fields ==
    FrameFields @@ SaslFields @@ TerminusFields @@ OutcomeFields @@ SectionFields @@ ErrorFields

Code ==
    FrameCode @@ SaslCode @@ OutcomeCode
      @@ [error |-> 29, source |-> 40, target |-> 41, header |-> 112, properties |-> 115]

Descriptor(code) == WrapUlong(Number(code))

\* The number of a descriptor, in whichever form.
CodeOf(t) == IF t.type = "Ulong" THEN t.value[2] ELSE t.value

\* Mutation of IsSet: what is false in JavaScript is taken to be absent.
IsTruthy(v) == v \notin {Undefined, Null, Bool(FALSE), Number(0)}

\* A field that create was given.
IsSet(v) == v # Undefined

RECURSIVE WrapField(_, _), CompositeOf(_, _)

(***************************************************************************)
(* wrap_field, of a value that is there; an absent one is a Null.  A list  *)
(* of symbols is an array whose items are all Sym8.                        *)
(***************************************************************************)
WrapField(type, v) ==
    CASE v[1] \in {"null", "undefined"} -> Empty("Null")
      [] type = "symbols" /\ v[1] = "list" ->
            [Typed("Array32", [i \in DOMAIN v[2] |-> v[2][i][2]]) EXCEPT !.of = "Sym8"]
      [] type \in {"symbols", "symbol"} /\ v[1] = "string" -> WrapSymbol(v)
      [] type = "*" -> v[2]
      [] type = "boolean" -> Wrap(v)
      [] type = "ubyte" -> Typed("Ubyte", v[2])
      [] type = "byte" -> Typed("Byte", v[2])
      [] type = "ushort" -> Typed("Ushort", v[2])
      [] type = "short" -> Typed("Short", v[2])
      [] type = "uint" -> WrapUint(v[2])
      [] type = "int" -> WrapInt(v[2])
      [] type = "ulong" -> WrapUlong(v)
      [] type = "long" -> WrapLong(v)
      [] type = "timestamp" -> Typed("Timestamp", v)
      [] type = "message_id" -> IF v[1] = "number" THEN WrapUlong(v)
                                ELSE IF v[1] = "binary" THEN Typed("Uuid", v) ELSE Wrap(v)
      [] type \in {"string", "binary", "list", "map"} /\ v[1] # "null" -> Wrap(v)
      [] type = "symbolic_map" -> WrapMap(v, TRUE)
      [] type = "error" -> CompositeOf("error", v[2][2])

\* create and described of a composite: fields after the last that was set are not written.
CompositeOf(name, fields) ==
    LET set == {i \in DOMAIN fields : IsSet(fields[i])}
        last == IF set = {} THEN 0 ELSE CHOOSE i \in set : \A j \in set : j <= i
        field(i) == IF i \in set THEN WrapField(Fields[name][i], fields[i]) ELSE Empty("Null")
    IN  Described(Descriptor(Code[name]),
                  IF last = 0 THEN Empty("List0") ELSE Typed("List32", [i \in 1 .. last |-> field(i)]))

RECURSIVE Unwrap(_), FieldsOf(_, _)

(***************************************************************************)
(* types.unwrap, of a value in a list or a map: one with a descriptor is   *)
(* left as it is, but for an error.                                        *)
(***************************************************************************)
Unwrap(t) ==
    CASE t.descriptor # <<>> ->
            IF CodeOf(t.descriptor[1]) = Code["error"]
            THEN <<"composite", <<"error", FieldsOf("error", t)>>>>
            ELSE <<"typed", t>>
      [] t.descriptor = <<>> /\ t.type = "Null" -> Null
      [] t.descriptor = <<>> /\ t.type \in {"True", "False", "Boolean"} -> Bool(t.value)
      [] t.descriptor = <<>> /\ t.type \in {"Ulong", "Long", "Timestamp", "Uuid"} -> t.value
      [] t.descriptor = <<>> /\ t.type \in Strings -> String(t.value)
      [] t.descriptor = <<>> /\ t.type \in Binaries \ {"Uuid"} -> Binary(t.value)
      [] t.descriptor = <<>> /\ t.type \in {"Map8", "Map32"} ->
            Map([i \in DOMAIN t.value |-> Unwrap(t.value[i])])
      [] t.descriptor = <<>> /\ t.type \in {"List0", "List8", "List32"} ->
            List([i \in DOMAIN t.value |-> Unwrap(t.value[i])])
      [] t.descriptor = <<>> /\ Category(t.type) = "array" ->
            List([i \in DOMAIN t.value |-> Unwrap(Typed(t.of, t.value[i]))])
      [] OTHER -> Number(t.value)

\* The getters of a composite: a field of type * is left as it is.
FieldsOf(name, t) ==
    [i \in DOMAIN Fields[name] |->
        IF i > Len(t.value) THEN Undefined
        ELSE IF Fields[name][i] = "*" /\ t.value[i].type # "Null" THEN <<"typed", t.value[i]>>
        ELSE Unwrap(t.value[i])]
=============================================================================
