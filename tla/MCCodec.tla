------------------------------ MODULE MCCodec ------------------------------
(* Values of the constants of Codec for TLC, with bytes of Base values. *)
EXTENDS Codec

Bytes(n) == [i \in 1 .. n |-> i % Base]
Word == Base ^ 4
Long == Base ^ 8

\* Numbers at every boundary, of 64 bits only those next to the others.
Near(set) == {Number(n + d) : n \in set, d \in {-1, 0, 1}}
Unsigned == {v \in Near({0, Base \div 2, Base, Word \div 2, Word, SafeHigh * Word, Long \div 2}) :
               v[2] >= 0 /\ v[2] < Long}
SignedLongs == Near({0, Base \div 2, Word \div 2, Word, SafeHigh * Word})
                 \cup Near({-(Base \div 2), -(Word \div 2), -Word, -SafeHigh * Word})
                 \cup {Number(Long \div 2 - 1), Number(1 - Long \div 2)}

AsBuffer(v) == Binary(Digits(IF v[2] < 0 THEN v[2] + Long ELSE v[2], 8))

Lengths == 0 .. Base + 1 \cup {2 * FirstBuffer + 3}

Plain == {Null, Bool(TRUE), Bool(FALSE), String(Bytes(Base)), Binary(Bytes(1)), Number(0),
          Number(Base), Number(Word), Number(-1), Number(1 - Word \div 2), Number(-Word)}
Keys == {String(Bytes(1)), String(Bytes(Base))}

Lists == {List(<<>>)} \cup {List(<<v>>) : v \in Plain} \cup {List(<<v, w>>) : v, w \in Plain}
SomeMaps == {Map(<<>>)} \cup {Map(<<k, v>>) : k \in Keys, v \in Plain}
              \cup {Map(<<String(Bytes(1)), v, String(Bytes(2)), w>>) : v, w \in Plain}

SampleValues(type) ==
    CASE type = "uint" -> {Number(n) : n \in 0 .. Word - 1}
      [] type = "int" -> {Number(n) : n \in -(Word \div 2) .. Word \div 2 - 1}
      [] type = "ulong" -> Unsigned \cup {AsBuffer(v) : v \in Unsigned}
      [] type = "long" -> SignedLongs \cup {AsBuffer(v) : v \in SignedLongs}
      [] type = "timestamp" -> {v \in SignedLongs : v[2] > -(SafeHigh - 1) * Word /\ v[2] < SafeHigh * Word}
      [] type = "message_id" -> {Binary(Bytes(16)), Number(Base), String(Bytes(3))}
      [] type = "ubyte" -> {Number(n) : n \in 0 .. Base - 1}
      [] type = "byte" -> {Number(n) : n \in -(Base \div 2) .. Base \div 2 - 1}
      [] type = "ushort" -> {Number(n) : n \in 0 .. Base * Base - 1}
      [] type = "short" -> {Number(n) : n \in -((Base * Base) \div 2) .. ((Base * Base) \div 2) - 1}
      [] type \in {"string", "symbol"} -> {String(Bytes(n)) : n \in Lengths}
      [] type = "binary" -> {Binary(Bytes(n)) : n \in Lengths}
      [] type = "symbols" -> {List([i \in 1 .. n |-> String(Bytes(i % Base))]) : n \in 0 .. Base + 1}
      [] type = "list" -> Lists \cup {List(<<v, w>>) : v, w \in {List(<<>>), List(<<Null>>)}}
                            \cup {List(<<v>>) : v \in Lists \cup SomeMaps}
      [] type = "map" -> SomeMaps \cup {Map(<<String(Bytes(1)), v>>) : v \in Lists \cup SomeMaps}

SampleTypes ==
    {"uint", "int", "ulong", "long", "timestamp", "message_id", "ubyte", "byte", "ushort", "short",
     "string", "symbol", "binary", "symbols", "list", "map"}

\* What stands in a field whose type is left open: a described list, as a source is.
ASource == <<"typed", CompositeOf("source", [i \in DOMAIN Fields.source |->
                IF i = 1 THEN String(Bytes(2)) ELSE IF i = 10 THEN List(<<String(Bytes(1))>>)
                ELSE Undefined])>>

AnError == <<"composite", <<"error", <<String(Bytes(1)), Null, Map(<<>>)>>>>>>

\* As one that stands in a disposition.
AnOutcome == <<"typed", CompositeOf("rejected", <<AnError>>)>>

TwoValues(type) ==
    CASE type \in {"uint", "ushort", "ubyte", "ulong", "timestamp"} -> <<Number(0), Number(Base - 1)>>
      [] type = "boolean" -> <<Bool(FALSE), Bool(TRUE)>>
      [] type \in {"string", "symbol", "message_id"} -> <<String(<<>>), String(Bytes(Base))>>
      [] type = "binary" -> <<Binary(<<>>), Binary(Bytes(Base))>>
      [] type = "symbols" -> <<String(Bytes(1)), List(<<String(Bytes(1)), String(Bytes(2))>>)>>
      [] type \in {"map", "symbolic_map"} -> <<Map(<<>>), Map(<<String(Bytes(1)), List(<<Null>>)>>)>>
      [] type = "error" -> <<AnError, AnError>>
      [] type = "*" -> <<ASource, AnOutcome>>

TwoChannels == {0, Base + 1}
TwoPayloads == {<<>>, Bytes(5)}
SomeBodies ==
    {NoBody, Body("value", <<Null>>, FALSE), Body("value", <<List(<<Number(Base)>>)>>, FALSE),
     Body("data", <<>>, TRUE), Body("data", <<Binary(Bytes(5))>>, FALSE),
     Body("data", <<Binary(<<>>), Binary(Bytes(1)), Binary(<<>>)>>, TRUE),
     Body("sequence", <<List(<<>>)>>, FALSE), Body("sequence", <<List(<<>>), List(<<Null>>)>>, TRUE)}
OneMap == {Map(<<String(Bytes(1)), Number(Base)>>)}
=============================================================================
