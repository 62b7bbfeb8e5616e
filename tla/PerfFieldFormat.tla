--------------------------- MODULE PerfFieldFormat ---------------------------
(***************************************************************************)
(* PerfFieldFormat: how a field of a tracepoint is decoded, worked out     *)
(* from its line in a tracefs "format" file.  A declaration is a sequence  *)
(* of tokens [k, v]: identifiers, punctuation, and brackets, whose v is    *)
(* the element count (0 for none).  The bytes of an event are numbers      *)
(* below 256.                                                              *)
(***************************************************************************)
EXTENDS Integers, Sequences, SequencesExt

BlobShift == 255        \* element_size_shift of a string or blob: u8::MAX

-----------------------------------------------------------------------------
(* PerfFieldFormat::new, the token loop.                                   *)
NothingFound ==
    [long |-> 0, flags |-> {}, base |-> "", name |-> "", count |-> 0, at |-> "scanning"]

Modifiers == {"short", "unsigned", "signed", "struct", "__data_loc", "__rel_loc"}
Ignored == {"__attribute__", "const", "volatile"}

(* An identifier may be the name; the one before it is the base type then. *)
Identifier(f, v) == [f EXCEPT !.base = f.name, !.name = v]

Scan(f, token) ==
    CASE f.at = "done" -> f
      [] f.at = "bracket" ->
            [(IF token.k = "ident" THEN Identifier(f, token.v) ELSE f) EXCEPT !.at = "done"]
      [] f.at = "scanning" /\ token.k = "ident" ->
            CASE token.v = "long" -> [f EXCEPT !.long = @ + 1]
              [] token.v \in Modifiers -> [f EXCEPT !.flags = @ \cup {token.v}]
              [] token.v \in Ignored -> f
              [] OTHER -> Identifier(f, token.v)
      [] f.at = "scanning" /\ token.k = "brackets" ->
            [f EXCEPT !.flags = @ \cup {"array"}, !.count = token.v, !.at = "bracket"]
      [] f.at = "scanning" /\ token.k = "punct" /\ token.v = "*" ->
            [f EXCEPT !.flags = @ \cup {"pointer"}]
      [] OTHER -> f

Found(tokens) == FoldLeft(Scan, NothingFound, tokens)

Long(long64) == IF long64 THEN "Value64" ELSE "Value32"

IntegerTypes ==
    [u8 |-> <<"UnsignedInt", "Value8">>, s8 |-> <<"SignedInt", "Value8">>,
     u16 |-> <<"UnsignedInt", "Value16">>, s16 |-> <<"SignedInt", "Value16">>,
     u32 |-> <<"UnsignedInt", "Value32">>, s32 |-> <<"SignedInt", "Value32">>,
     u64 |-> <<"UnsignedInt", "Value64">>, s64 |-> <<"SignedInt", "Value64">>]

(* specified_format and specified_encoding.                                *)
Specified(f, long64) ==
    LET Is(flag) == flag \in f.flags
        sign == IF Is("unsigned") THEN "UnsignedInt" ELSE "SignedInt"
        int == f.base \in {"", "int"}
    IN CASE Is("pointer") -> <<"HexInt", Long(long64)>>
         [] ~Is("pointer") /\ Is("struct") -> <<"HexBytes", "Struct">>
         [] OTHER ->
            CASE int /\ f.long >= 2 -> <<sign, "Value64">>
              [] int /\ f.long = 1 ->
                    <<IF Is("unsigned") THEN "HexInt" ELSE sign, Long(long64)>>
              [] int /\ f.long = 0 -> <<sign, IF Is("short") THEN "Value16" ELSE "Value32">>
              [] f.base = "char" ->
                    <<CASE Is("unsigned") -> "UnsignedInt"
                        [] Is("signed") /\ ~Is("unsigned") -> "SignedInt"
                        [] OTHER -> "String8", "Value8">>
              [] f.base \in DOMAIN IntegerTypes -> IntegerTypes[f.base]
              [] OTHER -> <<"HexInt", "Invalid">>

(* Fault: the location words are told by the declaration alone.            *)
ArrayOfAnySize(f, size) ==
    CASE "__rel_loc" \in f.flags -> "RelLoc4"
      [] "__data_loc" \in f.flags -> "DataLoc4"
      [] OTHER -> "None"

ArrayOf(f, size) ==
    CASE size = 0 -> "RestOfEvent"
      [] size = 2 /\ "__rel_loc" \in f.flags -> "RelLoc2"
      [] size = 2 /\ "__data_loc" \in f.flags /\ "__rel_loc" \notin f.flags -> "DataLoc2"
      [] size = 4 /\ "__rel_loc" \in f.flags -> "RelLoc4"
      [] size = 4 /\ "__data_loc" \in f.flags /\ "__rel_loc" \notin f.flags -> "DataLoc4"
      [] OTHER -> IF "array" \in f.flags THEN "Fixed" ELSE "None"

(* signed: overrides the type's own sign.                                  *)
DeducedFormat(specified, signed) ==
    IF specified \notin {"UnsignedInt", "SignedInt"} THEN specified
    ELSE CASE signed = "none" -> specified
           [] signed = "0" -> "UnsignedInt"
           [] signed = "1" -> "SignedInt"

Widths == [Value8 |-> 1, Value16 |-> 2, Value32 |-> 4, Value64 |-> 8]
Shifts == [Value8 |-> 0, Value16 |-> 1, Value32 |-> 2, Value64 |-> 3]
OfWidth(w) == CHOOSE e \in DOMAIN Widths : Widths[e] = w

Shape(encoding, array, format, count, shift) ==
    [encoding |-> encoding, flag |-> array, format |-> format, count |-> count, shift |-> shift]

(* set_hex_dump.                                                           *)
HexDump == Shape("StringLength16Char8", "none", "HexBytes", 1, BlobShift)

Numbers(encoding, array, format, count) == Shape(encoding, array, format, count, Shifts[encoding])

(* The deductions for a field that is neither text nor a struct: its size  *)
(* is believed before its type.                                            *)
DeduceNumbers(encoding, format, array, count, size) ==
    CASE array = "None" ->
            IF size \in {1, 2, 4, 8} THEN Numbers(OfWidth(size), "none", format, 1) ELSE HexDump
      [] array = "Fixed" /\ count = 0 ->
            IF encoding = "Invalid" THEN HexDump
            ELSE IF size % Widths[encoding] # 0 THEN HexDump
            ELSE Numbers(encoding, "carray", format, size \div Widths[encoding])
      [] array = "Fixed" /\ count # 0 ->
            IF size % count = 0 /\ size \div count \in {1, 2, 4, 8}
            THEN Numbers(OfWidth(size \div count), "carray", format, count) ELSE HexDump
      [] OTHER ->
            IF encoding = "Invalid" THEN HexDump ELSE Numbers(encoding, "varray", format, 0)

(* deduced_encoding, deduced_format, deduced_array_count and               *)
(* element_size_shift.                                                     *)
Deduced(specified, array, count, size, signed) ==
    CASE specified[1] = "String8" ->
            IF size = 1 THEN Shape("Value8", "none", "String8", 1, 0)
            ELSE Shape("ZStringChar8", "none", "String8", 1, BlobShift)
      [] specified[1] = "HexBytes" ->
            Shape(IF size = 1 THEN "Value8" ELSE "StringLength16Char8", "none", "HexBytes", 1, BlobShift)
      [] OTHER ->
            DeduceNumbers(specified[2], DeducedFormat(specified[1], signed), array, count, size)

NewField(long64, tokens, offset, size, signed) ==
    LET f == Found(tokens)
        array == ArrayOf(f, size)
    IN [field |-> tokens, name |-> IF f.name = "" THEN "noname" ELSE f.name,
        offset |-> offset, size |-> size, signed |-> signed, array |-> array,
        shape |-> Deduced(Specified(f, long64), array, f.count, size, signed)]

(* PerfFieldFormat::parse of a line [field, offset, size, signed], <<>>    *)
(* for a property that is missing or has no digits.                        *)
NoField == [name |-> "none"]
ParseField(long64, line) ==
    IF line.field = <<>> \/ line.offset = <<>> \/ line.size = <<>> THEN NoField
    ELSE NewField(long64, line.field, line.offset[1], line.size[1], line.signed)

-----------------------------------------------------------------------------
(* The bytes of a field in an event.                                       *)
NoBytes == [found |-> FALSE, bytes |-> <<>>]
Bytes(s) == [found |-> TRUE, bytes |-> s]

UntilFirstNul(s) ==
    LET nuls == {i \in DOMAIN s : s[i] = 0}
    IN IF nuls = {} THEN s
       ELSE SubSeq(s, 1, (CHOOSE i \in nuls : \A j \in nuls : i <= j) - 1)

Read16(data, p, big) ==
    IF big THEN data[p + 1] * 256 + data[p + 2] ELSE data[p + 2] * 256 + data[p + 1]

(* The two halves of a 4-byte location: <<offset, length>>.                *)
Read32(data, p, big) ==
    IF big THEN <<Read16(data, p + 2, big), Read16(data, p, big)>>
    ELSE <<Read16(data, p, big), Read16(data, p + 2, big)>>

From(data, p, n) == SubSeq(data, p + 1, p + n)

(* get_field_bytes.  A 4-byte location is never taken as relative: the     *)
(* test that makes it so asks for RelLoc2.                                 *)
GetFieldBytes(f, data, big) ==
    LET end == f.offset + f.size
    IN IF end > Len(data) THEN NoBytes
       ELSE CASE f.array \in {"None", "Fixed"} -> Bytes(From(data, f.offset, f.size))
              [] f.array = "RestOfEvent" -> Bytes(From(data, f.offset, Len(data) - f.offset))
              [] f.array \in {"DataLoc2", "RelLoc2"} ->
                    LET at == Read16(data, f.offset, big) + (IF f.array = "RelLoc2" THEN end ELSE 0)
                    IN IF at > Len(data) THEN NoBytes
                       ELSE Bytes(UntilFirstNul(From(data, at, Len(data) - at)))
              [] f.array \in {"DataLoc4", "RelLoc4"} ->
                    LET loc == Read32(data, f.offset, big)
                        at == loc[1] + (IF f.array = "RelLoc2" THEN end ELSE 0)
                    IN IF at + loc[2] > Len(data) THEN NoBytes ELSE Bytes(From(data, at, loc[2]))

(* element_size: 0 for a string or blob, whose shift is out of range.      *)
ElementSize(shape) == IF shape.shift = BlobShift THEN 0 ELSE 2 ^ shape.shift

(* Whole elements only.  With an element size of 0 the mask wraps around   *)
(* and nothing is left.                                                    *)
WholeElements(shape, s) ==
    IF ElementSize(shape) = 0 THEN <<>> ELSE From(s, 0, Len(s) - (Len(s) % ElementSize(shape)))

NullValue == [encoding |-> "Invalid", flag |-> "none", format |-> "Default", count |-> 0, bytes |-> <<>>]

(* get_field_value_with_data_and_reader.                                   *)
GetFieldValue(f, data, big) ==
    LET got == GetFieldBytes(f, data, big)
        shape == f.shape
        text == IF shape.encoding = "ZStringChar8" THEN UntilFirstNul(got.bytes) ELSE got.bytes
        whole == WholeElements(shape, text)
        Value(s, count) == [encoding |-> shape.encoding, flag |-> shape.flag,
                            format |-> shape.format, count |-> count, bytes |-> s]
    IN CASE ~got.found -> NullValue
         [] got.found /\ f.array \in {"None", "Fixed"} -> Value(text, shape.count)
         [] got.found /\ f.array \notin {"None", "Fixed"} ->
                Value(whole, IF shape.count # 0 THEN shape.count
                             ELSE Len(whole) \div ElementSize(shape))
=============================================================================
