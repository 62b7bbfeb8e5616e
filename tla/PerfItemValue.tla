--------------------------- MODULE PerfItemValue ---------------------------
(***************************************************************************)
(* PerfItemValue: an item of an event, [encoding, format, big, bytes], and *)
(* its conversion to text (write_to) and to JSON (write_json_to).          *)
(*                                                                         *)
(* An integer of up to 64 bits, either sign, is 9 digits of base 256,      *)
(* lowest first, the last one 0 or 255 for the sign: two integers are      *)
(* equal if and only if their digits are.  What is written is a record     *)
(* [k, n, s]: a kind of token, the integer it shows and the bytes or       *)
(* characters it shows; JSON puts some of them in quotes.                  *)
(***************************************************************************)
EXTENDS TextConversion, FiniteSets

CONSTANT ErrnoCount     \* length of ERRNO_STRINGS

ASSUME ErrnoAssumption == ErrnoCount \in 2 .. 256

(* PerfByteReader: the bytes of a value, lowest first.                     *)
LowFirst(bytes, big) == IF big THEN Reverse(bytes) ELSE bytes

Extended(b, fill) == b \o [i \in 1 .. 9 - Len(b) |-> fill]
Unsigned(b) == Extended(b, 0)
Signed(b) == Extended(b, IF b[Len(b)] >= 128 THEN 255 ELSE 0)

Small(n) == Unsigned(<<n>>)
AsI32(n) == Signed(SubSeq(n, 1, 4))

Token(k, n, s) == [k |-> k, n |-> n, s |-> s]
Null == Token("null", <<>>, <<>>)
Decimal(n) == Token("int", n, <<>>)
Hex(n) == Token("hex", n, <<>>)
Shown(k, s) == Token(k, <<>>, s)

Plain(t) == [quoted |-> FALSE, body |-> t]
Quoted(t) == [quoted |-> TRUE, body |-> t]

-----------------------------------------------------------------------------
(* ValueWriter: one operator for text, one for JSON.                       *)
JsonHex(n, options) == IF "IntHexAsString" \in options THEN Quoted(Hex(n)) ELSE Plain(Decimal(n))

(* write_bool: 0 and 1 are words; anything else is signed.                 *)
Bool(n, options) ==
    CASE n = Small(0) -> Token("false", n, <<>>)
      [] n = Small(1) -> Token("true", n, <<>>)
      [] OTHER -> Token(IF "BoolOutOfRangeAsString" \in options THEN "BOOL" ELSE "int",
                        AsI32(n), <<>>)
JsonBool(n, options) == [quoted |-> Bool(n, options).k = "BOOL", body |-> Bool(n, options)]

KnownErrno(n) == n[1] < ErrnoCount /\ \A i \in 2 .. 9 : n[i] = 0

Errno(n, options) ==
    CASE KnownErrno(n) -> Token("errno", n, <<>>)
      [] ~KnownErrno(n) /\ "ErrnoUnknownAsString" \in options -> Token("ERRNO", AsI32(n), <<>>)
      [] OTHER -> Decimal(AsI32(n))
JsonErrno(n, options) ==
    CASE KnownErrno(n) /\ "ErrnoKnownAsString" \in options -> Quoted(Token("errno", n, <<>>))
      [] ~KnownErrno(n) /\ "ErrnoUnknownAsString" \in options ->
            Quoted(Token("ERRNO", AsI32(n), <<>>))
      [] OTHER -> Plain(Decimal(AsI32(n)))

(* gmtime_r fails when the year does not fit.                              *)
ValidTime(n) == n[8] = n[9]

Time(n, options) ==
    CASE ValidTime(n) -> Token("time", n, <<>>)
      [] ~ValidTime(n) /\ "UnixTimeOutOfRangeAsString" \in options -> Token("TIME", n, <<>>)
      [] OTHER -> Decimal(n)
JsonTime(n, options) ==
    CASE ValidTime(n) /\ "UnixTimeWithinRangeAsString" \in options -> Quoted(Token("time", n, <<>>))
      [] ~ValidTime(n) /\ "UnixTimeOutOfRangeAsString" \in options -> Quoted(Token("TIME", n, <<>>))
      [] OTHER -> Plain(Decimal(n))

(* is_finite, of the bytes of an f32 or f64, lowest first.                 *)
Finite(b) ==
    ~(b[Len(b)] % 128 = 127 /\ b[Len(b) - 1] >= (IF Len(b) = 4 THEN 128 ELSE 240))

JsonFloat(b, options) ==
    CASE Finite(b) -> Plain(Shown("float", b))
      [] ~Finite(b) /\ "FloatNonFiniteAsString" \in options -> Quoted(Shown("float", b))
      [] OTHER -> Plain(Null)

-----------------------------------------------------------------------------
(* write_value8_to .. write_value128_to: the bytes as they are in the      *)
(* event, and lowest first.                                                *)
Value8(format, bytes, options) ==
    CASE format = "SignedInt" -> Decimal(Signed(bytes))
      [] format = "HexInt" -> Hex(Unsigned(bytes))
      [] format = "Boolean" -> Bool(Unsigned(bytes), options)
      [] format = "HexBytes" -> Shown("hexbytes", bytes)
      [] format = "String8" -> Shown("text", WriteText("Latin1", ControlFilter(options), bytes))
      [] OTHER -> Decimal(Unsigned(bytes))

JsonValue8(format, bytes, options) ==
    CASE format = "HexInt" -> JsonHex(Unsigned(bytes), options)
      [] format = "Boolean" -> JsonBool(Unsigned(bytes), options)
      [] format = "HexBytes" -> Quoted(Shown("hexbytes", bytes))
      [] format = "String8" -> Quoted(Shown("text", WriteText("Latin1", "json", bytes)))
      [] OTHER -> Plain(Value8(format, bytes, options))

Port(bytes) == Decimal(Unsigned(Reverse(bytes)))

Value16(format, bytes, b, options) ==
    CASE format = "SignedInt" -> Decimal(Signed(b))
      [] format = "HexInt" -> Hex(Unsigned(b))
      [] format = "Boolean" -> Bool(Unsigned(b), options)
      [] format = "HexBytes" -> Shown("hexbytes", bytes)
      [] format = "StringUtf" -> Shown("text", WriteChar32(b \o <<0, 0>>, options))
      [] format = "Port" -> Port(bytes)
      [] OTHER -> Decimal(Unsigned(b))

JsonValue16(format, bytes, b, options) ==
    CASE format = "HexInt" -> JsonHex(Unsigned(b), options)
      [] format = "Boolean" -> JsonBool(Unsigned(b), options)
      [] format = "HexBytes" -> Quoted(Shown("hexbytes", bytes))
      [] format = "StringUtf" -> Quoted(Shown("text", WriteJsonChar32(b \o <<0, 0>>)))
      [] OTHER -> Plain(Value16(format, bytes, b, options))

Value32(format, bytes, b, options) ==
    CASE format \in {"SignedInt", "Pid"} -> Decimal(Signed(b))
      [] format = "HexInt" -> Hex(Unsigned(b))
      [] format = "Errno" -> Errno(Unsigned(b), options)
      [] format = "Time" -> Time(Signed(b), options)
      [] format = "Boolean" -> Bool(Unsigned(b), options)
      [] format = "Float" -> Shown("float", b)
      [] format = "HexBytes" -> Shown("hexbytes", bytes)
      [] format = "StringUtf" -> Shown("text", WriteChar32(b, options))
      [] format = "IPAddress" -> Shown("ipv4", bytes)
      [] OTHER -> Decimal(Unsigned(b))

(* HexInt is always in quotes here, whatever IntHexAsString says.          *)
JsonValue32(format, bytes, b, options) ==
    CASE format \in {"SignedInt", "Pid"} -> Plain(Decimal(Signed(b)))
      [] format = "HexInt" -> Quoted(Hex(Unsigned(b)))
      [] format = "Errno" -> JsonErrno(Unsigned(b), options)
      [] format = "Time" -> JsonTime(Signed(b), options)
      [] format = "Boolean" -> JsonBool(Unsigned(b), options)
      [] format = "Float" -> JsonFloat(b, options)
      [] format = "HexBytes" -> Quoted(Shown("hexbytes", bytes))
      [] format = "StringUtf" -> Quoted(Shown("text", WriteJsonChar32(b)))
      [] format = "IPAddress" -> Quoted(Shown("ipv4", bytes))
      [] OTHER -> Plain(Decimal(Unsigned(b)))

Value64(format, bytes, b, options) ==
    CASE format \in {"SignedInt", "Pid"} -> Decimal(Signed(b))
      [] format = "HexInt" -> Hex(Unsigned(b))
      [] format = "Time" -> Time(Signed(b), options)
      [] format = "Float" -> Shown("float", b)
      [] format = "HexBytes" -> Shown("hexbytes", bytes)
      [] OTHER -> Decimal(Unsigned(b))

JsonValue64(format, bytes, b, options) ==
    CASE format = "HexInt" -> JsonHex(Unsigned(b), options)
      [] format = "Time" -> JsonTime(Signed(b), options)
      [] format = "Float" -> JsonFloat(b, options)
      [] format = "HexBytes" -> Quoted(Shown("hexbytes", bytes))
      [] OTHER -> Plain(Value64(format, bytes, b, options))

Value128(format, bytes) ==
    CASE format = "Uuid" -> Shown("uuid", bytes)
      [] format = "IPAddressObsolete" -> Shown("ipv6", bytes)
      [] OTHER -> Shown("hexbytes", bytes)

FixedSizes == [Value8 |-> 1, Value16 |-> 2, Value32 |-> 4, Value64 |-> 8, Value128 |-> 16]

(* One value of a fixed-size encoding (write_simple_element_to).           *)
Element(encoding, format, big, bytes, options) ==
    LET b == LowFirst(bytes, big)
    IN CASE encoding = "Value8" -> Value8(format, bytes, options)
         [] encoding = "Value16" -> Value16(format, bytes, b, options)
         [] encoding = "Value32" -> Value32(format, bytes, b, options)
         [] encoding = "Value64" -> Value64(format, bytes, b, options)
         [] encoding = "Value128" -> Value128(format, bytes)

JsonElement(encoding, format, big, bytes, options) ==
    LET b == LowFirst(bytes, big)
    IN CASE encoding = "Value8" -> JsonValue8(format, bytes, options)
         [] encoding = "Value16" -> JsonValue16(format, bytes, b, options)
         [] encoding = "Value32" -> JsonValue32(format, bytes, b, options)
         [] encoding = "Value64" -> JsonValue64(format, bytes, b, options)
         [] encoding = "Value128" -> Quoted(Value128(format, bytes))

-----------------------------------------------------------------------------
BomFormats == {"StringUtfBom", "StringXml", "StringJson"}

UtfOf(unit, big) ==
    CASE unit = 1 -> "Utf8"
      [] unit = 2 -> IF big THEN "Utf16BE" ELSE "Utf16LE"
      [] unit = 4 -> IF big THEN "Utf32BE" ELSE "Utf32LE"

(* Fault: a byte order mark is skipped but does not choose the encoding.   *)
StringBytesBomIgnored(format, default, bytes) ==
    CASE format = "String8" -> <<"Latin1", bytes>>
      [] format \in BomFormats -> <<default, SubSeq(bytes, FromBom(bytes)[2] + 1, Len(bytes))>>
      [] OTHER -> <<default, bytes>>

(* The encoding of a string and its bytes without the byte order mark      *)
(* (write_scalar_string_to and its JSON twin).                             *)
StringBytes(format, default, bytes) ==
    CASE format = "String8" -> <<"Latin1", bytes>>
      [] format \in BomFormats /\ FromBom(bytes)[1] # "none" ->
            <<FromBom(bytes)[1], SubSeq(bytes, FromBom(bytes)[2] + 1, Len(bytes))>>
      [] OTHER -> <<default, bytes>>

StringToken(format, default, filter, bytes) ==
    LET s == StringBytes(format, default, bytes)
    IN IF format = "HexBytes" THEN Shown("hexbytes", bytes)
       ELSE Shown("text", WriteText(s[1], filter, s[2]))

(* The lengths a length-prefixed value may have to be shown as a value of  *)
(* its format (the inner matches of write_scalar_to).                      *)
NullableLengths(format) ==
    CASE format \in {"UnsignedInt", "SignedInt", "HexInt"} -> {1, 2, 4, 8}
      [] format \in {"Errno", "Pid"} -> {4}
      [] format \in {"Time", "Float"} -> {4, 8}
      [] format = "Boolean" -> {1, 2, 4}
      [] format = "Uuid" -> {16}
      [] format = "Port" -> {2}
      [] format \in {"IPAddress", "IPAddressObsolete"} -> {4, 16}
      [] OTHER -> {}

(* write_char8_default_to.                                                 *)
Char8Default(encoding, filter, bytes) ==
    IF encoding = "BinaryLength16Char8" THEN Shown("hexbytes", bytes)
    ELSE Shown("text", WriteText("Utf8", filter, bytes))

(* A value of one of the formats with NullableLengths, length not 0.       *)
NullableValue(format, b, bytes, options) ==
    CASE format = "UnsignedInt" -> Decimal(Unsigned(b))
      [] format \in {"SignedInt", "Pid"} -> Decimal(Signed(b))
      [] format = "HexInt" -> Hex(Unsigned(b))
      [] format = "Errno" -> Errno(Unsigned(b), options)
      [] format = "Time" -> Time(Signed(b), options)
      [] format = "Boolean" -> Bool(Unsigned(b), options)
      [] format = "Float" -> Shown("float", b)
      [] format = "Uuid" -> Shown("uuid", bytes)
      [] format = "Port" -> Port(bytes)
      [] OTHER -> Shown(IF Len(bytes) = 4 THEN "ipv4" ELSE "ipv6", bytes)

JsonNullableValue(format, b, bytes, options) ==
    CASE format = "HexInt" -> JsonHex(Unsigned(b), options)
      [] format = "Errno" -> JsonErrno(Unsigned(b), options)
      [] format = "Time" -> JsonTime(Signed(b), options)
      [] format = "Boolean" -> JsonBool(Unsigned(b), options)
      [] format = "Float" -> JsonFloat(b, options)
      [] format \in {"Uuid", "IPAddress", "IPAddressObsolete"} ->
            Quoted(NullableValue(format, b, bytes, options))
      [] OTHER -> Plain(NullableValue(format, b, bytes, options))

StringFormats == {"HexBytes", "String8", "StringUtf"} \cup BomFormats

(* StringLength16Char8 and BinaryLength16Char8 values.                     *)
Char8(v, options) ==
    LET lengths == NullableLengths(v.format)
    IN CASE v.format \in StringFormats ->
                StringToken(v.format, "Utf8", ControlFilter(options), v.bytes)
         [] lengths # {} /\ v.bytes = <<>> -> Null
         [] Len(v.bytes) \in lengths ->
                NullableValue(v.format, LowFirst(v.bytes, v.big), v.bytes, options)
         [] OTHER -> Char8Default(v.encoding, ControlFilter(options), v.bytes)

JsonChar8(v, options) ==
    LET lengths == NullableLengths(v.format)
    IN CASE v.format \in StringFormats -> Quoted(StringToken(v.format, "Utf8", "json", v.bytes))
         [] lengths # {} /\ v.bytes = <<>> -> Plain(Null)
         [] Len(v.bytes) \in lengths ->
                JsonNullableValue(v.format, LowFirst(v.bytes, v.big), v.bytes, options)
         [] OTHER -> Quoted(Char8Default(v.encoding, "json", v.bytes))

(* The size of a character of the other string encodings.                  *)
UnitSizes == [ZStringChar8 |-> 1, ZStringChar16 |-> 2, ZStringChar32 |-> 4,
              StringLength16Char16 |-> 2, StringLength16Char32 |-> 4]
Char8Encodings == {"StringLength16Char8", "BinaryLength16Char8"}

(* write_scalar_to.                                                        *)
Scalar(v, options) ==
    CASE v.encoding = "Invalid" -> Null
      [] v.encoding = "Struct" -> Shown("Struct", v.bytes)
      [] v.encoding \in DOMAIN FixedSizes ->
            Element(v.encoding, v.format, v.big, SubSeq(v.bytes, 1, FixedSizes[v.encoding]), options)
      [] v.encoding \in DOMAIN UnitSizes ->
            StringToken(v.format, UtfOf(UnitSizes[v.encoding], v.big), ControlFilter(options), v.bytes)
      [] v.encoding \in Char8Encodings -> Char8(v, options)
      [] OTHER -> Shown("Encoding", <<>>)

(* write_json_scalar_to_impl.                                              *)
JsonScalar(v, options) ==
    CASE v.encoding = "Invalid" -> Plain(Null)
      [] v.encoding = "Struct" -> Plain(Shown("{}", <<>>))
      [] v.encoding \in DOMAIN FixedSizes ->
            JsonElement(v.encoding, v.format, v.big, SubSeq(v.bytes, 1, FixedSizes[v.encoding]), options)
      [] v.encoding \in DOMAIN UnitSizes ->
            Quoted(StringToken(v.format, UtfOf(UnitSizes[v.encoding], v.big), "json", v.bytes))
      [] v.encoding \in Char8Encodings -> JsonChar8(v, options)
      [] OTHER -> Quoted(Shown("Encoding", <<>>))

(* write_simple_array_to and write_json_simple_array_to: the elements,     *)
(* which separators are written between.                                   *)
Slice(v, i) == SubSeq(v.bytes, (i - 1) * FixedSizes[v.encoding] + 1, i * FixedSizes[v.encoding])
Elements(v) == Len(v.bytes) \div FixedSizes[v.encoding]

SimpleArray(v, options) ==
    IF v.encoding \notin DOMAIN FixedSizes THEN <<Shown("Encoding", <<>>)>>
    ELSE [i \in 1 .. Elements(v) |-> Element(v.encoding, v.format, v.big, Slice(v, i), options)]
JsonSimpleArray(v, options) ==
    IF v.encoding \notin DOMAIN FixedSizes THEN <<Quoted(Shown("Encoding", <<>>))>>
    ELSE [i \in 1 .. Elements(v) |-> JsonElement(v.encoding, v.format, v.big, Slice(v, i), options)]

(* to_string_bytes: the same choices again, for any encoding.              *)
ToStringBytes(v) ==
    LET bom == FromBom(v.bytes)
    IN CASE v.format = "String8" -> <<"Latin1", v.bytes>>
         [] v.format \in BomFormats /\ bom[1] # "none" ->
                <<bom[1], SubSeq(v.bytes, bom[2] + 1, Len(v.bytes))>>
         [] OTHER ->
                <<CASE v.encoding \in {"Value8"} \cup Char8Encodings -> "Utf8"
                    [] v.encoding \in {"Value16", "Value32"} -> UtfOf(FixedSizes[v.encoding], v.big)
                    [] v.encoding \in DOMAIN UnitSizes -> UtfOf(UnitSizes[v.encoding], v.big)
                    [] OTHER -> "Latin1", v.bytes>>

(* write_string_to: the value as a string, whatever its format is.         *)
WriteString(v) == WriteText(ToStringBytes(v)[1], "none", ToStringBytes(v)[2])
=============================================================================
