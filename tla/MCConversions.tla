--------------------------- MODULE MCConversions ---------------------------
(***************************************************************************)
(* Conversions on small inputs, and what they are checked against: the     *)
(* encodings as the Unicode standard defines them, JSON strings, the       *)
(* layout the kernel gives an event's fields.                              *)
(***************************************************************************)
EXTENDS Conversions

-----------------------------------------------------------------------------
(* Text.  The well-formed byte sequences are those of the standard's       *)
(* table, which lists ranges and computes no value.                        *)
Tails == 128 .. 191
WellFormed(s) ==
    CASE Len(s) = 1 -> s[1] <= 127
      [] Len(s) = 2 -> s[1] \in 194 .. 223 /\ s[2] \in Tails
      [] Len(s) = 3 ->
            /\ s[3] \in Tails
            /\ \/ s[1] = 224 /\ s[2] \in 160 .. 191
               \/ s[1] \in (225 .. 239) \ {237} /\ s[2] \in Tails
               \/ s[1] = 237 /\ s[2] \in 128 .. 159
      [] Len(s) = 4 ->
            /\ s[3] \in Tails /\ s[4] \in Tails
            /\ \/ s[1] = 240 /\ s[2] \in 144 .. 191
               \/ s[1] \in 241 .. 243 /\ s[2] \in Tails
               \/ s[1] = 244 /\ s[2] \in 128 .. 143

Utf8Of(c) ==
    CASE c < 128 -> <<c>>
      [] c \in 128 .. 2047 -> <<192 + (c \div 64), 128 + (c % 64)>>
      [] c \in 2048 .. 65535 -> <<224 + (c \div 4096), 128 + ((c \div 64) % 64), 128 + (c % 64)>>
      [] OTHER -> <<240 + (c \div 262144), 128 + ((c \div 4096) % 64), 128 + ((c \div 64) % 64),
                    128 + (c % 64)>>
Utf16Of(c) ==
    IF c < 65536 THEN <<c>>
    ELSE <<55296 + ((c - 65536) \div 1024), 56320 + ((c - 65536) % 1024)>>

TwoBytes(u, big) == IF big THEN <<u \div 256, u % 256>> ELSE <<u % 256, u \div 256>>
UnitBytes(units, big) == FlattenSeq([i \in DOMAIN units |-> TwoBytes(units[i], big)])
FourBytes(c, big) ==
    LET low == <<c % 256, (c \div 256) % 256, c \div 65536, 0>> IN LowFirst(low, big)

EncodeChar(encoding, c) ==
    CASE encoding = "Latin1" -> <<c>>
      [] encoding = "Utf8" -> Utf8Of(c)
      [] encoding \in {"Utf16BE", "Utf16LE"} -> UnitBytes(Utf16Of(c), encoding = "Utf16BE")
      [] OTHER -> FourBytes(c, encoding = "Utf32BE")
Encode(encoding, chars) == FlattenSeq([i \in DOMAIN chars |-> EncodeChar(encoding, chars[i])])

Wide == {"Utf8", "Utf16BE", "Utf16LE", "Utf32BE", "Utf32LE"}
Chars == {1, 10, 31, 34, 65, 92, 127, 128, 255, 2047, 2048, 65535, 65536, 1114111}
Encoded ==
    {[encoding |-> e, bytes |-> Encode(e, s), chars |-> s] : e \in Wide, s \in SeqOf(Chars, 2)}
        \cup {[encoding |-> "Latin1", bytes |-> s, chars |-> s] : s \in SeqOf(Chars \cap (0 .. 255), 2)}

(* Bytes that need not be text.                                            *)
RawUtf8 ==
    LET B == {65, 128, 143, 144, 159, 160, 193, 194, 224, 237, 239, 240, 244, 245}
    IN SeqOf(B, 3) \cup {<<lead>> \o s : lead \in {240, 244}, s \in [1 .. 3 -> B]}
RawUnits16 == SeqOf({65, 55296, 56319, 56320, 57343, 57344}, 3)
RawUnits32 == {<<a, 0, b, c>> : a \in {65, 255}, b \in {0, 16, 17}, c \in {0, 128}}
                \cup {<<0, 216, 0, 0>>, <<255, 223, 0, 0>>, <<65, 0, 0>>}
Raw ==
    {[encoding |-> "Utf8", bytes |-> s, chars |-> <<>>] : s \in RawUtf8}
        \cup {[encoding |-> IF big THEN "Utf16BE" ELSE "Utf16LE",
               bytes |-> UnitBytes(s, big) \o odd, chars |-> <<>>] :
                    s \in RawUnits16, odd \in {<<>>, <<65>>}, big \in BOOLEAN}
        \cup {[encoding |-> IF big THEN "Utf32BE" ELSE "Utf32LE",
               bytes |-> LowFirst(s, big), chars |-> <<>>] : s \in RawUnits32, big \in BOOLEAN}
MCTexts == Encoded \cup Raw

(* What raw bytes mean: at every place either a well-formed sequence or a  *)
(* single byte, every surrogate without a partner replaced.                *)
Utf8Meaning(bytes) ==
    LET at[p \in 1 .. Len(bytes) + 1] ==
            LET fits == {n \in 1 .. 4 : p + n - 1 <= Len(bytes) /\ WellFormed(SubSeq(bytes, p, p + n - 1))}
                n == CHOOSE m \in fits : TRUE
            IN IF p > Len(bytes) THEN <<>>
               ELSE IF fits = {} THEN <<bytes[p]>> \o at[p + 1]
               ELSE <<CHOOSE c \in Chars \cup {Utf8Value(SubSeq(bytes, p, p + n - 1))} :
                            Utf8Of(c) = SubSeq(bytes, p, p + n - 1)>> \o at[p + n]
    IN at[1]

Utf16Meaning(u) ==
    LET Paired(i) == HighSurrogate(u[i]) /\ i < Len(u) /\ LowSurrogate(u[i + 1])
        Second(i) == i > 1 /\ Paired(i - 1)
        One(i) == CASE Second(i) -> <<>>
                    [] Paired(i) -> <<CHOOSE c \in {65536, 66559, 1113088, 1114111} :
                                            Utf16Of(c) = <<u[i], u[i + 1]>>>>
                    [] Surrogate(u[i]) /\ ~Paired(i) /\ ~Second(i) -> <<Replacement>>
                    [] OTHER -> <<u[i]>>
    IN FlattenSeq([i \in DOMAIN u |-> One(i)])

Utf32Meaning(bytes, big) ==
    IF Len(bytes) < 4 THEN <<>>
    ELSE LET b == LowFirst(bytes, big)
             valid == b[4] = 0 /\ b[3] <= 16 /\ ~(b[3] = 0 /\ b[2] \in 216 .. 223)
         IN <<IF valid THEN (b[3] * 256 + b[2]) * 256 + b[1] ELSE Replacement>>

Meaning(t) ==
    CASE t.chars # <<>> \/ t.bytes = <<>> -> t.chars
      [] t.chars = <<>> /\ t.encoding = "Utf8" -> Utf8Meaning(t.bytes)
      [] t.encoding \in {"Utf16BE", "Utf16LE"} -> Utf16Meaning(Units16(t.bytes, t.encoding = "Utf16BE"))
      [] OTHER -> Utf32Meaning(t.bytes, t.encoding = "Utf32BE")

(* charconv decodes every string to the characters that were encoded; of   *)
(* bytes that are no text it replaces exactly the code units without a     *)
(* meaning, and loses or joins none of the others.                         *)
TextReadsBack == Served("text") => result.plain = Meaning(job.input)

-----------------------------------------------------------------------------
(* Values.                                                                 *)
AllFormats ==
    {"Default", "UnsignedInt", "SignedInt", "HexInt", "Errno", "Pid", "Time", "Boolean", "Float",
     "HexBytes", "String8", "StringUtf", "StringUtfBom", "StringXml", "StringJson", "Uuid", "Port",
     "IPAddress", "IPAddressObsolete"}

Patterns(n) ==
    {[i \in 1 .. n |-> IF i = 1 THEN x ELSE 0] : x \in {0, 1, 10, 34, 92, 133, 134, 200}}
        \cup {[i \in 1 .. n |-> IF i = n THEN x ELSE 0] : x \in {1, 128}}
        \cup {[i \in 1 .. n |-> 255]}
        \cup {[i \in 1 .. n |-> IF i = n THEN 127 ELSE IF i = n - 1 THEN x ELSE 0] : x \in {128, 240}}

Bodies ==
    {<<>>, <<255, 254, 65, 0>>, <<239, 187, 191, 34>>, <<254, 255, 0, 10>>, <<65, 10, 195>>,
     <<92, 0, 0, 0>>, <<0, 0, 254, 255, 0, 0, 0, 65>>, <<0, 0, 254, 255, 0, 0, 0, 34>>}

MCValues ==
    UNION {{[encoding |-> e, format |-> f, big |-> big, bytes |-> s] :
                f \in AllFormats, big \in BOOLEAN,
                s \in Patterns(FixedSizes[e]) \cup {[i \in 1 .. 2 * FixedSizes[e] |-> i * 40 % 256]}} :
           e \in DOMAIN FixedSizes}
      \cup {[encoding |-> e, format |-> f, big |-> big, bytes |-> s] :
                e \in Char8Encodings, f \in AllFormats, big \in BOOLEAN,
                s \in Bodies \cup UNION {Patterns(n) : n \in {1, 2, 4, 8, 16}}}
      \cup {[encoding |-> e, format |-> f, big |-> big, bytes |-> s] :
                e \in DOMAIN UnitSizes \cup {"Invalid", "Other"}, f \in AllFormats, big \in BOOLEAN,
                s \in Bodies}

Flags == {"IntHexAsString", "BoolOutOfRangeAsString", "UnixTimeWithinRangeAsString",
          "UnixTimeOutOfRangeAsString", "ErrnoKnownAsString", "ErrnoUnknownAsString",
          "FloatNonFiniteAsString"}
Mixed == {"IntHexAsString", "UnixTimeOutOfRangeAsString", "ErrnoKnownAsString"}
MCOptions == {{}, Flags \cup {"ReplaceWithSpace"}, Flags \cup {"JsonEscape"}, Mixed, Flags \ Mixed}

(* The values JSON writes without quotes.                                  *)
Bare(t) == t.k \in {"int", "true", "false", "null"} \/ (t.k = "float" /\ Finite(t.s))

(* The option that makes JSON show a number as the words of the text do,   *)
(* in quotes; without it JSON has the number (the doc comments of          *)
(* PerfConvertOptions).                                                    *)
StringOption ==
    [hex |-> "IntHexAsString", BOOL |-> "BoolOutOfRangeAsString",
     errno |-> "ErrnoKnownAsString", ERRNO |-> "ErrnoUnknownAsString",
     time |-> "UnixTimeWithinRangeAsString", TIME |-> "UnixTimeOutOfRangeAsString"]

(* The body that JSON is to have for the token t of the text, t no string. *)
JsonBody(t) ==
    CASE t.k \in DOMAIN StringOption ->
            IF StringOption[t.k] \in job.options THEN t ELSE Decimal(t.n)
      [] t.k = "float" /\ ~Finite(t.s) /\ "FloatNonFiniteAsString" \notin job.options -> Null
      [] OTHER -> t

(* Text and JSON token show the same value: the string write_string_to     *)
(* writes, or what the options say of the text's token.                    *)
SameValue(v, t, j) ==
    /\ j.quoted = ~Bare(j.body)
    /\ IF t.k = "text" THEN j.body.k = "text" /\ Unescaped(j.body.s) = WriteString(v)
       ELSE j.body = JsonBody(t)

(* The value that the i-th token shows.                                    *)
ValueAt(i) ==
    [job.input EXCEPT !.bytes = IF Len(result.text) = 1 THEN @ ELSE Slice(job.input, i)]

(* The three kinds of values that JSON does not show so.  A 32-bit HexInt  *)
(* is in quotes also without IntHexAsString ("If unset, a hex integer will *)
(* format in JSON as a decimal").  One character of 16 or 32 bits that is  *)
(* a backslash ("write it with JSON escape"), and UTF-32 text with any     *)
(* character that JSON must escape, are written bare between the quotes.   *)
HexOf32(v, t) == t.k = "hex" /\ v.encoding = "Value32" /\ "IntHexAsString" \notin job.options

BackslashUnit(v, t) ==
    t.k = "text" /\ v.encoding \in {"Value16", "Value32"} /\ WriteString(v) = <<Backslash>>

Utf32ToEscape(v, t) ==
    /\ t.k = "text" /\ v.encoding \notin {"Value16", "Value32"}
    /\ ToStringBytes(v)[1] \in {"Utf32BE", "Utf32LE"}
    /\ \E i \in DOMAIN WriteString(v) :
          WriteString(v)[i] < Space \/ WriteString(v)[i] \in {Quote, Backslash}

Misprinted(v, t) == HexOf32(v, t) \/ BackslashUnit(v, t) \/ Utf32ToEscape(v, t)
Bared(v, t) == Quoted(IF t.k = "hex" THEN t ELSE Shown("text", WriteString(v)))

(* For every encoding, format, length and byte order the JSON conversion   *)
(* of an item shows the value that the text conversion shows: a string is  *)
(* a JSON string of the text that write_string_to writes, a number is bare *)
(* or quoted words as the options say.  (The two conversions are separate  *)
(* tables.)  The values of Misprinted, against the documentation, are not  *)
(* shown so, and no others; what they are is said too.                     *)
JsonDenotesText ==
    Served("value") =>
        /\ Len(result.text) = Len(result.json)
        /\ \A i \in DOMAIN result.text :
              LET v == ValueAt(i)
                  t == result.text[i]
                  j == result.json[i]
              IN IF Misprinted(v, t) THEN j = Bared(v, t) /\ ~SameValue(v, t, j)
                 ELSE SameValue(v, t, j)

-----------------------------------------------------------------------------
(* Fields as the kernel lays them out: the declaration's tokens, the width *)
(* of an element and the format a reader is to show it in.                 *)
Id(v) == [k |-> "ident", v |-> v]
Punct(v) == [k |-> "punct", v |-> v]
Brackets(n) == [k |-> "brackets", v |-> n]

Type(tokens, width, format) == [tokens |-> tokens, width |-> width, format |-> format]
Types(long64) ==
    LET long == IF long64 THEN 8 ELSE 4
    IN {Type(<<Id("int")>>, 4, "SignedInt"), Type(<<Id("unsigned"), Id("int")>>, 4, "UnsignedInt"),
        Type(<<Id("unsigned"), Id("short")>>, 2, "UnsignedInt"), Type(<<Id("long")>>, long, "SignedInt"),
        Type(<<Id("unsigned"), Id("long")>>, long, "HexInt"),
        Type(<<Id("long"), Id("long")>>, 8, "SignedInt"), Type(<<Id("u8")>>, 1, "UnsignedInt"),
        Type(<<Id("const"), Id("s16")>>, 2, "SignedInt"),
        Type(<<Id("unsigned"), Id("char")>>, 1, "UnsignedInt"),
        Type(<<Id("void"), Punct("*")>>, long, "HexInt"),
        Type(<<Id("char")>>, 1, "String8"), Type(<<Id("struct"), Id("key")>>, 3, "HexBytes")}

Locations == {"DataLoc2", "RelLoc2", "DataLoc4", "RelLoc4"}
Text(t) == t.format \in {"String8", "HexBytes"}

(* The content of a field: text ends in a NUL, numbers have no zero byte.  *)
Content(t, array) ==
    LET count == IF array = "None" THEN 1 ELSE 2
        numbers == [i \in 1 .. count * t.width |-> 64 + i]
    IN IF t.format = "String8" /\ array # "None" THEN numbers \o <<0>> ELSE numbers

Tokens(t, array, count) ==
    CASE array = "None" -> t.tokens \o <<Id("f")>>
      [] array = "Fixed" -> t.tokens \o <<Id("f"), Brackets(count)>>
      [] array = "RestOfEvent" -> t.tokens \o <<Id("f"), Brackets(0)>>
      [] OTHER -> <<Id(IF array \in {"DataLoc2", "DataLoc4"} THEN "__data_loc" ELSE "__rel_loc")>>
                    \o t.tokens \o <<Brackets(0), Id("f")>>

(* One byte of other fields, the field, another byte, and the content if   *)
(* the field only tells where it is.                                       *)
FieldOf(t, array, long64, big, signed, counted) ==
    LET content == Content(t, array)
        slot == CASE array \in {"DataLoc2", "RelLoc2"} -> 2
                  [] array \in {"DataLoc4", "RelLoc4"} -> 4
                  [] OTHER -> Len(content)
        count == IF Text(t) THEN 1 ELSE Len(content) \div t.width
        at == IF array \in {"RelLoc2", "RelLoc4"} THEN 1 ELSE slot + 2
        word == CASE slot = 2 -> TwoBytes(at, big)
                  [] OTHER -> LowFirst(TwoBytes(at, FALSE) \o TwoBytes(Len(content), FALSE), big)
        data == CASE array \in Locations -> <<9>> \o word \o <<9>> \o content
                  [] array = "RestOfEvent" -> <<9>> \o content
                  [] OTHER -> <<9>> \o content \o <<9>>
    IN [long64 |-> long64, big |-> big,
        line |-> [field |-> Tokens(t, array, IF counted THEN Len(content) \div t.width ELSE 0),
                  offset |-> <<1>>, size |-> <<IF array = "RestOfEvent" THEN 0 ELSE slot>>,
                  signed |-> signed],
        data |-> data,
        stored |-> [array |-> array, raw |-> content, width |-> t.width, format |-> t.format,
                    count |-> count,
                    bytes |-> IF t.format = "String8" THEN UntilFirstNul(content) ELSE content]]

Agrees(t, signed) == signed = "none" \/ (signed = "1") = (t.format = "SignedInt")

MCFields ==
    UNION {{FieldOf(t, array, long64, big, signed, counted) :
                array \in {a \in {"None", "Fixed", "RestOfEvent"} \cup Locations :
                              a \in {"DataLoc2", "RelLoc2"} => t.format = "String8"},
                big \in BOOLEAN, signed \in {s \in {"none", "0", "1"} : Agrees(t, s)},
                counted \in BOOLEAN} :
           long64 \in BOOLEAN, t \in Types(TRUE) \cup Types(FALSE)}

(* A type as wide as the file says long is.                                *)
MCConsistentFields == {f \in MCFields : \E t \in Types(f.long64) :
                            f.stored.width = t.width /\ f.line.field \in
                                {Tokens(t, f.stored.array, n) : n \in 0 .. 3}}

SameField(f, r) ==
    /\ r.value.bytes = f.stored.bytes
    /\ r.value.format = f.stored.format
    /\ r.value.count = f.stored.count
    /\ ~Text(f.stored) => Widths[r.value.encoding] = f.stored.width

(* The 4-byte location of __rel_loc, and text or blobs of varying size,    *)
(* are not read as they were stored.                                       *)
Misread(f) ==
    \/ f.stored.array = "RelLoc4"
    \/ Text(f.stored) /\ f.stored.array \notin {"None", "Fixed"}

(* A field declared in C, laid out by the kernel and read with the format  *)
(* worked out from its declaration and size has the elements, width, sign  *)
(* and count it was stored with, for either byte order and size of long.   *)
FieldReadsBack ==
    LET f == job.input
    IN Served("field") =>
        /\ ~Misread(f) => SameField(f, result)
        /\ f.stored.array \notin {"RelLoc4", "DataLoc2", "RelLoc2"} =>
              result.bytes = [found |-> TRUE, bytes |-> f.stored.raw]
        /\ f.stored.array \in {"DataLoc2", "RelLoc2"} =>
              result.bytes = [found |-> TRUE, bytes |-> f.stored.bytes]

(* The same for every field.  The code's own description of RelLoc4 is     *)
(* that the "Value contains (dataLen << 16) | relativeOffset".             *)
EveryFieldReadsBack == Served("field") => SameField(job.input, result)

-----------------------------------------------------------------------------
(* Format files: two common fields at most, then up to two others.         *)
FileLine(name, offset, digits) ==
    Line("field", [field |-> <<Id("int"), Id(name)>>, offset |-> <<offset>>,
                   size |-> IF digits THEN <<4>> ELSE <<>>, signed |-> "1"])

MCFiles ==
    {[long64 |-> TRUE, ended |-> ended,
      lines |-> <<Line("name", <<1>>)>> \o id \o <<Line("format", <<>>)>> \o common
                    \o <<Blank>> \o fields \o <<Blank>> \o print \o late] :
        ended \in BOOLEAN, id \in {<<>>, <<Line("ID", <<7>>)>>},
        common \in {<<FileLine("common_type", 0, TRUE)>>,
                    <<FileLine("common_type", 0, TRUE), FileLine("common_pid", 4, TRUE)>>,
                    <<FileLine("common_type", 0, TRUE), FileLine("common_pid", 4, FALSE)>>},
        fields \in {<<>>, <<FileLine("eventheader_flags", 8, TRUE)>>,
                    <<FileLine("a", 8, TRUE), FileLine("eventheader_flags", 12, TRUE)>>},
        print \in {<<>>, <<Line("print fmt", <<2>>)>>}, late \in {<<>>, <<Line("ID", <<8>>)>>}}

-----------------------------------------------------------------------------
MCClocks == [id : {0, 1, CLOCK_MAX}, wall : {0, 1, 9, 10, 11, 25, U64_MAX},
             time : {0, 1, 9, 10, 11, 25, U64_MAX}]
MCTimes == {0, 1, 9, 10, 19, U64_MAX}
=============================================================================
