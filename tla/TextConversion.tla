--------------------------- MODULE TextConversion ---------------------------
(***************************************************************************)
(* The text conversions of tracepoint_decode: charconv takes the bytes of  *)
(* a string apart into characters and hands them to a filter, filters      *)
(* replaces or escapes some of them on the way to the destination.         *)
(*                                                                         *)
(* A byte is a number below 256 and a character its code point.  charconv  *)
(* calls a filter with write_str, write_ascii or write_non_ascii, and the  *)
(* filters treat those differently, so its output is a sequence of calls   *)
(* [via, ch], one for each character.                                      *)
(***************************************************************************)
EXTENDS Integers, Sequences, SequencesExt

Replacement == 65533
Surrogate(u) == 55296 <= u /\ u <= 57343
HighSurrogate(u) == 55296 <= u /\ u <= 56319
LowSurrogate(u) == 56320 <= u /\ u <= 57343

Call(via, ch) == [via |-> via, ch |-> ch]

(* write_latin1_to: runs of ASCII go to write_str.                         *)
Latin1Calls(bytes) ==
    [i \in DOMAIN bytes |-> Call(IF bytes[i] <= 127 THEN "str" ELSE "non_ascii", bytes[i])]

(* The length a lead byte announces; 0 if it cannot lead.                  *)
Utf8Length(b) ==
    CASE b <= 127 -> 1
      [] b \in 192 .. 223 -> 2
      [] b \in 224 .. 239 -> 3
      [] b \in 240 .. 244 -> 4
      [] OTHER -> 0

Utf8Value(s) ==
    CASE Len(s) = 1 -> s[1]
      [] Len(s) = 2 -> (s[1] % 32) * 64 + (s[2] % 64)
      [] Len(s) = 3 -> (s[1] % 16) * 4096 + (s[2] % 64) * 64 + (s[3] % 64)
      [] Len(s) = 4 -> (s[1] % 8) * 262144 + (s[2] % 64) * 4096 + (s[3] % 64) * 64 + (s[4] % 64)

(* Fault: an overlong or surrogate sequence is taken.                      *)
Utf8InRangeAny(n, ch) == TRUE

(* The value must need its n bytes, and be a character.                    *)
Utf8InRange(n, ch) ==
    /\ n = 2 => 128 <= ch
    /\ n = 3 => 2048 <= ch /\ ~Surrogate(ch)
    /\ n = 4 => 65536 <= ch /\ ch <= 1114111

(* The length of the valid sequence at p, or 0.                            *)
Utf8Valid(bytes, p) ==
    LET n == Utf8Length(bytes[p])
        s == SubSeq(bytes, p, p + n - 1)
    IN IF /\ n # 0 /\ Len(bytes) - p + 1 >= n
          /\ \A i \in 2 .. n : s[i] \in 128 .. 191
          /\ Utf8InRange(n, Utf8Value(s))
       THEN n ELSE 0

(* write_utf8_with_latin1_fallback_to: a byte that begins no valid         *)
(* sequence is taken as Latin-1, and the next byte is looked at.           *)
Utf8Calls(bytes) ==
    LET from[p \in 1 .. Len(bytes) + 1] ==
            IF p > Len(bytes) THEN <<>>
            ELSE LET n == Utf8Valid(bytes, p)
                 IN IF n = 0 THEN <<Call("non_ascii", bytes[p])>> \o from[p + 1]
                    ELSE <<Call("str", Utf8Value(SubSeq(bytes, p, p + n - 1)))>> \o from[p + n]
    IN from[1]

(* Code units of 2 bytes; an odd byte at the end is not looked at.         *)
Units16(bytes, big) ==
    [i \in 1 .. Len(bytes) \div 2 |->
        IF big THEN bytes[2 * i - 1] * 256 + bytes[2 * i] ELSE bytes[2 * i] * 256 + bytes[2 * i - 1]]

PairAt(u, p) == HighSurrogate(u[p]) /\ p < Len(u) /\ LowSurrogate(u[p + 1])
PairValue(high, low) == (high - 55296) * 1024 + (low - 56320) + 65536

(* write_utf16_to.                                                         *)
Utf16Calls(bytes, big) ==
    LET u == Units16(bytes, big)
        from[p \in 1 .. Len(u) + 1] ==
            IF p > Len(u) THEN <<>>
            ELSE IF u[p] <= 127 THEN <<Call("ascii", u[p])>> \o from[p + 1]
            ELSE IF ~Surrogate(u[p]) THEN <<Call("non_ascii", u[p])>> \o from[p + 1]
            ELSE IF PairAt(u, p) THEN <<Call("non_ascii", PairValue(u[p], u[p + 1]))>> \o from[p + 2]
            ELSE <<Call("non_ascii", Replacement)>> \o from[p + 1]
    IN from[1]

(* char::from_u32 of little-endian bytes, or the replacement character.    *)
CharFromU32(b) ==
    IF b[4] # 0 \/ b[3] > 16 \/ Surrogate(b[3] * 65536 + b[2] * 256 + b[1]) THEN Replacement
    ELSE b[3] * 65536 + b[2] * 256 + b[1]

(* write_utf32_to: every character, ASCII too, goes to write_non_ascii.    *)
Utf32Calls(bytes, big) ==
    LET Unit(i) == SubSeq(bytes, 4 * i - 3, 4 * i)
    IN [i \in 1 .. Len(bytes) \div 4 |->
            Call("non_ascii", CharFromU32(IF big THEN Reverse(Unit(i)) ELSE Unit(i)))]

Calls(encoding, bytes) ==
    CASE encoding = "Latin1" -> Latin1Calls(bytes)
      [] encoding = "Utf8" -> Utf8Calls(bytes)
      [] encoding = "Utf16BE" -> Utf16Calls(bytes, TRUE)
      [] encoding = "Utf16LE" -> Utf16Calls(bytes, FALSE)
      [] encoding = "Utf32BE" -> Utf32Calls(bytes, TRUE)
      [] encoding = "Utf32LE" -> Utf32Calls(bytes, FALSE)

-----------------------------------------------------------------------------
(* The filters: what a call makes of its character.                        *)
Quote == 34
Backslash == 92
Space == 32
HexDigit(n) == IF n < 10 THEN 48 + n ELSE 55 + n

(* JsonFilterImpl::write_ascii_impl.                                       *)
JsonAscii(c, control_only) ==
    CASE c \in {Quote, Backslash} -> IF control_only THEN <<c>> ELSE <<Backslash, c>>
      [] c = 8 -> <<Backslash, 98>>
      [] c = 12 -> <<Backslash, 102>>
      [] c = 10 -> <<Backslash, 110>>
      [] c = 13 -> <<Backslash, 114>>
      [] c = 9 -> <<Backslash, 116>>
      [] c \in (0 .. 31) \ {8, 9, 10, 12, 13} ->
            <<Backslash, 117, 48, 48, IF c < 16 THEN 48 ELSE 49, HexDigit(c % 16)>>
      [] OTHER -> <<c>>

(* Fault: write_str looks for characters up to the quote only.             *)
JsonStrUpToQuote(c, control_only) ==
    IF c <= (IF control_only THEN 31 ELSE Quote) THEN JsonAscii(c, control_only) ELSE <<c>>

(* JsonFilterImpl::write_str_impl.                                         *)
JsonStr(c, control_only) ==
    IF c <= (IF control_only THEN 31 ELSE Backslash) THEN JsonAscii(c, control_only) ELSE <<c>>

JsonCall(call, control_only) ==
    CASE call.via = "str" -> JsonStr(call.ch, control_only)
      [] call.via = "ascii" -> JsonAscii(call.ch, control_only)
      [] call.via = "non_ascii" -> <<call.ch>>

(* ControlCharsSpaceFilter.                                                *)
SpaceCall(call) == <<IF call.via # "non_ascii" /\ call.ch < Space THEN Space ELSE call.ch>>

(* WriteFilter, ControlCharsSpaceFilter, ControlCharsJsonFilter and        *)
(* JsonEscapeFilter.                                                       *)
Filtered(filter, call) ==
    CASE filter = "none" -> <<call.ch>>
      [] filter = "space" -> SpaceCall(call)
      [] filter = "control" -> JsonCall(call, TRUE)
      [] filter = "json" -> JsonCall(call, FALSE)

WriteText(encoding, filter, bytes) ==
    FlattenSeq([i \in DOMAIN Calls(encoding, bytes) |->
                    Filtered(filter, Calls(encoding, bytes)[i])])

(* write_*_with_control_chars_filter: by StringControlCharsMask; with both *)
(* flags set nothing is filtered.                                          *)
ControlFilter(options) ==
    CASE "ReplaceWithSpace" \in options /\ "JsonEscape" \notin options -> "space"
      [] "JsonEscape" \in options /\ "ReplaceWithSpace" \notin options -> "control"
      [] OTHER -> "none"

(* write_char32_with_control_chars_filter, of a value of 4 bytes.          *)
WriteChar32(b, options) ==
    LET ch == CharFromU32(b)
    IN IF ch >= Space THEN <<ch>> ELSE Filtered(ControlFilter(options), Call("ascii", ch))

(* write_char32_with_json_escape: a backslash is written as it is.         *)
WriteJsonChar32(b) ==
    LET ch == CharFromU32(b)
    IN IF ch >= Backslash THEN <<ch>> ELSE Filtered("json", Call("ascii", ch))

(* PerfTextEncoding::from_bom: <<encoding, length of the mark>>.           *)
FromBom(bytes) ==
    LET Starts(bom) == IsPrefix(bom, bytes)
    IN CASE Starts(<<0, 0, 254, 255>>) -> <<"Utf32BE", 4>>
         [] Starts(<<255, 254, 0, 0>>) -> <<"Utf32LE", 4>>
         [] Starts(<<254, 255>>) -> <<"Utf16BE", 2>>
         [] Starts(<<255, 254>>) /\ ~Starts(<<255, 254, 0, 0>>) -> <<"Utf16LE", 2>>
         [] Starts(<<239, 187, 191>>) -> <<"Utf8", 3>>
         [] OTHER -> <<"none", 0>>
=============================================================================
