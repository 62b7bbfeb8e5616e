---------------------------- MODULE Conversions ----------------------------
(***************************************************************************)
(* The conversions a consumer asks of tracepoint_decode, each on its own:  *)
(* bytes to text, an item to text and JSON, a field of an event by its     *)
(* format, a format file parsed and written, the session clock written to  *)
(* a file's headers and read back.  A state is a request and, once served, *)
(* its result.                                                             *)
(***************************************************************************)
EXTENDS PerfItemValue, PerfEventFormat, PerfSessionInfo

CONSTANTS
    Texts,      \* [encoding, bytes]
    Values,     \* [encoding, format, big, bytes]
    Options,    \* sets of PerfConvertOptions flags
    Fields,     \* [long64, big, line, data, stored]
    Files,      \* [long64, lines, ended]
    Clocks,     \* [id, wall, time]
    Times       \* timestamps to convert

(* Bytes are bytes and times are u64, as their Rust types say; nothing is  *)
(* asked of what the bytes or the lines of a file say.                     *)
ASSUME ConvAssumption ==
    /\ \A t \in Texts :
          /\ t.encoding \in {"Latin1", "Utf8", "Utf16BE", "Utf16LE", "Utf32BE", "Utf32LE"}
          /\ t.bytes \in Seq(0 .. 255)
    /\ \A f \in Files : Len(f.lines) \in Nat
    /\ \A c \in Clocks : c.id \in Int /\ c.wall \in 0 .. U64_MAX /\ c.time \in 0 .. U64_MAX
    /\ Times \subseteq Nat

VARIABLES job, result

convVars == <<job, result>>

Job(kind, input, options) == [kind |-> kind, input |-> input, options |-> options]
NoResult == [kind |-> "none"]

ConvInit ==
    /\ job \in {Job("text", t, {}) : t \in Texts}
              \cup {Job("value", v, o) : v \in Values, o \in Options}
              \cup {Job("field", f, {}) : f \in Fields}
              \cup {Job("file", f, {}) : f \in Files}
              \cup {Job("clock", c, {}) : c \in Clocks}
    /\ result = NoResult

Serve(kind, r) ==
    /\ result = NoResult /\ job.kind = kind
    /\ result' = r
    /\ UNCHANGED job

ConvertText ==
    LET t == job.input
    IN Serve("text", [kind |-> "text",
                      plain |-> WriteText(t.encoding, "none", t.bytes),
                      json |-> WriteText(t.encoding, "json", t.bytes)])

(* write_scalar_to and write_json_scalar_to, or the two for arrays.        *)
ConvertValue ==
    LET v == job.input
        array == v.encoding \in DOMAIN FixedSizes /\ Len(v.bytes) # FixedSizes[v.encoding]
    IN Serve("value",
             [kind |-> "value",
              text |-> IF array THEN SimpleArray(v, job.options) ELSE <<Scalar(v, job.options)>>,
              json |-> IF array THEN JsonSimpleArray(v, job.options) ELSE <<JsonScalar(v, job.options)>>,
              string |-> IF array THEN <<>> ELSE WriteString(v)])

ReadField ==
    LET f == ParseField(job.input.long64, job.input.line)
    IN Serve("field", [kind |-> "field", field |-> f,
                       bytes |-> GetFieldBytes(f, job.input.data, job.input.big),
                       value |-> GetFieldValue(f, job.input.data, job.input.big)])

(* A format is parsed, written and parsed again.                           *)
CopyFormat ==
    LET f == ParseFormat(job.input.long64, job.input.lines, job.input.ended)
    IN Serve("file", [kind |-> "file", first |-> f,
                      again |-> IF f = NoFormat THEN f
                                ELSE ParseFormat(job.input.long64, WriteFormat(f), TRUE)])

(* A reader sets the session up, a writer copies it to a file's headers,   *)
(* and the next reader sets its session up from those.                     *)
CopyClock ==
    LET s == SetClockData(SetClockId(NewSession, job.input.id),
                          job.input.id, job.input.wall, job.input.time)
    IN Serve("clock", [kind |-> "clock", first |-> s,
                       again |-> ParseClockData(ParseClockId(NewSession, SessionClockId(s)),
                                                SessionClockData(s)),
                       times |-> [t \in Times |-> TimeToTimeSpec(s, t)]])

ConvNext ==
    \/ ConvertText
    \/ ConvertValue
    \/ ReadField
    \/ CopyFormat
    \/ CopyClock

ConvSpec == ConvInit /\ [][ConvNext]_convVars

Served(kind) == result.kind = kind

-----------------------------------------------------------------------------
(* A JSON string without its quotes as a JSON parser reads it, <<-1>> if   *)
(* it is none.  (Of the escapes by number only those below 256.)           *)
HexValue(c) == IF c <= 57 THEN c - 48 ELSE c - 55
Letters ==
    [c \in {Quote, Backslash, 98, 102, 110, 114, 116} |->
        CASE c = 98 -> 8 [] c = 102 -> 12 [] c = 110 -> 10 [] c = 114 -> 13 [] c = 116 -> 9 [] OTHER -> c]
Unescaped(s) ==
    LET at[p \in 1 .. Len(s) + 1] ==
            IF p > Len(s) THEN <<>>
            ELSE IF s[p] # Backslash
                 THEN IF s[p] = Quote \/ s[p] < Space THEN <<-1>> ELSE <<s[p]>> \o at[p + 1]
            ELSE IF p < Len(s) /\ s[p + 1] \in DOMAIN Letters THEN <<Letters[s[p + 1]]>> \o at[p + 2]
            ELSE IF p + 5 <= Len(s) /\ s[p + 1] = 117 /\ s[p + 2] = 48 /\ s[p + 3] = 48
                 THEN <<HexValue(s[p + 4]) * 16 + HexValue(s[p + 5])>> \o at[p + 6]
            ELSE <<-1>>
    IN at[1]

(* What the JSON escape filter writes for a string reads back as that      *)
(* string, whichever of the filter's three entries its characters went     *)
(* through.  (Not for UTF-32, whose characters all go through the entry    *)
(* for those that need no escape.)                                         *)
EscapedReadsBack ==
    Served("text") /\ job.input.encoding \notin {"Utf32BE", "Utf32LE"} =>
        Unescaped(result.json) = result.plain

(* A format that is read from a file with common fields and written again, *)
(* as the writer of a perf.data file does, is the same format to the next  *)
(* reader: same fields, same split between common and other fields, same   *)
(* decoding style.                                                         *)
FormatReadsBack ==
    Served("file") /\ result.first # NoFormat /\ result.first.common \in 1 .. Len(result.first.fields) =>
        result.again = result.first

(* The clock of a session survives being written to a file's headers and   *)
(* read back, and converts every timestamp to the real time it stands for, *)
(* exactly, also when the session's clock is ahead of real time.           *)
ClockReadsBack ==
    Served("clock") /\ job.input.id # CLOCK_MAX =>
        /\ result.again = result.first
        /\ \A t \in Times :
              LET ts == result.times[t]
              IN /\ ts.nanoseconds \in 0 .. BILLION - 1
                 /\ ts.seconds * BILLION + ts.nanoseconds = t + job.input.wall - job.input.time
=============================================================================
