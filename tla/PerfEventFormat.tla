--------------------------- MODULE PerfEventFormat ---------------------------
(***************************************************************************)
(* PerfEventFormat: a tracefs "format" file parsed, and written again by   *)
(* write_to (the perf.data writer stores every format that way).  A file   *)
(* is a sequence of lines [k, v]: the properties "name", "ID", "print fmt" *)
(* and "format", the "field" lines that follow "format", "blank" ones and  *)
(* others.                                                                 *)
(***************************************************************************)
EXTENDS PerfFieldFormat

Line(k, v) == [k |-> k, v |-> v]
Blank == Line("blank", <<>>)

NoFormat == [name |-> <<>>]

Unparsed == [name |-> <<>>, id |-> <<>>, print_fmt |-> <<>>, fields |-> <<>>, common |-> 0,
             at |-> "properties"]

(* A line of the "format:" section: a blank line ends the common fields,   *)
(* the second one the section.                                             *)
FormatLine(p, line, long64) ==
    LET field == ParseField(long64, line.v)
    IN CASE line.k = "blank" -> [p EXCEPT !.at = IF @ = "common" THEN "fields" ELSE "properties"]
         [] line.k = "field" /\ field # NoField ->
                [p EXCEPT !.fields = Append(@, field),
                          !.common = IF p.at = "common" THEN @ + 1 ELSE @]
         [] OTHER -> p

(* Any other line; ID: only counts if a line break follows it.             *)
PropertyLine(p, line, last) ==
    CASE line.k = "name" -> [p EXCEPT !.name = line.v]
      [] line.k = "ID" /\ ~last -> [p EXCEPT !.id = line.v]
      [] line.k = "print fmt" -> [p EXCEPT !.print_fmt = line.v]
      [] line.k = "format" -> [p EXCEPT !.fields = <<>>, !.at = "common"]
      [] OTHER -> p

ParseLine(p, line, last, long64) ==
    IF p.at = "properties" THEN PropertyLine(p, line, last) ELSE FormatLine(p, line, long64)

DecodingStyle(p) ==
    IF Len(p.fields) > p.common /\ p.fields[p.common + 1].name = "eventheader_flags"
    THEN "EventHeader" ELSE "TraceEventFormat"

CommonFieldsSize(p) ==
    IF p.common = 0 THEN 0 ELSE p.fields[p.common].offset + p.fields[p.common].size

(* PerfEventFormat::parse; ended says whether the file ends in a line break. *)
ParseFormat(long64, lines, ended) ==
    LET at[i \in 0 .. Len(lines)] ==
            IF i = 0 THEN Unparsed
            ELSE ParseLine(at[i - 1], lines[i], i = Len(lines) /\ ~ended, long64)
        p == at[Len(lines)]
    IN IF p.id = <<>> \/ p.name = <<>> THEN NoFormat
       ELSE [name |-> p.name, id |-> p.id, print_fmt |-> p.print_fmt, fields |-> p.fields,
             common |-> p.common, common_size |-> CommonFieldsSize(p), style |-> DecodingStyle(p)]

-----------------------------------------------------------------------------
FieldLine(f) ==
    Line("field", [field |-> f.field, offset |-> <<f.offset>>, size |-> <<f.size>>, signed |-> f.signed])

(* Fault: the blank line comes before the last common field.               *)
FieldLinesEarly(f) ==
    [i \in DOMAIN f.fields |->
        IF i + 1 = f.common THEN <<FieldLine(f.fields[i]), Blank>> ELSE <<FieldLine(f.fields[i])>>]

FieldLines(f) ==
    [i \in DOMAIN f.fields |->
        IF i = f.common THEN <<FieldLine(f.fields[i]), Blank>> ELSE <<FieldLine(f.fields[i])>>]

(* write_to.                                                               *)
WriteFormat(f) ==
    <<Line("name", f.name), Line("ID", f.id), Line("format", <<>>)>> \o FlattenSeq(FieldLines(f))
        \o <<Blank, Line("print fmt", f.print_fmt)>>
=============================================================================
