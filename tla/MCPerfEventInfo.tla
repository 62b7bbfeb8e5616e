--------------------------- MODULE MCPerfEventInfo ---------------------------
(***************************************************************************)
(* Recordings for module PerfEventInfo: every combination of the fields    *)
(* that decide where the id and the time are, some with the parts of       *)
(* variable length, and files with two ids that agree or disagree.         *)
(***************************************************************************)
EXTENDS PerfEventInfo

Attr(st, all, formats, tracepoint) ==
    [sample_type |-> st, sample_id_all |-> all, read_format |-> formats,
     tracepoint |-> tracepoint, config |-> 1]

Words8 == {"Identifier", "IP", "Tid", "Time", "Addr", "Id", "StreamId", "Cpu"}

Layouts ==
    {Attr(st, all, {}, FALSE) : st \in SUBSET Words8, all \in BOOLEAN}

Parts ==
    {Attr({"Id", "Period"} \cup parts, TRUE, formats, TRUE) :
        parts \in SUBSET {"Read", "Callchain", "Raw"},
        formats \in {{}, {"Group"}, {"Group", "TotalTimeEnabled", "Lost"},
                     {"TotalTimeRunning", "Id"}, {"Id", "Unsupported"}}}

(* Two ids: the same attr, the same offsets with other fields after them,  *)
(* another offset of the id, of the time, or of the suffix only.           *)
Pairs == {
    Attr({"Id", "Time"}, TRUE, {}, TRUE),
    Attr({"Id", "Time", "Raw"}, TRUE, {}, TRUE),
    Attr({"Id", "Time", "Addr"}, TRUE, {}, TRUE),
    Attr({"Identifier", "Time"}, TRUE, {}, FALSE),
    Attr({"Identifier"}, TRUE, {}, FALSE),
    Attr({"Identifier"}, FALSE, {}, FALSE),
    Attr({"Time"}, FALSE, {}, FALSE)}

(* Ids differ from every other value in the events, as the kernel's mostly do. *)
MCTraces == [{101} -> Layouts \cup Parts] \cup [{101, 102} -> Pairs]
=============================================================================
