----------------------------- MODULE ReaderAttrs -----------------------------
(***************************************************************************)
(* What a perf.data file says about the layout of its events: ReaderAttrs  *)
(* of the tracepoint_perf crate, and the functions that use it to find the *)
(* id, the time and the other parts of an event.  Operators only; modules  *)
(* PerfEventInfo and PerfDataFileReader keep the state.                    *)
(*                                                                         *)
(* Event data is a sequence of u32 units, so a u64 takes two of them, and  *)
(* offsets and sizes count units, from 0 as in the code.  The first two    *)
(* units are the event's header: its type and its size.  Units are small   *)
(* numbers: a u64 is the number lo + UnitRange * hi.                       *)
(***************************************************************************)
EXTENDS Integers, Sequences, SequencesExt, TLC

U32_SIZE == 1
U64_SIZE == 2
PERF_EVENT_HEADER_SIZE == 2
UnitRange == 1024

OFFSET_UNSET == -1
OFFSET_NOT_PRESENT == -2

(* Types of events: Sample, a kernel event with a suffix, user types.      *)
SampleType == 9
UserTypeStart == 64

Flags == {"Identifier", "IP", "Tid", "Time", "Addr", "Id", "StreamId", "Cpu", "Period",
          "Read", "Callchain", "Raw"}
ReadFormats == {"TotalTimeEnabled", "TotalTimeRunning", "Id", "Group", "Lost"}

Has(set, flag) == IF flag \in set THEN 1 ELSE 0

-----------------------------------------------------------------------------
(* An attr: sample_type and read_format as sets of flags, whether events   *)
(* that are not samples carry a suffix (sample_id_all), whether it is a    *)
(* tracepoint, and the config, which for a tracepoint is its format's id.  *)
NoFormat == -1

NewAttrs ==
    [event_desc_list |-> <<>>, event_desc_id_to_index |-> [id \in {} |-> 0], format_by_id |-> {},
     sample_id_offset |-> OFFSET_UNSET, non_sample_id_offset |-> OFFSET_UNSET,
     sample_time_offset |-> OFFSET_UNSET, non_sample_time_offset |-> OFFSET_UNSET]

SampleIdOffset(attr) ==
    LET st == attr.sample_type
    IN CASE "Identifier" \in st -> U64_SIZE
         [] st \cap {"Identifier", "Id"} = {} -> OFFSET_NOT_PRESENT
         [] OTHER -> U64_SIZE * (1 + Has(st, "IP") + Has(st, "Tid") + Has(st, "Time")
                                   + Has(st, "Addr"))

(* Fault: the stream id between the id and the end is forgotten.           *)
NonSampleIdOffsetNoStream(attr) ==
    LET st == attr.sample_type
    IN CASE ~attr.sample_id_all \/ st \cap {"Identifier", "Id"} = {} -> OFFSET_NOT_PRESENT
         [] attr.sample_id_all /\ "Identifier" \in st -> U64_SIZE
         [] OTHER -> U64_SIZE * (1 + Has(st, "Cpu"))

NonSampleIdOffset(attr) ==
    LET st == attr.sample_type
    IN CASE ~attr.sample_id_all \/ st \cap {"Identifier", "Id"} = {} -> OFFSET_NOT_PRESENT
         [] attr.sample_id_all /\ "Identifier" \in st -> U64_SIZE
         [] OTHER -> U64_SIZE * (1 + Has(st, "Cpu") + Has(st, "StreamId"))

SampleTimeOffset(attr) ==
    LET st == attr.sample_type
    IN IF "Time" \notin st THEN OFFSET_NOT_PRESENT
       ELSE U64_SIZE * (1 + Has(st, "Identifier") + Has(st, "IP") + Has(st, "Tid"))

NonSampleTimeOffset(attr) ==
    LET st == attr.sample_type
    IN IF ~attr.sample_id_all \/ "Time" \notin st THEN OFFSET_NOT_PRESENT
       ELSE U64_SIZE * (1 + Has(st, "Identifier") + Has(st, "Cpu") + Has(st, "StreamId")
                          + Has(st, "Id"))

(* Fault: a different offset is taken over instead of refused.             *)
CompatibleAlways(a, attr) == TRUE

(* The first attr sets the four offsets, the others have to agree.         *)
Compatible(a, attr) ==
    /\ a.sample_id_offset \in {OFFSET_UNSET, SampleIdOffset(attr)}
    /\ a.non_sample_id_offset \in {OFFSET_UNSET, NonSampleIdOffset(attr)}
    /\ a.sample_time_offset \in {OFFSET_UNSET, SampleTimeOffset(attr)}
    /\ a.non_sample_time_offset \in {OFFSET_UNSET, NonSampleTimeOffset(attr)}

FormatOf(formats, attr) ==
    IF attr.tracepoint /\ attr.config \in formats THEN attr.config ELSE NoFormat

NewDesc(a, attr, name, ids) ==
    [attr |-> attr, name |-> name, ids |-> ids, format |-> FormatOf(a.format_by_id, attr)]

MapIds(map, ids, index) ==
    [id \in ids \cup DOMAIN map |-> IF id \in ids THEN index ELSE map[id]]

(* An attr the code refuses leaves everything as it is: the offsets are    *)
(* set all at once by the first attr, so it cannot set some and then fail. *)
AddAttr(a, attr, name, ids) ==
    IF ~Compatible(a, attr) THEN a
    ELSE [a EXCEPT !.sample_id_offset = SampleIdOffset(attr),
                   !.non_sample_id_offset = NonSampleIdOffset(attr),
                   !.sample_time_offset = SampleTimeOffset(attr),
                   !.non_sample_time_offset = NonSampleTimeOffset(attr),
                   !.event_desc_list = Append(@, NewDesc(a, attr, name, ids)),
                   !.event_desc_id_to_index = MapIds(@, ids, Len(a.event_desc_list) + 1)]

(* Fault: descriptions that were there before the formats get none.        *)
AddFormatsLateOnly(a, formats, whole) == [a EXCEPT !.format_by_id = @ \cup formats]

WithFormat(desc, formats) ==
    IF desc.format # NoFormat THEN desc
    ELSE [desc EXCEPT !.format = FormatOf(formats, desc.attr)]

(* parse_tracing_data: formats are the ones it inserts, those that parse   *)
(* and have the common_type of the first.  Only when it has gone through   *)
(* all systems and events do the descriptions that have been waiting get   *)
(* theirs; data that breaks off before (not whole) leaves them without.    *)
AddFormats(a, formats, whole) ==
    LET known == a.format_by_id \cup formats
    IN [a EXCEPT !.format_by_id = known,
                 !.event_desc_list =
                     IF whole THEN [i \in DOMAIN @ |-> WithFormat(@[i], known)] ELSE @]

-----------------------------------------------------------------------------
ReadU64(data, pos) == data[pos + 1] + UnitRange * data[pos + 2]
ReadU32(data, pos) == data[pos + 1]
Align(n) == U64_SIZE * (n \div U64_SIZE)

Err(e) == [ok |-> FALSE, error |-> e]

(* Where the time of an event is, as read_event_time_order finds it.       *)
EventTime(a, data) ==
    LET type == ReadU32(data, 0)
    IN CASE type = SampleType ->
               IF a.sample_time_offset < U64_SIZE
                  \/ a.sample_time_offset + U64_SIZE > Len(data)
               THEN 0 ELSE ReadU64(data, a.sample_time_offset)
         [] type # SampleType ->
               IF type >= UserTypeStart \/ a.non_sample_time_offset < U64_SIZE
                  \/ a.non_sample_time_offset > Len(data)
               THEN 0 ELSE ReadU64(data, Len(data) - a.non_sample_time_offset)

(* get_sample_event_info: after the id lookup it walks over the event.  A  *)
(* walk is the position, the values found, the ranges of the parts with a  *)
(* length of their own, and the error that ended it.                       *)
StartWalk == [pos |-> PERF_EVENT_HEADER_SIZE, values |-> <<>>, ranges |-> <<>>, error |-> "none"]

SampleFields == <<"Identifier", "IP", "Tid", "Time", "Addr", "Id", "StreamId", "Cpu", "Period">>

Fail(w, e) == [w EXCEPT !.error = e]
Put(f, x, value) == [y \in DOMAIN f \cup {x} |-> IF y = x THEN value ELSE f[y]]

(* The id was read in the lookup: the walk only passes it.                 *)
IdFields == {"Identifier", "Id"}
Found(values, flag, value) == IF flag \in IdFields THEN values ELSE Put(values, flag, value)

TakeWord(data, w, flag) ==
    IF w.pos = Align(Len(data)) THEN Fail(w, "InvalidData")
    ELSE [w EXCEPT !.values = Found(@, flag, ReadU64(data, w.pos)), !.pos = @ + U64_SIZE]

TakeRange(data, w, flag, size) ==
    IF Align(Len(data)) - w.pos < size THEN Fail(w, "InvalidData")
    ELSE [w EXCEPT !.ranges = Put(@, flag, <<w.pos, w.pos + size>>), !.pos = @ + size]

(* A count above the limit of 8191 cannot fit into the event either.       *)
WalkRead(data, formats, w) ==
    LET fixed == Has(formats, "TotalTimeEnabled") + Has(formats, "TotalTimeRunning")
        each == 1 + Has(formats, "Id") + Has(formats, "Lost")
    IN CASE ~(formats \subseteq ReadFormats) -> Fail(w, "NotSupported")
         [] formats \subseteq ReadFormats /\ "Group" \notin formats ->
               TakeRange(data, w, "Read", U64_SIZE * (fixed + each))
         [] OTHER ->
               IF w.pos = Align(Len(data)) THEN Fail(w, "InvalidData")
               ELSE TakeRange(data, w, "Read",
                              U64_SIZE * (1 + fixed + ReadU64(data, w.pos) * each))

WalkCallchain(data, w) ==
    IF w.pos = Align(Len(data)) THEN Fail(w, "InvalidData")
    ELSE TakeRange(data, w, "Callchain", U64_SIZE * (1 + ReadU64(data, w.pos)))

(* The raw part has a u32 size; what follows it starts on a u64 again.     *)
WalkRaw(data, w) ==
    IF w.pos = Align(Len(data))
       \/ ReadU32(data, w.pos) > Align(Len(data)) - w.pos - U32_SIZE
    THEN Fail(w, "InvalidData")
    ELSE LET start == w.pos + U32_SIZE
             size == ReadU32(data, w.pos)
         IN [w EXCEPT !.ranges = Put(@, "Raw", <<start, start + size>>),
                      !.pos = w.pos + Align(U32_SIZE + size + U64_SIZE - 1)]

WalkWord(data, st, w, flag) ==
    IF flag \in st /\ w.error = "none" THEN TakeWord(data, w, flag) ELSE w

WalkWords(data, st) ==
    LET words[k \in 0 .. Len(SampleFields)] ==
            IF k = 0 THEN StartWalk ELSE WalkWord(data, st, words[k - 1], SampleFields[k])
    IN words[Len(SampleFields)]

Walk(data, attr) ==
    LET If(flag, w, next) == IF flag \in attr.sample_type /\ w.error = "none" THEN next ELSE w
        fixed == WalkWords(data, attr.sample_type)
        read == If("Read", fixed, WalkRead(data, attr.read_format, fixed))
        chain == If("Callchain", read, WalkCallchain(data, read))
    IN If("Raw", chain, WalkRaw(data, chain))

(* The answer for a walk that found what it looked for, or its error.      *)
Answer(a, id, w) ==
    IF w.error # "none" THEN Err(w.error)
    ELSE [ok |-> TRUE, id |-> id, desc |-> a.event_desc_id_to_index[id], values |-> w.values, ranges |-> w.ranges]

KnowsId(a, id) == id \in DOMAIN a.event_desc_id_to_index
AttrOf(a, id) == a.event_desc_list[a.event_desc_id_to_index[id]].attr

GetSampleEventInfo(a, data) ==
    LET offset == a.sample_id_offset
        id == ReadU64(data, offset)
    IN CASE offset < U64_SIZE -> Err("NoData")
         [] offset >= U64_SIZE /\ offset + U64_SIZE > Len(data) -> Err("InvalidData")
         [] OTHER -> IF ~KnowsId(a, id) THEN Err("IdNotFound")
                     ELSE Answer(a, id, Walk(data, AttrOf(a, id)))

(* get_non_sample_event_info reads the suffix backwards.  A position below *)
(* zero would be a panic.                                                  *)
SuffixFields == <<"Identifier", "Cpu", "StreamId", "Id", "Time", "Tid">>

TakeWordBack(data, w, flag) ==
    LET pos == w.pos - U64_SIZE
    IN CASE pos < 0 -> Fail(w, "panic")
         [] pos = 0 /\ flag # "Identifier" -> Fail(w, "InvalidData")
         [] OTHER -> [w EXCEPT !.pos = pos, !.values = Found(@, flag, ReadU64(data, pos))]

WalkWordBack(data, st, w, flag) ==
    IF flag \in st /\ w.error = "none" THEN TakeWordBack(data, w, flag) ELSE w

WalkBack(data, attr) ==
    LET words[k \in 0 .. Len(SuffixFields)] ==
            IF k = 0 THEN [StartWalk EXCEPT !.pos = Align(Len(data))]
            ELSE WalkWordBack(data, attr.sample_type, words[k - 1], SuffixFields[k])
    IN words[Len(SuffixFields)]

GetNonSampleEventInfo(a, data) ==
    LET type == ReadU32(data, 0)
        offset == a.non_sample_id_offset
        id == ReadU64(data, Len(data) - offset)
    IN CASE type >= UserTypeStart -> Err("IdNotFound")
         [] type < UserTypeStart /\ offset < U64_SIZE -> Err("NoData")
         [] type < UserTypeStart /\ offset > Len(data) -> Err("InvalidData")
         [] OTHER -> IF ~KnowsId(a, id) THEN Err("IdNotFound")
                     ELSE Answer(a, id, WalkBack(data, AttrOf(a, id)))
=============================================================================
