---------------------------- MODULE PerfEventInfo ----------------------------
(***************************************************************************)
(* The part of PerfDataFileReader that learns attrs, ids and formats from  *)
(* a file, in whatever order they come, and answers get_sample_event_info  *)
(* and get_non_sample_event_info.  The kernel is the other party: it wrote *)
(* the events, each with the layout its attr asks for.                     *)
(***************************************************************************)
EXTENDS ReaderAttrs

CONSTANTS
    Traces,    \* functions from ids to attrs: what was recorded
    Formats,   \* ids of formats that tracing data may list
    Names,     \* names an attr may come with
    MaxDescs,  \* bound on the number of descriptions
    ReadCount  \* the count in the samples' "Read" and "Callchain" parts

ASSUME CountsAssumption == MaxDescs \in Nat /\ ReadCount \in Nat
ASSUME IdsAssumption == \A t \in Traces : DOMAIN t \subseteq Nat

VARIABLES
    trace,   \* the attr each id of the file was recorded with
    attrs,   \* the reader's ReaderAttrs
    parsed_tracing_data,
    waiting, \* history: how many descriptions there were when tracing data broke off
    query,   \* the event last asked about: its id, its data, how much of it is there
    info     \* the answer

vars == <<trace, attrs, parsed_tracing_data, waiting, query, info>>
parsing == <<parsed_tracing_data, waiting>>

NoQuery == [kind |-> "none"]
Ids == DOMAIN trace

-----------------------------------------------------------------------------
(* The kernel's side: values are told apart by the field they belong to.   *)
FieldValue(id) ==
    [Identifier |-> id, IP |-> 11, Tid |-> 12 + UnitRange * 13, Time |-> 14, Addr |-> 15,
     Id |-> id, StreamId |-> 16, Cpu |-> 17 + UnitRange * 18, Period |-> 19]

Word(n) == <<n % UnitRange, n \div UnitRange>>

Words(fields, st, id) ==
    FlattenSeq([i \in DOMAIN fields |->
        IF fields[i] \in st THEN Word(FieldValue(id)[fields[i]]) ELSE <<>>])

Zeros(n) == [i \in 1 .. n |-> 0]

ReadPart(formats) ==
    LET fixed == Has(formats, "TotalTimeEnabled") + Has(formats, "TotalTimeRunning")
        each == 1 + Has(formats, "Id") + Has(formats, "Lost")
    IN IF "Group" \in formats
       THEN Word(ReadCount) \o Zeros(U64_SIZE * (fixed + ReadCount * each))
       ELSE Zeros(U64_SIZE * (fixed + each))

CallchainPart == Word(ReadCount) \o Zeros(U64_SIZE * ReadCount)

(* A raw part of two units after its size, padded to a u64.                *)
RawPart == <<2>> \o Zeros(3)

PartsAfter(attr) ==
    (IF "Read" \in attr.sample_type THEN ReadPart(attr.read_format) ELSE <<>>)
    \o (IF "Callchain" \in attr.sample_type THEN CallchainPart ELSE <<>>)
    \o (IF "Raw" \in attr.sample_type THEN RawPart ELSE <<>>)

WithHeader(type, body) == <<type, Len(body) + 2>> \o body

KernelSample(id) ==
    WithHeader(SampleType, Words(SampleFields, trace[id].sample_type, id) \o PartsAfter(trace[id]))

(* Other kernel events: n units of their own, then the suffix.             *)
KernelEvent(id, n) ==
    WithHeader(1, Zeros(n) \o IF trace[id].sample_id_all
                              THEN Words(Reverse(SuffixFields), trace[id].sample_type, id)
                              ELSE <<>>)

-----------------------------------------------------------------------------
Init ==
    /\ trace \in Traces
    /\ attrs = NewAttrs
    /\ parsed_tracing_data = FALSE /\ waiting = 0
    /\ query = NoQuery
    /\ info = Err("NoData")

(* load_attrs, HEADER_ATTR and HEADER_EVENT_DESC all end in add_attr: a    *)
(* set of ids that were recorded with the same attr.                       *)
AddDesc(ids, name) ==
    /\ Len(attrs.event_desc_list) < MaxDescs
    /\ \E attr \in {trace[id] : id \in Ids} :
          /\ \A id \in ids : trace[id] = attr
          /\ attrs' = AddAttr(attrs, attr, name, ids)
    /\ query' = NoQuery /\ info' = Err("NoData")
    /\ UNCHANGED <<trace, parsing>>

(* Tracing data from the headers or from an event, which is only looked at *)
(* when none was parsed before.                                            *)
ParseTracingData(formats, whole) ==
    /\ ~parsed_tracing_data
    /\ parsed_tracing_data' = TRUE
    /\ attrs' = AddFormats(attrs, formats, whole)
    /\ waiting' = IF whole THEN 0 ELSE Len(attrs.event_desc_list)
    /\ query' = NoQuery /\ info' = Err("NoData")
    /\ UNCHANGED trace

(* An answer changes nothing, so one question between two changes will do. *)
Ask(kind, id, event, n) ==
    /\ query = NoQuery
    /\ query' = [kind |-> kind, id |-> id, complete |-> n = Len(event), data |-> SubSeq(event, 1, n)]

(* A caller asks about a sample, perhaps cut short.                        *)
AskSample(id) ==
    \E n \in 2 .. Len(KernelSample(id)) :
        /\ Ask("sample", id, KernelSample(id), n)
        /\ info' = GetSampleEventInfo(attrs, SubSeq(KernelSample(id), 1, n))
        /\ UNCHANGED <<trace, attrs, parsing>>

AskNonSample(id) ==
    \E n \in {0, 2} :
        /\ Ask("other", id, KernelEvent(id, n), Len(KernelEvent(id, n)))
        /\ info' = GetNonSampleEventInfo(attrs, KernelEvent(id, n))
        /\ UNCHANGED <<trace, attrs, parsing>>

Next ==
    \/ \E ids \in SUBSET Ids, name \in Names : AddDesc(ids, name)
    \/ \E formats \in SUBSET Formats, whole \in BOOLEAN : ParseTracingData(formats, whole)
    \/ \E id \in Ids : AskSample(id) \/ AskNonSample(id)

Spec == Init /\ [][Next]_vars

-----------------------------------------------------------------------------
(* Every description was recorded with the layout the reader's offsets     *)
(* describe, so the id can be read before the description is known; an     *)
(* attr with another layout never gets in, in whatever order they come.    *)
OffsetsAgree ==
    \A i \in DOMAIN attrs.event_desc_list :
        LET attr == attrs.event_desc_list[i].attr
        IN /\ attrs.sample_id_offset = SampleIdOffset(attr)
           /\ attrs.non_sample_id_offset = NonSampleIdOffset(attr)
           /\ attrs.sample_time_offset = SampleTimeOffset(attr)
           /\ attrs.non_sample_time_offset = NonSampleTimeOffset(attr)

(* An id leads to the last description that lists it, as event_desc_by_id  *)
(* needs for the name of HEADER_EVENT_DESC to win over the nameless attr.  *)
LastDescWins ==
    LET descs == attrs.event_desc_list
        map == attrs.event_desc_id_to_index
    IN /\ \A i \in DOMAIN descs : descs[i].ids \subseteq DOMAIN map
       /\ \A id \in DOMAIN map :
             /\ map[id] \in DOMAIN descs /\ id \in descs[map[id]].ids
             /\ \A i \in DOMAIN descs : id \in descs[i].ids => i <= map[id]

(* A tracepoint has its format as soon as both are known, whether the attr *)
(* or the tracing data came first; except that tracing data that breaks    *)
(* off, though its formats are kept, leaves the descriptions that were     *)
(* there before it without one for good.                                   *)
FormatsAttached ==
    \A i \in DOMAIN attrs.event_desc_list :
        attrs.event_desc_list[i].format =
            IF i <= waiting THEN NoFormat
            ELSE FormatOf(attrs.format_by_id, attrs.event_desc_list[i].attr)

Expected(fields) ==
    LET st == trace[query.id].sample_type
    IN [f \in (st \cap ToSet(fields)) \ IdFields |-> FieldValue(query.id)[f]]

KnownId == KnowsId(attrs, query.id)

CanRead ==
    LET attr == trace[query.id]
    IN "Read" \in attr.sample_type => attr.read_format \subseteq ReadFormats

(* The places of the parts that come after the words of a sample.          *)
ExpectedRanges ==
    LET st == trace[query.id].sample_type
        first == PERF_EVENT_HEADER_SIZE + Len(Words(SampleFields, st, query.id))
        chain == first + IF "Read" \in st THEN Len(ReadPart(trace[query.id].read_format)) ELSE 0
        raw == chain + IF "Callchain" \in st THEN Len(CallchainPart) ELSE 0
    IN [f \in st \cap {"Read", "Callchain", "Raw"} |->
          CASE f = "Read" -> <<first, chain>>
            [] f = "Callchain" -> <<chain, raw>>
            [] f = "Raw" -> <<raw + U32_SIZE, raw + U32_SIZE + 2>>]

(* get_sample_event_info finds exactly what the kernel wrote, and answers  *)
(* for a complete sample of a known id; a sample that was cut short is an  *)
(* error and never yields values that are not in it.                       *)
SampleInfoIsKernels ==
    query.kind = "sample" =>
        /\ info.ok => /\ info.id = query.id
                      /\ info.values = Expected(SampleFields)
                      /\ info.ranges = ExpectedRanges
                      /\ \A f \in DOMAIN info.ranges : info.ranges[f][2] <= Len(query.data)
        /\ query.complete => (info.ok <=> KnownId /\ CanRead /\ attrs.sample_id_offset >= U64_SIZE)

(* get_non_sample_event_info reads the suffix the kernel appended.         *)
NonSampleInfoIsKernels ==
    query.kind = "other" =>
        /\ info.ok => info.id = query.id /\ info.values = Expected(SuffixFields)
        /\ info.ok <=> KnownId /\ attrs.non_sample_id_offset >= U64_SIZE

(* The time events are sorted by is the time they carry, for every layout. *)
SortTimeIsEventTime ==
    query.kind # "none" /\ query.complete /\ KnownId =>
        LET timed == /\ "Time" \in trace[query.id].sample_type
                     /\ query.kind = "sample" \/ trace[query.id].sample_id_all
        IN EventTime(attrs, query.data) = IF timed THEN FieldValue(query.id).Time ELSE 0

(* What the reader says of an event - its id, its values, where its        *)
(* variable parts lie, the time it is sorted by - is what the kernel put   *)
(* in it, for every layout and every place an event may be cut.            *)
InfoIsKernels == SampleInfoIsKernels /\ NonSampleInfoIsKernels /\ SortTimeIsEventTime
=============================================================================
