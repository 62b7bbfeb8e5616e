-------------------------- MODULE PerfDataFileReader --------------------------
(***************************************************************************)
(* PerfDataFileReader of the tracepoint_perf crate: opens a perf.data file *)
(* and hands out its events in the order of the file or, round by round,   *)
(* in the order of time, loading attrs and headers from the file's         *)
(* sections or from header events on the way.                              *)
(*                                                                         *)
(* A file is a record: its mode (normal or pipe), the attrs, headers and   *)
(* events in it, and where opening it fails, if it does.  An event is its  *)
(* data (module ReaderAttrs says of what), the units that follow the event *)
(* itself ("post" data), what a header event carries, and where the last   *)
(* event of a damaged file breaks off.  Sizes are in u32 units.            *)
(*                                                                         *)
(* One call of read_one_event is one step.  Bounds: the reader is opened   *)
(* at most twice, and nobody reads on after an error, since what then      *)
(* follows in a damaged file has no meaning here.                          *)
(***************************************************************************)
EXTENDS ReaderAttrs, FiniteSets

CONSTANTS
    Files,                 \* the files a new reader may open
    ReopenFiles,           \* the files it may open after that
    NORMAL_EVENT_MAX_SIZE  \* size of a buffer

ASSUME BufferAssumption == NORMAL_EVENT_MAX_SIZE \in Nat \ {0}

(* Where an event can break off: nowhere, in its header, in a size that no *)
(* event has, in its data or in what follows it.                           *)
Faults == {"none", "header", "size", "data", "post"}

(* What makes a file of the model: attrs with finitely many ids, and       *)
(* events with at least a header of which each fits into an empty buffer   *)
(* (their size is a u16).                                                  *)
ASSUME FilesAssumption ==
    \A f \in Files \cup ReopenFiles :
        /\ f.attrs # <<>> => IsFiniteSet(Last(f.attrs).ids)
        /\ Len(f.data) \in Nat
        /\ \A i \in 1 .. Len(f.data) :
              /\ f.data[i].data \in Seq(Nat)
              /\ Len(f.data[i].data) \in PERF_EVENT_HEADER_SIZE .. NORMAL_EVENT_MAX_SIZE
              /\ f.data[i].post \in Nat
              /\ f.data[i].fault \in Faults

HeaderAttrType == 64
TracingDataType == 66
BuildIdType == 67
FinishedRoundType == 68
AuxtraceType == 71
HeaderFeatureType == 80
FinishedInitType == 82

HeaderIndexes == {"TracingData", "BuildId", "EventDesc", "ClockData"}

(* A header's content: its size, the attrs of EVENT_DESC, and for tracing  *)
(* data the signature, the formats and whether it is complete.             *)
NoHeader == [size |-> 0, descs |-> <<>>, signature |-> FALSE, formats |-> {}, whole |-> FALSE]

VARIABLES
    file,      \* the open file, or NoFile
    order,     \* event_order
    rd,        \* the rest of DataFileReader: see NewReader
    queue,     \* event_queue
    consumed,  \* event_queue_consumed
    pending,   \* event_queue_pending_result
    current,   \* the caller's EventBytesRef
    pc,        \* "idle" between calls, "filling" and "filled" inside a call
    result,    \* of the last call
    out,       \* history: the events handed out, as positions in the file
    opened     \* how often a file was opened (bound)

vars == <<file, order, rd, queue, consumed, pending, current, pc, result, out, opened>>
queueVars == <<queue, consumed, pending>>

NoFile == [mode |-> "none"]
NoRef == [buffer |-> 1, start |-> 0, end |-> 0]

NewReader ==
    [pos |-> 0, buffers |-> <<<<>>>>, current_buffer |-> 1, attrs |-> NewAttrs,
     headers |-> [h \in HeaderIndexes |-> NoHeader],
     parsed_header_event_desc |-> FALSE, parsed_tracing_data |-> FALSE, kallsyms |-> 0,
     clock |-> 0]

Init ==
    /\ file = NoFile /\ order = "File"
    /\ rd = NewReader
    /\ queue = <<>> /\ consumed = 0 /\ pending = "none"
    /\ current = NoRef
    /\ pc = "idle" /\ result = "none"
    /\ out = <<>> /\ opened = 0

-----------------------------------------------------------------------------
(* Fault: the index of the buffer in use is not reset.                     *)
CloseReaderKeepsBuffer(r) ==
    [NewReader EXCEPT !.buffers = [b \in DOMAIN r.buffers |-> <<>>],
                      !.current_buffer = r.current_buffer]

(* close: the buffers are emptied but stay.                                *)
CloseReader(r) == [NewReader EXCEPT !.buffers = [b \in DOMAIN r.buffers |-> <<>>]]

(* parse_tracing_data.  kallsyms stands for the ranges it notes: they end  *)
(* where the header's content ends.  Data that stops early leaves formats  *)
(* that are known but not given to the descriptions.                       *)
ParseTracingData(r) ==
    LET c == r.headers["TracingData"]
    IN IF ~c.signature THEN r
       ELSE [r EXCEPT !.parsed_tracing_data = TRUE,
                      !.kallsyms = IF c.whole THEN c.size ELSE @,
                      !.attrs = AddFormats(@, c.formats, c.whole)]

AddDescs(a, descs) ==
    FoldLeft(LAMBDA acc, d : AddAttr(acc, d.attr, d.name, d.ids), a, descs)

ParseHeaderEventDesc(r) ==
    IF r.parsed_header_event_desc \/ r.headers["EventDesc"].size < 2 * U32_SIZE THEN r
    ELSE [r EXCEPT !.parsed_header_event_desc = TRUE,
                   !.attrs = AddDescs(@, r.headers["EventDesc"].descs)]

(* parse_header_clock_data, and parse_header_clockid, which is like it.    *)
CLOCK_DATA_SIZE == 2

ParseHeaderClock(r) ==
    IF r.headers["ClockData"].size < CLOCK_DATA_SIZE THEN r
    ELSE [r EXCEPT !.clock = r.headers["ClockData"].size]

SetHeader(r, index, content) == [r EXCEPT !.headers[index] = content]

(* load_attrs reads the ids of each attr into the first buffer.            *)
LoadAttrs(r, f) ==
    [r EXCEPT !.attrs = AddDescs(@, f.attrs),
              !.buffers[1] = IF f.attrs = <<>> THEN <<>>
                             ELSE [i \in 1 .. U64_SIZE * Cardinality(Last(f.attrs).ids) |-> 0]]

ParseLoaded(r, index) ==
    CASE index = "TracingData" -> ParseTracingData(r)
      [] index = "EventDesc" -> ParseHeaderEventDesc(r)
      [] index = "ClockData" -> ParseHeaderClock(r)
      [] OTHER -> r

LoadHeader(r, f, index) ==
    IF index \notin DOMAIN f.headers THEN r
    ELSE ParseLoaded(SetHeader(r, index, f.headers[index]), index)

(* The headers are loaded in the order of their indexes.                   *)
LoadHeaders(r, f) ==
    LET tracing == LoadHeader(r, f, "TracingData")
        build == LoadHeader(tracing, f, "BuildId")
        desc == LoadHeader(build, f, "EventDesc")
    IN LoadHeader(desc, f, "ClockData")

(* open: what it has loaded when it fails stays.                           *)
OpenReader(r, f) ==
    CASE f.open_fault \in {"path", "magic", "section"} -> r
      [] f.open_fault = "attrs" -> LoadAttrs(r, f)
      [] f.open_fault = "headers" -> LoadHeaders(LoadAttrs(r, f), f)
      [] f.open_fault = "none" /\ f.mode = "pipe" -> [r EXCEPT !.pos = 1]
      [] OTHER -> [LoadHeaders(LoadAttrs(r, f), f) EXCEPT !.pos = 1]

(* open_file: close, then open.                                            *)
OpenFile(f, o) ==
    /\ pc = "idle"
    /\ opened' = opened + 1
    /\ order' = IF f.open_fault = "path" THEN "File" ELSE o
    /\ rd' = OpenReader(CloseReader(rd), f)
    /\ file' = IF f.open_fault = "none" THEN f ELSE NoFile
    /\ result' = IF f.open_fault = "none" THEN "opened" ELSE "error"
    /\ queue' = <<>> /\ consumed' = 0 /\ pending' = "none"
    /\ current' = NoRef
    /\ out' = <<>>
    /\ UNCHANGED pc

Open ==
    \/ opened = 0 /\ \E f \in Files, o \in {"File", "Time"} : OpenFile(f, o)
    \/ opened = 1 /\ \E f \in ReopenFiles, o \in {"File", "Time"} : OpenFile(f, o)

Close ==
    /\ pc = "idle"
    /\ file # NoFile
    /\ file' = NoFile /\ order' = "File"
    /\ rd' = CloseReader(rd)
    /\ queue' = <<>> /\ consumed' = 0 /\ pending' = "none"
    /\ current' = NoRef
    /\ result' = "none" /\ out' = <<>>
    /\ UNCHANGED <<pc, opened>>

-----------------------------------------------------------------------------
(* read_one_event.                                                         *)
EventType(e) == e.data[1]
AtEnd(r) == r.pos > Len(file.data)
CurrentBuffer(r) == r.buffers[r.current_buffer]

(* NORMAL_EVENT_MAX_SIZE - len is a subtraction of usize: below zero it    *)
(* wraps to a number no event exceeds.                                     *)
Fits(r, e) ==
    LET free == NORMAL_EVENT_MAX_SIZE - Len(CurrentBuffer(r))
    IN free < 0 \/ Len(e.data) <= free

(* Fault: the next buffer is taken but the old one emptied.                *)
MakeRoomClears(r, e) ==
    IF Fits(r, e) THEN r
    ELSE [r EXCEPT !.buffers[r.current_buffer] = <<>>]

MakeRoom(r, e) ==
    IF Fits(r, e) THEN r
    ELSE [r EXCEPT !.current_buffer = @ + 1,
                   !.buffers = IF r.current_buffer = Len(@) THEN Append(@, <<>>) ELSE @]

AppendUnits(r, units) == [r EXCEPT !.buffers[r.current_buffer] = @ \o units]

PostData(e) == [i \in 1 .. e.post |-> 0]

(* The special cases by type, after the event's data has been read.  An    *)
(* attr event without ids is not taken.                                    *)
HandleType(r, e) ==
    CASE EventType(e) = HeaderAttrType ->
            IF e.ids = {} THEN r ELSE [r EXCEPT !.attrs = AddAttr(@, e.attr, "", e.ids)]
      [] EventType(e) = TracingDataType ->
            IF r.parsed_tracing_data THEN r
            ELSE ParseTracingData(SetHeader(r, "TracingData", e.content))
      [] EventType(e) = BuildIdType -> SetHeader(r, "BuildId", e.content)
      [] EventType(e) = HeaderFeatureType ->
           (CASE e.index \notin DOMAIN r.headers -> r
              [] e.index = "ClockData" -> ParseHeaderClock(SetHeader(r, e.index, e.content))
              [] OTHER -> SetHeader(r, e.index, e.content))
      [] EventType(e) = FinishedInitType ->
            IF r.headers["EventDesc"].size = 0 THEN r ELSE ParseHeaderEventDesc(r)
      [] OTHER -> r

(* The reader, the result and the reference to the event after one call.   *)
Read(r, res, ref) == [r |-> r, result |-> res, ref |-> ref]

ReadWhole(r, e) ==
    LET room == MakeRoom(r, e)
        start == Len(CurrentBuffer(room))
        r1 == AppendUnits(room, e.data \o PostData(e))
        r2 == HandleType([r1 EXCEPT !.pos = @ + 1], e)
    IN Read(r2, "true", [buffer |-> r2.current_buffer, start |-> start,
                         end |-> start + Len(e.data) + e.post])

(* An event that breaks off.  A normal file's data section says so in      *)
(* advance; a pipe-mode file ends: in the header that counts as the end of *)
(* the events, in the data the function returns at once, with the caller's *)
(* reference as it was.                                                    *)
ReadBroken(r, e, ref) ==
    CASE e.fault = "header" ->
            Read(r, IF file.mode = "pipe" THEN "false" ELSE "error", NoRef)
      [] e.fault = "size" -> Read(r, "error", NoRef)
      [] e.fault = "data" ->
            IF file.mode = "pipe"
            THEN Read(AppendUnits(MakeRoom(r, e), SubSeq(e.data, 1, PERF_EVENT_HEADER_SIZE)),
                      "error", ref)
            ELSE Read(r, "error", NoRef)
      [] e.fault = "post" -> Read(AppendUnits(MakeRoom(r, e), e.data), "error", NoRef)

ReadOneEvent(r, ref) ==
    IF AtEnd(r) THEN Read(r, "false", NoRef)
    ELSE LET e == file.data[r.pos]
         IN IF e.fault = "none" THEN ReadWhole(r, e) ELSE ReadBroken(r, e, ref)

-----------------------------------------------------------------------------
(* move_next_event.                                                        *)
MayRead == pc = "idle" /\ file # NoFile /\ result # "error"

HandOut(event) == out' = Append(out, event)

MoveNextNoFile ==
    /\ pc = "idle" /\ file = NoFile
    /\ result' = "error"
    /\ UNCHANGED <<file, order, rd, queueVars, current, pc, out, opened>>

(* read_event_file_order: one event at a time in the first buffer.         *)
MoveNextFileOrder ==
    /\ MayRead /\ order = "File"
    /\ LET read == ReadOneEvent([rd EXCEPT !.buffers[1] = <<>>], current)
       IN /\ rd' = read.r
          /\ result' = read.result
          /\ current' = read.ref
          /\ IF read.result = "true" THEN HandOut(rd.pos) ELSE UNCHANGED out
    /\ UNCHANGED <<file, order, queueVars, pc, opened>>

(* read_event_time_order: the top of the loop hands out what is queued,    *)
(* then the result that ended the queue, or else starts a round.           *)
AtTop == order = "Time" /\ (MayRead \/ pc = "filled")

TakeQueued ==
    /\ AtTop /\ consumed < Len(queue)
    /\ consumed' = consumed + 1
    /\ current' = queue[consumed + 1].ref
    /\ HandOut(queue[consumed + 1].event)
    /\ result' = "true" /\ pc' = "idle"
    /\ UNCHANGED <<file, order, rd, queue, pending, opened>>

TakePending ==
    /\ AtTop /\ consumed = Len(queue) /\ pending # "none"
    /\ current' = NoRef
    /\ result' = pending /\ pending' = "none"
    /\ pc' = "idle"
    /\ UNCHANGED <<file, order, rd, queue, consumed, out, opened>>

StartRound ==
    /\ AtTop /\ consumed = Len(queue) /\ pending = "none"
    /\ queue' = <<>> /\ consumed' = 0
    /\ pc' = "filling"
    /\ UNCHANGED <<file, order, rd, pending, current, result, out, opened>>

EndsRound(e) == EventType(e) \in {FinishedRoundType, FinishedInitType}

MaxTime == UnitRange * UnitRange

NewEntry(read) ==
    LET e == file.data[rd.pos]
    IN [time |-> IF EndsRound(e) THEN MaxTime
                 ELSE EventTime(read.r.attrs, e.data \o PostData(e)),
        round_sequence |-> Len(queue), ref |-> read.ref, event |-> rd.pos]

(* The order of QueueEntry.                                                *)
EntryBefore(a, b) ==
    a.time < b.time \/ (a.time = b.time /\ a.round_sequence < b.round_sequence)

SortQueue(q) ==
    /\ \E f \in Bijection(DOMAIN q, DOMAIN q) : queue' = [i \in DOMAIN q |-> q[f[i]]]
    /\ \A i, j \in DOMAIN q : i < j => EntryBefore(queue'[i], queue'[j])

(* Fault: the result that ended the reading is dropped.                    *)
RoundBreaksForgets(read) ==
    /\ read.result # "true"
    /\ SortQueue(queue)
    /\ pc' = "filled"
    /\ UNCHANGED pending

(* Fault: the events of a round that was not finished are dropped.         *)
RoundBreaksDrops(read) ==
    /\ read.result # "true"
    /\ pending' = read.result
    /\ queue' = <<>>
    /\ pc' = "filled"

RoundBreaks(read) ==
    /\ read.result # "true"
    /\ pending' = read.result
    /\ SortQueue(queue)
    /\ pc' = "filled"

RoundGoesOn(read) ==
    /\ read.result = "true" /\ ~EndsRound(file.data[rd.pos])
    /\ queue' = Append(queue, NewEntry(read))
    /\ UNCHANGED <<pc, pending>>

RoundEnds(read) ==
    /\ read.result = "true" /\ EndsRound(file.data[rd.pos])
    /\ SortQueue(Append(queue, NewEntry(read)))
    /\ pc' = "filled"
    /\ UNCHANGED pending

FillQueue ==
    /\ pc = "filling"
    /\ LET read == ReadOneEvent(rd, NoRef)
       IN /\ rd' = read.r
          /\ RoundBreaks(read) \/ RoundGoesOn(read) \/ RoundEnds(read)
    /\ UNCHANGED <<file, order, consumed, current, result, out, opened>>

MoveNext == MoveNextNoFile \/ MoveNextFileOrder \/ TakeQueued \/ TakePending \/ StartRound

Next == Open \/ Close \/ MoveNext \/ FillQueue

(* A call that has begun runs on; nobody has to call.                      *)
Spec ==
    /\ Init /\ [][Next]_vars
    /\ WF_vars(FillQueue \/ (pc = "filled" /\ MoveNext))

-----------------------------------------------------------------------------
(* What a file holds, without the machinery: the events that are complete, *)
(* the round each belongs to, and the time it counts with.                 *)
Complete == {i \in DOMAIN file.data : file.data[i].fault = "none"}

Round(i) == Cardinality({j \in 1 .. i - 1 : EndsRound(file.data[j])})

(* Attrs are known from the start, from an earlier attr event, or from an  *)
(* EVENT_DESC feature once FINISHED_INIT has come.                         *)
LearnedAttr(i) ==
    \/ file.attrs # <<>>
    \/ \E j \in 1 .. i - 1, k \in 1 .. i - 1 :
          /\ j < k /\ EventType(file.data[k]) = FinishedInitType
          /\ EventType(file.data[j]) = HeaderFeatureType /\ file.data[j].index = "EventDesc"
    \/ \E j \in 1 .. i - 1 : EventType(file.data[j]) = HeaderAttrType /\ file.data[j].ids # {}

TimeKey(i) ==
    CASE EndsRound(file.data[i]) -> MaxTime
      [] ~EndsRound(file.data[i]) /\ LearnedAttr(i) -> file.data[i].time
      [] OTHER -> 0

(* "The file is split into rounds ... Within each round, events are        *)
(* stable-sorted by the event's timestamp."                                *)
Precedes(i, j) ==
    \/ Round(i) < Round(j)
    \/ Round(i) = Round(j) /\ TimeKey(i) < TimeKey(j)
    \/ Round(i) = Round(j) /\ TimeKey(i) = TimeKey(j) /\ i < j

InFileOrder == [i \in 1 .. Cardinality(Complete) |-> i]
Promised == IF order = "File" THEN InFileOrder ELSE SortSeq(InFileOrder, Precedes)

BreaksOff == \E i \in DOMAIN file.data : file.data[i].fault # "none"
BreaksInHeader == \E i \in DOMAIN file.data : file.data[i].fault = "header"

(* Events come in the promised order, whatever the split into rounds and   *)
(* buffers, and none is handed out twice.  The end of the file or an error *)
(* is reported only after every complete event before it; damage is        *)
(* reported as an error, except a pipe-mode file's end inside an event's   *)
(* header.                                                                 *)
EventsInOrder ==
    file # NoFile =>
        /\ IsPrefix(out, Promised)
        /\ result \in {"false", "error"} /\ pc = "idle" =>
              /\ out = Promised
              /\ result = "error" <=> BreaksOff /\ ~(file.mode = "pipe" /\ BreaksInHeader)

InBuffer(ref) == ref.end <= Len(rd.buffers[ref.buffer])
BytesOf(ref) == SubSeq(rd.buffers[ref.buffer], ref.start + 1, ref.end)
EventBytes(i) == file.data[i].data \o PostData(file.data[i])

(* The current event and those still queued are found unchanged in their   *)
(* buffers, however many events and buffers came after them.               *)
EventBytesIntact ==
    file # NoFile =>
        /\ result = "true" => InBuffer(current) /\ BytesOf(current) = EventBytes(Last(out))
        /\ \A k \in consumed + 1 .. Len(queue) :
              InBuffer(queue[k].ref) /\ BytesOf(queue[k].ref) = EventBytes(queue[k].event)

(* "Close the current file, if any": after open_file a used reader is like *)
(* a new one, whatever was read, queued or half loaded before.             *)
ReopenIsFresh ==
    result = "opened" /\ pc = "idle" =>
        LET fresh == OpenReader(NewReader, file)
        IN /\ [rd EXCEPT !.buffers = fresh.buffers] = fresh
           /\ \A b \in DOMAIN rd.buffers :
                 rd.buffers[b] = IF b = 1 THEN fresh.buffers[1] ELSE <<>>
           /\ queue = <<>> /\ consumed = 0 /\ pending = "none" /\ current = NoRef

(* A call of move_next_event returns: a round ends at the latest with the  *)
(* file, and then there is something to hand out or a result to report.    *)
MoveNextReturns == pc # "idle" ~> pc = "idle"

=============================================================================
