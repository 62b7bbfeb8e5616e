------------------------- MODULE PerfDataFileWriter -------------------------
(***************************************************************************)
(* PerfDataFileWriter of the tracepoint_perf crate (release build) and the *)
(* OutputFile under it, writing the layout that PerfFileLayout reads.      *)
(*                                                                         *)
(* disk is what another process would find in the file at this moment:     *)
(* every state is also the state after a crash of the writer.  A failing   *)
(* write_all leaves a proper prefix on the disk, maybe an empty one, and   *)
(* moves the kernel's position, but not the writer's own (inner_pos).  The *)
(* rewrite of the file header, 104 bytes in one page, is not torn.         *)
(***************************************************************************)
EXTENDS PerfFileLayout, PerfSessionInfo, SequencesExt

CONSTANTS
    Payloads,      \* contents given to set_header: sequences of units
    Strings,       \* string values: sequences of characters, 0 is NUL
    Names,         \* event names: sequences of characters
    IsWide(_),     \* a character that takes two bytes in UTF-8
    Attrs,         \* attr values
    IdLists,       \* lists of sample ids
    Formats,       \* formats: [id, system, common], common as in ParseSystem
    Sessions,      \* sessions given to set_session_info_headers
    Blobs,         \* values of the tracing data sections; 0 is empty
    NAME_MAX_SIZE, SAMPLE_IDS_MAX_SIZE,
    MaxCalls       \* files created, other calls of the API and failing I/O calls

(* A unit has a kind and numbers; "raw" is what only the caller knows.     *)
Kinds == {"zero", "header", "section", "attr", "id", "event", "word", "u64", "string", "name",
          "format", "signature", "sizes", "blob", "clockid", "clock_data", "raw"}
Units == [k : Kinds, v : Seq(Int)]

(* What the types of the arguments give, and the limit on names in bytes,  *)
(* 64 * 1024 on both sides.                                                *)
ASSUME WriterAssumption ==
    /\ Payloads \subseteq Seq(Units)
    /\ Strings \subseteq Seq(Int) /\ Names \subseteq Seq(Int)
    /\ Attrs \subseteq Int /\ IdLists \subseteq Seq(Int) /\ Blobs \subseteq Int
    /\ Formats \subseteq [id : Int, system : Int, common : Int]
    /\ Sessions \subseteq [seconds : Int, nanoseconds : Int, clock_id : Int, known : BOOLEAN]
    /\ NAME_MAX_SIZE \in Nat /\ NAME_MAX_SIZE % 8 = 0 /\ STRING_LIMIT = NAME_MAX_SIZE
    /\ IDS_LIMIT \in Nat
    /\ MaxCalls \in Nat

VARIABLES
    disk,          \* units of the file
    fpos,          \* position of the file descriptor
    file,          \* Closed, or inner_pos of the OutputFile
    w,             \* the DataFileWriter
    pc,            \* where finalize_and_close is
    fin,           \* its locals: sections, flags, chunks left to write; units written
    calls,         \* spent of MaxCalls
    events,        \* history: units that count as event data, see Leave
    given,         \* history: <<w>> as finalize_and_close last found it, or <<>>
    damaged,       \* history: a write was torn, or the rewrite of the header failed
    done           \* history: finalize_and_close returned Ok for this file

vars == <<disk, fpos, file, w, pc, fin, calls, events, given, damaged, done>>

Closed == -1           \* no file
DefaultBlob == 9       \* DEFAULT_HEADER_PAGE and DEFAULT_HEADER_EVENT
OutOfRange == LastFeature

-----------------------------------------------------------------------------
(* DataFileWriter::new, and what close resets it to.                       *)
NewWriter ==
    [descs |-> <<>>, formats |-> {}, headers |-> [i \in HeaderIndexes |-> <<>>],
     header_page |-> 0, header_event |-> 0, ftraces |-> <<>>,
     kallsyms |-> 0, printk |-> 0, cmd_line |-> 0, long_size |-> 0, page_size |-> 0]

NoFin == [data_end |-> 0, flags |-> <<>>, end |-> 0, attrs |-> <<0, 0>>,
          todo |-> <<>>, written |-> <<>>]

ZeroHeader == Unit("zero", <<>>)
DATA_START_POS == 1

Init ==
    /\ disk = <<>> /\ fpos = 0 /\ file = Closed /\ w = NewWriter
    /\ pc = "idle" /\ fin = NoFin
    /\ calls = 0
    /\ events = <<>> /\ given = <<>> /\ damaged = FALSE /\ done = FALSE

history == <<events, given, damaged, done>>

Spend(n) == calls + n <= MaxCalls /\ calls' = calls + n

Put(d, at, units) ==
    [i \in 1 .. IF at + Len(units) > Len(d) THEN at + Len(units) ELSE Len(d) |->
        IF i > at /\ i <= at + Len(units) THEN units[i - at] ELSE d[i]]

(* Fault: inner_pos advances by one for any write.                         *)
WriteAllCountsOne(units) ==
    /\ disk' = Put(disk, fpos, units)
    /\ fpos' = fpos + Len(units)
    /\ file' = file + 1

(* write_all and write_struct that succeed.                                *)
WriteAll(units) ==
    /\ disk' = Put(disk, fpos, units)
    /\ fpos' = fpos + Len(units)
    /\ file' = file + Len(units)

(* write_all that fails: a prefix is in the file, inner_pos stays.         *)
WriteAllFails(units) ==
    /\ \E n \in 0 .. Len(units) - 1 :
          /\ disk' = Put(disk, fpos, SubSeq(units, 1, n)) /\ fpos' = fpos + n
          /\ damaged' = (damaged \/ n > 0)
    /\ UNCHANGED file

-----------------------------------------------------------------------------
(* create_file: closes, opens and truncates the file and writes an empty   *)
(* header; the writer has a file only if both went well.  An open that     *)
(* fails leaves what was there.                                            *)

(* Fault: the file is opened without truncate(true).                       *)
OpenKeepsContent == disk

OpenTruncated == <<>>

Created ==
    /\ events' = <<>> /\ given' = <<>> /\ damaged' = FALSE /\ done' = FALSE
    /\ \/ /\ disk' = Put(OpenTruncated, 0, <<ZeroHeader>>) /\ fpos' = 1 /\ file' = 1
          /\ Spend(1)
       \/ disk' = OpenTruncated /\ fpos' = 0 /\ file' = Closed /\ Spend(2)

NotOpened == file' = Closed /\ Spend(2) /\ UNCHANGED <<disk, fpos, history>>

CreateFile ==
    /\ pc = "idle"
    /\ w' = NewWriter
    /\ Created \/ NotOpened
    /\ UNCHANGED <<pc, fin>>

(* close_no_finalize; without a file it still forgets what was set.        *)
CloseNoFinalize ==
    /\ pc = "idle"
    /\ file' = Closed /\ w' = NewWriter
    /\ UNCHANGED <<disk, fpos, pc, fin, calls, history>>

-----------------------------------------------------------------------------
(* write_event_data, write_event_data_vectored, write_finished_init and    *)
(* write_finished_round.  A vectored write may accept a part and say so.   *)
Event(n) == Unit("event", <<n>>)
FinishedInit == Unit("event", <<100>>)
FinishedRound == Unit("event", <<101>>)

NewEvents(n) == [i \in 1 .. n |-> Event(Len(events) + i)]

WriteEvents(units) ==
    /\ pc = "idle" /\ file # Closed
    /\ \/ WriteAll(units) /\ events' = events \o units /\ Spend(1) /\ UNCHANGED damaged
       \/ WriteAllFails(units) /\ Spend(2) /\ UNCHANGED events
    /\ UNCHANGED <<w, pc, fin, given, done>>

WriteEventData == \E n \in 1 .. 2 : WriteEvents(NewEvents(n))

WriteEventDataVectored ==
    /\ pc = "idle" /\ file # Closed /\ Spend(1)
    /\ \E n \in 0 .. 2 : WriteAll(NewEvents(n)) /\ events' = events \o NewEvents(n)
    /\ UNCHANGED <<w, pc, fin, given, damaged, done>>

WriteFinishedInit == WriteEvents(<<FinishedInit>>)
WriteFinishedRound == WriteEvents(<<FinishedRound>>)

-----------------------------------------------------------------------------
(* The setters: none of them touches the file.                             *)
Setter(new) ==
    /\ pc = "idle" /\ Spend(1)
    /\ w' = new
    /\ UNCHANGED <<disk, fpos, file, pc, fin, history>>

CutAtNul(s) == IF \E i \in DOMAIN s : s[i] = 0
               THEN SubSeq(s, 1, Min({i \in DOMAIN s : s[i] = 0}) - 1)
               ELSE s

(* get_header_vec gives None past the end: the call returns false.         *)
WithHeader(x, index, content) ==
    IF index \in HeaderIndexes THEN [x EXCEPT !.headers[index] = content] ELSE x

StringContent(s) == <<Unit("string", <<Len(CutAtNul(s)) + 1>> \o CutAtNul(s))>>

SetHeader ==
    \E index \in {TracingData, EventDesc, NrCpus, OutOfRange}, data \in Payloads :
        Setter(WithHeader(w, index, data))

SetStringHeader ==
    \E index \in {Hostname, OutOfRange}, s \in Strings :
        Setter(WithHeader(w, index, StringContent(s)))

SetNrCpusHeader == Setter(WithHeader(w, NrCpus, <<Unit("word", <<2>>), Unit("word", <<1>>)>>))
SetSampleTimeHeader == Setter(WithHeader(w, SampleTime, <<Unit("u64", <<1>>), Unit("u64", <<3>>)>>))
SetClockidHeader == Setter(WithHeader(w, ClockId, ClockIdContent(1)))
SetClockDataHeader == Setter(WithHeader(w, ClockDataIndex, ClockDataContent(1, 2, 1)))

SetSessionInfoHeaders ==
    \E s \in Sessions :
        Setter(WithHeader(WithHeader(w, ClockId, SessionClockId(s)),
                          ClockDataIndex, SessionClockData(s)))

SetUtsnameHeaders ==
    \E hostname, arch \in Strings :
        Setter(WithHeader(WithHeader(WithHeader(w, Hostname, StringContent(hostname)),
                                     OSRelease, StringContent(<<1>>)),
                          Arch, StringContent(arch)))

SetTracingDataRequired ==
    \E page \in {0, 8} : Setter([w EXCEPT !.long_size = 8, !.page_size = page])
SetTracingDataHeaderPage == \E b \in Blobs : Setter([w EXCEPT !.header_page = b])
SetTracingDataHeaderEvent == \E b \in Blobs : Setter([w EXCEPT !.header_event = b])
SetTracingDataKallsyms == \E b \in Blobs : Setter([w EXCEPT !.kallsyms = b])
SetTracingDataPrintk == \E b \in Blobs : Setter([w EXCEPT !.printk = b])
SetTracingDataSavedCmdLine == \E b \in Blobs : Setter([w EXCEPT !.cmd_line = b])
SetTracingDataClearFtraces == Setter([w EXCEPT !.ftraces = <<>>])
SetTracingDataAddFtrace == \E b \in Blobs : Setter([w EXCEPT !.ftraces = Append(@, b)])

WithDesc(x, ids, attr, name) ==
    [x EXCEPT !.descs = Append(@, [attr |-> attr, name |-> CutAtNul(name), ids |-> ids])]

(* name.len() counts bytes of UTF-8, those after a NUL too.                *)
Utf8Len(name) == Len(name) + Cardinality({i \in DOMAIN name : IsWide(name[i])})

DescAccepted(ids, name) == Utf8Len(name) < NAME_MAX_SIZE /\ Len(ids) < SAMPLE_IDS_MAX_SIZE

AddEventDesc ==
    \E ids \in IdLists, attr \in Attrs, name \in Names :
        Setter(IF DescAccepted(ids, name) THEN WithDesc(w, ids, attr, name) ELSE w)

HasTracepointEventDesc(common_type) == \E f \in w.formats : f.id = common_type

AddTracepointEventDesc ==
    \E f \in Formats, ids \in IdLists, attr \in Attrs, name \in Names :
        Setter(IF DescAccepted(ids, name) /\ ~ HasTracepointEventDesc(f.id)
               THEN [WithDesc(w, ids, attr, name) EXCEPT !.formats = @ \cup {f}]
               ELSE w)

Setters ==
    \/ SetHeader \/ SetStringHeader \/ SetNrCpusHeader \/ SetSampleTimeHeader
    \/ SetClockidHeader \/ SetClockDataHeader \/ SetSessionInfoHeaders \/ SetUtsnameHeaders
    \/ SetTracingDataRequired \/ SetTracingDataHeaderPage \/ SetTracingDataHeaderEvent
    \/ SetTracingDataKallsyms \/ SetTracingDataPrintk \/ SetTracingDataSavedCmdLine
    \/ SetTracingDataClearFtraces \/ SetTracingDataAddFtrace
    \/ AddEventDesc \/ AddTracepointEventDesc

-----------------------------------------------------------------------------
(* A finite set of numbers in ascending order: x comes after as many as    *)
(* are less than x.  It is the order in which the code goes over its maps  *)
(* and over the headers.                                                   *)
Ascending(S) ==
    [n \in 1 .. Cardinality(S) |-> CHOOSE x \in S : Cardinality({y \in S : y < x}) = n - 1]

(* synthesize_tracing_data: the formats grouped by system, in the order of *)
(* their common types.                                                     *)
SystemsOf(formats) == Ascending({f.system : f \in formats})
OfSystem(formats, system) == Ascending({f.id : f \in {g \in formats : g.system = system}})
CommonOf(formats, id) == (CHOOSE f \in formats : f.id = id).common

SystemContent(formats, system) ==
    LET ids == OfSystem(formats, system)
    IN <<Unit("name", <<system>>), Word(Len(ids))>>
          \o [i \in DOMAIN ids |-> Unit("format", <<ids[i], CommonOf(formats, ids[i])>>)]

OrDefault(blob) == IF blob = 0 THEN DefaultBlob ELSE blob

TracingContent(x) ==
    <<Unit("signature", <<>>), Unit("sizes", <<x.long_size, x.page_size>>),
      Unit("blob", <<OrDefault(x.header_page)>>), Unit("blob", <<OrDefault(x.header_event)>>),
      Word(Len(x.ftraces))>>
        \o [i \in DOMAIN x.ftraces |-> Unit("blob", <<x.ftraces[i]>>)]
        \o <<Word(Len(SystemsOf(x.formats)))>>
        \o FlattenSeq([i \in DOMAIN SystemsOf(x.formats) |->
               SystemContent(x.formats, SystemsOf(x.formats)[i])])
        \o <<Unit("blob", <<x.kallsyms>>), Unit("blob", <<x.printk>>), Unit("blob", <<x.cmd_line>>)>>

SynthesizeTracingData(x) ==
    IF x.long_size = 0 \/ x.page_size = 0 THEN x
    ELSE [x EXCEPT !.headers[TracingData] = TracingContent(x)]

IdUnits(desc) == [i \in DOMAIN desc.ids |-> Unit("id", <<desc.ids[i]>>)]

DescContent(desc) ==
    <<Unit("attr", <<desc.attr>>), Word(Len(desc.ids)), Unit("name", desc.name)>> \o IdUnits(desc)

(* synthesize_event_desc: it slices the Latin-1 form of a name, one byte   *)
(* per character, by the length of its UTF-8 form.                         *)
SliceFits(desc) == \A i \in DOMAIN desc.name : ~IsWide(desc.name[i])

SynthesizeEventDesc(x) ==
    [x EXCEPT !.headers[EventDesc] =
        <<Word(Len(x.descs))>> \o FlattenSeq([i \in DOMAIN x.descs |-> DescContent(x.descs[i])])]

-----------------------------------------------------------------------------
(* write_headers: a section for each header that is set, then the contents.*)
SetIndexes(x) == Ascending({i \in HeaderIndexes : x.headers[i] # <<>>})

FirstHeaderOffset(x, pos) == pos + Len(SetIndexes(x))

SizesBefore(sizes, n) ==
    LET sum[k \in 1 .. n] == IF k = 1 THEN 0 ELSE sum[k - 1] + sizes[k - 1]
    IN sum[n]

HeaderChunks(x, pos) ==
    LET set == SetIndexes(x)
        sizes == [n \in DOMAIN set |-> Len(x.headers[set[n]])]
    IN [n \in DOMAIN set |->
           <<Unit("section", <<FirstHeaderOffset(x, pos) + SizesBefore(sizes, n), sizes[n]>>)>>]
       \o [n \in DOMAIN set |-> x.headers[set[n]]]

Flags(x) == [i \in 1 .. LastFeature |-> IF x.headers[i - 1] # <<>> THEN 1 ELSE 0]

ChunkUnits(chunks) == SizesBefore([n \in DOMAIN chunks |-> Len(chunks[n])], Len(chunks) + 1)

(* write_attrs: an attr and the section of its ids each, then the ids.     *)
AttrChunks(x, pos) ==
    LET sizes == [n \in DOMAIN x.descs |-> Len(x.descs[n].ids)]
        ids == pos + ENTRY_SIZE * Len(x.descs)
        section(n) == <<ids + SizesBefore(sizes, n), sizes[n]>>
    IN [k \in 1 .. ENTRY_SIZE * Len(x.descs) |->
           IF k % 2 = 1 THEN <<Unit("attr", <<x.descs[(k + 1) \div 2].attr>>)>>
           ELSE <<Unit("section", section(k \div 2))>>]
       \o [n \in DOMAIN x.descs |-> IdUnits(x.descs[n])]

-----------------------------------------------------------------------------
(* finalize_and_close, one action for each call of the file.  Nothing      *)
(* checks that a call did not fail before: a retry begins where the last   *)
(* attempt left the position.                                              *)
Finalize ==
    /\ pc = "idle" /\ file # Closed
    /\ w' = SynthesizeEventDesc(SynthesizeTracingData(w))
    /\ pc' = IF \A i \in DOMAIN w.descs : SliceFits(w.descs[i]) THEN "headers" ELSE "panicked"
    /\ fin' = [NoFin EXCEPT !.data_end = file, !.flags = Flags(w'),
                            !.todo = HeaderChunks(w', file),
                            !.end = file + ChunkUnits(HeaderChunks(w', file))]
    /\ given' = <<w>>
    /\ UNCHANGED <<disk, fpos, file, calls, events, damaged, done>>

(* An error is returned at once.  The writer goes on after what it wrote:  *)
(* for the file these units are event data from now on.                    *)
Leave ==
    /\ pc' = "idle" /\ fin' = NoFin /\ Spend(1)
    /\ events' = events \o fin.written

(* The write of a section or of a content.                                 *)
FinalizeWrite ==
    /\ pc \in {"headers", "attrs"} /\ fin.todo # <<>>
    /\ \/ /\ WriteAll(Head(fin.todo))
          /\ fin' = [fin EXCEPT !.todo = Tail(@), !.written = @ \o Head(fin.todo)]
          /\ UNCHANGED <<pc, calls, events, damaged>>
       \/ WriteAllFails(Head(fin.todo)) /\ Leave
    /\ UNCHANGED <<w, given, done>>

FinalizeAttrs ==
    /\ pc = "headers" /\ fin.todo = <<>>
    /\ pc' = IF file = fin.end THEN "attrs" ELSE "panicked"
    /\ fin' = [fin EXCEPT !.attrs = <<file, ENTRY_SIZE * Len(w.descs)>>,
                          !.todo = AttrChunks(w, file)]
    /\ UNCHANGED <<disk, fpos, file, w, calls, history>>

FinalizeSeek ==
    /\ pc = "attrs" /\ fin.todo = <<>>
    /\ \/ pc' = "rewrite" /\ fpos' = 0 /\ file' = 0 /\ UNCHANGED <<fin, calls, events>>
       \/ Leave /\ UNCHANGED <<fpos, file>>
    /\ UNCHANGED <<disk, w, given, damaged, done>>

(* Fault: the size of the data counts the file header too.                 *)
DataSizeFromZero(end) == end

(* A u64: it wraps below zero, for a writer whose position is 0.           *)
DataSize(end) == IF end >= DATA_START_POS THEN end - DATA_START_POS
                 ELSE U64_MAX + 1 + end - DATA_START_POS

FileHeader == Unit("header",
    fin.attrs \o <<DATA_START_POS, DataSize(fin.data_end)>> \o fin.flags)

(* The flush of a File does nothing, so the close always follows.  A write *)
(* that fails leaves the writer at position 0.                             *)
FinalizeHeader ==
    /\ pc = "rewrite"
    /\ pc' = "idle" /\ fin' = NoFin
    /\ \/ /\ disk' = Put(disk, fpos, <<FileHeader>>)
          /\ fpos' = fpos + 1 /\ file' = Closed /\ w' = NewWriter
          /\ done' = TRUE
          /\ UNCHANGED <<calls, damaged>>
       \/ Spend(1) /\ damaged' = TRUE /\ UNCHANGED <<disk, fpos, file, w, done>>
    /\ UNCHANGED <<events, given>>

FinalizeStep == FinalizeWrite \/ FinalizeAttrs \/ FinalizeSeek \/ FinalizeHeader

Next ==
    \/ CreateFile \/ CloseNoFinalize
    \/ WriteEventData \/ WriteEventDataVectored \/ WriteFinishedInit \/ WriteFinishedRound
    \/ Setters
    \/ Finalize \/ FinalizeStep

Spec == Init /\ [][Next]_vars

-----------------------------------------------------------------------------
(* What a reader finds in the file at this moment.                         *)
View == OpenLayout(disk)

DescOf(x, n) == [attr |-> x.descs[n].attr, name |-> x.descs[n].name, ids |-> x.descs[n].ids]

Readable(desc) == FullSize(desc.attr) /\ Len(desc.ids) <= IDS_LIMIT

(* The descriptions before the first one that the reader does not take.    *)
DescsMatch(x, read) ==
    \E k \in 0 .. Len(x.descs) :
        /\ read = [n \in 1 .. k |-> DescOf(x, n)]
        /\ \A n \in 1 .. k : Readable(x.descs[n])
        /\ k # Len(x.descs) => ~ Readable(x.descs[k + 1])

(* All formats that have one and the same usable common type, if any does. *)
FormatsMatch(formats, read) ==
    \/ read = {} /\ \A f \in formats : f.common = 0
    \/ \E g \in formats : g.common # 0 /\ read = {f \in formats : f.common = g.common}

TracingMatches(x, read) ==
    /\ read.long_size = x.long_size /\ read.page_size = x.page_size
    /\ read.header_page = OrDefault(x.header_page)
    /\ read.header_event = OrDefault(x.header_event)
    /\ read.ftraces = x.ftraces
    /\ read.kallsyms = x.kallsyms /\ read.printk = x.printk /\ read.cmd_line = x.cmd_line
    /\ FormatsMatch(x.formats, read.formats)

(* A view tells what the calls of the API gave and nothing else.  The      *)
(* header EVENT_DESC is always made of the descriptions and TRACING_DATA,  *)
(* when the sizes were set, of the tracing data: what set_header gave for  *)
(* them is not in the file, against its documentation, which says that the *)
(* two are synthesized when no data was set for them.                      *)
Tells(view, x) ==
    /\ view.events = events
    /\ view.attrs = [n \in DOMAIN x.descs |-> [attr |-> x.descs[n].attr, ids |-> x.descs[n].ids]]
    /\ DescsMatch(x, ParseEventDesc(view.headers[EventDesc]))
    /\ IF x.long_size # 0 /\ x.page_size # 0
       THEN TracingMatches(x, ParseTracing(view.headers[TracingData]))
       ELSE view.headers[TracingData] = x.headers[TracingData]
    /\ \A i \in HeaderIndexes \ {EventDesc, TracingData} : view.headers[i] = x.headers[i]

(* A file that a reader accepts, at any moment and so after any crash, is  *)
(* complete: it holds exactly the event data, attrs, ids and headers given *)
(* since create_file, the names up to the first description beyond the     *)
(* reader's limits and the formats of one common type.  A failed or        *)
(* interrupted finalize_and_close, a failed create_file and a file never   *)
(* finalized leave nothing that passes for a recording.  After a failed    *)
(* attempt the retry succeeds, but what the attempt wrote counts as event  *)
(* data (Leave).  Excluded, and harmful: a retry, or more events, after a  *)
(* write that was torn or after the rewrite of the header failed.          *)
AcceptedIsComplete ==
    View.ok /\ ~damaged => given # <<>> /\ Tells(View, given[1])

(* No section beyond the reader's limit.                                   *)
SectionsFit(x) ==
    LET y == SynthesizeEventDesc(SynthesizeTracingData(x))
    IN /\ ENTRY_SIZE * Len(x.descs) < SECTION_LIMIT
       /\ \A n \in DOMAIN x.descs : Len(x.descs[n].ids) < SECTION_LIMIT
       /\ \A i \in HeaderIndexes : Len(y.headers[i]) < SECTION_LIMIT

(* finalize_and_close that returned Ok, at the first attempt or a later    *)
(* one, leaves a file that opens, when the last event description has      *)
(* sample ids and no section is too large for the reader.  (Without ids,   *)
(* their section or the attrs begins at the end of the file and is         *)
(* refused.)                                                               *)
FinalizedOpens ==
    /\ done /\ ~damaged /\ SectionsFit(given[1])
    /\ given[1].descs # <<>> /\ Last(given[1].descs).ids # <<>>
    => View.ok

(* finalize_and_close never panics on the assertion that the headers end   *)
(* where their sections say, whatever was set before and however often it  *)
(* is called again after an error (the run keeps to names in ASCII; others *)
(* make synthesize_event_desc slice past the end).                         *)
FinalizeReturns == pc # "panicked"
=============================================================================
