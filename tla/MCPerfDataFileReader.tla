------------------------- MODULE MCPerfDataFileReader -------------------------
(***************************************************************************)
(* Files for module PerfDataFileReader, built from sequences of kinds of   *)
(* events.  Every event holds its position in the file, so that no two     *)
(* events of a file look alike.                                            *)
(***************************************************************************)
EXTENDS PerfDataFileReader

Id == 101

TimedAttr == [sample_type |-> {"Time", "Id", "Period"}, sample_id_all |-> TRUE,
              read_format |-> {}, tracepoint |-> TRUE, config |-> 1]

Desc(name) == [attr |-> TimedAttr, name |-> name, ids |-> {Id}]

Content(size) == [NoHeader EXCEPT !.size = size]
EventDescContent == [Content(4) EXCEPT !.descs = <<Desc("name")>>]
TracingContent(size, whole) ==
    [Content(size) EXCEPT !.signature = TRUE, !.formats = {1}, !.whole = whole]

Event(data, time) ==
    [data |-> data, time |-> time, post |-> 0, fault |-> "none", attr |-> TimedAttr,
     ids |-> {Id}, index |-> "ClockData", content |-> NoHeader]

Sample(i, t) == Event(<<SampleType, 8, t, 0, Id, 0, i, 0>>, t)
Mmap(i, t) == Event(<<1, 8, i, 0, t, 0, Id, 0>>, t)
User(i, type) == Event(<<type, 4, i, 0>>, 0)

EventOf(i, kind) ==
    CASE kind = "sample1" -> Sample(i, 1)
      [] kind = "sample2" -> Sample(i, 2)
      [] kind = "mmap1" -> Mmap(i, 1)
      [] kind = "round" -> Event(<<FinishedRoundType, 2>>, 0)
      [] kind = "init" -> Event(<<FinishedInitType, 2>>, 0)
      [] kind = "attr" -> User(i, HeaderAttrType)
      [] kind = "noids" -> [User(i, HeaderAttrType) EXCEPT !.ids = {}]
      [] kind = "tracing" ->
            [User(i, TracingDataType) EXCEPT !.post = 6, !.content = TracingContent(6, TRUE)]
      [] kind = "partial" ->
            [User(i, TracingDataType) EXCEPT !.post = 2, !.content = TracingContent(2, FALSE)]
      [] kind = "auxtrace" -> [User(i, AuxtraceType) EXCEPT !.post = 20]
      [] kind = "buildid" -> [User(i, BuildIdType) EXCEPT !.content = Content(2)]
      [] kind = "clock" -> [User(i, HeaderFeatureType) EXCEPT !.content = Content(2)]
      [] kind = "desc" ->
            [User(i, HeaderFeatureType) EXCEPT !.index = "EventDesc", !.content = EventDescContent]
      [] kind = "nofeature" -> [User(i, HeaderFeatureType) EXCEPT !.index = "OutOfRange"]
      [] kind = "feature" ->
            [User(i, HeaderFeatureType) EXCEPT !.index = "TracingData", !.content = Content(2)]

EventsOf(kinds) == [i \in DOMAIN kinds |-> EventOf(i, kinds[i])]

AllHeaders ==
    [h \in HeaderIndexes |->
        CASE h = "TracingData" -> TracingContent(4, TRUE)
          [] h = "EventDesc" -> EventDescContent
          [] OTHER -> Content(2)]

Normal(kinds) ==
    [mode |-> "normal", open_fault |-> "none", attrs |-> <<Desc("")>>, headers |-> AllHeaders,
     data |-> EventsOf(kinds)]

Pipe(kinds) ==
    [mode |-> "pipe", open_fault |-> "none", attrs |-> <<>>,
     headers |-> [h \in {} |-> NoHeader], data |-> EventsOf(kinds)]

Broken(f, fault) == [f EXCEPT !.data[Len(f.data)].fault = fault]
Unopenable(f, fault) == [f EXCEPT !.open_fault = fault]

Ordering == BoundedSeq({"sample1", "sample2", "mmap1", "round"}, 4)
Loading ==
    BoundedSeq({"sample1", "init", "attr", "noids", "tracing", "partial", "buildid", "clock",
                "desc", "feature", "nofeature"}, 3)
Buffering == BoundedSeq({"sample2", "sample1", "auxtrace", "round"}, 3)

(* Files that break off in their last event; one without data has none to lose. *)
BreakingInData == {<<"sample1">>} \cup {<<"sample2", "sample1", k>> : k \in {"sample1", "attr"}}
Breaking == BreakingInData \cup {<<"round">>, <<"sample2", "sample1", "round">>}

(* Times that count only once EVENT_DESC has been taken in.                *)
Describing == {<<"desc", "sample2", "sample1", "init", "sample2", "sample1", "round">>}

MCFiles ==
    {Normal(k) : k \in Ordering \cup Buffering} \cup {Pipe(k) : k \in Loading \cup Buffering \cup Describing}
    \cup {Broken(Normal(k), x) : k \in Breaking, x \in {"header", "size"}}
    \cup {Broken(Normal(k), "data") : k \in BreakingInData}
    \cup {Broken(Pipe(k), x) : k \in {<<"attr">> \o b : b \in Breaking}, x \in {"header", "size"}}
    \cup {Broken(m, "post") : m \in {Normal(<<"sample1", "auxtrace">>), Pipe(<<"attr", "tracing">>)}}
    \cup {Unopenable(Normal(<<"sample1">>), x) :
             x \in {"path", "magic", "section", "attrs", "headers"}}

MCReopenFiles == {Normal(<<"sample2", "sample1">>), Pipe(<<"attr", "sample2", "sample1">>)}

=============================================================================
