----------------------- MODULE PerfDataFileReaderProofs -----------------------
(***************************************************************************)
(* Proofs about module PerfDataFileReader.                                 *)
(***************************************************************************)
EXTENDS PerfDataFileReader, FiniteSetTheorems, SequenceTheorems, TLAPS

(* The fields of DataFileReader that rd holds.                             *)
Fields == {"pos", "buffers", "current_buffer", "attrs", "headers", "parsed_header_event_desc",
           "parsed_tracing_data", "kallsyms", "clock"}

(* The fields that say where bytes are.                                    *)
PlaceFields == {"pos", "buffers", "current_buffer"}

(* Reader s has the bytes of reader r, in the same place.                  *)
SamePlace(r, s) ==
    /\ DOMAIN s = Fields
    /\ s.pos = r.pos /\ s.buffers = r.buffers /\ s.current_buffer = r.current_buffer

(* Reader r with other buffers.                                            *)
With(r, b) == [r EXCEPT !.buffers = b]

-----------------------------------------------------------------------------
(* Setting a field that is not a place.                                    *)
LEMMA SetOther ==
    ASSUME NEW r, DOMAIN r = Fields, NEW x \in Fields \ PlaceFields, NEW v, NEW b
    PROVE /\ SamePlace(r, [r EXCEPT ![x] = v])
          /\ With([r EXCEPT ![x] = v], b) = [With(r, b) EXCEPT ![x] = v]
          /\ DOMAIN With(r, b) = Fields
          /\ \A y \in Fields \ {"buffers"} : With(r, b)[y] = r[y]
  BY DEF SamePlace, With, Fields, PlaceFields

(* parse_tracing_data neither moves nor looks at the buffers.              *)
LEMMA ParseTracingDataPlace ==
    ASSUME NEW r, DOMAIN r = Fields, NEW b
    PROVE /\ SamePlace(r, ParseTracingData(r))
          /\ ParseTracingData(With(r, b)) = With(ParseTracingData(r), b)
  BY DEF ParseTracingData, SamePlace, With, Fields

LEMMA ParseHeaderEventDescPlace ==
    ASSUME NEW r, DOMAIN r = Fields, NEW b
    PROVE /\ SamePlace(r, ParseHeaderEventDesc(r))
          /\ ParseHeaderEventDesc(With(r, b)) = With(ParseHeaderEventDesc(r), b)
  BY DEF ParseHeaderEventDesc, SamePlace, With, Fields

LEMMA ParseHeaderClockPlace ==
    ASSUME NEW r, DOMAIN r = Fields, NEW b
    PROVE /\ SamePlace(r, ParseHeaderClock(r))
          /\ ParseHeaderClock(With(r, b)) = With(ParseHeaderClock(r), b)
  BY DEF ParseHeaderClock, SamePlace, With, Fields

LEMMA SetHeaderPlace ==
    ASSUME NEW r, DOMAIN r = Fields, NEW b, NEW index, NEW content
    PROVE /\ SamePlace(r, SetHeader(r, index, content))
          /\ SetHeader(With(r, b), index, content) = With(SetHeader(r, index, content), b)
  BY DEF SetHeader, SamePlace, With, Fields

LEMMA ParseLoadedPlace ==
    ASSUME NEW r, DOMAIN r = Fields, NEW b, NEW index
    PROVE /\ SamePlace(r, ParseLoaded(r, index))
          /\ ParseLoaded(With(r, b), index) = With(ParseLoaded(r, index), b)
<1>1. CASE index = "TracingData"
  BY <1>1, ParseTracingDataPlace DEF ParseLoaded
<1>2. CASE index = "EventDesc"
  BY <1>2, ParseHeaderEventDescPlace DEF ParseLoaded
<1>3. CASE index = "ClockData"
  BY <1>3, ParseHeaderClockPlace DEF ParseLoaded
<1>4. CASE index \notin {"TracingData", "EventDesc", "ClockData"}
  BY <1>4 DEF ParseLoaded, SamePlace
<1> QED
  BY <1>1, <1>2, <1>3, <1>4

LEMMA LoadHeaderPlace ==
    ASSUME NEW r, DOMAIN r = Fields, NEW b, NEW index, NEW f
    PROVE /\ SamePlace(r, LoadHeader(r, f, index))
          /\ LoadHeader(With(r, b), f, index) = With(LoadHeader(r, f, index), b)
<1>1. CASE index \notin DOMAIN f.headers
  BY <1>1 DEF LoadHeader, SamePlace
<1>2. CASE index \in DOMAIN f.headers
  <2> DEFINE s == SetHeader(r, index, f.headers[index])
  <2>1. /\ SamePlace(r, s)
        /\ SetHeader(With(r, b), index, f.headers[index]) = With(s, b)
    BY SetHeaderPlace
  <2>2. LoadHeader(r, f, index) = ParseLoaded(s, index)
    BY <1>2 DEF LoadHeader
  <2>3. LoadHeader(With(r, b), f, index) = ParseLoaded(With(s, b), index)
    BY <1>2, <2>1 DEF LoadHeader
  <2> HIDE DEF s
  <2>4. /\ SamePlace(s, ParseLoaded(s, index))
        /\ ParseLoaded(With(s, b), index) = With(ParseLoaded(s, index), b)
    BY <2>1, ParseLoadedPlace DEF SamePlace
  <2> QED
    BY <2>1, <2>2, <2>3, <2>4 DEF SamePlace
<1> QED
  BY <1>1, <1>2

(* load_headers stores and parses headers without a look at the buffers.   *)
LEMMA LoadHeadersPlace ==
    ASSUME NEW r, DOMAIN r = Fields, NEW b, NEW f
    PROVE /\ SamePlace(r, LoadHeaders(r, f))
          /\ LoadHeaders(With(r, b), f) = With(LoadHeaders(r, f), b)
<1> DEFINE tracing == LoadHeader(r, f, "TracingData")
           build == LoadHeader(tracing, f, "BuildId")
           desc == LoadHeader(build, f, "EventDesc")
           clock == LoadHeader(desc, f, "ClockData")
<1>1. SamePlace(r, tracing) /\ LoadHeader(With(r, b), f, "TracingData") = With(tracing, b)
  BY LoadHeaderPlace
<1> HIDE DEF tracing
<1>2. SamePlace(tracing, build) /\ LoadHeader(With(tracing, b), f, "BuildId") = With(build, b)
  BY <1>1, LoadHeaderPlace DEF SamePlace
<1> HIDE DEF build
<1>3. SamePlace(build, desc) /\ LoadHeader(With(build, b), f, "EventDesc") = With(desc, b)
  BY <1>2, LoadHeaderPlace DEF SamePlace
<1> HIDE DEF desc
<1>4. SamePlace(desc, clock) /\ LoadHeader(With(desc, b), f, "ClockData") = With(clock, b)
  BY <1>3, LoadHeaderPlace DEF SamePlace
<1>5. LoadHeaders(r, f) = clock
  BY DEF LoadHeaders, tracing, build, desc
<1>6. LoadHeaders(With(r, b), f) = With(clock, b)
  BY <1>1, <1>2, <1>3, <1>4 DEF LoadHeaders
<1> HIDE DEF clock
<1> QED
  BY <1>1, <1>2, <1>3, <1>4, <1>5, <1>6 DEF SamePlace

-----------------------------------------------------------------------------
(* What load_attrs leaves in the first buffer.                             *)
FirstBuffer(f) ==
    IF f.attrs = <<>> THEN <<>>
    ELSE [i \in 1 .. U64_SIZE * Cardinality(Last(f.attrs).ids) |-> 0]

LEMMA FirstBufferType ==
    ASSUME NEW f \in Files \cup ReopenFiles
    PROVE FirstBuffer(f) \in Seq(Nat)
<1>1. CASE f.attrs = <<>>
  BY <1>1 DEF FirstBuffer
<1>2. CASE f.attrs # <<>>
  <2> DEFINE n == U64_SIZE * Cardinality(Last(f.attrs).ids)
  <2>1. IsFiniteSet(Last(f.attrs).ids)
    BY <1>2, FilesAssumption
  <2>2. Cardinality(Last(f.attrs).ids) \in Nat
    BY <2>1, FS_CardinalityType
  <2>3. n \in Nat
    BY <2>2 DEF U64_SIZE
  <2>4. FirstBuffer(f) = [i \in 1 .. n |-> 0]
    BY <1>2 DEF FirstBuffer
  <2> HIDE DEF n
  <2> QED
    BY <2>3, <2>4
<1> QED
  BY <1>1, <1>2

LEMMA LoadAttrsPlace ==
    ASSUME NEW r, DOMAIN r = Fields, NEW b, NEW f
    PROVE /\ DOMAIN LoadAttrs(r, f) = Fields
          /\ LoadAttrs(r, f).pos = r.pos
          /\ LoadAttrs(r, f).current_buffer = r.current_buffer
          /\ LoadAttrs(r, f).buffers = [r.buffers EXCEPT ![1] = FirstBuffer(f)]
          /\ LoadAttrs(With(r, b), f) = With(LoadAttrs(r, f), [b EXCEPT ![1] = FirstBuffer(f)])
  BY DEF LoadAttrs, FirstBuffer, With, Fields

(* What open makes of the place: the first buffer at most is filled.       *)
LEMMA OpenReaderPlace ==
    ASSUME NEW r, DOMAIN r = Fields, NEW f
    PROVE /\ DOMAIN OpenReader(r, f) = Fields
          /\ OpenReader(r, f).pos \in {r.pos, 1}
          /\ f.open_fault = "none" => OpenReader(r, f).pos = 1
          /\ OpenReader(r, f).current_buffer = r.current_buffer
          /\ OpenReader(r, f).buffers \in {r.buffers, [r.buffers EXCEPT ![1] = FirstBuffer(f)]}
<1> DEFINE a == LoadAttrs(r, f)
           h == LoadHeaders(a, f)
<1>1. /\ DOMAIN a = Fields /\ a.pos = r.pos /\ a.current_buffer = r.current_buffer
      /\ a.buffers = [r.buffers EXCEPT ![1] = FirstBuffer(f)]
  BY LoadAttrsPlace
<1>2. SamePlace(a, h)
  <2> HIDE DEF a
  <2> QED
    BY <1>1, LoadHeadersPlace
<1>3. CASE f.open_fault \in {"path", "magic", "section"}
  BY <1>3 DEF OpenReader
<1>4. CASE f.open_fault = "attrs"
  <2>1. OpenReader(r, f) = a
    BY <1>4 DEF OpenReader
  <2> HIDE DEF a
  <2> QED
    BY <1>1, <1>4, <2>1
<1>5. CASE f.open_fault = "headers"
  <2>1. OpenReader(r, f) = h
    BY <1>5 DEF OpenReader
  <2> HIDE DEF a, h
  <2> QED
    BY <1>1, <1>2, <1>5, <2>1 DEF SamePlace
<1>6. CASE f.open_fault = "none" /\ f.mode = "pipe"
  <2>1. OpenReader(r, f) = [r EXCEPT !.pos = 1]
    BY <1>6 DEF OpenReader
  <2> QED
    BY <2>1 DEF Fields
<1>7. CASE /\ f.open_fault \notin {"path", "magic", "section", "attrs", "headers"}
           /\ ~(f.open_fault = "none" /\ f.mode = "pipe")
  <2>1. OpenReader(r, f) = [h EXCEPT !.pos = 1]
    BY <1>7 DEF OpenReader
  <2> HIDE DEF a, h
  <2> QED
    BY <1>1, <1>2, <2>1 DEF SamePlace, Fields
<1> QED
  BY <1>3, <1>4, <1>5, <1>6, <1>7

(* A successful open does the same whatever buffers it finds.              *)
LEMMA OpenReaderBlind ==
    ASSUME NEW r, DOMAIN r = Fields, NEW f, f.open_fault = "none", NEW b
    PROVE /\ f.mode = "pipe" =>
                OpenReader(With(r, b), f) = With(OpenReader(r, f), b)
          /\ f.mode # "pipe" =>
                OpenReader(With(r, b), f)
                    = With(OpenReader(r, f), [b EXCEPT ![1] = FirstBuffer(f)])
          /\ f.mode = "pipe" => OpenReader(r, f).buffers = r.buffers
          /\ f.mode # "pipe" =>
                OpenReader(r, f).buffers = [r.buffers EXCEPT ![1] = FirstBuffer(f)]
          /\ \A c : With(With(OpenReader(r, f), c), OpenReader(r, f).buffers) = OpenReader(r, f)
<1>1. CASE f.mode = "pipe"
  <2>1. \A x : OpenReader(x, f) = [x EXCEPT !.pos = 1]
    BY <1>1 DEF OpenReader
  <2>2. /\ OpenReader(r, f) = [r EXCEPT !.pos = 1]
        /\ OpenReader(With(r, b), f) = [With(r, b) EXCEPT !.pos = 1]
    BY <2>1
  <2> QED
    BY <1>1, <2>2 DEF With, Fields
<1>2. CASE f.mode # "pipe"
  <2> DEFINE c == [b EXCEPT ![1] = FirstBuffer(f)]
             a == LoadAttrs(r, f)
             h == LoadHeaders(a, f)
  <2>1. /\ DOMAIN a = Fields /\ LoadAttrs(With(r, b), f) = With(a, c)
        /\ a.buffers = [r.buffers EXCEPT ![1] = FirstBuffer(f)]
    BY LoadAttrsPlace
  <2>2. SamePlace(a, h) /\ LoadHeaders(With(a, c), f) = With(h, c)
    <3> HIDE DEF a, c
    <3> QED
      BY <2>1, LoadHeadersPlace
  <2>3. \A x : OpenReader(x, f) = [LoadHeaders(LoadAttrs(x, f), f) EXCEPT !.pos = 1]
    BY <1>2 DEF OpenReader
  <2>4. OpenReader(r, f) = [h EXCEPT !.pos = 1]
    BY <2>3
  <2>5. OpenReader(With(r, b), f) = [With(h, c) EXCEPT !.pos = 1]
    BY <2>1, <2>2, <2>3
  <2>6. OpenReader(With(r, b), f) = With(OpenReader(r, f), c)
    <3> HIDE DEF a, c, h
    <3> QED
      BY <2>2, <2>4, <2>5 DEF SamePlace, With, Fields
  <2>7. OpenReader(r, f).buffers = a.buffers
    <3> HIDE DEF a, h
    <3> QED
      BY <2>2, <2>4 DEF SamePlace, Fields
  <2>8. \A x : With(With(OpenReader(r, f), x), OpenReader(r, f).buffers) = OpenReader(r, f)
    <3> HIDE DEF a, h
    <3> QED
      BY <2>2, <2>4 DEF SamePlace, With, Fields
  <2> QED
    BY <1>2, <2>1, <2>6, <2>7, <2>8
<1> QED
  BY <1>1, <1>2

LEMMA NewReaderFields ==
    /\ DOMAIN NewReader = Fields
    /\ NewReader.pos = 0 /\ NewReader.current_buffer = 1 /\ NewReader.buffers = << <<>> >>
  BY DEF NewReader, Fields

LEMMA CloseReaderIsNew ==
    ASSUME NEW r
    PROVE CloseReader(r) = With(NewReader, [b \in DOMAIN r.buffers |-> <<>>])
  BY DEF CloseReader, With

-----------------------------------------------------------------------------
(* A reader in good order: bytes only up to the buffer in use.             *)
ReaderOK(r) ==
    /\ DOMAIN r = Fields
    /\ r.pos \in Nat
    /\ r.buffers \in Seq(Seq(Nat))
    /\ r.current_buffer \in 1 .. Len(r.buffers)
    /\ \A k \in r.current_buffer + 1 .. Len(r.buffers) : r.buffers[k] = <<>>

(* Buffers c are buffers b with bytes or buffers added at the end.         *)
Grows(b, c) ==
    /\ Len(b) <= Len(c)
    /\ \A k \in 1 .. Len(b) :
          Len(b[k]) <= Len(c[k]) /\ \A j \in 1 .. Len(b[k]) : c[k][j] = b[k][j]

(* A reference that finds these bytes in buffers b.                        *)
Intact(b, ref, bytes) ==
    /\ ref.buffer \in 1 .. Len(b) /\ ref.start \in Nat /\ ref.end \in Nat
    /\ ref.end <= Len(b[ref.buffer])
    /\ SubSeq(b[ref.buffer], ref.start + 1, ref.end) = bytes

LEMMA GrowsReflexive ==
    ASSUME NEW b \in Seq(Seq(Nat))
    PROVE Grows(b, b)
<1>1. \A k \in 1 .. Len(b) : Len(b[k]) \in Nat
  OBVIOUS
<1> QED
  BY <1>1 DEF Grows

LEMMA GrowsTransitive ==
    ASSUME NEW b \in Seq(Seq(Nat)), NEW c \in Seq(Seq(Nat)), NEW d \in Seq(Seq(Nat)),
           Grows(b, c), Grows(c, d)
    PROVE Grows(b, d)
<1>1. Len(b) <= Len(d)
  BY DEF Grows
<1>2. ASSUME NEW k \in 1 .. Len(b)
      PROVE Len(b[k]) <= Len(d[k]) /\ \A j \in 1 .. Len(b[k]) : d[k][j] = b[k][j]
  <2>1. k \in 1 .. Len(c) /\ k \in 1 .. Len(d)
    BY SMTT(40) DEF Grows
  <2> DEFINE lb == Len(b[k])
             lc == Len(c[k])
             ld == Len(d[k])
  <2>2. b[k] \in Seq(Nat) /\ c[k] \in Seq(Nat) /\ d[k] \in Seq(Nat)
    BY <2>1, ElementOfSeq
  <2>3. lb \in Nat /\ lc \in Nat /\ ld \in Nat
    BY <2>2, LenProperties
  <2>4. lb <= lc /\ \A j \in 1 .. lb : c[k][j] = b[k][j]
    BY DEF Grows
  <2>5. lc <= ld /\ \A j \in 1 .. lc : d[k][j] = c[k][j]
    BY <2>1 DEF Grows
  <2> HIDE DEF lb, lc, ld
  <2>6. lb <= ld /\ \A j \in 1 .. lb : j \in 1 .. lc
    BY <2>3, <2>4, <2>5
  <2>7. \A j \in 1 .. lb : d[k][j] = b[k][j]
    BY <2>4, <2>5, <2>6
  <2> QED
    BY <2>6, <2>7 DEF lb, ld
<1> QED
  BY <1>1, <1>2 DEF Grows

(* Bytes once read are where they were, however the buffers grow.          *)
LEMMA IntactGrows ==
    ASSUME NEW b \in Seq(Seq(Nat)), NEW c \in Seq(Seq(Nat)), Grows(b, c),
           NEW ref, NEW bytes, Intact(b, ref, bytes)
    PROVE Intact(c, ref, bytes)
<1> DEFINE k == ref.buffer
           m == ref.start + 1
           n == ref.end
<1>1. k \in 1 .. Len(b) /\ m \in Nat /\ n \in Nat /\ n <= Len(b[k]) /\ m >= 1
  <2>1. k \in 1 .. Len(b) /\ ref.start \in Nat /\ n \in Nat /\ n <= Len(b[k])
    BY DEF Intact
  <2>2. \A x \in Nat : x + 1 \in Nat /\ x + 1 >= 1
    OBVIOUS
  <2> QED BY <2>1, <2>2
<1>2. k \in 1 .. Len(c)
  BY <1>1 DEF Grows
<1>3. b[k] \in Seq(Nat) /\ c[k] \in Seq(Nat)
  BY <1>1, <1>2
<1>4. Len(b[k]) <= Len(c[k]) /\ \A j \in 1 .. Len(b[k]) : c[k][j] = b[k][j]
  BY <1>1 DEF Grows
<1> HIDE DEF k, m, n
<1>5. n <= Len(c[k])
  BY <1>1, <1>3, <1>4
<1>6. SubSeq(c[k], m, n) = SubSeq(b[k], m, n)
  <2>1. SubSeq(b[k], m, n) = [j \in 1 .. n - m + 1 |-> b[k][m + j - 1]]
    BY <1>1, <1>3
  <2>2. SubSeq(c[k], m, n) = [j \in 1 .. n - m + 1 |-> c[k][m + j - 1]]
    BY <1>1, <1>3
  <2>3. \A j \in 1 .. n - m + 1 : m + j - 1 \in 1 .. Len(b[k])
    BY <1>1, <1>3
  <2> QED
    BY <1>4, <2>1, <2>2, <2>3
<1> QED
  BY <1>1, <1>2, <1>5, <1>6 DEF Intact, k, m, n

(* The next buffer, when one is taken, is empty.                           *)
LEMMA MakeRoomOK ==
    ASSUME NEW r, ReaderOK(r), NEW e
    PROVE /\ ReaderOK(MakeRoom(r, e))
          /\ Grows(r.buffers, MakeRoom(r, e).buffers)
          /\ MakeRoom(r, e).pos = r.pos
          /\ Fits(r, e) => MakeRoom(r, e) = r
<1>1. CASE Fits(r, e)
  BY <1>1, GrowsReflexive DEF MakeRoom, ReaderOK
<1>2. CASE ~Fits(r, e)
  <2> DEFINE s == MakeRoom(r, e)
             b == r.buffers
             c == IF r.current_buffer = Len(b) THEN Append(b, <<>>) ELSE b
             n == r.current_buffer
  <2>1. /\ DOMAIN s = Fields /\ s.pos = r.pos /\ s.current_buffer = n + 1
        /\ s.buffers = c
    BY <1>2 DEF MakeRoom, ReaderOK, Fields
  <2>2. /\ b \in Seq(Seq(Nat)) /\ n \in 1 .. Len(b)
        /\ \A k \in n + 1 .. Len(b) : b[k] = <<>>
    BY DEF ReaderOK
  <2> HIDE DEF b, n, s
  <2>3. CASE n = Len(b)
    <3>1. c = Append(b, <<>>)
      BY <2>3 DEF n, b
    <3> HIDE DEF c
    <3>2. <<>> \in Seq(Nat)
      OBVIOUS
    <3>3. /\ c \in Seq(Seq(Nat)) /\ Len(c) = n + 1 /\ c[n + 1] = <<>>
          /\ \A k \in 1 .. n : c[k] = b[k]
      BY <2>2, <2>3, <3>1, <3>2
    <3>4. n + 1 \in 1 .. Len(c) /\ \A k \in n + 2 .. Len(c) : c[k] = <<>>
      BY <2>2, <3>3
    <3>5. Grows(b, c)
      <4>1. \A k \in 1 .. Len(b) : b[k] \in Seq(Nat) /\ c[k] = b[k]
        BY <2>2, <2>3, <3>3
      <4>2. Len(b) <= Len(c)
        BY <2>2, <2>3, <3>3
      <4>3. ASSUME NEW k \in 1 .. Len(b)
            PROVE Len(b[k]) <= Len(c[k]) /\ \A j \in 1 .. Len(b[k]) : c[k][j] = b[k][j]
        <5>1. c[k] = b[k] /\ Len(b[k]) \in Nat
          BY <4>1, LenProperties
        <5> QED BY <5>1
      <4> QED
        BY <4>2, <4>3 DEF Grows
    <3> QED
      BY <1>2, <2>1, <3>3, <3>4, <3>5 DEF ReaderOK, s, b
  <2>4. CASE n # Len(b)
    <3>1. c = b
      BY <2>4 DEF n, b
    <3> HIDE DEF c
    <3>2. n + 1 \in 1 .. Len(c) /\ \A k \in n + 2 .. Len(c) : c[k] = <<>>
      BY <2>2, <2>4, <3>1
    <3>3. Grows(b, c)
      BY <2>2, <3>1, GrowsReflexive
    <3> QED
      BY <1>2, <2>1, <2>2, <3>1, <3>2, <3>3 DEF ReaderOK, s, b
  <2> QED
    BY <2>3, <2>4
<1> QED
  BY <1>1, <1>2

LEMMA AppendUnitsOK ==
    ASSUME NEW r, ReaderOK(r), NEW units \in Seq(Nat)
    PROVE /\ ReaderOK(AppendUnits(r, units))
          /\ Grows(r.buffers, AppendUnits(r, units).buffers)
          /\ AppendUnits(r, units).pos = r.pos
          /\ AppendUnits(r, units).current_buffer = r.current_buffer
          /\ AppendUnits(r, units).buffers[r.current_buffer] = CurrentBuffer(r) \o units
<1> DEFINE s == AppendUnits(r, units)
           n == r.current_buffer
           b == r.buffers
           c == [b EXCEPT ![n] = b[n] \o units]
<1>1. /\ DOMAIN s = Fields /\ s.pos = r.pos /\ s.current_buffer = n /\ s.buffers = c
  BY DEF AppendUnits, ReaderOK, Fields
<1>2. /\ b \in Seq(Seq(Nat)) /\ n \in 1 .. Len(b)
      /\ \A k \in n + 1 .. Len(b) : b[k] = <<>>
  BY DEF ReaderOK
<1>3. CurrentBuffer(r) = b[n] /\ r.buffers = b /\ r.current_buffer = n /\ s = AppendUnits(r, units)
  BY DEF CurrentBuffer
<1> HIDE DEF s, n, b
<1>4. b[n] \in Seq(Nat) /\ b[n] \o units \in Seq(Nat)
  BY <1>2
<1>5. /\ c \in Seq(Seq(Nat)) /\ Len(c) = Len(b) /\ c[n] = b[n] \o units
      /\ \A k \in 1 .. Len(b) : k # n => c[k] = b[k]
  BY <1>2, <1>4
<1> HIDE DEF c
<1>6. Grows(b, c)
  <2>1. ASSUME NEW k \in 1 .. Len(b)
        PROVE Len(b[k]) <= Len(c[k]) /\ \A j \in 1 .. Len(b[k]) : c[k][j] = b[k][j]
    <3>1. b[k] \in Seq(Nat)
      BY <1>2
    <3>2. CASE k = n
      BY <1>4, <1>5, <3>1, <3>2
    <3>3. CASE k # n
      BY <1>5, <3>1, <3>3
    <3> QED
      BY <3>2, <3>3
  <2> QED
    BY <1>2, <1>5, <2>1 DEF Grows
<1>7. \A k \in n + 1 .. Len(c) : c[k] = <<>>
  <2>1. ASSUME NEW k \in n + 1 .. Len(c)
        PROVE c[k] = <<>>
    <3>1. Len(b) \in Nat /\ n \in 1 .. Len(b) /\ k \in n + 1 .. Len(b)
      BY <1>2, <1>5
    <3>2. k \in 1 .. Len(b) /\ k # n
      BY <3>1
    <3> QED
      BY <1>2, <1>5, <3>1, <3>2
  <2> QED
    BY <2>1
<1>8. ReaderOK(r) => r.pos \in Nat
  BY DEF ReaderOK
<1>9. ReaderOK(s)
  BY <1>1, <1>2, <1>5, <1>7, <1>8 DEF ReaderOK
<1> QED
  BY <1>1, <1>3, <1>5, <1>6, <1>9

-----------------------------------------------------------------------------
(* One call of read_one_event.                                             *)
LEMMA HandleTypePlace ==
    ASSUME NEW r, DOMAIN r = Fields, NEW e
    PROVE SamePlace(r, HandleType(r, e))
<1> USE DEF HeaderAttrType, TracingDataType, BuildIdType, HeaderFeatureType, FinishedInitType
<1>0. SamePlace(r, r)
  BY DEF SamePlace
<1>1. CASE EventType(e) = HeaderAttrType
  BY <1>1, SetOther DEF HandleType, SamePlace, Fields
<1>2. CASE EventType(e) = TracingDataType
  <2> DEFINE s == SetHeader(r, "TracingData", e.content)
  <2>1. SamePlace(r, s)
    BY SetHeaderPlace
  <2>2. SamePlace(s, ParseTracingData(s))
    <3> HIDE DEF s
    <3> QED
      BY <2>1, ParseTracingDataPlace DEF SamePlace
  <2>3. HandleType(r, e) = IF r.parsed_tracing_data THEN r ELSE ParseTracingData(s)
    BY <1>2 DEF HandleType
  <2> HIDE DEF s
  <2> QED
    BY <1>0, <2>1, <2>2, <2>3 DEF SamePlace
<1>3. CASE EventType(e) = BuildIdType
  BY <1>3, SetHeaderPlace DEF HandleType
<1>4. CASE EventType(e) = HeaderFeatureType
  <2> DEFINE s == SetHeader(r, e.index, e.content)
  <2>1. SamePlace(r, s)
    BY SetHeaderPlace
  <2>2. SamePlace(s, ParseHeaderClock(s))
    <3> HIDE DEF s
    <3> QED
      BY <2>1, ParseHeaderClockPlace DEF SamePlace
  <2>3. HandleType(r, e) = CASE e.index \notin DOMAIN r.headers -> r
                             [] e.index = "ClockData" -> ParseHeaderClock(s)
                             [] OTHER -> s
    BY <1>4 DEF HandleType
  <2>4. HandleType(r, e) \in {r, s, ParseHeaderClock(s)}
    <3> HIDE DEF s
    <3> QED
      BY <2>3
  <2> HIDE DEF s
  <2> QED
    BY <1>0, <2>1, <2>2, <2>4 DEF SamePlace
<1>5. CASE EventType(e) = FinishedInitType
  <2>1. HandleType(r, e) = IF r.headers["EventDesc"].size = 0 THEN r ELSE ParseHeaderEventDesc(r)
    BY <1>5 DEF HandleType
  <2> QED
    BY <1>0, <2>1, ParseHeaderEventDescPlace
<1>6. CASE EventType(e) \notin {HeaderAttrType, TracingDataType, BuildIdType, HeaderFeatureType,
                                FinishedInitType}
  BY <1>0, <1>6 DEF HandleType
<1> QED
  BY <1>1, <1>2, <1>3, <1>4, <1>5, <1>6

(* The bytes of an event and of what follows it.                           *)
Bytes(e) == e.data \o PostData(e)

(* An event of a file, as the assumption on the files has it.              *)
EventOK(e) ==
    /\ e.data \in Seq(Nat)
    /\ Len(e.data) \in PERF_EVENT_HEADER_SIZE .. NORMAL_EVENT_MAX_SIZE
    /\ e.post \in Nat /\ e.fault \in Faults

LEMMA BytesType ==
    ASSUME NEW e, EventOK(e)
    PROVE Bytes(e) \in Seq(Nat) /\ Len(Bytes(e)) = Len(e.data) + e.post
<1>1. PostData(e) = [i \in 1 .. e.post |-> 0] /\ e.post \in Nat /\ e.data \in Seq(Nat)
  BY DEF PostData, EventOK
<1>2. PostData(e) \in Seq(Nat) /\ Len(PostData(e)) = e.post
  BY <1>1
<1> QED
  BY <1>1, <1>2 DEF Bytes

(* What a call of read_one_event leaves: nothing read before is touched,   *)
(* and in file order, which empties the first buffer, that is the one used.*)
ReadKeeps(r, s) ==
    /\ ReaderOK(s) /\ Grows(r.buffers, s.buffers)
    /\ s.pos >= r.pos
    /\ r.current_buffer = 1 /\ r.buffers[1] = <<>> => s.current_buffer = 1

LEMMA MakeRoomKeeps ==
    ASSUME NEW r, ReaderOK(r), NEW e, EventOK(e)
    PROVE ReadKeeps(r, MakeRoom(r, e))
<1>1. /\ ReaderOK(MakeRoom(r, e)) /\ Grows(r.buffers, MakeRoom(r, e).buffers)
      /\ MakeRoom(r, e).pos = r.pos
      /\ Fits(r, e) => MakeRoom(r, e) = r
  BY MakeRoomOK
<1>2. ASSUME r.current_buffer = 1, r.buffers[1] = <<>>
      PROVE Fits(r, e)
  <2>1. CurrentBuffer(r) = <<>>
    BY <1>2 DEF CurrentBuffer
  <2>2. Len(<<>>) = 0 /\ Len(e.data) \in Nat /\ Len(e.data) <= NORMAL_EVENT_MAX_SIZE
    BY DEF EventOK
  <2> QED
    BY <2>1, <2>2, BufferAssumption DEF Fits
<1>3. r.pos \in Nat
  BY DEF ReaderOK
<1> QED
  BY <1>1, <1>2, <1>3 DEF ReadKeeps

LEMMA AppendKeeps ==
    ASSUME NEW r, ReaderOK(r), NEW e, EventOK(e), NEW units \in Seq(Nat)
    PROVE ReadKeeps(r, AppendUnits(MakeRoom(r, e), units))
<1> DEFINE room == MakeRoom(r, e)
           s == AppendUnits(room, units)
<1>1. ReadKeeps(r, room)
  BY MakeRoomKeeps
<1>2. ReaderOK(room)
  BY <1>1 DEF ReadKeeps
<1> HIDE DEF room
<1>3. /\ ReaderOK(s) /\ Grows(room.buffers, s.buffers)
      /\ s.pos = room.pos /\ s.current_buffer = room.current_buffer
  BY <1>2, AppendUnitsOK
<1> HIDE DEF s
<1>4. /\ r.buffers \in Seq(Seq(Nat)) /\ room.buffers \in Seq(Seq(Nat)) /\ s.buffers \in Seq(Seq(Nat))
  BY <1>2, <1>3 DEF ReaderOK
<1>5. Grows(r.buffers, s.buffers)
  BY <1>1, <1>3, <1>4, GrowsTransitive DEF ReadKeeps
<1>6. ReadKeeps(r, s)
  BY <1>1, <1>3, <1>5 DEF ReadKeeps
<1> QED
  BY <1>6 DEF s, room

LEMMA AppendedBytes ==
    ASSUME NEW b \in Seq(Nat), NEW u \in Seq(Nat)
    PROVE SubSeq(b \o u, Len(b) + 1, Len(b) + Len(u)) = u
<1> DEFINE m == Len(b)
           n == Len(u)
           c == b \o u
<1>1. m \in Nat /\ n \in Nat /\ c \in Seq(Nat) /\ Len(c) = m + n
  OBVIOUS
<1>2. \A j \in 1 .. n : c[m + j] = u[j]
  OBVIOUS
<1>3. u = [j \in 1 .. n |-> u[j]]
  OBVIOUS
<1> HIDE DEF m, n, c
<1>4. SubSeq(c, m + 1, m + n) = [j \in 1 .. (m + n) - (m + 1) + 1 |-> c[m + 1 + j - 1]]
  BY <1>1
<1>5. (m + n) - (m + 1) + 1 = n /\ \A j \in 1 .. n : m + 1 + j - 1 = m + j
  BY <1>1
<1>6. SubSeq(c, m + 1, m + n) = u
  BY <1>2, <1>3, <1>4, <1>5
<1> QED
  BY <1>6 DEF m, n, c

LEMMA ReadWholeOK ==
    ASSUME NEW r, ReaderOK(r), NEW e, EventOK(e)
    PROVE /\ ReadKeeps(r, ReadWhole(r, e).r)
          /\ ReadWhole(r, e).result = "true"
          /\ Intact(ReadWhole(r, e).r.buffers, ReadWhole(r, e).ref, Bytes(e))
<1> DEFINE room == MakeRoom(r, e)
           start == Len(CurrentBuffer(room))
           r1 == AppendUnits(room, Bytes(e))
           r2 == [r1 EXCEPT !.pos = r1.pos + 1]
           r3 == HandleType(r2, e)
           ref == [buffer |-> r3.current_buffer, start |-> start,
                   end |-> start + Len(e.data) + e.post]
<1>1. ReadWhole(r, e) = [r |-> r3, result |-> "true", ref |-> ref]
  BY DEF ReadWhole, Read, Bytes
<1>2. Bytes(e) \in Seq(Nat) /\ Len(Bytes(e)) = Len(e.data) + e.post
  BY BytesType
<1>3. ReadKeeps(r, r1)
  BY <1>2, AppendKeeps
<1>4. ReaderOK(room)
  BY MakeRoomOK
<1>5. /\ r1.current_buffer = room.current_buffer
      /\ r1.buffers[r1.current_buffer] = CurrentBuffer(room) \o Bytes(e)
  <2> HIDE DEF room
  <2> QED
    BY <1>2, <1>4, AppendUnitsOK
<1>6. CurrentBuffer(room) \in Seq(Nat)
  <2> HIDE DEF room
  <2> QED
    BY <1>4 DEF ReaderOK, CurrentBuffer
<1> HIDE DEF room, r1
<1>7. ReaderOK(r1) /\ r1.pos \in Nat /\ DOMAIN r1 = Fields
  BY <1>3 DEF ReadKeeps, ReaderOK
<1>8. /\ DOMAIN r2 = Fields /\ r2.pos = r1.pos + 1 /\ r2.buffers = r1.buffers
      /\ r2.current_buffer = r1.current_buffer
  BY <1>7 DEF Fields
<1> HIDE DEF r2
<1>9. SamePlace(r2, r3)
  BY <1>8, HandleTypePlace
<1> HIDE DEF r3
<1>10. /\ DOMAIN r3 = Fields /\ r3.pos = r1.pos + 1 /\ r3.buffers = r1.buffers
       /\ r3.current_buffer = r1.current_buffer
  BY <1>8, <1>9 DEF SamePlace
<1>11. ReaderOK(r3)
  BY <1>7, <1>10, SMTT(40) DEF ReaderOK
<1>12. ReadKeeps(r, r3)
  <2>1. r.pos \in Nat /\ r1.pos >= r.pos /\ r3.pos >= r.pos
    BY <1>3, <1>7, <1>10 DEF ReadKeeps, ReaderOK
  <2> QED
    BY <1>3, <1>10, <1>11, <2>1 DEF ReadKeeps
<1>13. start \in Nat /\ Len(Bytes(e)) \in Nat
  BY <1>2, <1>6
<1>14. start + Len(e.data) + e.post = start + Len(Bytes(e))
  <2>1. Len(e.data) \in Nat /\ e.post \in Nat
    BY DEF EventOK
  <2> QED
    BY <1>2, <1>13, <2>1
<1>15. SubSeq(CurrentBuffer(room) \o Bytes(e), start + 1, start + Len(Bytes(e))) = Bytes(e)
  BY <1>2, <1>6, AppendedBytes
<1>16. Len(CurrentBuffer(room) \o Bytes(e)) = start + Len(Bytes(e))
  BY <1>2, <1>6, ConcatProperties
<1>17. r3.buffers[r3.current_buffer] = CurrentBuffer(room) \o Bytes(e)
  BY <1>5, <1>10
<1>18. r3.current_buffer \in 1 .. Len(r3.buffers)
  BY <1>11 DEF ReaderOK
<1>19. ref.buffer = r3.current_buffer /\ ref.start = start /\ ref.end = start + Len(Bytes(e))
  BY <1>14
<1> HIDE DEF ref, start
<1>20. ref.end \in Nat
  BY <1>13, <1>19
<1>21. Intact(r3.buffers, ref, Bytes(e))
  <2>1. r3.buffers[ref.buffer] = CurrentBuffer(room) \o Bytes(e)
    BY <1>17, <1>19
  <2>2. SubSeq(r3.buffers[ref.buffer], ref.start + 1, ref.end) = Bytes(e)
    BY <1>15, <1>19, <2>1
  <2>3. ref.end = Len(r3.buffers[ref.buffer])
    BY <1>16, <1>19, <2>1
  <2>4. ref.end <= Len(r3.buffers[ref.buffer])
    BY <1>20, <2>3
  <2>5. ref.buffer \in 1 .. Len(r3.buffers) /\ ref.start \in Nat
    BY <1>13, <1>18, <1>19
  <2> QED
    BY <1>20, <2>2, <2>4, <2>5 DEF Intact
<1> QED
  BY <1>1, <1>12, <1>21

LEMMA ReadNothing ==
    ASSUME NEW r, ReaderOK(r)
    PROVE ReadKeeps(r, r)
<1>1. r.buffers \in Seq(Seq(Nat)) /\ r.pos \in Nat
  BY DEF ReaderOK
<1> QED
  BY <1>1, GrowsReflexive DEF ReadKeeps

LEMMA ReadBrokenOK ==
    ASSUME NEW r, ReaderOK(r), NEW e, EventOK(e), e.fault # "none", NEW ref
    PROVE /\ ReadKeeps(r, ReadBroken(r, e, ref).r)
          /\ ReadBroken(r, e, ref).result \in {"false", "error"}
<1>1. ReadKeeps(r, r)
  BY ReadNothing
<1>2. CASE e.fault = "header"
  BY <1>1, <1>2 DEF ReadBroken, Read
<1>3. CASE e.fault = "size"
  BY <1>1, <1>3 DEF ReadBroken, Read
<1>4. CASE e.fault = "data"
  <2> DEFINE part == SubSeq(e.data, 1, PERF_EVENT_HEADER_SIZE)
  <2>1. part \in Seq(Nat)
    BY DEF EventOK, PERF_EVENT_HEADER_SIZE
  <2>2. ReadKeeps(r, AppendUnits(MakeRoom(r, e), part))
    BY <2>1, AppendKeeps
  <2> QED
    BY <1>1, <1>4, <2>2 DEF ReadBroken, Read
<1>5. CASE e.fault = "post"
  <2>1. ReadKeeps(r, AppendUnits(MakeRoom(r, e), e.data))
    BY AppendKeeps DEF EventOK
  <2> QED
    BY <1>5, <2>1 DEF ReadBroken, Read
<1> QED
  BY <1>2, <1>3, <1>4, <1>5 DEF EventOK, Faults

(* read_one_event: the bytes read before stay, and an event that is handed *)
(* out is found, whole, where its reference says.                          *)
LEMMA ReadOneEventOK ==
    ASSUME NEW r, ReaderOK(r), r.pos >= 1, file \in Files \cup ReopenFiles, NEW ref
    PROVE LET read == ReadOneEvent(r, ref)
          IN /\ ReadKeeps(r, read.r)
             /\ read.result \in {"true", "false", "error"}
             /\ read.result = "true" => Intact(read.r.buffers, read.ref, EventBytes(r.pos))
<1> DEFINE read == ReadOneEvent(r, ref)
           e == file.data[r.pos]
<1>1. CASE AtEnd(r)
  <2>1. read = [r |-> r, result |-> "false", ref |-> NoRef]
    BY <1>1 DEF ReadOneEvent, Read
  <2> HIDE DEF read
  <2>2. /\ ReadKeeps(r, read.r)
        /\ read.result \in {"true", "false", "error"}
        /\ read.result = "true" => Intact(read.r.buffers, read.ref, EventBytes(r.pos))
    BY <2>1, ReadNothing
  <2> QED
    BY <2>2 DEF read
<1>2. CASE ~AtEnd(r)
  <2>1. r.pos \in 1 .. Len(file.data)
    <3>1. r.pos \in Nat /\ Len(file.data) \in Nat
      BY FilesAssumption DEF ReaderOK
    <3> QED
      BY <1>2, <3>1 DEF AtEnd
  <2>2. EventOK(e)
    BY <2>1, FilesAssumption DEF EventOK
  <2>3. EventBytes(r.pos) = Bytes(e)
    BY DEF EventBytes, Bytes
  <2>4. CASE e.fault = "none"
    <3>1. read = ReadWhole(r, e)
      BY <1>2, <2>4 DEF ReadOneEvent
    <3> HIDE DEF e, read
    <3>2. /\ ReadKeeps(r, read.r)
          /\ read.result = "true"
          /\ Intact(read.r.buffers, read.ref, EventBytes(r.pos))
      BY <2>2, <2>3, <3>1, ReadWholeOK
    <3> QED
      BY <3>2 DEF read
  <2>5. CASE e.fault # "none"
    <3>1. read = ReadBroken(r, e, ref)
      BY <1>2, <2>5 DEF ReadOneEvent
    <3> HIDE DEF e, read
    <3>2. ReadKeeps(r, read.r) /\ read.result \in {"false", "error"}
      BY <2>2, <2>5, <3>1, ReadBrokenOK
    <3> QED
      BY <3>2 DEF read
  <2> QED
    BY <2>4, <2>5
<1> QED
  BY <1>1, <1>2

-----------------------------------------------------------------------------
(* The inductive invariant.                                                *)
Members(q) == {q[k] : k \in DOMAIN q}

(* The queue holds references that are good, in either half of it.         *)
QueueOK ==
    /\ queue \in Seq(Members(queue)) /\ consumed \in 0 .. Len(queue)
    /\ pending \in {"none", "false", "error"}
    /\ \A k \in 1 .. Len(queue) :
          /\ queue[k].event \in Nat
          /\ file # NoFile => Intact(rd.buffers, queue[k].ref, EventBytes(queue[k].event))

CurrentOK ==
    /\ out \in Seq(Nat)
    /\ file # NoFile /\ result = "true" =>
          out # <<>> /\ Intact(rd.buffers, current, EventBytes(Last(out)))

(* In file order there is one buffer in use and nothing queued; a call is  *)
(* interrupted by nothing but its own steps.                               *)
OrderOK ==
    /\ file # NoFile => file \in Files \cup ReopenFiles /\ rd.pos >= 1
    /\ order \in {"File", "Time"}
    /\ order = "File" => queue = <<>> /\ rd.current_buffer = 1
    /\ pc \in {"idle", "filling", "filled"}
    /\ pc # "idle" => file # NoFile /\ order = "Time"

IndInv == ReaderOK(rd) /\ OrderOK /\ QueueOK /\ CurrentOK /\ ReopenIsFresh

LEMMA InvInit == Init => IndInv
<1> SUFFICES ASSUME Init PROVE IndInv
  OBVIOUS
<1>1. ReaderOK(rd)
  <2>1. rd = NewReader
    BY DEF Init
  <2>2. << <<>> >> \in Seq(Seq(Nat)) /\ Len(<< <<>> >>) = 1
    OBVIOUS
  <2> QED
    BY <2>1, <2>2, NewReaderFields DEF ReaderOK
<1>2. OrderOK
  BY NewReaderFields DEF Init, OrderOK
<1>3. QueueOK
  <2>1. queue = <<>> /\ consumed = 0 /\ pending = "none"
    BY DEF Init
  <2>2. <<>> \in Seq(Members(<<>>)) /\ Len(<<>>) = 0
    OBVIOUS
  <2> QED
    BY <2>1, <2>2 DEF QueueOK
<1>4. CurrentOK
  BY DEF Init, CurrentOK
<1>5. ReopenIsFresh
  BY DEF Init, ReopenIsFresh
<1> QED
  BY <1>1, <1>2, <1>3, <1>4, <1>5 DEF IndInv

(* The buffers of a reader just closed, and with the first one filled.     *)
LEMMA ClosedOK ==
    ASSUME ReaderOK(rd)
    PROVE /\ ReaderOK(CloseReader(rd)) /\ CloseReader(rd).current_buffer = 1
          /\ CloseReader(rd).pos = 0
          /\ CloseReader(rd).buffers = [b \in 1 .. Len(rd.buffers) |-> <<>>]
          /\ CloseReader(rd) = With(NewReader, [b \in 1 .. Len(rd.buffers) |-> <<>>])
<1> DEFINE n == Len(rd.buffers)
           b0 == [b \in 1 .. n |-> <<>>]
           c == CloseReader(rd)
<1>1. n \in Nat /\ n >= 1 /\ DOMAIN rd.buffers = 1 .. n
  BY DEF ReaderOK
<1>2. c = With(NewReader, b0)
  BY <1>1, CloseReaderIsNew
<1> HIDE DEF c, n
<1>3. b0 \in Seq(Seq(Nat)) /\ Len(b0) = n /\ \A k \in 1 .. n : b0[k] = <<>>
  <2>1. <<>> \in Seq(Nat)
    OBVIOUS
  <2> QED
    BY <1>1, <2>1
<1> HIDE DEF b0
<1>4. DOMAIN c = Fields /\ c.pos = 0 /\ c.current_buffer = 1 /\ c.buffers = b0
  BY <1>2, NewReaderFields DEF With, Fields
<1>5. ReaderOK(c)
  BY <1>1, <1>3, <1>4 DEF ReaderOK
<1> QED
  BY <1>2, <1>4, <1>5 DEF c, b0, n

LEMMA OpenOK ==
    ASSUME ReaderOK(rd), NEW f \in Files \cup ReopenFiles
    PROVE /\ ReaderOK(OpenReader(CloseReader(rd), f))
          /\ OpenReader(CloseReader(rd), f).current_buffer = 1
          /\ f.open_fault = "none" => OpenReader(CloseReader(rd), f).pos = 1
<1> DEFINE c == CloseReader(rd)
           s == OpenReader(c, f)
           b == c.buffers
           d == [b EXCEPT ![1] = FirstBuffer(f)]
<1>1. ReaderOK(c) /\ c.current_buffer = 1 /\ c.pos = 0
  BY ClosedOK
<1> HIDE DEF c
<1>2. /\ DOMAIN s = Fields /\ s.pos \in {0, 1} /\ s.current_buffer = 1 /\ s.buffers \in {b, d}
      /\ f.open_fault = "none" => s.pos = 1
  BY <1>1, OpenReaderPlace DEF ReaderOK
<1>3. b \in Seq(Seq(Nat)) /\ 1 \in 1 .. Len(b) /\ \A k \in 2 .. Len(b) : b[k] = <<>>
  BY <1>1 DEF ReaderOK
<1>4. FirstBuffer(f) \in Seq(Nat)
  BY FirstBufferType
<1> HIDE DEF b, s
<1>5. d \in Seq(Seq(Nat)) /\ Len(d) = Len(b) /\ \A k \in 2 .. Len(b) : d[k] = b[k]
  BY <1>3, <1>4
<1> HIDE DEF d
<1>6. /\ s.buffers \in Seq(Seq(Nat)) /\ Len(s.buffers) = Len(b)
      /\ \A k \in 2 .. Len(b) : s.buffers[k] = <<>>
  <2>1. CASE s.buffers = b
    BY <1>3, <2>1
  <2>2. CASE s.buffers = d
    BY <1>3, <1>5, <2>2
  <2> QED
    BY <1>2, <2>1, <2>2
<1>7. s.current_buffer \in 1 .. Len(s.buffers) /\ s.current_buffer + 1 = 2 /\ s.pos \in Nat
  BY <1>2, <1>3, <1>6
<1>8. ReaderOK(s)
  BY <1>2, <1>6, <1>7 DEF ReaderOK
<1> QED
  BY <1>2, <1>8 DEF s, c

(* After a successful open the reader is a new one but for the number of   *)
(* its buffers.                                                            *)
LEMMA OpenFresh ==
    ASSUME ReaderOK(rd), NEW f, f.open_fault = "none"
    PROVE LET s == OpenReader(CloseReader(rd), f)
              fresh == OpenReader(NewReader, f)
          IN /\ [s EXCEPT !.buffers = fresh.buffers] = fresh
             /\ \A b \in DOMAIN s.buffers : s.buffers[b] = IF b = 1 THEN fresh.buffers[1] ELSE <<>>
<1> DEFINE fresh == OpenReader(NewReader, f)
           n == Len(rd.buffers)
           b0 == [b \in 1 .. n |-> <<>>]
           b1 == [b0 EXCEPT ![1] = FirstBuffer(f)]
           s == OpenReader(CloseReader(rd), f)
<1>1. CloseReader(rd) = With(NewReader, b0)
  BY ClosedOK
<1>2. /\ DOMAIN NewReader = Fields /\ NewReader.buffers = << <<>> >>
  BY NewReaderFields
<1>3. DOMAIN fresh = Fields
  BY <1>2, OpenReaderPlace
<1>4. n \in Nat /\ n >= 1
  BY DEF ReaderOK
<1>5. /\ f.mode = "pipe" => s = With(fresh, b0) /\ fresh.buffers = << <<>> >>
      /\ f.mode # "pipe" => s = With(fresh, b1)
                            /\ fresh.buffers = [<< <<>> >> EXCEPT ![1] = FirstBuffer(f)]
      /\ \A c : With(With(fresh, c), fresh.buffers) = fresh
  <2> HIDE DEF b0
  <2> QED
    BY <1>1, <1>2, OpenReaderBlind
<1> HIDE DEF fresh, s, n
<1>6. ASSUME NEW c, s = With(fresh, c),
             \A b \in DOMAIN c : c[b] = IF b = 1 THEN fresh.buffers[1] ELSE <<>>
      PROVE /\ [s EXCEPT !.buffers = fresh.buffers] = fresh
            /\ \A b \in DOMAIN s.buffers : s.buffers[b] = IF b = 1 THEN fresh.buffers[1] ELSE <<>>
  <2>1. s.buffers = c
    BY <1>3, <1>6 DEF With, Fields
  <2>2. [s EXCEPT !.buffers = fresh.buffers] = With(With(fresh, c), fresh.buffers)
    BY <1>6 DEF With
  <2> QED
    BY <1>5, <1>6, <2>1, <2>2
<1>7. CASE f.mode = "pipe"
  <2>1. \A b \in DOMAIN b0 : b0[b] = IF b = 1 THEN fresh.buffers[1] ELSE <<>>
    BY <1>5, <1>7
  <2> QED
    BY <1>5, <1>6, <1>7, <2>1 DEF s, fresh
<1>8. CASE f.mode # "pipe"
  <2>1. fresh.buffers[1] = FirstBuffer(f)
    BY <1>5, <1>8
  <2>2. \A b \in DOMAIN b1 : b1[b] = IF b = 1 THEN fresh.buffers[1] ELSE <<>>
    BY <1>4, <2>1
  <2> QED
    BY <1>5, <1>6, <1>8, <2>2 DEF s, fresh
<1> QED
  BY <1>7, <1>8

-----------------------------------------------------------------------------
LEMMA EmptyQueue ==
    ASSUME queue' = <<>>, consumed' = 0, pending' = "none"
    PROVE QueueOK'
<1>1. <<>> \in Seq(Members(<<>>)) /\ Len(<<>>) = 0
  OBVIOUS
<1> QED
  BY <1>1 DEF QueueOK

LEMMA OpenFileStep ==
    ASSUME IndInv, NEW f \in Files \cup ReopenFiles, NEW o \in {"File", "Time"}, OpenFile(f, o)
    PROVE IndInv'
<1>1. ReaderOK(rd)
  BY DEF IndInv
<1>2. rd' = OpenReader(CloseReader(rd), f)
  BY DEF OpenFile
<1>3. /\ ReaderOK(rd') /\ rd'.current_buffer = 1
      /\ f.open_fault = "none" => rd'.pos = 1
  BY <1>1, <1>2, OpenOK
<1>4. OrderOK'
  BY <1>3 DEF OpenFile, OrderOK
<1>5. QueueOK'
  BY EmptyQueue DEF OpenFile
<1>6. CurrentOK'
  BY DEF OpenFile, CurrentOK
<1>7. ReopenIsFresh'
  <2>1. CASE f.open_fault = "none"
    <3>1. /\ [rd' EXCEPT !.buffers = OpenReader(NewReader, f).buffers] = OpenReader(NewReader, f)
          /\ \A b \in DOMAIN rd'.buffers :
                rd'.buffers[b] = IF b = 1 THEN OpenReader(NewReader, f).buffers[1] ELSE <<>>
      BY <1>1, <1>2, <2>1, OpenFresh
    <3>2. file' = f /\ queue' = <<>> /\ consumed' = 0 /\ pending' = "none" /\ current' = NoRef
      BY <2>1 DEF OpenFile
    <3> QED
      BY <3>1, <3>2 DEF ReopenIsFresh
  <2>2. CASE f.open_fault # "none"
    BY <2>2 DEF OpenFile, ReopenIsFresh
  <2> QED
    BY <2>1, <2>2
<1>8. (ReaderOK(rd))'
  BY <1>3 DEF ReaderOK
<1> QED
  BY <1>4, <1>5, <1>6, <1>7, <1>8 DEF IndInv

LEMMA CloseStep ==
    ASSUME IndInv, Close
    PROVE IndInv'
<1>1. ReaderOK(rd') /\ rd'.current_buffer = 1
  BY ClosedOK DEF IndInv, Close
<1>2. OrderOK'
  BY <1>1 DEF Close, OrderOK
<1>3. QueueOK'
  BY EmptyQueue DEF Close
<1>4. CurrentOK' /\ ReopenIsFresh'
  BY DEF Close, CurrentOK, ReopenIsFresh
<1>5. (ReaderOK(rd))'
  BY <1>1 DEF ReaderOK
<1> QED
  BY <1>2, <1>3, <1>4, <1>5 DEF IndInv

LEMMA MoveNextNoFileStep ==
    ASSUME IndInv, MoveNextNoFile
    PROVE IndInv'
<1>1. /\ file = NoFile /\ result' = "error"
      /\ UNCHANGED <<file, order, rd, queue, consumed, pending, current, pc, out>>
  BY DEF MoveNextNoFile, queueVars
<1>2. (ReaderOK(rd))' /\ OrderOK'
  BY <1>1 DEF IndInv, ReaderOK, OrderOK
<1>3. QueueOK'
  BY <1>1 DEF IndInv, QueueOK
<1>4. CurrentOK' /\ ReopenIsFresh'
  BY <1>1 DEF IndInv, CurrentOK, ReopenIsFresh
<1> QED
  BY <1>2, <1>3, <1>4 DEF IndInv

(* The reader as read_event_file_order hands it to read_one_event.         *)
LEMMA FileOrderReader ==
    ASSUME ReaderOK(rd), rd.current_buffer = 1
    PROVE LET r == [rd EXCEPT !.buffers[1] = <<>>]
          IN ReaderOK(r) /\ r.current_buffer = 1 /\ r.buffers[1] = <<>> /\ r.pos = rd.pos
<1> DEFINE r == [rd EXCEPT !.buffers[1] = <<>>]
           b == rd.buffers
           c == [b EXCEPT ![1] = <<>>]
<1>1. /\ DOMAIN rd = Fields /\ rd.pos \in Nat /\ b \in Seq(Seq(Nat)) /\ 1 \in 1 .. Len(b)
      /\ \A k \in 2 .. Len(b) : b[k] = <<>>
  BY DEF ReaderOK
<1>2. DOMAIN r = Fields /\ r.pos = rd.pos /\ r.current_buffer = 1 /\ r.buffers = c
  BY <1>1 DEF Fields
<1>3. <<>> \in Seq(Nat)
  OBVIOUS
<1> HIDE DEF b, r
<1>4. c \in Seq(Seq(Nat)) /\ Len(c) = Len(b) /\ c[1] = <<>> /\ \A k \in 2 .. Len(b) : c[k] = b[k]
  BY <1>1, <1>3
<1> HIDE DEF c
<1>5. \A k \in 2 .. Len(c) : c[k] = <<>>
  BY <1>1, <1>4
<1>6. ReaderOK(r)
  <2>1. DOMAIN r = Fields /\ r.pos \in Nat /\ r.buffers \in Seq(Seq(Nat))
    BY <1>1, <1>2, <1>4
  <2>2. 1 \in 1 .. Len(c) /\ 1 + 1 = 2
    BY <1>1, <1>4
  <2>3. r.current_buffer \in 1 .. Len(r.buffers)
    BY <1>2, <2>2
  <2>4. \A k \in r.current_buffer + 1 .. Len(r.buffers) : r.buffers[k] = <<>>
    BY <1>2, <1>5, <2>2
  <2> QED BY <2>1, <2>3, <2>4 DEF ReaderOK
<1>7. ReaderOK(r) /\ r.current_buffer = 1 /\ r.buffers[1] = <<>> /\ r.pos = rd.pos
  BY <1>2, <1>4, <1>6
<1> QED
  BY <1>7 DEF r

(* read_event_file_order: the event it read before is gone, which no one   *)
(* refers to any more.                                                     *)
LEMMA MoveNextFileOrderStep ==
    ASSUME IndInv, MoveNextFileOrder
    PROVE IndInv'
<1> DEFINE r == [rd EXCEPT !.buffers[1] = <<>>]
           read == ReadOneEvent(r, current)
<1>1. /\ pc = "idle" /\ file # NoFile /\ order = "File"
      /\ rd' = read.r /\ result' = read.result /\ current' = read.ref
      /\ IF read.result = "true" THEN HandOut(rd.pos) ELSE UNCHANGED out
      /\ UNCHANGED <<file, order, queue, consumed, pending, pc>>
  BY DEF MoveNextFileOrder, MayRead, queueVars
<1>2. /\ file \in Files \cup ReopenFiles /\ rd.pos >= 1 /\ queue = <<>> /\ rd.current_buffer = 1
  BY <1>1 DEF IndInv, OrderOK
<1>3. ReaderOK(r) /\ r.current_buffer = 1 /\ r.buffers[1] = <<>> /\ r.pos = rd.pos
  BY <1>2, FileOrderReader DEF IndInv
<1> HIDE DEF r
<1>4. /\ ReadKeeps(r, read.r) /\ read.result \in {"true", "false", "error"}
      /\ read.result = "true" => Intact(read.r.buffers, read.ref, EventBytes(r.pos))
  BY <1>2, <1>3, ReadOneEventOK
<1> HIDE DEF read
<1>5. ReaderOK(rd') /\ rd'.pos >= 1 /\ rd'.current_buffer = 1
  <2>1. rd.pos \in Nat /\ read.r.pos \in Nat /\ read.r.pos >= rd.pos
    BY <1>3, <1>4 DEF ReadKeeps, ReaderOK
  <2> QED
    BY <1>1, <1>2, <1>3, <1>4, <2>1 DEF ReadKeeps
<1>6. (ReaderOK(rd))'
  BY <1>5 DEF ReaderOK
<1>7. OrderOK'
  BY <1>1, <1>2, <1>5 DEF OrderOK
<1>8. QueueOK'
  <2>1. Len(<<>>) = 0
    OBVIOUS
  <2> QED
    BY <1>1, <1>2, <2>1 DEF IndInv, QueueOK
<1>9. CurrentOK'
  <2>1. out \in Seq(Nat) /\ rd.pos \in Nat
    BY DEF IndInv, CurrentOK, ReaderOK
  <2>2. CASE read.result = "true"
    <3>1. out' = Append(out, rd.pos)
      BY <1>1, <2>2 DEF HandOut
    <3>2. out' \in Seq(Nat) /\ out' # <<>> /\ Len(out') = Len(out) + 1 /\ out'[Len(out) + 1] = rd.pos
      BY <2>1, <3>1
    <3>3. Last(out') = rd.pos
      BY <3>2 DEF Last
    <3>4. Intact(rd'.buffers, current', EventBytes(Last(out')))
      BY <1>1, <1>3, <1>4, <2>2, <3>3
    <3>6. (EventBytes(Last(out)))' = EventBytes(Last(out'))
      BY <1>1 DEF EventBytes, PostData
    <3>7. (Intact(rd.buffers, current, EventBytes(Last(out))))'
      BY <3>4, <3>6 DEF Intact
    <3> QED
      BY <3>2, <3>7 DEF CurrentOK
  <2>3. CASE read.result # "true"
    BY <1>1, <2>1, <2>3 DEF CurrentOK
  <2> QED
    BY <2>2, <2>3
<1>10. ReopenIsFresh'
  BY <1>1, <1>4 DEF ReopenIsFresh
<1> QED
  BY <1>6, <1>7, <1>8, <1>9, <1>10 DEF IndInv

-----------------------------------------------------------------------------
(* What the references of the caller and of the queue need of a step that  *)
(* leaves the file open: buffers that only grow.                           *)
LEMMA EventBytesSame ==
    ASSUME file' = file, NEW i
    PROVE (EventBytes(i))' = EventBytes(i)
  BY DEF EventBytes, PostData

LEMMA TakeQueuedStep ==
    ASSUME IndInv, TakeQueued
    PROVE IndInv'
<1> DEFINE n == consumed + 1
<1>1. /\ order = "Time" /\ file # NoFile /\ consumed < Len(queue)
      /\ consumed' = n /\ current' = queue[n].ref /\ out' = Append(out, queue[n].event)
      /\ result' = "true" /\ pc' = "idle"
      /\ UNCHANGED <<file, order, rd, queue, pending>>
  BY DEF TakeQueued, AtTop, MayRead, HandOut, IndInv, OrderOK
<1>2. n \in 1 .. Len(queue)
  BY <1>1 DEF IndInv, QueueOK
<1>3. Intact(rd.buffers, queue[n].ref, EventBytes(queue[n].event))
  BY <1>1, <1>2 DEF IndInv, QueueOK
<1>4. queue[n].event \in Nat
  BY <1>2 DEF IndInv, QueueOK
<1> HIDE DEF n
<1>5. (ReaderOK(rd))' /\ OrderOK'
  BY <1>1 DEF IndInv, ReaderOK, OrderOK
<1>6. QueueOK'
  <2>1. \A k \in 1 .. Len(queue') :
           /\ queue'[k].event \in Nat
           /\ file' # NoFile => (Intact(rd.buffers, queue[k].ref, EventBytes(queue[k].event)))'
    BY <1>1, EventBytesSame DEF IndInv, QueueOK, Intact, EventBytes, PostData
  <2> QED
    BY <1>1, <1>2, <2>1 DEF IndInv, QueueOK
<1>7. CurrentOK'
  <2>1. out \in Seq(Nat)
    BY DEF IndInv, CurrentOK
  <2>2. /\ out' \in Seq(Nat) /\ out' # <<>> /\ Len(out') = Len(out) + 1
        /\ out'[Len(out) + 1] = queue[n].event
    BY <1>1, <1>4, <2>1
  <2>3. Last(out') = queue[n].event
    BY <2>2 DEF Last
  <2>4. (EventBytes(Last(out)))' = EventBytes(queue[n].event)
    BY <1>1, <2>3 DEF EventBytes, PostData
  <2>5. (Intact(rd.buffers, current, EventBytes(Last(out))))'
    BY <1>1, <1>3, <2>4 DEF Intact
  <2> QED
    BY <2>2, <2>5 DEF CurrentOK
<1>8. ReopenIsFresh'
  BY <1>1 DEF ReopenIsFresh
<1> QED
  BY <1>5, <1>6, <1>7, <1>8 DEF IndInv

LEMMA TakePendingStep ==
    ASSUME IndInv, TakePending
    PROVE IndInv'
<1>1. /\ order = "Time" /\ file # NoFile /\ pending # "none"
      /\ result' = pending /\ pending' = "none" /\ pc' = "idle"
      /\ UNCHANGED <<file, order, rd, queue, consumed, out>>
  BY DEF TakePending, AtTop, MayRead, IndInv, OrderOK
<1>2. pending \in {"false", "error"}
  BY <1>1 DEF IndInv, QueueOK
<1>3. (ReaderOK(rd))' /\ OrderOK'
  BY <1>1 DEF IndInv, ReaderOK, OrderOK
<1>4. QueueOK'
  <2>1. \A k \in 1 .. Len(queue') :
           /\ queue'[k].event \in Nat
           /\ file' # NoFile => (Intact(rd.buffers, queue[k].ref, EventBytes(queue[k].event)))'
    BY <1>1, EventBytesSame DEF IndInv, QueueOK, Intact, EventBytes, PostData
  <2> QED
    BY <1>1, <2>1 DEF IndInv, QueueOK
<1>5. CurrentOK' /\ ReopenIsFresh'
  BY <1>1, <1>2 DEF IndInv, CurrentOK, ReopenIsFresh
<1> QED
  BY <1>3, <1>4, <1>5 DEF IndInv

LEMMA StartRoundStep ==
    ASSUME IndInv, StartRound
    PROVE IndInv'
<1>1. /\ order = "Time" /\ file # NoFile /\ pending = "none"
      /\ queue' = <<>> /\ consumed' = 0 /\ pc' = "filling"
      /\ UNCHANGED <<file, order, rd, pending, current, result, out>>
  BY DEF StartRound, AtTop, MayRead, IndInv, OrderOK
<1>2. (ReaderOK(rd))' /\ OrderOK' /\ QueueOK' /\ ReopenIsFresh'
  BY <1>1, EmptyQueue DEF IndInv, ReaderOK, OrderOK, ReopenIsFresh
<1>3. CurrentOK'
  BY <1>1 DEF IndInv, CurrentOK, Intact, EventBytes, PostData
<1> QED
  BY <1>2, <1>3 DEF IndInv

(* A sort keeps the entries.                                               *)
LEMMA SortQueueKeeps ==
    ASSUME NEW q, q \in Seq(Members(q)), SortQueue(q)
    PROVE /\ queue' \in Seq(Members(queue')) /\ Len(queue') = Len(q)
          /\ \A k \in 1 .. Len(queue') : \E j \in 1 .. Len(q) : queue'[k] = q[j]
<1>1. DOMAIN q = 1 .. Len(q) /\ Len(q) \in Nat
  OBVIOUS
<1>2. PICK f \in Bijection(DOMAIN q, DOMAIN q) : queue' = [i \in DOMAIN q |-> q[f[i]]]
  BY DEF SortQueue
<1>3. f \in [1 .. Len(q) -> 1 .. Len(q)]
  BY <1>1, <1>2 DEF Bijection, Injection
<1>4. queue' = [i \in 1 .. Len(q) |-> q[f[i]]] /\ DOMAIN queue' = 1 .. Len(q)
  BY <1>1, <1>2
<1>5. \A i \in 1 .. Len(q) : queue'[i] \in Members(queue')
  BY <1>4 DEF Members
<1>6. queue' \in Seq(Members(queue')) /\ Len(queue') = Len(q)
  <2> DEFINE m == Members(queue')
             n == Len(q)
  <2>1. queue' = [i \in 1 .. n |-> queue'[i]] /\ n \in Nat /\ \A i \in 1 .. n : queue'[i] \in m
    BY <1>1, <1>4, <1>5
  <2> HIDE DEF m, n
  <2>2. queue' \in [1 .. n -> m]
    BY <2>1
  <2>3. queue' \in Seq(m) /\ Len(queue') = n
    BY <2>1, <2>2
  <2> QED
    BY <2>3 DEF m, n
<1> QED
  BY <1>3, <1>4, <1>6

LEMMA AppendKeepsEntries ==
    ASSUME NEW q, q \in Seq(Members(q)), NEW x
    PROVE LET s == Append(q, x)
          IN /\ s \in Seq(Members(s)) /\ Len(s) = Len(q) + 1
             /\ \A k \in 1 .. Len(q) : s[k] = q[k]
             /\ s[Len(q) + 1] = x
<1> DEFINE m == Members(q) \cup {x}
           n == Len(q)
           s == Append(q, x)
<1>1. q \in Seq(m) /\ x \in m
  <2>1. q \in [1 .. n -> Members(q)] /\ n \in Nat
    OBVIOUS
  <2>2. q \in [1 .. n -> m]
    BY <2>1
  <2> HIDE DEF n, m
  <2>3. q \in Seq(m)
    BY <2>1, <2>2
  <2> QED
    BY <2>3 DEF m
<1> HIDE DEF m
<1>2. /\ s \in Seq(m) /\ n \in Nat /\ Len(s) = n + 1 /\ s[n + 1] = x
      /\ \A k \in 1 .. n : s[k] = q[k]
  BY <1>1
<1> HIDE DEF s, n
<1>3. s \in [1 .. n + 1 -> m] /\ DOMAIN s = 1 .. n + 1
  BY <1>2
<1>4. \A k \in 1 .. n + 1 : s[k] \in Members(s)
  BY <1>3 DEF Members
<1>5. s \in [1 .. n + 1 -> Members(s)]
  BY <1>3, <1>4
<1>6. s \in Seq(Members(s))
  <2> DEFINE a == Members(s)
             l == n + 1
  <2>1. l \in Nat /\ s \in [1 .. l -> a]
    BY <1>2, <1>5
  <2> HIDE DEF a, l
  <2>2. s \in Seq(a)
    BY <2>1
  <2> QED
    BY <2>2 DEF a
<1> QED
  BY <1>2, <1>6 DEF s, n

(* The entry of the event just read, and the entries from before it.       *)
EntryOK(b, entry) ==
    entry.event \in Nat /\ Intact(b, entry.ref, EventBytes(entry.event))

LEMMA FillQueueStep ==
    ASSUME IndInv, FillQueue
    PROVE IndInv'
<1> DEFINE read == ReadOneEvent(rd, NoRef)
           b == read.r.buffers
           entry == NewEntry(read)
<1>1. /\ pc = "filling" /\ rd' = read.r
      /\ RoundBreaks(read) \/ RoundGoesOn(read) \/ RoundEnds(read)
      /\ UNCHANGED <<file, order, consumed, current, result, out>>
  BY DEF FillQueue
<1>2. /\ file # NoFile /\ order = "Time" /\ file \in Files \cup ReopenFiles /\ rd.pos >= 1
      /\ ReaderOK(rd)
  BY <1>1 DEF IndInv, OrderOK
<1>3. /\ ReadKeeps(rd, read.r) /\ read.result \in {"true", "false", "error"}
      /\ read.result = "true" => Intact(b, read.ref, EventBytes(rd.pos))
  BY <1>2, ReadOneEventOK
<1>4. /\ queue \in Seq(Members(queue)) /\ consumed \in 0 .. Len(queue)
      /\ pending \in {"none", "false", "error"}
      /\ out \in Seq(Nat) /\ rd.pos \in Nat
  BY DEF IndInv, QueueOK, CurrentOK, ReaderOK
<1>5. entry.ref = read.ref /\ entry.event = rd.pos
  BY DEF NewEntry
<1> HIDE DEF entry, read
<1>6. ReaderOK(rd') /\ rd'.pos >= 1 /\ Grows(rd.buffers, b)
  <2>1. rd.pos \in Nat /\ read.r.pos \in Nat /\ read.r.pos >= rd.pos
    BY <1>3, <1>4 DEF ReadKeeps, ReaderOK
  <2> QED
    BY <1>1, <1>2, <1>3, <2>1 DEF ReadKeeps
<1>7. rd.buffers \in Seq(Seq(Nat)) /\ b \in Seq(Seq(Nat)) /\ rd'.buffers = b
  BY <1>1, <1>2, <1>6 DEF ReaderOK
<1> HIDE DEF b
<1>8. \A k \in 1 .. Len(queue) : EntryOK(b, queue[k])
  <2>1. ASSUME NEW k \in 1 .. Len(queue)
        PROVE EntryOK(b, queue[k])
    <3>1. queue[k].event \in Nat /\ Intact(rd.buffers, queue[k].ref, EventBytes(queue[k].event))
      BY <1>2 DEF IndInv, QueueOK
    <3>2. Intact(b, queue[k].ref, EventBytes(queue[k].event))
      BY <1>6, <1>7, <3>1, IntactGrows
    <3> QED
      BY <3>1, <3>2 DEF EntryOK
  <2> QED
    BY <2>1
<1>9. read.result = "true" => EntryOK(b, entry)
  BY <1>3, <1>4, <1>5 DEF EntryOK
<1>10. /\ queue' \in Seq(Members(queue')) /\ Len(queue') >= Len(queue)
       /\ \A k \in 1 .. Len(queue') : EntryOK(b, queue'[k])
       /\ pending' \in {"none", "false", "error"}
       /\ pc' \in {"filling", "filled"}
  <2>1. CASE RoundBreaks(read)
    <3>1. SortQueue(queue) /\ pending' = read.result /\ pc' = "filled" /\ read.result # "true"
      BY <2>1 DEF RoundBreaks
    <3>2. /\ queue' \in Seq(Members(queue')) /\ Len(queue') = Len(queue)
          /\ \A k \in 1 .. Len(queue') : \E j \in 1 .. Len(queue) : queue'[k] = queue[j]
      BY <1>4, <3>1, SortQueueKeeps
    <3>3. Len(queue) \in Nat
      BY <1>4
    <3> QED
      BY <1>3, <1>8, <3>1, <3>2, <3>3
  <2> DEFINE q == Append(queue, entry)
  <2>2. /\ q \in Seq(Members(q)) /\ Len(q) = Len(queue) + 1
        /\ \A k \in 1 .. Len(queue) : q[k] = queue[k]
        /\ q[Len(queue) + 1] = entry
    BY <1>4, AppendKeepsEntries
  <2>3. Len(queue) \in Nat
    BY <1>4
  <2>4. ASSUME read.result = "true"
        PROVE \A k \in 1 .. Len(q) : EntryOK(b, q[k])
    <3> HIDE DEF q
    <3>1. ASSUME NEW k \in 1 .. Len(q)
          PROVE EntryOK(b, q[k])
      <4>1. CASE k = Len(queue) + 1
        BY <1>9, <2>2, <2>4, <4>1
      <4>2. CASE k # Len(queue) + 1
        <5>1. k \in 1 .. Len(queue)
          BY <2>2, <2>3, <4>2
        <5> QED
          BY <1>8, <2>2, <5>1
      <4> QED
        BY <4>1, <4>2
    <3> QED
      BY <3>1
  <2>5. CASE RoundGoesOn(read)
    <3>1. read.result = "true" /\ queue' = q /\ pc' = pc /\ pending' = pending
      BY <2>5 DEF RoundGoesOn, entry
    <3> HIDE DEF q
    <3> QED
      BY <1>1, <1>4, <2>2, <2>3, <2>4, <3>1
  <2>6. CASE RoundEnds(read)
    <3>1. read.result = "true" /\ SortQueue(q) /\ pc' = "filled" /\ pending' = pending
      BY <2>6 DEF RoundEnds, entry
    <3> HIDE DEF q
    <3>2. /\ queue' \in Seq(Members(queue')) /\ Len(queue') = Len(q)
          /\ \A k \in 1 .. Len(queue') : \E j \in 1 .. Len(q) : queue'[k] = q[j]
      BY <2>2, <3>1, SortQueueKeeps
    <3>3. \A k \in 1 .. Len(queue') : EntryOK(b, queue'[k])
      BY <2>4, <3>1, <3>2
    <3>4. Len(queue') >= Len(queue)
      BY <2>2, <2>3, <3>2
    <3> QED
      BY <1>4, <3>1, <3>2, <3>3, <3>4
  <2> QED
    BY <1>1, <2>1, <2>5, <2>6
<1>11. (ReaderOK(rd))'
  BY <1>6 DEF ReaderOK
<1>12. OrderOK'
  BY <1>1, <1>2, <1>6, <1>10 DEF OrderOK
<1>13. QueueOK'
  <2>1. consumed' \in 0 .. Len(queue')
    <3>1. Len(queue) \in Nat /\ Len(queue') \in Nat
      BY <1>4, <1>10
    <3>2. consumed' \in 0 .. Len(queue) /\ Len(queue') >= Len(queue)
      BY <1>1, <1>4, <1>10
    <3> QED
      BY <3>1, <3>2
  <2>2. ASSUME NEW k \in 1 .. Len(queue')
        PROVE /\ queue'[k].event \in Nat
              /\ (Intact(rd.buffers, queue[k].ref, EventBytes(queue[k].event)))'
    <3>1. EntryOK(b, queue'[k])
      BY <1>10
    <3>2. Intact(rd'.buffers, queue'[k].ref, EventBytes(queue'[k].event))
      BY <1>7, <3>1 DEF EntryOK
    <3>3. (EventBytes(queue[k].event))' = EventBytes(queue'[k].event)
      BY <1>1 DEF EventBytes, PostData
    <3>4. (Intact(rd.buffers, queue[k].ref, EventBytes(queue[k].event)))'
      BY <3>2, <3>3 DEF Intact
    <3> QED
      BY <3>1, <3>4 DEF EntryOK
  <2> QED
    BY <1>10, <2>1, <2>2 DEF QueueOK
<1>14. CurrentOK'
  <2>1. CASE result = "true"
    <3>1. out # <<>> /\ Intact(rd.buffers, current, EventBytes(Last(out)))
      BY <1>2, <2>1 DEF IndInv, CurrentOK
    <3>2. Intact(rd'.buffers, current, EventBytes(Last(out)))
      BY <1>6, <1>7, <3>1, IntactGrows
    <3>3. (EventBytes(Last(out)))' = EventBytes(Last(out))
      BY <1>1 DEF EventBytes, PostData
    <3>4. (Intact(rd.buffers, current, EventBytes(Last(out))))'
      BY <1>1, <3>2, <3>3 DEF Intact
    <3> QED
      BY <1>1, <1>4, <3>1, <3>4 DEF CurrentOK
  <2>2. CASE result # "true"
    BY <1>1, <1>4, <2>2 DEF CurrentOK
  <2> QED
    BY <2>1, <2>2
<1>15. ReopenIsFresh'
  BY <1>10 DEF ReopenIsFresh
<1> QED
  BY <1>11, <1>12, <1>13, <1>14, <1>15 DEF IndInv

LEMMA Stutter ==
    ASSUME IndInv, UNCHANGED vars
    PROVE IndInv'
<1>1. UNCHANGED <<file, order, rd, queue, consumed, pending, current, pc, result, out>>
  BY DEF vars
<1>2. (ReaderOK(rd))' /\ OrderOK'
  BY <1>1 DEF IndInv, ReaderOK, OrderOK
<1>3. QueueOK'
  BY <1>1 DEF IndInv, QueueOK, Intact, EventBytes, PostData
<1>4. CurrentOK'
  BY <1>1 DEF IndInv, CurrentOK, Intact, EventBytes, PostData
<1>5. ReopenIsFresh'
  BY <1>1 DEF IndInv, ReopenIsFresh
<1> QED
  BY <1>2, <1>3, <1>4, <1>5 DEF IndInv

LEMMA InvNext == IndInv /\ [Next]_vars => IndInv'
<1> SUFFICES ASSUME IndInv, [Next]_vars PROVE IndInv'
  OBVIOUS
<1>1. CASE Open
  <2>1. PICK f \in Files \cup ReopenFiles, o \in {"File", "Time"} : OpenFile(f, o)
    BY <1>1 DEF Open
  <2> QED
    BY <2>1, OpenFileStep
<1>2. CASE Close
  BY <1>2, CloseStep
<1>3. CASE MoveNext
  BY <1>3, MoveNextNoFileStep, MoveNextFileOrderStep, TakeQueuedStep, TakePendingStep,
     StartRoundStep DEF MoveNext
<1>4. CASE FillQueue
  BY <1>4, FillQueueStep
<1>5. CASE UNCHANGED vars
  BY <1>5, Stutter
<1> QED
  BY <1>1, <1>2, <1>3, <1>4, <1>5 DEF Next

LEMMA InvAlways == Spec => []IndInv
<1>1. Init => IndInv
  BY InvInit
<1>2. IndInv /\ [Next]_vars => IndInv'
  BY InvNext
<1> QED
  BY <1>1, <1>2, PTL DEF Spec

-----------------------------------------------------------------------------
(* The current event and the queued ones are found unchanged in their      *)
(* buffers, for every file, size of a buffer and way to read.              *)
THEOREM ReaderBytesIntact == Spec => []EventBytesIntact
<1>1. IndInv => EventBytesIntact
  <2> SUFFICES ASSUME IndInv, file # NoFile PROVE EventBytesIntact
    BY DEF EventBytesIntact
  <2>1. result = "true" => InBuffer(current) /\ BytesOf(current) = EventBytes(Last(out))
    BY DEF IndInv, CurrentOK, Intact, InBuffer, BytesOf
  <2>2. ASSUME NEW k \in consumed + 1 .. Len(queue)
        PROVE InBuffer(queue[k].ref) /\ BytesOf(queue[k].ref) = EventBytes(queue[k].event)
    <3>1. k \in 1 .. Len(queue)
      BY DEF IndInv, QueueOK
    <3>2. Intact(rd.buffers, queue[k].ref, EventBytes(queue[k].event))
      BY <3>1 DEF IndInv, QueueOK
    <3> QED
      BY <3>2 DEF Intact, InBuffer, BytesOf
  <2> QED
    BY <2>1, <2>2 DEF EventBytesIntact
<1> QED
  BY <1>1, InvAlways, PTL

(* open_file on a used reader leaves what it leaves on a new one.          *)
THEOREM ReaderReopenFresh == Spec => []ReopenIsFresh
<1>1. IndInv => ReopenIsFresh
  BY DEF IndInv
<1> QED
  BY <1>1, InvAlways, PTL

(* The assertions about buffers: read_event_file_order finds the first     *)
(* buffer in use, and the buffer after the one in use, which                *)
(* read_one_event takes when that is full, is empty.                       *)
BufferAsserts ==
    /\ file # NoFile /\ order = "File" => rd.current_buffer = 1
    /\ rd.current_buffer < Len(rd.buffers) => rd.buffers[rd.current_buffer + 1] = <<>>

(* debug_assert_eq!(self.current_buffer, 0) of read_event_file_order and   *)
(* debug_assert!(self.buffers[..].is_empty()) of read_one_event hold.      *)
THEOREM ReaderBufferAsserts == Spec => []BufferAsserts
<1>1. IndInv => BufferAsserts
  <2> SUFFICES ASSUME IndInv PROVE BufferAsserts
    OBVIOUS
  <2>1. file # NoFile /\ order = "File" => rd.current_buffer = 1
    BY DEF IndInv, OrderOK
  <2>2. rd.current_buffer < Len(rd.buffers)
            => rd.current_buffer + 1 \in rd.current_buffer + 1 .. Len(rd.buffers)
    BY DEF IndInv, ReaderOK
  <2> QED
    BY <2>1, <2>2 DEF IndInv, ReaderOK, BufferAsserts
<1> QED
  BY <1>1, InvAlways, PTL

-----------------------------------------------------------------------------
(* Which events have been handed out: o, wait in queue q behind the c that *)
(* were taken from it, or are still in the file, behind the first n.       *)
InRange(o, q, n) ==
    /\ \A j \in 1 .. Len(o) : o[j] \in 1 .. n
    /\ \A k \in 1 .. Len(q) : q[k].event \in 1 .. n

NoneTwice(o, q, c) ==
    /\ \A j, k \in 1 .. Len(o) : o[j] = o[k] => j = k
    /\ \A j, k \in 1 .. Len(q) : q[j].event = q[k].event => j = k
    /\ \A j \in 1 .. Len(o), k \in c + 1 .. Len(q) : o[j] # q[k].event

NoneLost(o, q, c, n) ==
    \A i \in 1 .. n : \/ \E j \in 1 .. Len(o) : o[j] = i
                      \/ \E k \in c + 1 .. Len(q) : q[k].event = i

Once(o, q, c, n) == InRange(o, q, n) /\ NoneTwice(o, q, c) /\ NoneLost(o, q, c, n)

LEMMA OnceNothing == Once(<<>>, <<>>, 0, 0)
  BY DEF Once, InRange, NoneTwice, NoneLost

(* The next of the queue is handed out.                                    *)
LEMMA OnceTaken ==
    ASSUME NEW o \in Seq(Nat), NEW q, Len(q) \in Nat, NEW c \in Nat, NEW n \in Nat,
           Once(o, q, c, n), c < Len(q)
    PROVE Once(Append(o, q[c + 1].event), q, c + 1, n)
<1> DEFINE e == q[c + 1].event
           p == Append(o, e)
           m == Len(o)
           l == Len(q)
<1>1. e \in 1 .. n /\ c + 1 \in 1 .. l
  BY DEF Once, InRange
<1> HIDE DEF e
<1>2. m \in Nat /\ Len(p) = m + 1 /\ p[m + 1] = e /\ \A j \in 1 .. m : p[j] = o[j]
  BY <1>1
<1>3. e = q[c + 1].event
  BY DEF e
<1> HIDE DEF p, m, l
<1>4. InRange(p, q, n)
  <2>1. \A j \in 1 .. m : o[j] \in 1 .. n
    BY DEF Once, InRange, m
  <2>2. \A j \in 1 .. m + 1 : j \in 1 .. m \/ j = m + 1
    BY <1>2
  <2>3. \A j \in 1 .. m + 1 : p[j] \in 1 .. n
    <3> TAKE j \in 1 .. m + 1
    <3>1. CASE j \in 1 .. m
      BY <1>2, <2>1, <3>1
    <3>2. CASE j = m + 1
      BY <1>1, <1>2, <3>2
    <3> QED
      BY <2>2, <3>1, <3>2
  <2> QED
    BY <1>2, <2>3 DEF Once, InRange
<1>5. NoneTwice(p, q, c + 1)
  <2>1. /\ \A j, k \in 1 .. m : o[j] = o[k] => j = k
        /\ \A j, k \in 1 .. l : q[j].event = q[k].event => j = k
        /\ \A j \in 1 .. m, k \in c + 1 .. l : o[j] # q[k].event
    BY DEF Once, NoneTwice, m, l
  <2>2. l \in Nat /\ c + 1 \in c + 1 .. l
    BY <1>1 DEF l
  <2>3. \A j \in 1 .. m : o[j] # e
    BY <1>3, <2>1, <2>2
  <2>4. \A j, k \in 1 .. m + 1 : p[j] = p[k] => j = k
    BY <1>2, <2>1, <2>3, SMTT(40)
  <2>5. ASSUME NEW k \in (c + 1) + 1 .. l
        PROVE k \in c + 1 .. l /\ q[k].event # e
    <3>1. k \in c + 1 .. l /\ k \in 1 .. l /\ k # c + 1
      BY <2>2
    <3> DEFINE i == c + 1
    <3>2. i \in 1 .. l /\ e = q[i].event /\ k # i
      BY <1>1, <1>3, <3>1
    <3> HIDE DEF i
    <3>3. q[k].event # q[i].event
      BY <2>1, <3>1, <3>2
    <3> QED
      BY <3>1, <3>2, <3>3
  <2>6. \A j \in 1 .. m + 1, k \in (c + 1) + 1 .. l : p[j] # q[k].event
    <3> TAKE j \in 1 .. m + 1, k \in (c + 1) + 1 .. l
    <3>1. k \in c + 1 .. l /\ q[k].event # e
      BY <2>5
    <3>2. j \in 1 .. m \/ j = m + 1
      BY <1>2
    <3>3. CASE j \in 1 .. m
      BY <1>2, <2>1, <3>1, <3>3
    <3>4. CASE j = m + 1
      BY <1>2, <3>1, <3>4
    <3> QED
      BY <3>2, <3>3, <3>4
  <2> QED
    BY <1>2, <2>1, <2>4, <2>6 DEF NoneTwice, l
<1>6. NoneLost(p, q, c + 1, n)
  <2> SUFFICES ASSUME NEW i \in 1 .. n
               PROVE \/ \E j \in 1 .. Len(p) : p[j] = i
                     \/ \E k \in (c + 1) + 1 .. Len(q) : q[k].event = i
    BY DEF NoneLost
  <2>1. CASE \E j \in 1 .. m : o[j] = i
    BY <1>2, <2>1
  <2>2. CASE \E k \in c + 1 .. l : q[k].event = i
    <3>1. PICK k \in c + 1 .. l : q[k].event = i
      BY <2>2
    <3>2. CASE k = c + 1
      BY <1>2, <1>3, <3>1, <3>2
    <3>3. CASE k # c + 1
      <4>1. k \in (c + 1) + 1 .. l
        BY <3>3 DEF l
      <4> QED
        BY <3>1, <4>1 DEF l
    <3> QED
      BY <3>2, <3>3
  <2> QED
    BY <2>1, <2>2 DEF Once, NoneLost, m, l
<1> QED
  BY <1>4, <1>5, <1>6 DEF Once, p, e

(* A queue that is used up is emptied.                                     *)
LEMMA OnceRestarted ==
    ASSUME NEW o \in Seq(Nat), NEW q, Len(q) \in Nat, NEW n \in Nat, Once(o, q, Len(q), n)
    PROVE Once(o, <<>>, 0, n)
<1>1. Len(<<>>) = 0
  OBVIOUS
<1>2. Len(q) + 1 .. Len(q) = {} /\ 1 .. 0 = {} /\ 0 + 1 .. 0 = {}
  OBVIOUS
<1> QED
  BY <1>1, <1>2 DEF Once, InRange, NoneTwice, NoneLost

(* The next of the file is queued.                                         *)
LEMMA OnceQueued ==
    ASSUME NEW o \in Seq(Nat), NEW q, Len(q) \in Nat, NEW n \in Nat, Once(o, q, 0, n),
           NEW s, Len(s) = Len(q) + 1, \A k \in 1 .. Len(q) : s[k] = q[k],
           s[Len(q) + 1].event = n + 1
    PROVE Once(o, s, 0, n + 1)
<1> DEFINE l == Len(q)
           m == Len(o)
<1>1. l \in Nat /\ m \in Nat /\ Len(s) = l + 1 /\ s[l + 1].event = n + 1
      /\ \A k \in 1 .. l : s[k].event = q[k].event
  OBVIOUS
<1>2. /\ \A j \in 1 .. m : o[j] \in 1 .. n
      /\ \A k \in 1 .. l : s[k].event \in 1 .. n
  BY <1>1 DEF Once, InRange
<1>3. /\ \A j, k \in 1 .. m : o[j] = o[k] => j = k
      /\ \A j, k \in 1 .. l : s[j].event = s[k].event => j = k
      /\ \A j \in 1 .. m, k \in 1 .. l : o[j] # s[k].event
  BY <1>1 DEF Once, NoneTwice
<1>4. \A i \in 1 .. n : \/ \E j \in 1 .. m : o[j] = i
                        \/ \E k \in 1 .. l : s[k].event = i
  <2>1. \A i \in 1 .. n : \/ \E j \in 1 .. m : o[j] = i
                          \/ \E k \in 0 + 1 .. l : q[k].event = i
    BY DEF Once, NoneLost
  <2>2. 0 + 1 .. l = 1 .. l
    BY <1>1
  <2> HIDE DEF l, m
  <2> QED
    BY <1>1, <2>1, <2>2
<1> DEFINE e(k) == s[k].event
<1>5. /\ \A k \in 1 .. l : e(k) \in 1 .. n
      /\ \A j, k \in 1 .. l : e(j) = e(k) => j = k
      /\ e(l + 1) = n + 1
  BY <1>1, <1>2, <1>3
<1> HIDE DEF l, m, e
<1>6. InRange(o, s, n + 1)
  <2>1. \A j \in 1 .. m : o[j] \in 1 .. n + 1
    BY <1>2
  <2>2. \A k \in 1 .. l + 1 : e(k) \in 1 .. n + 1
    BY <1>1, <1>5
  <2> QED
    BY <1>1, <2>1, <2>2 DEF InRange, m, e
<1>7. NoneTwice(o, s, 0)
  <2>1. \A j, k \in 1 .. l + 1 : e(j) = e(k) => j = k
    BY <1>1, <1>5
  <2>2. \A j \in 1 .. m : o[j] # n + 1
    BY <1>2
  <2>3. \A j \in 1 .. m, k \in 0 + 1 .. l + 1 : o[j] # s[k].event
    BY <1>1, <1>3, <2>2
  <2> QED
    BY <1>1, <1>3, <2>1, <2>3 DEF NoneTwice, m, e
<1>8. NoneLost(o, s, 0, n + 1)
  <2> SUFFICES ASSUME NEW i \in 1 .. n + 1
               PROVE \/ \E j \in 1 .. m : o[j] = i
                     \/ \E k \in 0 + 1 .. l + 1 : s[k].event = i
    BY <1>1 DEF NoneLost, m
  <2>1. CASE i = n + 1
    BY <1>1, <2>1
  <2>2. CASE i # n + 1
    <3>1. i \in 1 .. n
      BY <2>2
    <3>2. \A k \in 1 .. l : k \in 0 + 1 .. l + 1
      BY <1>1
    <3> QED
      BY <1>4, <3>1, <3>2
  <2> QED
    BY <2>1, <2>2
<1> QED
  BY <1>6, <1>7, <1>8 DEF Once

(* The queue is sorted.                                                    *)
LEMMA OnceSorted ==
    ASSUME NEW o \in Seq(Nat), NEW q, q \in Seq(Members(q)), NEW n \in Nat,
           Once(o, q, 0, n), SortQueue(q)
    PROVE Once(o, queue', 0, n)
<1> DEFINE l == Len(q)
<1>1. DOMAIN q = 1 .. l /\ l \in Nat
  OBVIOUS
<1>2. PICK f \in Bijection(DOMAIN q, DOMAIN q) : queue' = [i \in DOMAIN q |-> q[f[i]]]
  BY DEF SortQueue
<1>3. /\ f \in [1 .. l -> 1 .. l]
      /\ \A i, j \in 1 .. l : f[i] = f[j] => i = j
      /\ \A j \in 1 .. l : \E i \in 1 .. l : f[i] = j
  BY <1>1, <1>2 DEF Bijection, Injection, Surjection, IsInjective
<1>4. Len(queue') = l
  BY SortQueueKeeps
<1>5. \A i \in 1 .. l : queue'[i] = q[f[i]]
  BY <1>1, <1>2
<1> HIDE DEF l
<1>6. InRange(o, queue', n)
  BY <1>3, <1>4, <1>5 DEF Once, InRange, l
<1>7. NoneTwice(o, queue', 0)
  <2>1. /\ \A j, k \in 1 .. l : q[j].event = q[k].event => j = k
        /\ \A j \in 1 .. Len(o), k \in 0 + 1 .. l : o[j] # q[k].event
    BY DEF Once, NoneTwice, l
  <2>2. 0 + 1 .. l = 1 .. l
    BY <1>1
  <2>3. \A j, k \in 1 .. l : queue'[j].event = queue'[k].event => j = k
    <3> TAKE j, k \in 1 .. l
    <3>1. f[j] \in 1 .. l /\ f[k] \in 1 .. l
      BY <1>3
    <3>2. queue'[j] = q[f[j]] /\ queue'[k] = q[f[k]]
      BY <1>5
    <3>3. q[f[j]].event = q[f[k]].event => f[j] = f[k]
      BY <2>1, <3>1
    <3> QED
      BY <1>3, <3>2, <3>3
  <2>4. \A j \in 1 .. Len(o), k \in 0 + 1 .. l : o[j] # queue'[k].event
    <3> TAKE j \in 1 .. Len(o), k \in 0 + 1 .. l
    <3>1. f[k] \in 0 + 1 .. l /\ queue'[k] = q[f[k]]
      BY <1>3, <1>5, <2>2
    <3> QED
      BY <2>1, <3>1
  <2> QED
    BY <1>4, <2>3, <2>4 DEF Once, NoneTwice
<1>8. NoneLost(o, queue', 0, n)
  <2> SUFFICES ASSUME NEW i \in 1 .. n
               PROVE \/ \E j \in 1 .. Len(o) : o[j] = i
                     \/ \E k \in 0 + 1 .. l : queue'[k].event = i
    BY <1>4 DEF NoneLost
  <2>1. 0 + 1 .. l = 1 .. l
    BY <1>1
  <2>2. CASE \E k \in 0 + 1 .. l : q[k].event = i
    <3>1. PICK k \in 1 .. l : q[k].event = i
      BY <2>1, <2>2
    <3>2. PICK j \in 1 .. l : f[j] = k
      BY <1>3
    <3>3. queue'[j].event = i
      BY <1>5, <3>1, <3>2
    <3> QED
      BY <2>1, <3>3
  <2> QED
    BY <2>2 DEF Once, NoneLost, l
<1> QED
  BY <1>6, <1>7, <1>8 DEF Once

(* The next of the file is handed out without a queue.                     *)
LEMMA OnceDirect ==
    ASSUME NEW o \in Seq(Nat), NEW n \in Nat, Once(o, <<>>, 0, n)
    PROVE Once(Append(o, n + 1), <<>>, 0, n + 1)
<1> DEFINE m == Len(o)
           p == Append(o, n + 1)
<1>1. m \in Nat /\ Len(p) = m + 1 /\ p[m + 1] = n + 1 /\ \A j \in 1 .. m : p[j] = o[j]
  OBVIOUS
<1>2. Len(<<>>) = 0 /\ 1 .. 0 = {} /\ 0 + 1 .. 0 = {}
  OBVIOUS
<1> HIDE DEF p
<1>3. /\ \A j \in 1 .. m : o[j] \in 1 .. n
      /\ \A j, k \in 1 .. m : o[j] = o[k] => j = k
      /\ \A i \in 1 .. n : \E j \in 1 .. m : o[j] = i
  BY <1>2 DEF Once, InRange, NoneTwice, NoneLost
<1> HIDE DEF m
<1>4. \A j \in 1 .. m + 1 : j \in 1 .. m \/ j = m + 1
  BY <1>1
<1>5. \A i \in 1 .. n + 1 : i \in 1 .. n \/ i = n + 1
  OBVIOUS
<1>6. 1 .. n \subseteq 1 .. n + 1 /\ n + 1 \in 1 .. n + 1 /\ n + 1 \notin 1 .. n
      /\ 1 .. m \subseteq 1 .. m + 1 /\ m + 1 \in 1 .. m + 1
  BY <1>1
<1>7. InRange(p, <<>>, n + 1)
  <2>1. \A j \in 1 .. m + 1 : p[j] \in 1 .. n + 1
    <3> TAKE j \in 1 .. m + 1
    <3>1. CASE j \in 1 .. m
      BY <1>1, <1>3, <1>6, <3>1
    <3>2. CASE j = m + 1
      BY <1>1, <1>6, <3>2
    <3> QED
      BY <1>4, <3>1, <3>2
  <2> QED
    BY <1>1, <1>2, <2>1 DEF InRange
<1>8. NoneTwice(p, <<>>, 0)
  <2>1. \A j, k \in 1 .. m + 1 : p[j] = p[k] => j = k
    <3> TAKE j, k \in 1 .. m + 1
    <3>1. CASE j \in 1 .. m /\ k \in 1 .. m
      BY <1>1, <1>3, <3>1
    <3>2. CASE j \in 1 .. m /\ k = m + 1
      BY <1>1, <1>3, <1>6, <3>2
    <3>3. CASE j = m + 1 /\ k \in 1 .. m
      <4>1. p[j] = n + 1 /\ p[k] = o[k] /\ o[k] \in 1 .. n
        BY <1>1, <1>3, <3>3
      <4> QED
        BY <1>6, <4>1
    <3> QED
      BY <1>4, <3>1, <3>2, <3>3
  <2> QED
    BY <1>1, <1>2, <2>1 DEF NoneTwice
<1>9. NoneLost(p, <<>>, 0, n + 1)
  <2>1. \A i \in 1 .. n + 1 : \E j \in 1 .. m + 1 : p[j] = i
    <3> TAKE i \in 1 .. n + 1
    <3>1. CASE i \in 1 .. n
      <4>1. PICK j \in 1 .. m : o[j] = i
        BY <1>3, <3>1
      <4> QED
        BY <1>1, <1>6, <4>1
    <3>2. CASE i = n + 1
      <4>1. p[m + 1] = i /\ m + 1 \in 1 .. m + 1
        BY <1>1, <1>6, <3>2
      <4> QED
        BY <4>1
    <3> QED
      BY <1>5, <3>1, <3>2
  <2> QED
    BY <1>1, <2>1 DEF NoneLost
<1> QED
  BY <1>7, <1>8, <1>9 DEF Once, p

-----------------------------------------------------------------------------
(* Where the reading stops: behind the last event or at one that is broken. *)
Stopped == AtEnd(rd) \/ file.data[rd.pos].fault # "none"

(* read_one_event goes on by one event, or stays because it has to.        *)
LEMMA ReadPosition ==
    ASSUME NEW r, ReaderOK(r), r.pos >= 1, file \in Files \cup ReopenFiles, NEW ref
    PROVE LET read == ReadOneEvent(r, ref)
          IN IF read.result = "true"
             THEN /\ read.r.pos = r.pos + 1
                  /\ r.pos \in 1 .. Len(file.data) /\ file.data[r.pos].fault = "none"
             ELSE /\ read.r.pos = r.pos
                  /\ AtEnd(r) \/ file.data[r.pos].fault # "none"
<1> DEFINE read == ReadOneEvent(r, ref)
           e == file.data[r.pos]
           room == MakeRoom(r, e)
<1>1. CASE AtEnd(r)
  BY <1>1 DEF ReadOneEvent, Read
<1>2. CASE ~AtEnd(r)
  <2>1. r.pos \in 1 .. Len(file.data)
    <3>1. r.pos \in Nat /\ Len(file.data) \in Nat
      BY FilesAssumption DEF ReaderOK
    <3> QED
      BY <1>2, <3>1 DEF AtEnd
  <2>2. EventOK(e)
    BY <2>1, FilesAssumption DEF EventOK
  <2>3. ReaderOK(room) /\ room.pos = r.pos
    BY MakeRoomOK
  <2>4. ASSUME NEW units \in Seq(Nat)
        PROVE /\ AppendUnits(room, units).pos = r.pos
              /\ DOMAIN AppendUnits(room, units) = Fields
    <3> HIDE DEF room
    <3> QED
      BY <2>3, AppendUnitsOK DEF ReaderOK
  <2>5. CASE e.fault = "none"
    <3> DEFINE r1 == AppendUnits(room, Bytes(e))
               r2 == [r1 EXCEPT !.pos = r1.pos + 1]
               r3 == HandleType(r2, e)
    <3>1. read.r = r3 /\ read.result = "true"
      BY <1>2, <2>5 DEF ReadOneEvent, ReadWhole, Read, Bytes
    <3>2. r1.pos = r.pos /\ DOMAIN r1 = Fields
      BY <2>2, <2>4, BytesType
    <3> HIDE DEF r1
    <3>3. r2.pos = r.pos + 1 /\ DOMAIN r2 = Fields
      BY <3>2 DEF Fields
    <3> HIDE DEF r2
    <3>4. SamePlace(r2, r3)
      BY <3>3, HandleTypePlace
    <3>5. r3.pos = r.pos + 1
      BY <3>3, <3>4 DEF SamePlace
    <3> HIDE DEF r3, read
    <3>6. read.result = "true" /\ read.r.pos = r.pos + 1
      BY <3>1, <3>5
    <3> QED
      BY <2>1, <2>5, <3>6 DEF read
  <2>6. CASE e.fault # "none"
    <3>1. read = ReadBroken(r, e, ref)
      BY <1>2, <2>6 DEF ReadOneEvent
    <3>2. read.result \in {"false", "error"}
      BY <2>2, <2>6, <3>1, ReadBrokenOK
    <3>3. read.r.pos = r.pos
      <4>1. /\ SubSeq(e.data, 1, PERF_EVENT_HEADER_SIZE) \in Seq(Nat) /\ e.data \in Seq(Nat)
        <5> HIDE DEF e
        <5>1. e.data \in Seq(Nat) /\ Len(e.data) >= 2 /\ Len(e.data) \in Nat
          BY <2>2, BufferAssumption DEF EventOK, PERF_EVENT_HEADER_SIZE
        <5> QED
          BY <5>1 DEF PERF_EVENT_HEADER_SIZE
      <4>2. /\ AppendUnits(room, SubSeq(e.data, 1, PERF_EVENT_HEADER_SIZE)).pos = r.pos
            /\ AppendUnits(room, e.data).pos = r.pos
        BY <2>4, <4>1
      <4>3. read.r \in {r, AppendUnits(room, SubSeq(e.data, 1, PERF_EVENT_HEADER_SIZE)),
                        AppendUnits(room, e.data)}
        <5>1. e.fault \in {"header", "size", "data", "post"}
          BY <2>2, <2>6 DEF EventOK, Faults
        <5> HIDE DEF e, room
        <5>2. ReadBroken(r, e, ref).r \in {r,
                  AppendUnits(MakeRoom(r, e), SubSeq(e.data, 1, PERF_EVENT_HEADER_SIZE)),
                  AppendUnits(MakeRoom(r, e), e.data)}
          BY <5>1 DEF ReadBroken, Read
        <5> QED
          BY <3>1, <5>2 DEF room
      <4> QED
        BY <4>2, <4>3
    <3> QED
      BY <2>6, <3>2, <3>3
  <2> QED
    BY <2>5, <2>6
<1> QED
  BY <1>1, <1>2

(* The second half of the inductive invariant.                             *)
OnceInv ==
    file # NoFile =>
        /\ Once(out, queue, consumed, rd.pos - 1)
        /\ order = "File" => /\ Len(out) = rd.pos - 1 /\ pending = "none"
                             /\ \A j \in 1 .. Len(out) : out[j] = j
        /\ pc = "filling" => consumed = 0 /\ pending = "none"
        /\ pending # "none" => Stopped
        /\ pc = "idle" /\ result \in {"false", "error"} => Stopped /\ consumed = Len(queue)

LEMMA StoppedStays ==
    ASSUME file' = file, rd'.pos = rd.pos, Stopped
    PROVE Stopped'
  BY DEF Stopped, AtEnd

LEMMA OnceOpen ==
    ASSUME IndInv, NEW f \in Files \cup ReopenFiles, NEW o \in {"File", "Time"}, OpenFile(f, o)
    PROVE OnceInv'
<1>1. CASE f.open_fault = "none"
  <2>1. rd'.pos = 1
    BY <1>1, OpenOK DEF IndInv, OpenFile
  <2>2. /\ out' = <<>> /\ queue' = <<>> /\ consumed' = 0 /\ pending' = "none"
        /\ result' = "opened" /\ pc' = "idle"
    BY <1>1 DEF OpenFile
  <2>3. rd'.pos - 1 = 0 /\ Len(<<>>) = 0
    BY <2>1
  <2> QED
    BY <2>2, <2>3, OnceNothing DEF OnceInv
<1>2. CASE f.open_fault # "none"
  BY <1>2 DEF OpenFile, OnceInv
<1> QED
  BY <1>1, <1>2

LEMMA OnceFileOrder ==
    ASSUME IndInv, OnceInv, MoveNextFileOrder
    PROVE OnceInv'
<1> DEFINE r == [rd EXCEPT !.buffers[1] = <<>>]
           read == ReadOneEvent(r, current)
           n == rd.pos - 1
<1>1. /\ pc = "idle" /\ file # NoFile /\ order = "File"
      /\ rd' = read.r /\ result' = read.result
      /\ IF read.result = "true" THEN HandOut(rd.pos) ELSE UNCHANGED out
      /\ UNCHANGED <<file, order, queue, consumed, pending, pc>>
  BY DEF MoveNextFileOrder, MayRead, queueVars
<1>2. /\ file \in Files \cup ReopenFiles /\ rd.pos >= 1 /\ queue = <<>> /\ rd.current_buffer = 1
      /\ rd.pos \in Nat /\ out \in Seq(Nat) /\ consumed \in 0 .. Len(queue)
  BY <1>1 DEF IndInv, OrderOK, ReaderOK, CurrentOK, QueueOK
<1>3. ReaderOK(r) /\ r.pos = rd.pos
  BY <1>2, FileOrderReader DEF IndInv
<1>4. IF read.result = "true" THEN read.r.pos = rd.pos + 1
      ELSE read.r.pos = rd.pos /\ (AtEnd(r) \/ file.data[rd.pos].fault # "none")
  <2> HIDE DEF r
  <2> QED
    BY <1>2, <1>3, ReadPosition
<1>5. AtEnd(r) => AtEnd(rd)
  BY <1>3 DEF AtEnd
<1> HIDE DEF r, read
<1>6. Len(<<>>) = 0 /\ consumed = 0
  BY <1>2
<1>7. /\ Once(out, <<>>, 0, n) /\ Len(out) = n /\ \A j \in 1 .. Len(out) : out[j] = j
      /\ pending = "none"
  BY <1>1, <1>2, <1>6 DEF OnceInv
<1>8. n \in Nat /\ n + 1 = rd.pos
  BY <1>2
<1>9. CASE read.result = "true"
  <2>1. out' = Append(out, n + 1) /\ rd'.pos - 1 = n + 1
    <3>1. out' = Append(out, rd.pos)
      BY <1>1, <1>9 DEF HandOut
    <3>2. rd'.pos = rd.pos + 1
      BY <1>1, <1>4, <1>9
    <3> QED
      BY <1>2, <1>8, <3>1, <3>2
  <2> HIDE DEF n
  <2>2. Once(out', <<>>, 0, n + 1)
    BY <1>2, <1>7, <1>8, <2>1, OnceDirect
  <2>3. Len(out') = n + 1 /\ \A j \in 1 .. n + 1 : out'[j] = j
    <3>1. Len(out') = Len(out) + 1 /\ out'[Len(out) + 1] = n + 1
          /\ \A j \in 1 .. Len(out) : out'[j] = out[j]
      BY <1>2, <1>8, <2>1
    <3>2. \A j \in 1 .. n + 1 : j \in 1 .. n \/ j = n + 1
      BY <1>8
    <3>3. Len(out') = n + 1 /\ out'[n + 1] = n + 1 /\ \A j \in 1 .. n : out'[j] = j
      BY <1>7, <3>1
    <3> QED
      BY <3>2, <3>3
  <2> QED
    BY <1>1, <1>2, <1>6, <1>7, <1>9, <2>1, <2>2, <2>3 DEF OnceInv
<1>10. CASE read.result # "true"
  <2>1. out' = out /\ rd'.pos = rd.pos
    BY <1>1, <1>4, <1>10
  <2>2. Stopped'
    BY <1>1, <1>4, <1>5, <1>10, <2>1, StoppedStays DEF Stopped
  <2>3. Once(out', queue', consumed', rd'.pos - 1)
    BY <1>1, <1>2, <1>6, <1>7, <2>1
  <2>4. Len(out') = rd'.pos - 1 /\ \A j \in 1 .. Len(out') : out'[j] = j
    BY <1>7, <2>1
  <2>5. consumed' = Len(queue')
    BY <1>1, <1>2, <1>6
  <2> QED
    BY <1>1, <1>7, <2>2, <2>3, <2>4, <2>5 DEF OnceInv
<1> QED
  BY <1>9, <1>10

LEMMA OnceTakeQueued ==
    ASSUME IndInv, OnceInv, TakeQueued
    PROVE OnceInv'
<1>1. /\ order = "Time" /\ file # NoFile /\ consumed < Len(queue)
      /\ consumed' = consumed + 1 /\ out' = Append(out, queue[consumed + 1].event)
      /\ result' = "true" /\ pc' = "idle"
      /\ UNCHANGED <<file, order, rd, queue, pending>>
  BY DEF TakeQueued, AtTop, MayRead, HandOut, IndInv, OrderOK
<1>2. /\ out \in Seq(Nat) /\ Len(queue) \in Nat /\ consumed \in Nat /\ rd.pos - 1 \in Nat
  BY <1>1 DEF IndInv, QueueOK, CurrentOK, OrderOK, ReaderOK
<1>3. Once(out, queue, consumed, rd.pos - 1) /\ (pending # "none" => Stopped)
  BY <1>1 DEF OnceInv
<1>4. Once(out', queue', consumed', rd'.pos - 1)
  BY <1>1, <1>2, <1>3, OnceTaken
<1>5. pending' # "none" => Stopped'
  BY <1>1, <1>3, StoppedStays
<1> QED
  BY <1>1, <1>4, <1>5 DEF OnceInv

LEMMA OnceTakePending ==
    ASSUME IndInv, OnceInv, TakePending
    PROVE OnceInv'
<1>1. /\ order = "Time" /\ file # NoFile /\ pending # "none" /\ consumed = Len(queue)
      /\ result' = pending /\ pending' = "none" /\ pc' = "idle"
      /\ UNCHANGED <<file, order, rd, queue, consumed, out>>
  BY DEF TakePending, AtTop, MayRead, IndInv, OrderOK
<1>2. Once(out, queue, consumed, rd.pos - 1) /\ Stopped
  BY <1>1 DEF OnceInv
<1>3. Stopped'
  BY <1>1, <1>2, StoppedStays
<1> QED
  BY <1>1, <1>2, <1>3 DEF OnceInv

LEMMA OnceStartRound ==
    ASSUME IndInv, OnceInv, StartRound
    PROVE OnceInv'
<1>1. /\ order = "Time" /\ file # NoFile /\ pending = "none" /\ consumed = Len(queue)
      /\ queue' = <<>> /\ consumed' = 0 /\ pc' = "filling"
      /\ UNCHANGED <<file, order, rd, pending, out>>
  BY DEF StartRound, AtTop, MayRead, IndInv, OrderOK
<1>2. /\ out \in Seq(Nat) /\ Len(queue) \in Nat /\ rd.pos - 1 \in Nat
  BY <1>1 DEF IndInv, QueueOK, CurrentOK, OrderOK, ReaderOK
<1>3. Once(out', queue', consumed', rd'.pos - 1)
  BY <1>1, <1>2, OnceRestarted DEF OnceInv
<1> QED
  BY <1>1, <1>3 DEF OnceInv

LEMMA OnceFillQueue ==
    ASSUME IndInv, OnceInv, FillQueue
    PROVE OnceInv'
<1> DEFINE read == ReadOneEvent(rd, NoRef)
           entry == NewEntry(read)
           q == Append(queue, entry)
           n == rd.pos - 1
<1>1. /\ pc = "filling" /\ rd' = read.r
      /\ RoundBreaks(read) \/ RoundGoesOn(read) \/ RoundEnds(read)
      /\ UNCHANGED <<file, order, consumed, result, out>>
  BY DEF FillQueue
<1>2. /\ file # NoFile /\ order = "Time" /\ file \in Files \cup ReopenFiles /\ rd.pos >= 1
      /\ ReaderOK(rd) /\ rd.pos \in Nat
      /\ queue \in Seq(Members(queue)) /\ out \in Seq(Nat)
  BY <1>1 DEF IndInv, OrderOK, QueueOK, CurrentOK, ReaderOK
<1>3. IF read.result = "true" THEN read.r.pos = rd.pos + 1
      ELSE read.r.pos = rd.pos /\ Stopped
  BY <1>2, ReadPosition DEF Stopped
<1>4. entry.event = rd.pos
  BY DEF NewEntry
<1>5. n \in Nat /\ rd.pos = n + 1 /\ Len(queue) \in Nat
  BY <1>2
<1>6. Once(out, queue, 0, n) /\ consumed = 0 /\ pending = "none"
  BY <1>1, <1>2 DEF OnceInv
<1> HIDE DEF read
<1>7. CASE RoundBreaks(read)
  <2>1. read.result # "true" /\ SortQueue(queue) /\ pc' = "filled"
    BY <1>7 DEF RoundBreaks
  <2>2. rd'.pos = rd.pos /\ Stopped'
    BY <1>1, <1>3, <2>1, StoppedStays
  <2>3. Once(out, queue', 0, n)
    BY <1>2, <1>5, <1>6, <2>1, OnceSorted
  <2> QED
    BY <1>1, <1>2, <1>6, <2>1, <2>2, <2>3 DEF OnceInv
<1> HIDE DEF entry
<1>8. /\ q \in Seq(Members(q)) /\ Len(q) = Len(queue) + 1
      /\ \A k \in 1 .. Len(queue) : q[k] = queue[k]
      /\ q[Len(queue) + 1] = entry
  BY <1>2, AppendKeepsEntries
<1> HIDE DEF q, n
<1>9. Once(out, q, 0, n + 1)
  <2>1. q[Len(queue) + 1].event = n + 1
    BY <1>4, <1>5, <1>8
  <2> QED
    BY <1>2, <1>5, <1>6, <1>8, <2>1, OnceQueued
<1>10. read.result = "true" => rd'.pos - 1 = n + 1
  BY <1>1, <1>3, <1>5
<1>11. CASE RoundGoesOn(read)
  <2>1. read.result = "true" /\ queue' = q /\ pc' = pc /\ pending' = pending
    BY <1>11 DEF RoundGoesOn, q, entry
  <2> QED
    BY <1>1, <1>2, <1>6, <1>9, <1>10, <2>1 DEF OnceInv
<1>12. CASE RoundEnds(read)
  <2>1. read.result = "true" /\ SortQueue(q) /\ pc' = "filled" /\ pending' = pending
    BY <1>12 DEF RoundEnds, q, entry
  <2>2. Once(out, queue', 0, n + 1)
    BY <1>2, <1>5, <1>8, <1>9, <2>1, OnceSorted
  <2> QED
    BY <1>1, <1>2, <1>6, <1>10, <2>1, <2>2 DEF OnceInv
<1> QED
  BY <1>1, <1>7, <1>11, <1>12

-----------------------------------------------------------------------------
(* The events read so far are in the file, and whole.                      *)
WholeInv ==
    file # NoFile =>
        \A i \in 1 .. rd.pos - 1 : i \in 1 .. Len(file.data) /\ file.data[i].fault = "none"

LEMMA WholeGoesOn ==
    ASSUME WholeInv, file' = file, file # NoFile, rd.pos \in Nat, rd.pos >= 1,
           \/ rd'.pos = rd.pos
           \/ /\ rd'.pos = rd.pos + 1
              /\ rd.pos \in 1 .. Len(file.data) /\ file.data[rd.pos].fault = "none"
    PROVE WholeInv'
<1> SUFFICES ASSUME NEW i \in 1 .. rd'.pos - 1
             PROVE i \in 1 .. Len(file.data) /\ file.data[i].fault = "none"
  BY DEF WholeInv
<1>1. CASE i \in 1 .. rd.pos - 1
  BY <1>1 DEF WholeInv
<1>2. CASE i \notin 1 .. rd.pos - 1
  <2>1. i = rd.pos /\ rd'.pos # rd.pos
    BY <1>2
  <2> QED
    BY <2>1
<1> QED
  BY <1>1, <1>2

LEMMA WholeNext ==
    ASSUME IndInv, WholeInv, [Next]_vars
    PROVE WholeInv'
<1>0. /\ rd.pos \in Nat
      /\ file # NoFile => file \in Files \cup ReopenFiles /\ rd.pos >= 1
      /\ ReaderOK(rd)
  BY DEF IndInv, OrderOK, ReaderOK
<1>1. CASE Open
  <2>1. PICK f \in Files \cup ReopenFiles, o \in {"File", "Time"} : OpenFile(f, o)
    BY <1>1 DEF Open
  <2>2. CASE f.open_fault = "none"
    <3>1. rd'.pos = 1
      BY <1>0, <2>1, <2>2, OpenOK DEF OpenFile
    <3>2. 1 .. rd'.pos - 1 = {}
      BY <3>1
    <3> QED
      BY <3>2 DEF WholeInv
  <2>3. CASE f.open_fault # "none"
    BY <2>1, <2>3 DEF OpenFile, WholeInv
  <2> QED
    BY <2>2, <2>3
<1>2. CASE Close
  BY <1>2 DEF Close, WholeInv
<1>3. CASE MoveNextFileOrder
  <2> DEFINE r == [rd EXCEPT !.buffers[1] = <<>>]
             read == ReadOneEvent(r, current)
  <2>1. /\ file # NoFile /\ order = "File" /\ rd' = read.r /\ file' = file
    BY <1>3 DEF MoveNextFileOrder, MayRead
  <2>2. ReaderOK(r) /\ r.pos = rd.pos
    BY <1>0, <2>1, FileOrderReader DEF IndInv, OrderOK
  <2>3. IF read.result = "true"
        THEN /\ read.r.pos = rd.pos + 1
             /\ rd.pos \in 1 .. Len(file.data) /\ file.data[rd.pos].fault = "none"
        ELSE read.r.pos = rd.pos
    <3> HIDE DEF r
    <3> QED
      BY <1>0, <2>1, <2>2, ReadPosition
  <2> HIDE DEF read
  <2> QED
    BY <1>0, <2>1, <2>3, WholeGoesOn
<1>4. CASE FillQueue
  <2> DEFINE read == ReadOneEvent(rd, NoRef)
  <2>1. file # NoFile /\ rd' = read.r /\ file' = file
    BY <1>4 DEF FillQueue, IndInv, OrderOK
  <2>2. IF read.result = "true"
        THEN /\ read.r.pos = rd.pos + 1
             /\ rd.pos \in 1 .. Len(file.data) /\ file.data[rd.pos].fault = "none"
        ELSE read.r.pos = rd.pos
    BY <1>0, <2>1, ReadPosition
  <2> HIDE DEF read
  <2> QED
    BY <1>0, <2>1, <2>2, WholeGoesOn
<1>5. CASE MoveNextNoFile \/ TakeQueued \/ TakePending \/ StartRound \/ UNCHANGED vars
  <2>1. file' = file /\ rd' = rd
    BY <1>5 DEF MoveNextNoFile, TakeQueued, TakePending, StartRound, vars
  <2> QED
    BY <2>1 DEF WholeInv
<1> QED
  BY <1>1, <1>2, <1>3, <1>4, <1>5 DEF Next, MoveNext

LEMMA OnceNext ==
    ASSUME IndInv, OnceInv, [Next]_vars
    PROVE OnceInv'
<1>1. CASE Open
  <2>1. PICK f \in Files \cup ReopenFiles, o \in {"File", "Time"} : OpenFile(f, o)
    BY <1>1 DEF Open
  <2> QED
    BY <2>1, OnceOpen
<1>2. CASE Close \/ MoveNextNoFile
  BY <1>2 DEF Close, MoveNextNoFile, OnceInv
<1>3. CASE UNCHANGED vars
  <2>1. UNCHANGED <<file, order, rd, queue, consumed, pending, pc, result, out>>
    BY <1>3 DEF vars
  <2> QED
    BY <2>1 DEF OnceInv, Stopped, AtEnd
<1> QED
  BY <1>1, <1>2, <1>3, OnceFileOrder, OnceTakeQueued, OnceTakePending, OnceStartRound,
     OnceFillQueue DEF Next, MoveNext

(* The events before the first that is broken.                             *)
Readable ==
    {i \in 1 .. Len(file.data) : \A j \in 1 .. i : file.data[j].fault = "none"}

(* Events are handed out once each, in file order one after the other, and *)
(* the end of the file or an error is reported after every readable one.   *)
EachEventOnce ==
    file # NoFile =>
        /\ \A j, k \in DOMAIN out : out[j] = out[k] => j = k
        /\ Range(out) \subseteq Readable
        /\ order = "File" => \A j \in DOMAIN out : out[j] = j
        /\ pc = "idle" /\ result \in {"false", "error"} => Range(out) = Readable

LEMMA OnceMeansOnce ==
    ASSUME IndInv, OnceInv, WholeInv
    PROVE EachEventOnce
<1> SUFFICES ASSUME file # NoFile PROVE EachEventOnce
  BY DEF EachEventOnce
<1> DEFINE n == rd.pos - 1
<1>1. /\ DOMAIN out = 1 .. Len(out) /\ Len(queue) \in Nat /\ n \in Nat /\ rd.pos = n + 1
      /\ Len(file.data) \in Nat
  <2>1. out \in Seq(Nat) /\ queue \in Seq(Members(queue))
    BY DEF IndInv, CurrentOK, QueueOK
  <2>2. DOMAIN out = 1 .. Len(out) /\ Len(queue) \in Nat
    BY <2>1, LenProperties
  <2>3. rd.pos \in Nat /\ rd.pos >= 1 /\ file \in Files \cup ReopenFiles
    BY DEF IndInv, OrderOK, ReaderOK
  <2>4. n \in Nat /\ rd.pos = n + 1
    BY <2>3
  <2>5. Len(file.data) \in Nat
    BY <2>3, FilesAssumption
  <2> QED BY <2>2, <2>4, <2>5
<1>2. InRange(out, queue, n) /\ NoneTwice(out, queue, consumed) /\ NoneLost(out, queue, consumed, n)
  BY DEF OnceInv, Once
<1>3. \A i \in 1 .. n : i \in 1 .. Len(file.data) /\ file.data[i].fault = "none"
  BY DEF WholeInv
<1> HIDE DEF n
<1>4. 1 .. n \subseteq Readable
  <2> SUFFICES ASSUME NEW i \in 1 .. n PROVE i \in Readable
    OBVIOUS
  <2>1. \A j \in 1 .. i : j \in 1 .. n
    BY <1>1
  <2> QED
    BY <1>3, <2>1 DEF Readable
<1>5. Range(out) \subseteq 1 .. n
  BY <1>1, <1>2 DEF InRange, Range
<1>6. \A j, k \in DOMAIN out : out[j] = out[k] => j = k
  BY <1>1, <1>2 DEF NoneTwice
<1>7. order = "File" => \A j \in DOMAIN out : out[j] = j
  BY <1>1 DEF OnceInv
<1>8. ASSUME pc = "idle", result \in {"false", "error"}
      PROVE Range(out) = Readable
  <2>1. Stopped /\ consumed = Len(queue)
    BY <1>8 DEF OnceInv
  <2>2. consumed + 1 .. Len(queue) = {}
    BY <1>1, <2>1
  <2>3. 1 .. n \subseteq Range(out)
    BY <1>1, <1>2, <2>2 DEF NoneLost, Range
  <2>4. Readable \subseteq 1 .. n
    <3> SUFFICES ASSUME NEW i \in Readable, i \notin 1 .. n PROVE FALSE
      OBVIOUS
    <3>1. i \in 1 .. Len(file.data) /\ \A j \in 1 .. i : file.data[j].fault = "none"
      BY DEF Readable
    <3>2. rd.pos \in 1 .. i /\ rd.pos <= Len(file.data)
      BY <1>1, <3>1
    <3> QED
      BY <1>1, <2>1, <3>1, <3>2 DEF Stopped, AtEnd
  <2> QED
    BY <1>4, <1>5, <2>3, <2>4
<1> QED
  BY <1>4, <1>5, <1>6, <1>7, <1>8 DEF EachEventOnce

(* move_next_event loses and repeats no event, whatever the rounds of the  *)
(* file, the sizes of the buffers and the order asked for.                 *)
THEOREM ReaderEachEventOnce == Spec => []EachEventOnce
<1>1. Init => OnceInv /\ WholeInv
  BY DEF Init, OnceInv, WholeInv
<1>2. IndInv /\ OnceInv /\ WholeInv /\ [Next]_vars => (OnceInv /\ WholeInv)'
  BY OnceNext, WholeNext
<1>3. IndInv /\ OnceInv /\ WholeInv => EachEventOnce
  BY OnceMeansOnce
<1> QED
  BY <1>1, <1>2, <1>3, InvAlways, PTL DEF Spec

-----------------------------------------------------------------------------
(* In time order no event is handed out after one of a later round, and    *)
(* the events of the current round are queued and handed out by their      *)
(* times, those of equal times as they follow in the file.  The times are  *)
(* the ones the reader finds in the events; nothing is asked of those.     *)
LaterRound(i, j) == \E e \in j .. i - 1 : EndsRound(file.data[e])

RoundsInOrder ==
    file # NoFile /\ order = "Time" =>
        /\ \A a, b \in DOMAIN out : a < b => ~LaterRound(out[a], out[b])
        /\ \A k \in 1 .. consumed : out[Len(out) - consumed + k] = queue[k].event
        /\ pc # "filling" =>
              \A k, l \in DOMAIN queue : k < l =>
                  \/ queue[k].time < queue[l].time
                  \/ queue[k].time = queue[l].time /\ queue[k].event < queue[l].event

(* The order of the events.  D are the places of the events that end a     *)
(* round; the round of the queue began behind the first Len(o) - c of the  *)
(* events that were handed out.                                            *)
SameRound(D, i, j) == \A e \in j .. i - 1 : e \notin D
Ends == {e \in Nat : EndsRound(file.data[e])}

Before(o, q, c) ==
    /\ c <= Len(o)
    /\ \A a \in 1 .. Len(o) - c, k \in 1 .. Len(q) : o[a] < q[k].event
    /\ \A k \in 1 .. c : o[Len(o) - c + k] = q[k].event
OneRound(q, D) == \A k, l \in 1 .. Len(q) : SameRound(D, q[k].event, q[l].event)
AsInFile(q) ==
    \A k, l \in 1 .. Len(q) : q[k].round_sequence < q[l].round_sequence => q[k].event < q[l].event
OutInOrder(o, D) == \A a, b \in 1 .. Len(o) : a < b => SameRound(D, o[a], o[b])

Rounds(o, q, c, D) == Before(o, q, c) /\ OneRound(q, D) /\ AsInFile(q) /\ OutInOrder(o, D)

(* While the queue fills, nothing in it ends the round, and its entries    *)
(* are numbered below the next one's number.                               *)
Filling(q, n, D) ==
    \A k \in 1 .. Len(q) :
        /\ SameRound(D, n + 1, q[k].event)
        /\ q[k].round_sequence \in 0 .. Len(q) - 1

Sorted(q) == \A k, l \in 1 .. Len(q) : k < l => EntryBefore(q[k], q[l])

LEMMA RoundsNothing == ASSUME NEW D PROVE Rounds(<<>>, <<>>, 0, D)
  BY DEF Rounds, Before, OneRound, AsInFile, OutInOrder

LEMMA EarlierSameRound ==
    ASSUME NEW D, NEW i \in Nat, NEW j \in Nat, i < j
    PROVE SameRound(D, i, j)
  BY DEF SameRound

(* The next of the queue is handed out.                                    *)
LEMMA RoundsTaken ==
    ASSUME NEW D, NEW o \in Seq(Nat), NEW q, Len(q) \in Nat, NEW c \in Nat, c < Len(q),
           \A k \in 1 .. Len(q) : q[k].event \in Nat, Rounds(o, q, c, D)
    PROVE Rounds(Append(o, q[c + 1].event), q, c + 1, D)
<1> DEFINE x == q[c + 1].event
           p == Append(o, x)
           m == Len(o)
<1>1. m \in Nat /\ c + 1 \in 1 .. Len(q) /\ x \in Nat
  OBVIOUS
<1>2. Len(p) = m + 1 /\ p[m + 1] = x /\ \A a \in 1 .. m : p[a] = o[a]
  BY <1>1
<1>3. /\ c <= m
      /\ \A a \in 1 .. m - c, k \in 1 .. Len(q) : o[a] < q[k].event
      /\ \A k \in 1 .. c : o[m - c + k] = q[k].event
      /\ \A k, l \in 1 .. Len(q) : SameRound(D, q[k].event, q[l].event)
      /\ \A a, b \in 1 .. m : a < b => SameRound(D, o[a], o[b])
  BY DEF Rounds, Before, OneRound, OutInOrder
<1>4. \A a \in 1 .. m : o[a] \in Nat
  OBVIOUS
<1> HIDE DEF p, x, m
<1>5. Before(p, q, c + 1)
  <2>1. c + 1 <= Len(p) /\ Len(p) - (c + 1) = m - c
    BY <1>1, <1>2, <1>3
  <2>2. ASSUME NEW a \in 1 .. m - c, NEW k \in 1 .. Len(q) PROVE p[a] < q[k].event
    <3>1. a \in 1 .. m
      BY <1>1, <1>3
    <3> QED BY <1>2, <1>3, <3>1
  <2>3. ASSUME NEW k \in 1 .. c + 1 PROVE p[m - c + k] = q[k].event
    <3>1. CASE k \in 1 .. c
      <4>1. m - c + k \in 1 .. m
        BY <1>1, <1>3, <3>1
      <4> QED BY <1>2, <1>3, <3>1, <4>1
    <3>2. CASE k = c + 1
      <4>1. m - c + k = m + 1
        BY <1>1, <1>3, <3>2
      <4> QED BY <1>2, <3>2, <4>1 DEF x
    <3> QED BY <3>1, <3>2
  <2> QED BY <2>1, <2>2, <2>3 DEF Before
<1>6. OutInOrder(p, D)
  <2> SUFFICES ASSUME NEW a \in 1 .. m + 1, NEW b \in 1 .. m + 1, a < b
               PROVE SameRound(D, p[a], p[b])
    BY <1>2 DEF OutInOrder
  <2>1. CASE b \in 1 .. m
    <3>1. a \in 1 .. m
      BY <2>1, <1>1
    <3> QED BY <1>2, <1>3, <2>1, <3>1
  <2>2. CASE b \notin 1 .. m
    <3>0. b = m + 1 /\ a \in 1 .. m
      BY <1>1, <2>2
    <3>1. b = m + 1 /\ a \in 1 .. m /\ p[b] = x /\ p[a] = o[a]
      BY ONLY <1>2, <3>0, Zenon
    <3>2. CASE a \in 1 .. m - c
      <4>1. o[a] < x
        BY <1>1, <1>3, <3>2 DEF x
      <4> QED BY <1>1, <1>4, <3>1, <4>1, EarlierSameRound
    <3>3. CASE a \notin 1 .. m - c
      <4> DEFINE k == a - (m - c)
      <4>1. k \in 1 .. c /\ m - c + k = a
        BY <1>1, <1>3, <3>1, <3>3
      <4>2. k \in 1 .. Len(q)
        BY <4>1, <1>1
      <4> HIDE DEF k
      <4>3. o[a] = q[k].event
        BY <1>3, <4>1
      <4>4. SameRound(D, q[k].event, q[c + 1].event)
        BY <1>1, <1>3, <4>2
      <4> QED BY <3>1, <4>3, <4>4 DEF x
    <3> QED BY <3>2, <3>3
  <2> QED BY <2>1, <2>2
<1> QED BY <1>5, <1>6 DEF Rounds, p, x

(* A new round: what was handed out lies before all that is still read.    *)
LEMMA RoundsRestarted ==
    ASSUME NEW D, NEW o \in Seq(Nat), NEW q, NEW c, Rounds(o, q, c, D)
    PROVE Rounds(o, <<>>, 0, D)
<1>1. Len(<<>>) = 0 /\ 0 <= Len(o) /\ 1 .. 0 = {}
  OBVIOUS
<1>2. OutInOrder(o, D)
  BY DEF Rounds
<1> QED BY ONLY <1>1, <1>2 DEF Rounds, Before, OneRound, AsInFile

(* The event at n + 1 is queued.                                           *)
LEMMA RoundsQueued ==
    ASSUME NEW D, NEW o \in Seq(Nat), NEW q, Len(q) \in Nat, NEW n \in Nat, Rounds(o, q, 0, D),
           Filling(q, n, D), InRange(o, q, n),
           NEW s, Len(s) = Len(q) + 1, \A k \in 1 .. Len(q) : s[k] = q[k],
           s[Len(q) + 1].event = n + 1, s[Len(q) + 1].round_sequence = Len(q)
    PROVE Rounds(o, s, 0, D) /\ (n + 1 \notin D => Filling(s, n + 1, D))
<1> DEFINE l == Len(q)
           m == Len(o)
<1>1. l \in Nat /\ m \in Nat /\ Len(s) = l + 1 /\ s[l + 1].event = n + 1 /\ s[l + 1].round_sequence = l
      /\ \A k \in 1 .. l : s[k].event = q[k].event /\ s[k].round_sequence = q[k].round_sequence
  OBVIOUS
<1>2. /\ \A a \in 1 .. m : o[a] \in 1 .. n
      /\ \A k \in 1 .. l : s[k].event \in 1 .. n
  BY <1>1 DEF InRange
<1>3. /\ \A a \in 1 .. m, k \in 1 .. l : o[a] < s[k].event
      /\ \A i, k \in 1 .. l : SameRound(D, s[i].event, s[k].event)
      /\ \A i, k \in 1 .. l : s[i].round_sequence < s[k].round_sequence => s[i].event < s[k].event
      /\ OutInOrder(o, D)
  <2>1. m - 0 = m
    BY <1>1
  <2> QED BY <1>1, <2>1 DEF Rounds, Before, OneRound, AsInFile
<1>4. /\ \A k \in 1 .. l : SameRound(D, n + 1, s[k].event) /\ s[k].round_sequence \in 0 .. l - 1
  BY <1>1 DEF Filling
<1> HIDE DEF l, m
<1>5. \A k \in 1 .. l + 1 : k \in 1 .. l \/ k = l + 1
  BY <1>1
<1>6. Before(o, s, 0)
  <2>1. ASSUME NEW a \in 1 .. m, NEW k \in 1 .. l + 1 PROVE o[a] < s[k].event
    <3>1. o[a] < n + 1
      BY <1>2
    <3> QED BY <1>1, <1>3, <1>5, <3>1
  <2>2. 1 .. 0 = {} /\ m - 0 = m /\ 0 <= m
    BY <1>1
  <2> QED BY <1>1, <2>1, <2>2 DEF Before, m
<1>7. OneRound(s, D)
  <2> SUFFICES ASSUME NEW i \in 1 .. l + 1, NEW k \in 1 .. l + 1
               PROVE SameRound(D, s[i].event, s[k].event)
    BY <1>1 DEF OneRound
  <2>1. CASE i \in 1 .. l /\ k \in 1 .. l
    BY <1>3, <2>1
  <2>2. CASE i = l + 1 /\ k \in 1 .. l
    BY <1>1, <1>4, <2>2
  <2>3. CASE i \in 1 .. l /\ k = l + 1
    <3>1. s[i].event \in Nat /\ s[i].event < n + 1 /\ n + 1 \in Nat /\ s[k].event = n + 1
      BY <1>1, <1>2, <2>3
    <3> QED BY <3>1, EarlierSameRound
  <2>4. CASE i = l + 1 /\ k = l + 1
    <3>1. SameRound(D, n + 1, n + 1)
      BY DEF SameRound
    <3> QED BY <1>1, <2>4, <3>1
  <2> QED BY <1>5, <2>1, <2>2, <2>3, <2>4
<1>8. AsInFile(s)
  <2> SUFFICES ASSUME NEW i \in 1 .. l + 1, NEW k \in 1 .. l + 1,
                      s[i].round_sequence < s[k].round_sequence
               PROVE s[i].event < s[k].event
    BY <1>1 DEF AsInFile
  <2>1. CASE i \in 1 .. l /\ k \in 1 .. l
    BY <1>3, <2>1
  <2>2. CASE i = l + 1 /\ k \in 1 .. l
    BY <1>1, <1>4, <2>2
  <2>3. CASE i \in 1 .. l /\ k = l + 1
    BY <1>1, <1>2, <2>3
  <2>4. CASE i = l + 1 /\ k = l + 1
    BY <1>1, <2>4
  <2> QED BY <1>5, <2>1, <2>2, <2>3, <2>4
<1>9. ASSUME n + 1 \notin D PROVE Filling(s, n + 1, D)
  <2> SUFFICES ASSUME NEW k \in 1 .. l + 1
               PROVE SameRound(D, n + 2, s[k].event) /\ s[k].round_sequence \in 0 .. l
    <3>1. n + 1 + 1 = n + 2 /\ l + 1 - 1 = l
      BY <1>1
    <3> QED BY <1>1, <3>1 DEF Filling
  <2>1. s[k].round_sequence \in 0 .. l
    BY <1>1, <1>4, <1>5
  <2>2. SameRound(D, n + 2, s[k].event)
    <3> SUFFICES ASSUME NEW e \in s[k].event .. n + 2 - 1 PROVE e \notin D
      BY DEF SameRound
    <3>1. s[k].event \in 1 .. n + 1
      BY <1>1, <1>2, <1>5
    <3>2. CASE e = n + 1
      BY <1>9, <3>2
    <3>3. CASE e # n + 1
      <4>1. e \in s[k].event .. n + 1 - 1 /\ k # l + 1
        BY <1>1, <3>1, <3>3
      <4> QED BY <1>4, <1>5, <4>1 DEF SameRound
    <3> QED BY <3>2, <3>3
  <2> QED BY <2>1, <2>2
<1> QED BY <1>3, <1>6, <1>7, <1>8, <1>9 DEF Rounds

(* A sort keeps what is said of any two entries, and sorts.                *)
LEMMA RoundsSorted ==
    ASSUME NEW D, NEW o \in Seq(Nat), NEW q, q \in Seq(Members(q)), Rounds(o, q, 0, D), SortQueue(q)
    PROVE Rounds(o, queue', 0, D) /\ Sorted(queue')
<1>1. DOMAIN q = 1 .. Len(q) /\ Len(q) \in Nat
  OBVIOUS
<1>2. Len(queue') = Len(q) /\ \A k \in 1 .. Len(q) : \E j \in 1 .. Len(q) : queue'[k] = q[j]
  BY SortQueueKeeps
<1>3. Sorted(queue')
  BY <1>1, <1>2 DEF SortQueue, Sorted
<1>4. Before(o, q, 0) /\ OneRound(q, D) /\ AsInFile(q) /\ OutInOrder(o, D)
  BY DEF Rounds
<1>5. Before(o, queue', 0)
  <2>1. 1 .. 0 = {}
    OBVIOUS
  <2> QED BY <1>2, <1>4, <2>1 DEF Before
<1>6. OneRound(queue', D)
  <2> SUFFICES ASSUME NEW k \in 1 .. Len(q), NEW l \in 1 .. Len(q)
               PROVE SameRound(D, queue'[k].event, queue'[l].event)
    BY <1>2 DEF OneRound
  <2>1. PICK i \in 1 .. Len(q) : queue'[k] = q[i]
    BY ONLY <1>2, Zenon
  <2>2. PICK j \in 1 .. Len(q) : queue'[l] = q[j]
    BY ONLY <1>2, Zenon
  <2> QED BY ONLY <1>4, <2>1, <2>2, Zenon DEF OneRound
<1>7. AsInFile(queue')
  <2> SUFFICES ASSUME NEW k \in 1 .. Len(q), NEW l \in 1 .. Len(q),
                      queue'[k].round_sequence < queue'[l].round_sequence
               PROVE queue'[k].event < queue'[l].event
    BY <1>2 DEF AsInFile
  <2>1. PICK i \in 1 .. Len(q) : queue'[k] = q[i]
    BY ONLY <1>2, Zenon
  <2>2. PICK j \in 1 .. Len(q) : queue'[l] = q[j]
    BY ONLY <1>2, Zenon
  <2>3. q[i].round_sequence < q[j].round_sequence
    BY ONLY <2>1, <2>2, queue'[k].round_sequence < queue'[l].round_sequence, Zenon
  <2>4. q[i].event < q[j].event
    BY ONLY <1>4, <2>3, Zenon DEF AsInFile
  <2> QED BY ONLY <2>1, <2>2, <2>4, Zenon
<1> QED BY ONLY <1>3, <1>4, <1>5, <1>6, <1>7, Zenon DEF Rounds

(* The third part of the inductive invariant.                              *)
RoundInv ==
    file # NoFile /\ order = "Time" =>
        /\ Rounds(out, queue, consumed, Ends)
        /\ pc = "filling" => Filling(queue, rd.pos - 1, Ends)
        /\ pc # "filling" => Sorted(queue)

LEMMA EndsStay == ASSUME file' = file PROVE Ends' = Ends
  BY DEF Ends

LEMMA RoundOpen ==
    ASSUME NEW f, NEW o, OpenFile(f, o)
    PROVE RoundInv'
<1>1. out' = <<>> /\ queue' = <<>> /\ consumed' = 0 /\ pc' = "idle"
  BY DEF OpenFile
<1>2. Sorted(<<>>)
  BY DEF Sorted
<1>3. Rounds(<<>>, <<>>, 0, Ends')
  BY RoundsNothing
<1> QED
  BY <1>1, <1>2, <1>3 DEF RoundInv

LEMMA RoundTakeQueued ==
    ASSUME IndInv, RoundInv, TakeQueued
    PROVE RoundInv'
<1>1. /\ order = "Time" /\ file # NoFile /\ consumed < Len(queue) /\ pc # "filling"
      /\ consumed' = consumed + 1 /\ out' = Append(out, queue[consumed + 1].event)
      /\ pc' = "idle" /\ UNCHANGED <<file, order, queue>>
  BY DEF TakeQueued, AtTop, MayRead, HandOut, IndInv, OrderOK
<1>2. /\ out \in Seq(Nat) /\ Len(queue) \in Nat /\ consumed \in Nat
      /\ \A k \in 1 .. Len(queue) : queue[k].event \in Nat
  BY <1>1 DEF IndInv, QueueOK, CurrentOK
<1>3. Rounds(out, queue, consumed, Ends) /\ Sorted(queue)
  BY <1>1 DEF RoundInv
<1>4. Rounds(out', queue, consumed + 1, Ends)
  BY <1>1, <1>2, <1>3, RoundsTaken
<1>5. Ends' = Ends
  BY <1>1, EndsStay
<1> QED
  BY <1>1, <1>3, <1>4, <1>5 DEF RoundInv

LEMMA RoundTakePending ==
    ASSUME RoundInv, TakePending
    PROVE RoundInv'
<1>1. /\ pc # "filling" /\ pc' = "idle" /\ UNCHANGED <<file, order, queue, consumed, out>>
  BY DEF TakePending, AtTop, MayRead
<1>2. Ends' = Ends
  BY <1>1, EndsStay
<1> QED
  BY <1>1, <1>2 DEF RoundInv

LEMMA RoundStartRound ==
    ASSUME IndInv, RoundInv, StartRound
    PROVE RoundInv'
<1>1. /\ order = "Time" /\ file # NoFile /\ queue' = <<>> /\ consumed' = 0 /\ pc' = "filling"
      /\ UNCHANGED <<file, order, out>>
  BY DEF StartRound, AtTop, MayRead, IndInv, OrderOK
<1>2. out \in Seq(Nat) /\ Rounds(out, queue, consumed, Ends)
  BY <1>1 DEF IndInv, CurrentOK, RoundInv
<1>3. Rounds(out, <<>>, 0, Ends)
  BY <1>2, RoundsRestarted
<1>4. ASSUME NEW n, NEW D PROVE Filling(<<>>, n, D)
  BY DEF Filling
<1>5. Ends' = Ends
  BY <1>1, EndsStay
<1> QED
  BY <1>1, <1>3, <1>4, <1>5 DEF RoundInv

LEMMA RoundFillQueue ==
    ASSUME IndInv, OnceInv, RoundInv, FillQueue
    PROVE RoundInv'
<1> DEFINE read == ReadOneEvent(rd, NoRef)
           entry == NewEntry(read)
           q == Append(queue, entry)
           n == rd.pos - 1
<1>1. /\ pc = "filling" /\ rd' = read.r
      /\ RoundBreaks(read) \/ RoundGoesOn(read) \/ RoundEnds(read)
      /\ UNCHANGED <<file, order, consumed, out>>
  BY DEF FillQueue
<1>2. /\ file # NoFile /\ order = "Time" /\ file \in Files \cup ReopenFiles /\ rd.pos >= 1
      /\ ReaderOK(rd) /\ rd.pos \in Nat
      /\ queue \in Seq(Members(queue)) /\ out \in Seq(Nat)
  BY <1>1 DEF IndInv, OrderOK, QueueOK, CurrentOK, ReaderOK
<1>3. read.result = "true" => read.r.pos = rd.pos + 1
  BY <1>2, ReadPosition
<1>4. entry.event = rd.pos /\ entry.round_sequence = Len(queue)
  BY DEF NewEntry
<1>5. n \in Nat /\ rd.pos = n + 1 /\ Len(queue) \in Nat
  BY <1>2
<1>6. InRange(out, queue, n) /\ consumed = 0
  BY <1>1, <1>2 DEF OnceInv, Once
<1>7. Rounds(out, queue, 0, Ends) /\ Filling(queue, n, Ends)
  BY <1>1, <1>2, <1>6 DEF RoundInv
<1>8. Ends' = Ends
  BY <1>1, EndsStay
<1> HIDE DEF read
<1>9. CASE RoundBreaks(read)
  <2>1. SortQueue(queue) /\ pc' = "filled"
    BY <1>9 DEF RoundBreaks
  <2>2. Rounds(out, queue', 0, Ends) /\ Sorted(queue')
    BY <1>2, <1>7, <2>1, RoundsSorted
  <2> QED
    BY <1>1, <1>6, <1>8, <2>1, <2>2 DEF RoundInv
<1> HIDE DEF entry
<1>10. /\ q \in Seq(Members(q)) /\ Len(q) = Len(queue) + 1
       /\ \A k \in 1 .. Len(queue) : q[k] = queue[k]
       /\ q[Len(queue) + 1] = entry
  BY <1>2, AppendKeepsEntries
<1> HIDE DEF q, n
<1>11. Rounds(out, q, 0, Ends) /\ (n + 1 \notin Ends => Filling(q, n + 1, Ends))
  <2>1. q[Len(queue) + 1].event = n + 1 /\ q[Len(queue) + 1].round_sequence = Len(queue)
    BY <1>4, <1>5, <1>10
  <2> QED
    BY <1>2, <1>5, <1>6, <1>7, <1>10, <2>1, RoundsQueued
<1>12. CASE RoundGoesOn(read)
  <2>1. read.result = "true" /\ queue' = q /\ pc' = pc /\ ~EndsRound(file.data[rd.pos])
    BY <1>12 DEF RoundGoesOn, q, entry
  <2>2. n + 1 \notin Ends
    BY <1>5, <2>1 DEF Ends
  <2>3. rd'.pos - 1 = n + 1
    BY <1>1, <1>3, <1>5, <2>1
  <2> QED
    BY <1>1, <1>6, <1>8, <1>11, <2>1, <2>2, <2>3 DEF RoundInv
<1>13. CASE RoundEnds(read)
  <2>1. SortQueue(q) /\ pc' = "filled"
    BY <1>13 DEF RoundEnds, q, entry
  <2>2. Rounds(out, queue', 0, Ends) /\ Sorted(queue')
    BY <1>2, <1>10, <1>11, <2>1, RoundsSorted
  <2> QED
    BY <1>1, <1>6, <1>8, <2>1, <2>2 DEF RoundInv
<1> QED
  BY <1>1, <1>9, <1>12, <1>13

LEMMA RoundNext ==
    ASSUME IndInv, OnceInv, RoundInv, [Next]_vars
    PROVE RoundInv'
<1>1. CASE Open
  <2>1. PICK f, o : OpenFile(f, o)
    BY <1>1 DEF Open
  <2> QED
    BY <2>1, RoundOpen
<1>2. CASE Close \/ MoveNextNoFile \/ MoveNextFileOrder
  BY <1>2 DEF Close, MoveNextNoFile, MoveNextFileOrder, RoundInv
<1>3. CASE UNCHANGED vars
  <2>1. UNCHANGED <<file, order, rd, queue, consumed, pc, out>>
    BY <1>3 DEF vars
  <2>2. Ends' = Ends
    BY <2>1, EndsStay
  <2> QED
    BY <2>1, <2>2 DEF RoundInv
<1> QED
  BY <1>1, <1>2, <1>3, RoundTakeQueued, RoundTakePending, RoundStartRound, RoundFillQueue
     DEF Next, MoveNext

LEMMA RoundsMeanOrder ==
    ASSUME IndInv, RoundInv
    PROVE RoundsInOrder
<1> SUFFICES ASSUME file # NoFile, order = "Time" PROVE RoundsInOrder
  BY DEF RoundsInOrder
<1>1. /\ out \in Seq(Nat) /\ DOMAIN out = 1 .. Len(out)
      /\ DOMAIN queue = 1 .. Len(queue)
  BY DEF IndInv, CurrentOK, QueueOK
<1>2. /\ OutInOrder(out, Ends) /\ AsInFile(queue) /\ Before(out, queue, consumed)
      /\ pc # "filling" => Sorted(queue)
  BY DEF RoundInv, Rounds
<1>3. ASSUME NEW a \in DOMAIN out, NEW b \in DOMAIN out, a < b
      PROVE ~LaterRound(out[a], out[b])
  <2>1. out[a] \in Nat /\ out[b] \in Nat
    BY <1>1
  <2>2. SameRound(Ends, out[a], out[b])
    BY <1>1, <1>2, <1>3 DEF OutInOrder
  <2>3. \A e \in out[b] .. out[a] - 1 : e \in Nat
    BY <2>1
  <2> QED
    BY <2>2, <2>3 DEF SameRound, LaterRound, Ends
<1>4. \A k \in 1 .. consumed : out[Len(out) - consumed + k] = queue[k].event
  BY <1>2 DEF Before
<1>5. ASSUME pc # "filling", NEW k \in DOMAIN queue, NEW l \in DOMAIN queue, k < l
      PROVE \/ queue[k].time < queue[l].time
            \/ queue[k].time = queue[l].time /\ queue[k].event < queue[l].event
  BY <1>1, <1>2, <1>5 DEF Sorted, EntryBefore, AsInFile
<1> QED
  BY <1>3, <1>4, <1>5 DEF RoundsInOrder

(* In time order read_event_time_order hands out whole rounds one after    *)
(* the other and the events of each by their times, equal times as in the  *)
(* file: for every file, every split into rounds and buffers and whatever  *)
(* times the reader finds.                                                 *)
THEOREM ReaderRoundsInOrder == Spec => []RoundsInOrder
<1>1. Init => OnceInv /\ RoundInv
  BY DEF Init, OnceInv, RoundInv
<1>2. IndInv /\ OnceInv /\ RoundInv /\ [Next]_vars => (OnceInv /\ RoundInv)'
  BY OnceNext, RoundNext
<1>3. IndInv /\ RoundInv => RoundsInOrder
  BY RoundsMeanOrder
<1> QED
  BY <1>1, <1>2, <1>3, InvAlways, PTL DEF Spec

=============================================================================
