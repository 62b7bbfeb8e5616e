-------------------------- MODULE ConversionsProofs --------------------------
(***************************************************************************)
(* Proofs about module Conversions: the clock of a session, a format file  *)
(* and an escaped string survive being written and read again, for every   *)
(* clock, every file and every string.                                     *)
(***************************************************************************)
EXTENDS Conversions, SequenceTheorems, WellFoundedInduction, TLAPS

-----------------------------------------------------------------------------
(* A request keeps its input, and a result is the one of its request.      *)
TextDone ==
    LET t == job.input
    IN result = [kind |-> "text", plain |-> WriteText(t.encoding, "none", t.bytes),
                 json |-> WriteText(t.encoding, "json", t.bytes)]
FileDone ==
    LET f == ParseFormat(job.input.long64, job.input.lines, job.input.ended)
    IN result = [kind |-> "file", first |-> f,
                 again |-> IF f = NoFormat THEN f
                           ELSE ParseFormat(job.input.long64, WriteFormat(f), TRUE)]
ClockDone ==
    LET s == SetClockData(SetClockId(NewSession, job.input.id),
                          job.input.id, job.input.wall, job.input.time)
    IN result = [kind |-> "clock", first |-> s,
                 again |-> ParseClockData(ParseClockId(NewSession, SessionClockId(s)),
                                          SessionClockData(s)),
                 times |-> [t \in Times |-> TimeToTimeSpec(s, t)]]

ConvInv ==
    /\ job.kind = "text" => job.input \in Texts
    /\ job.kind = "file" => job.input \in Files
    /\ job.kind = "clock" => job.input \in Clocks
    /\ Served("text") => job.kind = "text" /\ TextDone
    /\ Served("file") => job.kind = "file" /\ FileDone
    /\ Served("clock") => job.kind = "clock" /\ ClockDone

LEMMA ConvInvariant == ConvSpec => []ConvInv
<1>1. ConvInit => ConvInv
  BY DEF ConvInit, ConvInv, Job, NoResult, Served
<1>2. ConvInv /\ [ConvNext]_convVars => ConvInv'
  <2> SUFFICES ASSUME ConvInv, [ConvNext]_convVars PROVE ConvInv'
    OBVIOUS
  <2>1. CASE ConvertText
    <3>1. job' = job /\ job.kind = "text" /\ result'.kind = "text"
      BY <2>1 DEF ConvertText, Serve
    <3>2. TextDone'
      BY <2>1, <3>1 DEF ConvertText, Serve, TextDone
    <3> QED BY <3>1, <3>2 DEF ConvInv, Served
  <2>2. CASE ConvertValue
    <3>1. job' = job /\ result'.kind = "value"
      BY <2>2 DEF ConvertValue, Serve
    <3> QED BY <3>1 DEF ConvInv, Served
  <2>3. CASE ReadField
    <3>1. job' = job /\ result'.kind = "field"
      BY <2>3 DEF ReadField, Serve
    <3> QED BY <3>1 DEF ConvInv, Served
  <2>4. CASE CopyFormat
    <3>1. job' = job /\ job.kind = "file" /\ result'.kind = "file"
      BY <2>4 DEF CopyFormat, Serve
    <3>2. FileDone'
      BY <2>4, <3>1 DEF CopyFormat, Serve, FileDone
    <3> QED BY <3>1, <3>2 DEF ConvInv, Served
  <2>5. CASE CopyClock
    <3>1. job' = job /\ job.kind = "clock" /\ result'.kind = "clock"
      BY <2>5 DEF CopyClock, Serve
    <3>2. ClockDone'
      BY <2>5, <3>1 DEF CopyClock, Serve, ClockDone
    <3> QED BY <3>1, <3>2 DEF ConvInv, Served
  <2>6. CASE UNCHANGED convVars
    BY <2>6 DEF ConvInv, Served, TextDone, FileDone, ClockDone, convVars
  <2> QED BY <2>1, <2>2, <2>3, <2>4, <2>5, <2>6 DEF ConvNext
<1> QED BY <1>1, <1>2, PTL DEF ConvSpec

-----------------------------------------------------------------------------
(* The clock of a session, which set_session_info_headers writes: divided  *)
(* and put together again without loss.                                    *)
LEMMA Divided ==
  ASSUME NEW a \in Int, NEW b \in Nat, b > 0
  PROVE  (a \div b) * b + (a % b) = a /\ a \div b \in Int /\ a % b \in 0 .. b - 1
OBVIOUS

LEMMA DividedOnce ==
  ASSUME NEW b \in Nat, b > 0, NEW p \in Int, NEW q \in Int, NEW r \in 0 .. b - 1, NEW s \in 0 .. b - 1,
         p * b + r = q * b + s
  PROVE  p = q /\ r = s
<1> DEFINE a == q * b + s
<1>1. q * b \in Int /\ p * b \in Int /\ r \in Int /\ s \in Int
  OBVIOUS
<1>2. a \in Int /\ b * q = q * b /\ b * p = p * b
  BY <1>1
<1>3. a = b * q + s /\ a = b * p + r
  BY <1>2
<1> HIDE DEF a
<1>4. ASSUME NEW n \in Int, NEW m \in 0 .. b - 1, a = b * n + m PROVE n = a \div b /\ m = a % b
  BY <1>2, <1>4
<1> QED BY <1>3, <1>4

(* A session whose clock is known: the offset of real time from it.        *)
IsClock(s, id, offset) ==
    /\ s.seconds \in Int /\ s.nanoseconds \in 0 .. BILLION - 1
    /\ s.seconds * BILLION + s.nanoseconds = offset
    /\ s = [seconds |-> s.seconds, nanoseconds |-> s.nanoseconds, clock_id |-> id, known |-> TRUE]

LEMMA BillionType == BILLION \in Nat /\ BILLION > 0 /\ U64_MAX \in Nat
BY ClockAssumption

LEMMA SameClock ==
  ASSUME NEW s, NEW t, NEW id, NEW offset, IsClock(s, id, offset), IsClock(t, id, offset)
  PROVE  s = t
<1>1. s.seconds * BILLION + s.nanoseconds = t.seconds * BILLION + t.nanoseconds
      /\ s.seconds \in Int /\ t.seconds \in Int
      /\ s.nanoseconds \in 0 .. BILLION - 1 /\ t.nanoseconds \in 0 .. BILLION - 1
  BY DEF IsClock
<1>2. s.seconds = t.seconds /\ s.nanoseconds = t.nanoseconds
  BY ONLY <1>1, BillionType, DividedOnce
<1>3. s = [seconds |-> s.seconds, nanoseconds |-> s.nanoseconds, clock_id |-> id, known |-> TRUE]
      /\ t = [seconds |-> t.seconds, nanoseconds |-> t.nanoseconds, clock_id |-> id, known |-> TRUE]
  BY DEF IsClock
<1> QED BY ONLY <1>2, <1>3

(* set_clock_data, in both of its cases.                                   *)
LEMMA ClockSet ==
  ASSUME NEW old, NEW id \in Int, id # CLOCK_MAX, NEW wall \in Nat, NEW time \in Nat
  PROVE  IsClock(SetClockData(old, id, wall, time), id, wall - time)
<1> DEFINE s == SetClockData(old, id, wall, time)
<1>0. BILLION \in Nat /\ BILLION > 0 /\ wall - time \in Int
  BY BillionType
<1>1. CASE time <= wall
  <2> DEFINE n == wall - time
             q == n \div BILLION
             r == n % BILLION
  <2>1. n \in Int
    BY <1>0
  <2>2. s = [seconds |-> q, nanoseconds |-> r, clock_id |-> id, known |-> TRUE]
    BY <1>1 DEF SetClockData
  <2> HIDE DEF n, s
  <2>3. q * BILLION + r = n /\ q \in Int /\ r \in 0 .. BILLION - 1
    BY ONLY <2>1, <1>0, Divided
  <2> HIDE DEF q, r
  <2>4. IsClock(s, id, n)
    BY <2>2, <2>3 DEF IsClock
  <2> QED BY <2>4 DEF n, s
<1>2. CASE time > wall
  <2> DEFINE n == time - wall
             q == n \div BILLION
             r == n % BILLION
             sec == -q - 1 + (IF r = 0 THEN 1 ELSE 0)
             ns == IF r = 0 THEN 0 ELSE BILLION - r
  <2>1. n \in Int /\ wall - time = -n
    BY <1>0
  <2>2. s = NegativeOffset(old, id, n)
    BY <1>2 DEF SetClockData
  <2>3. s = [seconds |-> sec, nanoseconds |-> ns, clock_id |-> id, known |-> TRUE]
    BY <2>2 DEF NegativeOffset
  <2> HIDE DEF n, s
  <2>4. q * BILLION + r = n /\ q \in Int /\ r \in 0 .. BILLION - 1
    BY ONLY <2>1, <1>0, Divided
  <2> HIDE DEF q, r
  <2> DEFINE m == q * BILLION
  <2>5. m \in Int /\ m + r = n /\ (-q) * BILLION = -m /\ (-q - 1) * BILLION = -m - BILLION
    BY <2>4, <1>0
  <2> HIDE DEF m
  <2>6. sec \in Int /\ ns \in 0 .. BILLION - 1 /\ sec * BILLION + ns = -n
    <3>1. CASE r = 0
      <4>1. sec = -q /\ ns = 0
        BY <3>1, <2>4
      <4> QED BY <4>1, <3>1, <2>4, <2>5, <1>0
    <3>2. CASE r # 0
      <4>1. sec = -q - 1 /\ ns = BILLION - r
        BY <3>2, <2>4
      <4>2. ns \in 0 .. BILLION - 1 /\ sec \in Int
        BY <4>1, <3>2, <2>4, <1>0
      <4>3. sec * BILLION = -m - BILLION
        BY <4>1, <2>5
      <4> QED BY <4>1, <4>2, <4>3, <2>4, <2>5, <1>0
    <3> QED BY <3>1, <3>2
  <2> HIDE DEF sec, ns
  <2>7. IsClock(s, id, -n)
    BY <2>3, <2>6 DEF IsClock
  <2> QED BY <2>1, <2>7 DEF s
<1>3. time <= wall \/ time > wall
  OBVIOUS
<1> QED BY <1>1, <1>2, <1>3

(* get_clock_data gives back the offset, as the one or the other number.   *)
LEMMA ClockGot ==
  ASSUME NEW s, NEW id, NEW wall \in 0 .. U64_MAX, NEW time \in 0 .. U64_MAX, IsClock(s, id, wall - time)
  PROVE  GetClockData(s) = IF time <= wall THEN <<wall - time, 0>> ELSE <<0, time - wall>>
<1> DEFINE b == BILLION
           m == s.seconds * b
           n == s.nanoseconds
<1>0. b \in Nat /\ b > 0 /\ U64_MAX \in Nat /\ wall \in Nat /\ time \in Nat
  BY BillionType
<1>1. s.seconds \in Int /\ n \in 0 .. b - 1 /\ m + n = wall - time
  BY DEF IsClock
<1>2. ASSUME NEW k \in 0 .. U64_MAX PROVE WrapU64(k) = k
  BY <1>0 DEF WrapU64
<1>3. (-s.seconds) * b = -m /\ m \in Int /\ (s.seconds >= 0 => m >= 0) /\ (s.seconds <= -1 => m <= -b)
  BY <1>0, <1>1
<1> HIDE DEF b, m, n
<1>4. CASE s.seconds >= 0
  <2>1. time <= wall /\ m + n \in 0 .. U64_MAX
    BY <1>0, <1>1, <1>3, <1>4
  <2>2. GetClockData(s) = <<WrapU64(m + n), 0>>
    BY <1>4 DEF GetClockData, b, m, n
  <2> QED BY <2>1, <2>2, <1>1, <1>2
<1>5. CASE s.seconds <= -1
  <2>1. ~ (time <= wall) /\ (-m) - n \in 0 .. U64_MAX /\ (-m) - n = time - wall
    BY <1>0, <1>1, <1>3, <1>5
  <2>2. GetClockData(s) = <<0, WrapU64((-s.seconds) * b - n)>>
    BY <1>1, <1>5 DEF GetClockData, b, n
  <2>3. (-s.seconds) * b - n = (-m) - n
    BY <1>3
  <2> QED BY <2>1, <2>2, <2>3, <1>2
<1>6. s.seconds >= 0 \/ s.seconds <= -1
  BY <1>1
<1> QED BY <1>4, <1>5, <1>6

(* What a reader makes of the two headers that a session writes, and the   *)
(* real time that a session gives a timestamp.                             *)
HeadersReadBack(s) ==
    ParseClockData(ParseClockId(NewSession, SessionClockId(s)), SessionClockData(s)) = s

TellsTime(ts, ns) == ts.nanoseconds \in 0 .. BILLION - 1 /\ ts.seconds * BILLION + ts.nanoseconds = ns

LEMMA ThreeTimes ==
  ASSUME NEW x \in Int, NEW y \in Int, NEW z \in Int, NEW b \in Int
  PROVE  /\ (x + y + z) * b = x * b + y * b + z * b
         /\ x * b \in Int /\ y * b \in Int /\ z * b \in Int
OBVIOUS

LEMMA AddedUp ==
  ASSUME NEW x \in Int, NEW y \in Int, NEW z \in Int, NEW k \in Int, NEW l \in Int, NEW r \in Int,
         NEW all, NEW sum, NEW time, all = x + y + z, x + k = sum, y + l = time, z + r = k + l
  PROVE  all + r = time + sum
OBVIOUS

LEMMA ClockTells ==
  ASSUME NEW s, NEW id, NEW offset \in Int, IsClock(s, id, offset), NEW t \in Nat
  PROVE  TellsTime(TimeToTimeSpec(s, t), t + offset)
<1> DEFINE b == BILLION
           tq == t \div b
           tr == t % b
           n == s.nanoseconds + tr
           q == n \div b
           r == n % b
           sec == s.seconds + tq + q
<1>0. b \in Nat /\ b > 0
  BY BillionType
<1>1. s.seconds \in Int /\ s.nanoseconds \in 0 .. b - 1 /\ s.seconds * b + s.nanoseconds = offset
  BY DEF IsClock
<1>2. TimeToTimeSpec(s, t) = [seconds |-> sec, nanoseconds |-> r]
  BY DEF TimeToTimeSpec, TimeSpec
<1> HIDE DEF b
<1>3. tq * b + tr = t /\ tq \in Int /\ tr \in 0 .. b - 1
  <2>1. t \in Int
    OBVIOUS
  <2> QED BY ONLY <2>1, <1>0, Divided
<1> HIDE DEF tq, tr
<1>4. n \in Int
  BY <1>1, <1>3, <1>0
<1>5. q * b + r = n /\ q \in Int /\ r \in 0 .. b - 1
  <2> HIDE DEF n
  <2> QED BY ONLY <1>4, <1>0, Divided
<1> HIDE DEF q, r
<1>6. sec * b = s.seconds * b + tq * b + q * b
      /\ s.seconds * b \in Int /\ tq * b \in Int /\ q * b \in Int
  <2>1. b \in Int /\ s.seconds \in Int /\ tq \in Int /\ q \in Int
    BY <1>0, <1>1, <1>3, <1>5
  <2> QED BY ONLY <2>1, ThreeTimes
<1>7. sec * b + r = t + offset
  <2>1. r \in Int /\ s.nanoseconds \in Int /\ tr \in Int
    BY <1>0, <1>1, <1>3, <1>5
  <2>2. q * b + r = s.nanoseconds + tr
    BY <1>5
  <2> HIDE DEF n, sec
  <2> QED BY ONLY <1>1, <1>3, <1>6, <2>1, <2>2, AddedUp
<1> HIDE DEF sec
<1> QED BY <1>2, <1>5, <1>7 DEF TellsTime, b

(* The clock that set_clock_data sets, for every pair of u64 times in any  *)
(* order, survives set_session_info_headers and the reader's               *)
(* parse_header_clockid and parse_header_clock_data, and time_to_time_spec *)
(* converts every timestamp exactly, also when the session's clock is      *)
(* ahead of real time.                                                     *)
LEMMA SessionClockCopied ==
  ASSUME NEW first, NEW id \in Int, id # CLOCK_MAX, NEW wall \in 0 .. U64_MAX, NEW time \in 0 .. U64_MAX
  PROVE  /\ HeadersReadBack(SetClockData(first, id, wall, time))
         /\ \A t \in Nat :
               TellsTime(TimeToTimeSpec(SetClockData(first, id, wall, time), t), t + (wall - time))
<1> DEFINE s == SetClockData(first, id, wall, time)
           wall2 == IF time <= wall THEN wall - time ELSE 0
           time2 == IF time <= wall THEN 0 ELSE time - wall
           old == ParseClockId(NewSession, SessionClockId(s))
<1>1. wall \in Nat /\ time \in Nat /\ wall2 \in Nat /\ time2 \in Nat /\ wall2 - time2 = wall - time
  BY BillionType
<1>2. IsClock(s, id, wall - time)
  BY <1>1, ClockSet
<1> HIDE DEF s
<1>3. GetClockData(s) = <<wall2, time2>>
  BY <1>2, ClockGot
<1>4. s.known = TRUE /\ s.clock_id = id
  BY <1>2 DEF IsClock
<1> HIDE DEF wall2, time2, old
<1>5. SessionClockData(s) = <<[k |-> "clock_data", v |-> <<1, id, wall2, time2>>]>>
  BY <1>3, <1>4 DEF SessionClockData, ClockDataContent
<1>6. ParseClockData(old, SessionClockData(s)) = SetClockData(old, id, wall2, time2)
  BY <1>5 DEF ParseClockData
<1>7. IsClock(SetClockData(old, id, wall2, time2), id, wall - time)
  <2>1. IsClock(SetClockData(old, id, wall2, time2), id, wall2 - time2)
    BY <1>1, ClockSet
  <2> QED BY <2>1, <1>1
<1>8. SetClockData(old, id, wall2, time2) = s
  BY ONLY <1>2, <1>7, SameClock
<1>9. HeadersReadBack(s)
  BY <1>6, <1>8 DEF HeadersReadBack, old
<1>10. ASSUME NEW t \in Nat PROVE TellsTime(TimeToTimeSpec(s, t), t + (wall - time))
  <2>1. wall - time \in Int
    BY <1>1
  <2> QED BY ONLY <2>1, <1>2, <1>10, ClockTells
<1> QED BY <1>9, <1>10 DEF s

(* Every session's clock, for every width of the numbers and every pair of *)
(* u64 times, is read back from the headers as it was, and converts every  *)
(* timestamp exactly (ClockReadsBack).                                     *)
THEOREM ConversionsClockReadsBack == ConvSpec => []ClockReadsBack
<1>1. ConvInv => ClockReadsBack
  <2> SUFFICES ASSUME ConvInv, Served("clock"), job.input.id # CLOCK_MAX
               PROVE  /\ result.again = result.first
                      /\ \A t \in Times :
                            LET ts == result.times[t]
                            IN /\ ts.nanoseconds \in 0 .. BILLION - 1
                               /\ ts.seconds * BILLION + ts.nanoseconds = t + job.input.wall - job.input.time
    BY DEF ClockReadsBack
  <2> DEFINE i == job.input
             s == SetClockData(SetClockId(NewSession, i.id), i.id, i.wall, i.time)
  <2>1. i.id \in Int /\ i.wall \in 0 .. U64_MAX /\ i.time \in 0 .. U64_MAX /\ Times \subseteq Nat
    BY ConvAssumption DEF ConvInv
  <2>2. /\ result.first = s
        /\ result.again = ParseClockData(ParseClockId(NewSession, SessionClockId(s)), SessionClockData(s))
        /\ \A t \in Times : result.times[t] = TimeToTimeSpec(s, t)
    BY DEF ConvInv, ClockDone
  <2>3. HeadersReadBack(s) /\ \A t \in Nat : TellsTime(TimeToTimeSpec(s, t), t + (i.wall - i.time))
    BY <2>1, SessionClockCopied
  <2> HIDE DEF s
  <2>4. result.again = result.first
    BY <2>2, <2>3 DEF HeadersReadBack
  <2>5. ASSUME NEW t \in Times
        PROVE  LET ts == result.times[t]
               IN /\ ts.nanoseconds \in 0 .. BILLION - 1
                  /\ ts.seconds * BILLION + ts.nanoseconds = t + i.wall - i.time
    <3>1. TellsTime(result.times[t], t + (i.wall - i.time))
      BY <2>1, <2>2, <2>3
    <3>2. t + (i.wall - i.time) = t + i.wall - i.time
      BY <2>1, BillionType
    <3> QED BY <3>1, <3>2 DEF TellsTime
  <2> QED BY <2>4, <2>5
<1> QED BY <1>1, ConvInvariant, PTL

-----------------------------------------------------------------------------
(* Induction over the naturals, for a set.                                 *)
LEMMA NatSet ==
  ASSUME NEW T, 0 \in T, \A n \in Nat : n \in T => n + 1 \in T
  PROVE  Nat \subseteq T
<1> DEFINE B == Nat \ T
<1> DEFINE R == OpToRel(<, Nat)
<1> SUFFICES ASSUME B # {} PROVE FALSE
  OBVIOUS
<1>1. IsWellFoundedOn(R, Nat)
  BY NatLessThanWellFounded
<1>2. B \subseteq Nat
  OBVIOUS
<1>3. \A a, b \in Nat : a < b => <<a, b>> \in R
  BY DEF OpToRel
<1> HIDE DEF R
<1>4. PICK x \in B : \A y \in B : ~ (<<y, x>> \in R)
  BY <1>1, <1>2, WFMin
<1>5. x # 0 /\ x \in Nat
  OBVIOUS
<1>6. x - 1 \in Nat /\ x - 1 < x /\ (x - 1) + 1 = x
  BY <1>5
<1>7. x - 1 \in T
  BY <1>6, <1>3, <1>4
<1> QED
  BY <1>6, <1>7

-----------------------------------------------------------------------------
(* Format files.  The loop of PerfEventFormat::parse has one state after   *)
(* each line.                                                              *)
ParseRound(at, long64, lines, ended, i) ==
    IF i = 0 THEN Unparsed
    ELSE ParseLine(at[i - 1], lines[i], i = Len(lines) /\ ~ended, long64)
ParseTable(at, long64, lines, ended) ==
    at = [i \in 0 .. Len(lines) |-> ParseRound(at, long64, lines, ended, i)]
ParsedFormat(p) ==
    IF p.id = <<>> \/ p.name = <<>> THEN NoFormat
    ELSE [name |-> p.name, id |-> p.id, print_fmt |-> p.print_fmt, fields |-> p.fields,
          common |-> p.common, common_size |-> CommonFieldsSize(p), style |-> DecodingStyle(p)]

LEMMA ParseTableExists ==
  ASSUME NEW long64, NEW lines, NEW ended, Len(lines) \in Nat
  PROVE  \E g : ParseTable(g, long64, lines, ended)
<1> DEFINE R(g, i) == ParseRound(g, long64, lines, ended, i)
           T == {m \in Nat : \E g : g = [i \in 0 .. m |-> R(g, i)]}
<1>1. 0 \in T
  <2> DEFINE g == [i \in 0 .. 0 |-> Unparsed]
  <2>1. \A i \in 0 .. 0 : R(g, i) = Unparsed
    BY DEF ParseRound
  <2>2. g = [i \in 0 .. 0 |-> R(g, i)]
    BY <2>1
  <2> QED BY <2>2
<1>2. ASSUME NEW m \in Nat, m \in T PROVE m + 1 \in T
  <2>1. PICK g : g = [i \in 0 .. m |-> R(g, i)]
    BY <1>2
  <2> DEFINE h == [k \in 0 .. m + 1 |-> R(g, k)]
  <2>2. \A k \in 0 .. m : h[k] = g[k]
    <3>1. \A k \in 0 .. m : g[k] = R(g, k)
      BY <2>1
    <3> QED BY <3>1
  <2>3. \A k \in 0 .. m + 1 : h[k] = R(g, k)
    OBVIOUS
  <2>4. h = [k \in 0 .. m + 1 |-> h[k]]
    OBVIOUS
  <2> HIDE DEF h
  <2>5. ASSUME NEW k \in 0 .. m + 1 PROVE R(h, k) = R(g, k)
    <3>1. k = 0 \/ k - 1 \in 0 .. m
      OBVIOUS
    <3> QED BY <3>1, <2>2 DEF ParseRound
  <2>6. h = [i \in 0 .. m + 1 |-> R(h, i)]
    BY <2>3, <2>4, <2>5
  <2> QED BY <2>6
<1> HIDE DEF T
<1>3. Len(lines) \in T
  BY <1>1, <1>2, NatSet
<1> QED BY <1>3 DEF T, ParseTable

LEMMA FormatParsed ==
  ASSUME NEW long64, NEW lines, NEW ended, Len(lines) \in Nat
  PROVE  \E at : /\ at[0] = Unparsed
                 /\ \A i \in 1 .. Len(lines) :
                       at[i] = ParseLine(at[i - 1], lines[i], i = Len(lines) /\ ~ended, long64)
                 /\ ParseFormat(long64, lines, ended) = ParsedFormat(at[Len(lines)])
<1> DEFINE at == CHOOSE g : ParseTable(g, long64, lines, ended)
<1>1. ParseTable(at, long64, lines, ended)
  BY ParseTableExists, Zenon
<1>2. ParseFormat(long64, lines, ended) = ParsedFormat(at[Len(lines)])
  BY DEF ParseFormat, ParsedFormat, ParseTable, ParseRound
<1> HIDE DEF at
<1>3. \A i \in 0 .. Len(lines) : at[i] = ParseRound(at, long64, lines, ended, i)
  <2>1. at = [i \in 0 .. Len(lines) |-> ParseRound(at, long64, lines, ended, i)]
    BY <1>1 DEF ParseTable
  <2> QED BY <2>1
<1>4. at[0] = Unparsed
  BY <1>3 DEF ParseRound
<1>5. \A i \in 1 .. Len(lines) : at[i] = ParseLine(at[i - 1], lines[i], i = Len(lines) /\ ~ended, long64)
  BY <1>3 DEF ParseRound
<1> QED BY <1>2, <1>4, <1>5

(* A field that was parsed is parsed from the line that write_to writes    *)
(* for it.                                                                 *)
Reparsed(long64, f) == f # NoField /\ ParseField(long64, FieldLine(f).v) = f

AllReparsed(S, long64) == \A f \in S : Reparsed(long64, f)

LEMMA FieldReparsed ==
  ASSUME NEW long64, NEW line, ParseField(long64, line) # NoField
  PROVE  Reparsed(long64, ParseField(long64, line))
<1> DEFINE f == ParseField(long64, line)
           a == line.field
           b == line.offset[1]
           c == line.size[1]
           d == line.signed
<1>1. f = NewField(long64, a, b, c, d) /\ a # <<>>
  BY DEF ParseField
<1> HIDE DEF a, b, c, d, f
<1>2. f.field = a /\ f.offset = b /\ f.size = c /\ f.signed = d
  <2> DEFINE made == Found(a)
             array == ArrayOf(made, c)
             name == IF made.name = "" THEN "noname" ELSE made.name
             shape == Deduced(Specified(made, long64), array, made.count, c, d)
  <2>1. f = [field |-> a, name |-> name, offset |-> b, size |-> c, signed |-> d, array |-> array,
             shape |-> shape]
    BY <1>1, Zenon DEF NewField
  <2> HIDE DEF made, array, name, shape
  <2> QED BY <2>1
<1>3. FieldLine(f).v = [field |-> a, offset |-> <<b>>, size |-> <<c>>, signed |-> d]
  BY <1>2 DEF FieldLine, Line
<1>4. ParseField(long64, FieldLine(f).v) = NewField(long64, a, b, c, d)
  BY <1>1, <1>3 DEF ParseField
<1> QED BY <1>1, <1>4 DEF f, Reparsed

(* What every state of the loop is.                                        *)
IsParse(p, S) ==
    /\ p = [name |-> p.name, id |-> p.id, print_fmt |-> p.print_fmt, fields |-> p.fields,
            common |-> p.common, at |-> p.at]
    /\ p.fields \in Seq(S)

LEMMA LineParsed ==
  ASSUME NEW S, NEW p, IsParse(p, S), NEW line, NEW last, NEW long64,
         ParseField(long64, line.v) # NoField => ParseField(long64, line.v) \in S
  PROVE  IsParse(ParseLine(p, line, last, long64), S)
<1> DEFINE field == ParseField(long64, line.v)
           q == ParseLine(p, line, last, long64)
<1>1. <<>> \in Seq(S) /\ (field # NoField => Append(p.fields, field) \in Seq(S))
  BY DEF IsParse
<1>2. CASE p.at = "properties"
  <2>1. q = PropertyLine(p, line, last)
    BY <1>2 DEF ParseLine
  <2> QED BY <2>1, <1>1 DEF PropertyLine, IsParse
<1>3. CASE p.at # "properties"
  <2>1. q = FormatLine(p, line, long64)
    BY <1>3 DEF ParseLine
  <2>2. CASE line.k = "blank"
    BY <2>1, <2>2 DEF FormatLine, IsParse
  <2>3. CASE line.k = "field" /\ field # NoField
    <3>1. q = [p EXCEPT !.fields = Append(@, field),
                          !.common = IF p.at = "common" THEN @ + 1 ELSE @]
      BY <2>1, <2>3 DEF FormatLine
    <3> HIDE DEF field
    <3> QED BY <3>1, <1>1, <2>3 DEF IsParse
  <2>4. CASE line.k # "blank" /\ ~ (line.k = "field" /\ field # NoField)
    BY <2>1, <2>4 DEF FormatLine, IsParse
  <2> QED BY <2>2, <2>3, <2>4
<1> QED BY <1>2, <1>3

(* Every field of a parsed format is parsed from its line.                 *)
LEMMA FormatFields ==
  ASSUME NEW long64, NEW lines, NEW ended, Len(lines) \in Nat,
         NEW f, f = ParseFormat(long64, lines, ended), f # NoFormat
  PROVE  \E S, p : /\ f = ParsedFormat(p) /\ p.id # <<>> /\ p.name # <<>>
                   /\ p.fields \in Seq(S) /\ AllReparsed(S, long64)
<1> DEFINE S == {ParseField(long64, lines[i].v) : i \in 1 .. Len(lines)} \ {NoField}
<1>1. AllReparsed(S, long64)
  BY FieldReparsed DEF AllReparsed
<1>2. PICK at : /\ at[0] = Unparsed
                /\ \A i \in 1 .. Len(lines) :
                      at[i] = ParseLine(at[i - 1], lines[i], i = Len(lines) /\ ~ended, long64)
                /\ f = ParsedFormat(at[Len(lines)])
  BY FormatParsed
<1> DEFINE T == {m \in Nat : m <= Len(lines) => IsParse(at[m], S)}
<1>3. \A i \in 1 .. Len(lines) :
         ParseField(long64, lines[i].v) # NoField => ParseField(long64, lines[i].v) \in S
  OBVIOUS
<1> HIDE DEF S
<1>4. 0 \in T
  <2>1. <<>> \in Seq(S)
    OBVIOUS
  <2>2. IsParse(Unparsed, S)
    BY <2>1 DEF IsParse, Unparsed
  <2> QED BY <1>2, <2>2
<1>5. ASSUME NEW m \in Nat, m \in T PROVE m + 1 \in T
  <2> SUFFICES ASSUME m + 1 <= Len(lines) PROVE IsParse(at[m + 1], S)
    OBVIOUS
  <2>1. m + 1 \in 1 .. Len(lines) /\ (m + 1) - 1 = m /\ IsParse(at[m], S)
    BY <1>5
  <2>2. at[m + 1] = ParseLine(at[m], lines[m + 1], m + 1 = Len(lines) /\ ~ended, long64)
    BY <2>1, <1>2
  <2>3. ParseField(long64, lines[m + 1].v) # NoField => ParseField(long64, lines[m + 1].v) \in S
    BY <2>1, <1>3
  <2> QED BY <2>1, <2>2, <2>3, LineParsed
<1>6. Len(lines) \in T
  <2> HIDE DEF T
  <2> QED BY <1>4, <1>5, NatSet
<1> DEFINE p == at[Len(lines)]
<1>7. p.fields \in Seq(S)
  BY <1>6 DEF IsParse
<1>8. p.id # <<>> /\ p.name # <<>>
  BY <1>2 DEF ParsedFormat
<1> HIDE DEF p
<1>9. f = ParsedFormat(p)
  BY <1>2 DEF p
<1> QED BY <1>1, <1>7, <1>8, <1>9

(* FlattenSeq puts the chunks one after the other from position 0.         *)
FlattenRound(f, seqs, i) == IF i = 1 THEN seqs[i] ELSE f[i - 1] \o seqs[i]
FlattenTable(f, seqs) == f = [i \in 1 .. Len(seqs) |-> FlattenRound(f, seqs, i)]

LEMMA FlattenTableExists ==
  ASSUME NEW seqs, Len(seqs) \in Nat
  PROVE  \E g : FlattenTable(g, seqs)
<1> DEFINE T == {m \in Nat : \E g : g = [i \in 1 .. m |-> FlattenRound(g, seqs, i)]}
<1>1. 0 \in T
  <2> DEFINE g == [k \in 1 .. 0 |-> 0]
  <2>1. g = [i \in 1 .. 0 |-> FlattenRound(g, seqs, i)]
    OBVIOUS
  <2> QED BY <2>1
<1>2. ASSUME NEW m \in Nat, m \in T
      PROVE  m + 1 \in T
  <2>1. PICK g : g = [i \in 1 .. m |-> FlattenRound(g, seqs, i)]
    BY <1>2
  <2> DEFINE h == [k \in 1 .. m + 1 |-> FlattenRound(g, seqs, k)]
  <2>2. \A k \in 1 .. m : h[k] = g[k]
    <3>1. \A k \in 1 .. m : g[k] = FlattenRound(g, seqs, k)
      BY <2>1
    <3> QED BY <3>1
  <2>3. \A k \in 1 .. m + 1 : h[k] = FlattenRound(g, seqs, k)
    OBVIOUS
  <2>4. h = [k \in 1 .. m + 1 |-> h[k]]
    OBVIOUS
  <2> HIDE DEF h
  <2>5. ASSUME NEW k \in 1 .. m + 1
        PROVE  FlattenRound(h, seqs, k) = FlattenRound(g, seqs, k)
    <3>1. k = 1 \/ k - 1 \in 1 .. m
      OBVIOUS
    <3> QED BY <3>1, <2>2 DEF FlattenRound
  <2>6. h = [i \in 1 .. m + 1 |-> FlattenRound(h, seqs, i)]
    BY <2>3, <2>4, <2>5
  <2> QED BY <2>6
<1> HIDE DEF T
<1>3. Len(seqs) \in T
  BY <1>1, <1>2, NatSet
<1> QED BY <1>3 DEF T, FlattenTable

LEMMA SeqIs ==
  ASSUME NEW U, NEW s \in Seq(U)
  PROVE  s = [j \in 1 .. Len(s) |-> s[j]] /\ Len(s) \in Nat /\ \A j \in 1 .. Len(s) : s[j] \in U
OBVIOUS

LEMMA OneMore ==
  ASSUME NEW U, NEW s \in Seq(U), NEW x \in U
  PROVE  /\ s \o <<x>> \in Seq(U) /\ Len(s \o <<x>>) = Len(s) + 1
         /\ \A j \in 1 .. Len(s) : (s \o <<x>>)[j] = s[j]
         /\ (s \o <<x>>)[Len(s) + 1] = x
OBVIOUS

LEMMA TwoMore ==
  ASSUME NEW U, NEW s \in Seq(U), NEW x \in U, NEW y \in U
  PROVE  /\ s \o <<x, y>> \in Seq(U) /\ Len(s \o <<x, y>>) = Len(s) + 2
         /\ \A j \in 1 .. Len(s) : (s \o <<x, y>>)[j] = s[j]
         /\ (s \o <<x, y>>)[Len(s) + 1] = x
         /\ (s \o <<x, y>>)[Len(s) + 2] = y
OBVIOUS

(* The lines of the fields F, of which the first c are common.             *)
FieldsLine(F, c, j) ==
    IF j <= c THEN FieldLine(F[j]) ELSE IF j = c + 1 THEN Blank ELSE FieldLine(F[j - 1])
LaidOut(F, c, m) == [j \in 1 .. m |-> FieldsLine(F, c, j)]

LEMMA FieldsLaidOut ==
  ASSUME NEW S, NEW f, f.fields \in Seq(S), f.common \in 1 .. Len(f.fields)
  PROVE  FlattenSeq(FieldLines(f)) = LaidOut(f.fields, f.common, Len(f.fields) + 1)
<1> DEFINE F == f.fields
           c == f.common
           n == Len(F)
           seqs == FieldLines(f)
           flat == CHOOSE g : FlattenTable(g, seqs)
           size(i) == IF i < c THEN i ELSE i + 1
           T == {i \in Nat : i + 1 <= n => flat[i + 1] = LaidOut(F, c, size(i + 1))}
           U == {FieldLine(F[i]) : i \in 1 .. n} \cup {Blank}
<1>1. n \in Nat /\ c \in Nat /\ c >= 1 /\ c <= n /\ n >= 1 /\ F = [i \in 1 .. n |-> F[i]]
  BY SeqIs
<1>2. /\ seqs = [i \in 1 .. n |-> IF i = c THEN <<FieldLine(F[i]), Blank>> ELSE <<FieldLine(F[i])>>]
      /\ Len(seqs) = n
  <2>1. DOMAIN F = 1 .. n
    BY <1>1
  <2>2. seqs = [i \in 1 .. n |-> IF i = c THEN <<FieldLine(F[i]), Blank>> ELSE <<FieldLine(F[i])>>]
    BY <2>1 DEF FieldLines
  <2> QED BY <2>2, <1>1
<1> HIDE DEF seqs, F, c, n
<1>3. FlattenTable(flat, seqs)
  <2>1. Len(seqs) \in Nat
    BY <1>1, <1>2
  <2> QED BY <2>1, FlattenTableExists, Zenon
<1>4. FlattenSeq(seqs) = flat[n]
  BY <1>1, <1>2 DEF FlattenSeq, FlattenTable, FlattenRound
<1> HIDE DEF flat
<1>5. \A i \in 1 .. n : flat[i] = FlattenRound(flat, seqs, i)
  <2>1. flat = [i \in 1 .. n |-> FlattenRound(flat, seqs, i)]
    BY <1>2, <1>3 DEF FlattenTable
  <2> QED BY <2>1
<1>6. ASSUME NEW m \in Nat, m <= n + 1
      PROVE  LaidOut(F, c, m) \in Seq(U) /\ Len(LaidOut(F, c, m)) = m
  <2>1. ASSUME NEW j \in 1 .. m PROVE FieldsLine(F, c, j) \in U
    BY <1>1, <1>6 DEF FieldsLine
  <2> HIDE DEF U
  <2> QED BY <2>1 DEF LaidOut
<1>7. 0 \in T
  <2>1. 1 \in 1 .. n /\ 0 + 1 = 1
    BY <1>1
  <2>2. flat[1] = seqs[1]
    BY <1>5, <2>1 DEF FlattenRound
  <2>3. CASE c = 1
    <3>1. seqs[1] = <<FieldLine(F[1]), Blank>>
      BY <2>1, <2>3, <1>2
    <3>2. LaidOut(F, c, 2) = <<FieldLine(F[1]), Blank>>
      BY <2>3 DEF LaidOut, FieldsLine
    <3>3. size(1) = 2
      BY <2>3
    <3> QED BY <2>1, <2>2, <3>1, <3>2, <3>3
  <2>4. CASE c # 1
    <3>1. seqs[1] = <<FieldLine(F[1])>>
      BY <2>1, <2>4, <1>2
    <3>2. LaidOut(F, c, 1) = <<FieldLine(F[1])>>
      BY <1>1 DEF LaidOut, FieldsLine
    <3>3. size(1) = 1
      BY <2>4, <1>1
    <3> QED BY <2>1, <2>2, <3>1, <3>2, <3>3
  <2> QED BY <2>3, <2>4
<1>8. ASSUME NEW i \in Nat, i \in T PROVE i + 1 \in T
  <2> DEFINE k == i + 2
             s == LaidOut(F, c, size(i + 1))
  <2> SUFFICES ASSUME k <= n PROVE flat[k] = LaidOut(F, c, size(k))
    BY <1>1
  <2>1. k \in 1 .. n /\ k - 1 = i + 1 /\ i + 1 <= n /\ k # 1
    BY <1>1
  <2>2. flat[k] = s \o seqs[k]
    <3>1. flat[k - 1] = s
      BY <1>8, <2>1
    <3> QED BY <3>1, <2>1, <1>5 DEF FlattenRound
  <2>3. size(i + 1) \in Nat /\ size(i + 1) <= n + 1
    BY <2>1, <1>1
  <2>4. s \in Seq(U) /\ Len(s) = size(i + 1)
    BY <2>3, <1>6
  <2>5. \A j \in 1 .. size(i + 1) : s[j] = FieldsLine(F, c, j)
    BY DEF LaidOut
  <2>6. FieldLine(F[k]) \in U /\ Blank \in U
    BY <2>1
  <2> HIDE DEF s, U
  <2>7. CASE k = c
    <3>1. seqs[k] = <<FieldLine(F[k]), Blank>>
      BY <2>1, <2>7, <1>2
    <3>2. size(i + 1) = i + 1 /\ size(k) = k + 1
      BY <2>1, <2>7, <1>1
    <3> DEFINE t == s \o <<FieldLine(F[k]), Blank>>
    <3>3. /\ t \in Seq(U) /\ Len(t) = i + 3
          /\ \A j \in 1 .. i + 1 : t[j] = s[j]
          /\ t[i + 2] = FieldLine(F[k]) /\ t[i + 3] = Blank
      BY <2>4, <2>6, <3>2, TwoMore
    <3>4. t = [j \in 1 .. i + 3 |-> t[j]]
      BY <3>3, SeqIs
    <3> HIDE DEF t
    <3>5. ASSUME NEW j \in 1 .. i + 3 PROVE t[j] = FieldsLine(F, c, j)
      BY <3>3, <3>2, <2>5, <2>7 DEF FieldsLine
    <3>6. t = LaidOut(F, c, i + 3)
      BY <3>4, <3>5 DEF LaidOut
    <3> QED BY <2>2, <3>1, <3>2, <3>6 DEF t
  <2>8. CASE k # c
    <3>1. seqs[k] = <<FieldLine(F[k])>>
      BY <2>1, <2>8, <1>2
    <3>2. size(k) = size(i + 1) + 1 /\ size(i + 1) \in Nat
      BY <2>1, <2>8, <1>1
    <3> DEFINE t == s \o <<FieldLine(F[k])>>
               z == size(i + 1)
    <3>3. /\ t \in Seq(U) /\ Len(t) = z + 1
          /\ \A j \in 1 .. z : t[j] = s[j]
          /\ t[z + 1] = FieldLine(F[k])
      BY <2>4, <2>6, <3>2, OneMore
    <3>4. t = [j \in 1 .. z + 1 |-> t[j]]
      BY <3>3, SeqIs
    <3> HIDE DEF t
    <3>5. FieldsLine(F, c, z + 1) = FieldLine(F[k])
      BY <2>1, <2>8, <1>1 DEF FieldsLine
    <3>6. ASSUME NEW j \in 1 .. z + 1 PROVE t[j] = FieldsLine(F, c, j)
      <4>1. j = z + 1 \/ j \in 1 .. z
        BY <3>2
      <4> QED BY <4>1, <3>3, <3>5, <2>5
    <3>7. t = LaidOut(F, c, z + 1)
      BY <3>4, <3>6 DEF LaidOut
    <3> QED BY <2>2, <3>1, <3>2, <3>7 DEF t
  <2> QED BY <2>7, <2>8
<1>9. n - 1 \in T
  <2> HIDE DEF T
  <2> QED BY <1>1, <1>7, <1>8, NatSet
<1>10. flat[n] = LaidOut(F, c, n + 1)
  BY <1>9, <1>1
<1> QED BY <1>4, <1>10 DEF F, c, n, seqs

(* The states of the loop, and what a line makes of one.                   *)
State(name, id, print, fields, common, at) ==
    [name |-> name, id |-> id, print_fmt |-> print, fields |-> fields, common |-> common, at |-> at]

LEMMA BlankSteps ==
  ASSUME NEW a, NEW b, NEW d, NEW e, NEW g, NEW long64
  PROVE  /\ ParseLine(State(a, b, d, e, g, "common"), Blank, FALSE, long64) = State(a, b, d, e, g, "fields")
         /\ ParseLine(State(a, b, d, e, g, "fields"), Blank, FALSE, long64) = State(a, b, d, e, g, "properties")
BY DEF State, Line, ParseLine, FormatLine, Blank

(* The state of the loop after k lines of what write_to writes for f.      *)
Got(f, k) ==
    IF k <= 3 THEN 0 ELSE IF k <= f.common + 3 THEN k - 3
    ELSE IF k <= Len(f.fields) + 4 THEN k - 4 ELSE Len(f.fields)
CommonGot(f, k) == IF Got(f, k) <= f.common THEN Got(f, k) ELSE f.common
Phase(f, k) ==
    IF k <= 2 \/ k >= Len(f.fields) + 5 THEN "properties"
    ELSE IF k <= f.common + 3 THEN "common" ELSE "fields"
Rereading(f, k) ==
    State(IF k = 0 THEN <<>> ELSE f.name,
          IF k <= 1 THEN <<>> ELSE f.id,
          IF k = Len(f.fields) + 6 THEN f.print_fmt ELSE <<>>,
          SubSeq(f.fields, 1, Got(f, k)), CommonGot(f, k), Phase(f, k))

LEMMA FormatWritten ==
  ASSUME NEW S, NEW f, f.fields \in Seq(S), f.common \in 1 .. Len(f.fields)
  PROVE  LET w == WriteFormat(f)
             n == Len(f.fields)
         IN /\ Len(w) = n + 6
            /\ w[1] = Line("name", f.name) /\ w[2] = Line("ID", f.id) /\ w[3] = Line("format", <<>>)
            /\ \A j \in 1 .. n + 1 : w[j + 3] = FieldsLine(f.fields, f.common, j)
            /\ w[n + 5] = Blank /\ w[n + 6] = Line("print fmt", f.print_fmt)
<1> DEFINE n == Len(f.fields)
           m == n + 1
           g == LaidOut(f.fields, f.common, m)
           x == Line("name", f.name)
           y == Line("ID", f.id)
           z == Line("format", <<>>)
           v == Line("print fmt", f.print_fmt)
           U == {FieldsLine(f.fields, f.common, j) : j \in 1 .. m} \cup {x, y, z, v, Blank}
<1>1. n \in Nat /\ m \in Nat
  BY SeqIs
<1>2. WriteFormat(f) = <<x, y, z>> \o g \o <<Blank, v>>
  BY FieldsLaidOut DEF WriteFormat
<1>3. g \in Seq(U) /\ Len(g) = m /\ \A j \in 1 .. m : g[j] = FieldsLine(f.fields, f.common, j)
  <2>1. \A j \in 1 .. m : FieldsLine(f.fields, f.common, j) \in U
    OBVIOUS
  <2> HIDE DEF U, n, m
  <2> QED BY <1>1, <2>1 DEF LaidOut
<1>4. x \in U /\ y \in U /\ z \in U /\ v \in U /\ Blank \in U
  OBVIOUS
<1> HIDE DEF U, x, y, z, v, g, n
<1> DEFINE h == <<x, y, z>> \o g
<1>5. /\ h \in Seq(U) /\ Len(h) = m + 3 /\ h[1] = x /\ h[2] = y /\ h[3] = z
      /\ \A j \in 1 .. m : h[j + 3] = g[j]
  BY <1>1, <1>3, <1>4
<1> HIDE DEF h, m
<1> DEFINE w == h \o <<Blank, v>>
<1>6. /\ Len(w) = m + 5 /\ \A j \in 1 .. m + 3 : w[j] = h[j]
      /\ w[m + 4] = Blank /\ w[m + 5] = v
  BY <1>1, <1>4, <1>5, TwoMore
<1>7. WriteFormat(f) = w
  BY <1>2 DEF h
<1> HIDE DEF w
<1>8. w[1] = x /\ w[2] = y /\ w[3] = z /\ \A j \in 1 .. m : w[j + 3] = FieldsLine(f.fields, f.common, j)
  <2>1. 1 \in 1 .. m + 3 /\ 2 \in 1 .. m + 3 /\ 3 \in 1 .. m + 3 /\ \A j \in 1 .. m : j + 3 \in 1 .. m + 3
    BY <1>1
  <2> QED BY <2>1, <1>3, <1>5, <1>6
<1>9. Len(w) = n + 6 /\ w[n + 5] = Blank /\ w[n + 6] = v
  BY <1>1, <1>6 DEF m
<1> QED BY <1>7, <1>8, <1>9 DEF m, n, x, y, z, v

LEMMA SubSeqMore ==
  ASSUME NEW S, NEW s \in Seq(S), NEW i \in Nat, i + 1 <= Len(s)
  PROVE  Append(SubSeq(s, 1, i), s[i + 1]) = SubSeq(s, 1, i + 1)
OBVIOUS

LEMMA SubSeqWhole ==
  ASSUME NEW S, NEW s \in Seq(S)
  PROVE  SubSeq(s, 1, Len(s)) = s /\ SubSeq(s, 1, 0) = <<>>
OBVIOUS

(* One line of what write_to writes, read.                                 *)
LEMMA LineReread ==
  ASSUME NEW long64, NEW S, NEW f, f.fields \in Seq(S), AllReparsed(S, long64),
         f.common \in 1 .. Len(f.fields), NEW k \in Nat, k + 1 <= Len(f.fields) + 6
  PROVE  ParseLine(Rereading(f, k), WriteFormat(f)[k + 1], FALSE, long64) = Rereading(f, k + 1)
<1> DEFINE F == f.fields
           c == f.common
           n == Len(F)
           w == WriteFormat(f)
<1>1. n \in Nat /\ c \in Nat /\ c >= 1 /\ c <= n
  BY SeqIs
<1>2. /\ w[1] = Line("name", f.name) /\ w[2] = Line("ID", f.id) /\ w[3] = Line("format", <<>>)
      /\ \A j \in 1 .. n + 1 : w[j + 3] = FieldsLine(F, c, j)
      /\ w[n + 5] = Blank /\ w[n + 6] = Line("print fmt", f.print_fmt)
  BY FormatWritten
<1>3. SubSeq(F, 1, n) = F /\ SubSeq(F, 1, 0) = <<>>
  BY SubSeqWhole
<1>4. ASSUME NEW i \in 1 .. n
      PROVE  Reparsed(long64, F[i]) /\ Append(SubSeq(F, 1, i - 1), F[i]) = SubSeq(F, 1, i)
  <2>1. F[i] \in S
    BY SeqIs
  <2>2. Append(SubSeq(F, 1, i - 1), F[(i - 1) + 1]) = SubSeq(F, 1, (i - 1) + 1)
    BY <1>1, SubSeqMore
  <2>3. (i - 1) + 1 = i
    OBVIOUS
  <2> QED BY <2>1, <2>2, <2>3 DEF AllReparsed
<1> HIDE DEF w
<1>0. k \in Nat
  OBVIOUS
<1>5. CASE k \in 0 .. 0
  <2>1. Rereading(f, k) = State(<<>>, <<>>, <<>>, <<>>, 0, "properties")
    <3>1. /\ (k = 0) /\ (k <= 1) /\ ~ (k = Len(f.fields) + 6)
          /\ Got(f, k) = 0 /\ CommonGot(f, k) = 0 /\ Phase(f, k) = "properties"
      BY ONLY <1>0, <1>1, <1>5 DEF Got, CommonGot, Phase
    <3> QED BY ONLY <3>1, <1>3, Zenon DEF Rereading
  <2>2. Rereading(f, k + 1) = State(f.name, <<>>, <<>>, <<>>, 0, "properties")
    <3>1. /\ ~ (k + 1 = 0) /\ (k + 1 <= 1) /\ ~ (k + 1 = Len(f.fields) + 6)
          /\ Got(f, k + 1) = 0 /\ CommonGot(f, k + 1) = 0 /\ Phase(f, k + 1) = "properties"
      BY ONLY <1>0, <1>1, <1>5 DEF Got, CommonGot, Phase
    <3> QED BY ONLY <3>1, <1>3, Zenon DEF Rereading
  <2>3. w[k + 1] = Line("name", f.name)
    <3>1. k + 1 = 1
      BY ONLY <1>0, <1>1, <1>5
    <3> QED BY ONLY <3>1, <1>2, Zenon
  <2>6. ParseLine(State(<<>>, <<>>, <<>>, <<>>, 0, "properties"), Line("name", f.name), FALSE, long64)
          = State(f.name, <<>>, <<>>, <<>>, 0, "properties")
    BY ONLY DEF State, Line, ParseLine, PropertyLine
  <2> QED BY ONLY <2>1, <2>2, <2>3, <2>6, Zenon DEF w
<1>6. CASE k \in 1 .. 1
  <2>1. Rereading(f, k) = State(f.name, <<>>, <<>>, <<>>, 0, "properties")
    <3>1. /\ ~ (k = 0) /\ (k <= 1) /\ ~ (k = Len(f.fields) + 6)
          /\ Got(f, k) = 0 /\ CommonGot(f, k) = 0 /\ Phase(f, k) = "properties"
      BY ONLY <1>0, <1>1, <1>6 DEF Got, CommonGot, Phase
    <3> QED BY ONLY <3>1, <1>3, Zenon DEF Rereading
  <2>2. Rereading(f, k + 1) = State(f.name, f.id, <<>>, <<>>, 0, "properties")
    <3>1. /\ ~ (k + 1 = 0) /\ ~ (k + 1 <= 1) /\ ~ (k + 1 = Len(f.fields) + 6)
          /\ Got(f, k + 1) = 0 /\ CommonGot(f, k + 1) = 0 /\ Phase(f, k + 1) = "properties"
      BY ONLY <1>0, <1>1, <1>6 DEF Got, CommonGot, Phase
    <3> QED BY ONLY <3>1, <1>3, Zenon DEF Rereading
  <2>3. w[k + 1] = Line("ID", f.id)
    <3>1. k + 1 = 2
      BY ONLY <1>0, <1>1, <1>6
    <3> QED BY ONLY <3>1, <1>2, Zenon
  <2>6. ParseLine(State(f.name, <<>>, <<>>, <<>>, 0, "properties"), Line("ID", f.id), FALSE, long64)
          = State(f.name, f.id, <<>>, <<>>, 0, "properties")
    BY ONLY DEF State, Line, ParseLine, PropertyLine
  <2> QED BY ONLY <2>1, <2>2, <2>3, <2>6, Zenon DEF w
<1>7. CASE k \in 2 .. 2
  <2>1. Rereading(f, k) = State(f.name, f.id, <<>>, <<>>, 0, "properties")
    <3>1. /\ ~ (k = 0) /\ ~ (k <= 1) /\ ~ (k = Len(f.fields) + 6)
          /\ Got(f, k) = 0 /\ CommonGot(f, k) = 0 /\ Phase(f, k) = "properties"
      BY ONLY <1>0, <1>1, <1>7 DEF Got, CommonGot, Phase
    <3> QED BY ONLY <3>1, <1>3, Zenon DEF Rereading
  <2>2. Rereading(f, k + 1) = State(f.name, f.id, <<>>, <<>>, 0, "common")
    <3>1. /\ ~ (k + 1 = 0) /\ ~ (k + 1 <= 1) /\ ~ (k + 1 = Len(f.fields) + 6)
          /\ Got(f, k + 1) = 0 /\ CommonGot(f, k + 1) = 0 /\ Phase(f, k + 1) = "common"
      BY ONLY <1>0, <1>1, <1>7 DEF Got, CommonGot, Phase
    <3> QED BY ONLY <3>1, <1>3, Zenon DEF Rereading
  <2>3. w[k + 1] = Line("format", <<>>)
    <3>1. k + 1 = 3
      BY ONLY <1>0, <1>1, <1>7
    <3> QED BY ONLY <3>1, <1>2, Zenon
  <2>6. ParseLine(State(f.name, f.id, <<>>, <<>>, 0, "properties"), Line("format", <<>>), FALSE, long64)
          = State(f.name, f.id, <<>>, <<>>, 0, "common")
    BY ONLY DEF State, Line, ParseLine, PropertyLine
  <2> QED BY ONLY <2>1, <2>2, <2>3, <2>6, Zenon DEF w
<1>8. CASE k \in 3 .. c + 2
  <2>1. Rereading(f, k) = State(f.name, f.id, <<>>, SubSeq(F, 1, k - 3), k - 3, "common")
    <3>1. /\ ~ (k = 0) /\ ~ (k <= 1) /\ ~ (k = Len(f.fields) + 6)
          /\ Got(f, k) = k - 3 /\ CommonGot(f, k) = k - 3 /\ Phase(f, k) = "common"
      BY ONLY <1>0, <1>1, <1>8 DEF Got, CommonGot, Phase
    <3> QED BY ONLY <3>1, <1>3, Zenon DEF Rereading
  <2>2. Rereading(f, k + 1) = State(f.name, f.id, <<>>, SubSeq(F, 1, k - 2), (k - 3) + 1, "common")
    <3>1. /\ ~ (k + 1 = 0) /\ ~ (k + 1 <= 1) /\ ~ (k + 1 = Len(f.fields) + 6)
          /\ Got(f, k + 1) = k - 2 /\ CommonGot(f, k + 1) = (k - 3) + 1 /\ Phase(f, k + 1) = "common"
      BY ONLY <1>0, <1>1, <1>8 DEF Got, CommonGot, Phase
    <3> QED BY ONLY <3>1, <1>3, Zenon DEF Rereading
  <2> DEFINE i == k - 2
  <2>3. i \in 1 .. n /\ i \in 1 .. n + 1 /\ i <= c /\ i + 3 = k + 1 /\ i - 1 = k - 3
    BY ONLY <1>0, <1>1, <1>8
  <2>4. w[k + 1] = FieldLine(F[i])
    <3>1. w[i + 3] = FieldsLine(F, c, i) /\ FieldsLine(F, c, i) = FieldLine(F[i])
      BY ONLY <2>3, <1>2, Zenon DEF FieldsLine
    <3> QED BY ONLY <2>3, <3>1, Zenon
  <2>5. Append(SubSeq(F, 1, k - 3), F[i]) = SubSeq(F, 1, i) /\ Reparsed(long64, F[i])
    BY ONLY <2>3, <1>4, Zenon
  <2>6. ParseLine(State(f.name, f.id, <<>>, SubSeq(F, 1, k - 3), k - 3, "common"), FieldLine(F[i]), FALSE, long64)
          = State(f.name, f.id, <<>>, Append(SubSeq(F, 1, k - 3), F[i]), (k - 3) + 1, "common")
    <3> DEFINE x == F[i]
               y == SubSeq(F, 1, k - 3)
               z == k - 3
               line == FieldLine(x)
    <3>1. Reparsed(long64, x)
      BY ONLY <2>5
    <3> HIDE DEF x, y, z
    <3>2. line.k = "field" /\ ParseField(long64, line.v) = x /\ x # NoField
      BY ONLY <3>1 DEF Reparsed, FieldLine, Line
    <3> HIDE DEF line
    <3>3. ParseLine(State(f.name, f.id, <<>>, y, z, "common"), line, FALSE, long64)
            = State(f.name, f.id, <<>>, Append(y, x), z + 1, "common")
      BY ONLY <3>2 DEF State, ParseLine, FormatLine
    <3> QED BY ONLY <3>3 DEF x, y, z, line
  <2> QED BY ONLY <2>1, <2>2, <2>4, <2>5, <2>6, Zenon DEF w
<1>9. CASE k \in c + 3 .. c + 3
  <2>1. Rereading(f, k) = State(f.name, f.id, <<>>, SubSeq(F, 1, c), c, "common")
    <3>1. /\ ~ (k = 0) /\ ~ (k <= 1) /\ ~ (k = Len(f.fields) + 6)
          /\ Got(f, k) = c /\ CommonGot(f, k) = c /\ Phase(f, k) = "common"
      BY ONLY <1>0, <1>1, <1>9 DEF Got, CommonGot, Phase
    <3> QED BY ONLY <3>1, <1>3, Zenon DEF Rereading
  <2>2. Rereading(f, k + 1) = State(f.name, f.id, <<>>, SubSeq(F, 1, c), c, "fields")
    <3>1. /\ ~ (k + 1 = 0) /\ ~ (k + 1 <= 1) /\ ~ (k + 1 = Len(f.fields) + 6)
          /\ Got(f, k + 1) = c /\ CommonGot(f, k + 1) = c /\ Phase(f, k + 1) = "fields"
      BY ONLY <1>0, <1>1, <1>9 DEF Got, CommonGot, Phase
    <3> QED BY ONLY <3>1, <1>3, Zenon DEF Rereading
  <2>3. w[k + 1] = Blank
    <3>1. c + 1 \in 1 .. n + 1 /\ (c + 1) + 3 = k + 1 /\ ~ (c + 1 <= c)
      BY ONLY <1>0, <1>1, <1>9
    <3>2. w[(c + 1) + 3] = FieldsLine(F, c, c + 1) /\ FieldsLine(F, c, c + 1) = Blank
      BY ONLY <3>1, <1>2, Zenon DEF FieldsLine
    <3> QED BY ONLY <3>1, <3>2, Zenon
  <2>6. ParseLine(State(f.name, f.id, <<>>, SubSeq(F, 1, c), c, "common"), Blank, FALSE, long64)
          = State(f.name, f.id, <<>>, SubSeq(F, 1, c), c, "fields")
    BY ONLY BlankSteps, Zenon
  <2> QED BY ONLY <2>1, <2>2, <2>3, <2>6, Zenon DEF w
<1>10. CASE k \in c + 4 .. n + 3
  <2>1. Rereading(f, k) = State(f.name, f.id, <<>>, SubSeq(F, 1, k - 4), c, "fields")
    <3>1. /\ ~ (k = 0) /\ ~ (k <= 1) /\ ~ (k = Len(f.fields) + 6)
          /\ Got(f, k) = k - 4 /\ CommonGot(f, k) = c /\ Phase(f, k) = "fields"
      BY ONLY <1>0, <1>1, <1>10 DEF Got, CommonGot, Phase
    <3> QED BY ONLY <3>1, <1>3, Zenon DEF Rereading
  <2>2. Rereading(f, k + 1) = State(f.name, f.id, <<>>, SubSeq(F, 1, k - 3), c, "fields")
    <3>1. /\ ~ (k + 1 = 0) /\ ~ (k + 1 <= 1) /\ ~ (k + 1 = Len(f.fields) + 6)
          /\ Got(f, k + 1) = k - 3 /\ CommonGot(f, k + 1) = c /\ Phase(f, k + 1) = "fields"
      BY ONLY <1>0, <1>1, <1>10 DEF Got, CommonGot, Phase
    <3> QED BY ONLY <3>1, <1>3, Zenon DEF Rereading
  <2> DEFINE i == k - 3
  <2>3. /\ i \in 1 .. n /\ i + 1 \in 1 .. n + 1 /\ ~ (i + 1 <= c) /\ i + 1 # c + 1
        /\ (i + 1) + 3 = k + 1 /\ (i + 1) - 1 = i /\ i - 1 = k - 4
    BY ONLY <1>0, <1>1, <1>10
  <2>4. w[k + 1] = FieldLine(F[i])
    <3>1. w[(i + 1) + 3] = FieldsLine(F, c, i + 1) /\ FieldsLine(F, c, i + 1) = FieldLine(F[(i + 1) - 1])
      BY ONLY <2>3, <1>2, Zenon DEF FieldsLine
    <3> QED BY ONLY <2>3, <3>1, Zenon
  <2>5. Append(SubSeq(F, 1, k - 4), F[i]) = SubSeq(F, 1, i) /\ Reparsed(long64, F[i])
    BY ONLY <2>3, <1>4, Zenon
  <2>6. ParseLine(State(f.name, f.id, <<>>, SubSeq(F, 1, k - 4), c, "fields"), FieldLine(F[i]), FALSE, long64)
          = State(f.name, f.id, <<>>, Append(SubSeq(F, 1, k - 4), F[i]), c, "fields")
    <3> DEFINE x == F[i]
               y == SubSeq(F, 1, k - 4)
               z == c
               line == FieldLine(x)
    <3>1. Reparsed(long64, x)
      BY ONLY <2>5
    <3> HIDE DEF x, y, z
    <3>2. line.k = "field" /\ ParseField(long64, line.v) = x /\ x # NoField
      BY ONLY <3>1 DEF Reparsed, FieldLine, Line
    <3> HIDE DEF line
    <3>3. ParseLine(State(f.name, f.id, <<>>, y, z, "fields"), line, FALSE, long64)
            = State(f.name, f.id, <<>>, Append(y, x), z, "fields")
      BY ONLY <3>2 DEF State, ParseLine, FormatLine
    <3> QED BY ONLY <3>3 DEF x, y, z, line
  <2> QED BY ONLY <2>1, <2>2, <2>4, <2>5, <2>6, Zenon DEF w
<1>11. CASE k \in n + 4 .. n + 4
  <2>1. Rereading(f, k) = State(f.name, f.id, <<>>, F, c, "fields")
    <3>1. /\ ~ (k = 0) /\ ~ (k <= 1) /\ ~ (k = Len(f.fields) + 6)
          /\ Got(f, k) = n /\ CommonGot(f, k) = c /\ Phase(f, k) = "fields"
      BY ONLY <1>0, <1>1, <1>11 DEF Got, CommonGot, Phase
    <3> QED BY ONLY <3>1, <1>3, Zenon DEF Rereading
  <2>2. Rereading(f, k + 1) = State(f.name, f.id, <<>>, F, c, "properties")
    <3>1. /\ ~ (k + 1 = 0) /\ ~ (k + 1 <= 1) /\ ~ (k + 1 = Len(f.fields) + 6)
          /\ Got(f, k + 1) = n /\ CommonGot(f, k + 1) = c /\ Phase(f, k + 1) = "properties"
      BY ONLY <1>0, <1>1, <1>11 DEF Got, CommonGot, Phase
    <3> QED BY ONLY <3>1, <1>3, Zenon DEF Rereading
  <2>3. w[k + 1] = Blank
    <3>1. k + 1 = n + 5
      BY ONLY <1>0, <1>1, <1>11
    <3> QED BY ONLY <3>1, <1>2, Zenon
  <2>6. ParseLine(State(f.name, f.id, <<>>, F, c, "fields"), Blank, FALSE, long64)
          = State(f.name, f.id, <<>>, F, c, "properties")
    BY ONLY BlankSteps, Zenon
  <2> QED BY ONLY <2>1, <2>2, <2>3, <2>6, Zenon DEF w
<1>12. CASE k \in n + 5 .. n + 5
  <2>1. Rereading(f, k) = State(f.name, f.id, <<>>, F, c, "properties")
    <3>1. /\ ~ (k = 0) /\ ~ (k <= 1) /\ ~ (k = Len(f.fields) + 6)
          /\ Got(f, k) = n /\ CommonGot(f, k) = c /\ Phase(f, k) = "properties"
      BY ONLY <1>0, <1>1, <1>12 DEF Got, CommonGot, Phase
    <3> QED BY ONLY <3>1, <1>3, Zenon DEF Rereading
  <2>2. Rereading(f, k + 1) = State(f.name, f.id, f.print_fmt, F, c, "properties")
    <3>1. /\ ~ (k + 1 = 0) /\ ~ (k + 1 <= 1) /\ (k + 1 = Len(f.fields) + 6)
          /\ Got(f, k + 1) = n /\ CommonGot(f, k + 1) = c /\ Phase(f, k + 1) = "properties"
      BY ONLY <1>0, <1>1, <1>12 DEF Got, CommonGot, Phase
    <3> QED BY ONLY <3>1, <1>3, Zenon DEF Rereading
  <2>3. w[k + 1] = Line("print fmt", f.print_fmt)
    <3>1. k + 1 = n + 6
      BY ONLY <1>0, <1>1, <1>12
    <3> QED BY ONLY <3>1, <1>2, Zenon
  <2>6. ParseLine(State(f.name, f.id, <<>>, F, c, "properties"), Line("print fmt", f.print_fmt), FALSE, long64)
          = State(f.name, f.id, f.print_fmt, F, c, "properties")
    BY ONLY DEF State, Line, ParseLine, PropertyLine
  <2> QED BY ONLY <2>1, <2>2, <2>3, <2>6, Zenon DEF w
<1>13. \/ k \in 0 .. 0 \/ k \in 1 .. 1 \/ k \in 2 .. 2 \/ k \in 3 .. c + 2 \/ k \in c + 3 .. c + 3
       \/ k \in c + 4 .. n + 3 \/ k \in n + 4 .. n + 4 \/ k \in n + 5 .. n + 5
  <2>1. k + 1 <= n + 6
    OBVIOUS
  <2> HIDE DEF F, c, n
  <2> QED BY ONLY <1>0, <1>1, <2>1, SMT
<1> QED BY <1>5, <1>6, <1>7, <1>8, <1>9, <1>10, <1>11, <1>12, <1>13

LEMMA FormatReread ==
  ASSUME NEW long64, NEW S, NEW p, p.fields \in Seq(S), AllReparsed(S, long64),
         p.id # <<>>, p.name # <<>>, p.common \in 1 .. Len(p.fields)
  PROVE  ParseFormat(long64, WriteFormat(ParsedFormat(p)), TRUE) = ParsedFormat(p)
<1> DEFINE f == ParsedFormat(p)
           w == WriteFormat(f)
           n == Len(f.fields)
<1>1. f = [name |-> p.name, id |-> p.id, print_fmt |-> p.print_fmt, fields |-> p.fields,
           common |-> p.common, common_size |-> CommonFieldsSize(p), style |-> DecodingStyle(p)]
  BY DEF ParsedFormat
<1>2. /\ f.name = p.name /\ f.id = p.id /\ f.print_fmt = p.print_fmt /\ f.fields = p.fields
      /\ f.common = p.common
  BY <1>1
<1> HIDE DEF f
<1>3. n \in Nat /\ Len(w) = n + 6 /\ Len(w) \in Nat
  <2>1. n \in Nat
    BY <1>2, SeqIs
  <2>2. Len(w) = n + 6
    BY <1>2, FormatWritten
  <2> QED BY <2>1, <2>2
<1> HIDE DEF w
<1> DEFINE ended == TRUE
<1> HIDE DEF ended
<1>4. PICK at : /\ at[0] = Unparsed
                /\ \A i \in 1 .. Len(w) : at[i] = ParseLine(at[i - 1], w[i], i = Len(w) /\ ~ended, long64)
                /\ ParseFormat(long64, w, ended) = ParsedFormat(at[Len(w)])
  <2>1. Len(w) \in Nat
    BY <1>3
  <2> QED BY ONLY <2>1, FormatParsed
<1> DEFINE T == {m \in Nat : m <= n + 6 => at[m] = Rereading(f, m)}
<1>5. 0 \in T
  <2>1. SubSeq(f.fields, 1, 0) = <<>>
    BY <1>2, SubSeqWhole
  <2>2. Rereading(f, 0) = Unparsed
    BY <2>1, <1>2, <1>3 DEF Rereading, Got, CommonGot, Phase, State, Unparsed
  <2> QED BY <2>2, <1>4
<1>6. ASSUME NEW m \in Nat, m \in T PROVE m + 1 \in T
  <2> SUFFICES ASSUME m + 1 <= n + 6 PROVE at[m + 1] = Rereading(f, m + 1)
    OBVIOUS
  <2>1. m + 1 \in 1 .. Len(w) /\ (m + 1) - 1 = m /\ at[m] = Rereading(f, m)
    BY <1>3, <1>6
  <2>2. at[m + 1] = ParseLine(at[m], w[m + 1], FALSE, long64)
    <3>1. at[m + 1] = ParseLine(at[(m + 1) - 1], w[m + 1], m + 1 = Len(w) /\ ~ended, long64)
      BY ONLY <2>1, <1>4, Zenon
    <3>2. (m + 1 = Len(w) /\ ~ended) = FALSE
      BY ONLY Zenon DEF ended
    <3> QED BY <2>1, <3>1, <3>2
  <2>3. ParseLine(Rereading(f, m), w[m + 1], FALSE, long64) = Rereading(f, m + 1)
    BY <1>2, LineReread DEF w
  <2> QED BY <2>1, <2>2, <2>3
<1>7. n + 6 \in T
  <2> HIDE DEF T
  <2> QED BY <1>3, <1>5, <1>6, NatSet
<1> DEFINE q == Rereading(f, n + 6)
<1>8. at[Len(w)] = q
  BY <1>3, <1>7
<1>9. /\ q.name = f.name /\ q.id = f.id /\ q.print_fmt = f.print_fmt /\ q.common = f.common
      /\ q.fields = f.fields
  <2>1. f.common \in Nat /\ f.common <= n /\ ~ (n + 6 <= f.common + 3) /\ SubSeq(f.fields, 1, n) = f.fields
    BY <1>2, <1>3, SubSeqWhole
  <2> QED BY <2>1, <1>3 DEF Rereading, Got, CommonGot, Phase, State
<1> HIDE DEF q
<1>10. ParsedFormat(q) = f
  <2>1. CommonFieldsSize(q) = CommonFieldsSize(p) /\ DecodingStyle(q) = DecodingStyle(p)
    BY <1>2, <1>9 DEF CommonFieldsSize, DecodingStyle
  <2> QED BY <2>1, <1>1, <1>2, <1>9 DEF ParsedFormat
<1> QED BY ONLY <1>4, <1>8, <1>10, Zenon DEF w, f, ended

(* Whatever the lines of a format file say, in whatever order and however  *)
(* broken, the format that PerfEventFormat::parse makes of it, if it has   *)
(* common fields, is the one it makes of what write_to writes for it       *)
(* (FormatReadsBack).                                                      *)
THEOREM ConversionsFormatReadsBack == ConvSpec => []FormatReadsBack
<1>1. ConvInv => FormatReadsBack
  <2> SUFFICES ASSUME ConvInv, Served("file"), result.first # NoFormat,
                      result.first.common \in 1 .. Len(result.first.fields)
               PROVE  result.again = result.first
    BY DEF FormatReadsBack
  <2> DEFINE i == job.input
             f == ParseFormat(i.long64, i.lines, i.ended)
  <2>1. Len(i.lines) \in Nat
    BY ConvAssumption DEF ConvInv
  <2>2. result = [kind |-> "file", first |-> f,
                  again |-> IF f = NoFormat THEN f ELSE ParseFormat(i.long64, WriteFormat(f), TRUE)]
    BY DEF ConvInv, FileDone
  <2> HIDE DEF f
  <2>3. result.first = f /\ f # NoFormat /\ result.again = ParseFormat(i.long64, WriteFormat(f), TRUE)
    BY <2>2
  <2>4. PICK S, p : /\ f = ParsedFormat(p) /\ p.id # <<>> /\ p.name # <<>>
                    /\ p.fields \in Seq(S) /\ AllReparsed(S, i.long64)
    BY <2>1, <2>3, FormatFields DEF f
  <2>5. p.common \in 1 .. Len(p.fields)
    <3>1. f.common = p.common /\ f.fields = p.fields
      BY <2>4 DEF ParsedFormat
    <3> QED BY <3>1, <2>3
  <2>6. ParseFormat(i.long64, WriteFormat(f), TRUE) = f
    BY <2>4, <2>5, FormatReread
  <2> QED BY <2>3, <2>6
<1> QED BY <1>1, ConvInvariant, PTL

-----------------------------------------------------------------------------
(* Text.  First some facts about sequences.                                *)
LEMMA EmptyIs ==
  ASSUME NEW S
  PROVE  <<>> \in Seq(S) /\ Len(<<>>) = 0
OBVIOUS

LEMMA OneIs ==
  ASSUME NEW S, NEW x \in S
  PROVE  <<x>> \in Seq(S) /\ Len(<<x>>) = 1 /\ <<x>>[1] = x
OBVIOUS

LEMMA CatIs ==
  ASSUME NEW S, NEW s \in Seq(S), NEW t \in Seq(S)
  PROVE  /\ s \o t \in Seq(S) /\ Len(s \o t) = Len(s) + Len(t)
         /\ \A j \in 1 .. Len(s) : (s \o t)[j] = s[j]
         /\ \A j \in 1 .. Len(t) : (s \o t)[Len(s) + j] = t[j]
OBVIOUS

LEMMA CatEmpty ==
  ASSUME NEW S, NEW s \in Seq(S)
  PROVE  s \o <<>> = s /\ <<>> \o s = s
OBVIOUS

LEMMA SubSeqIs ==
  ASSUME NEW S, NEW s \in Seq(S), NEW p \in 1 .. Len(s), NEW n \in Nat, p + n - 1 <= Len(s)
  PROVE  Len(SubSeq(s, p, p + n - 1)) = n /\ \A i \in 1 .. n : SubSeq(s, p, p + n - 1)[i] \in S
<1>1. Len(s) \in Nat /\ p \in Nat
  BY SeqIs
<1>2. Len(SubSeq(s, p, p + n - 1)) = n
  BY <1>1
<1>3. ASSUME NEW i \in 1 .. n PROVE SubSeq(s, p, p + n - 1)[i] \in S
  <2>1. SubSeq(s, p, p + n - 1)[i] = s[p + i - 1]
    BY <1>1
  <2>2. p + i - 1 \in 1 .. Len(s)
    BY <1>1
  <2> QED BY <2>1, <2>2, SeqIs
<1> QED BY <1>2, <1>3

(* What charconv hands to a filter.                                        *)
LEMMA BytesAre ==
  ASSUME NEW bytes \in Seq(0 .. 255)
  PROVE  /\ DOMAIN bytes = 1 .. Len(bytes) /\ Len(bytes) \in Nat
         /\ \A i \in 1 .. Len(bytes) : bytes[i] \in 0 .. 255 /\ bytes[i] \in Nat
<1>1. \A x \in 0 .. 255 : x \in Nat
  OBVIOUS
<1>2. Len(bytes) \in Nat /\ \A i \in 1 .. Len(bytes) : bytes[i] \in 0 .. 255
  BY SeqIs
<1>3. DOMAIN bytes = 1 .. Len(bytes)
  OBVIOUS
<1> QED BY <1>1, <1>2, <1>3, Zenon

LEMMA Value1 ==
  ASSUME NEW s, Len(s) = 1, s[1] \in Nat
  PROVE  Utf8Value(s) \in Nat
BY DEF Utf8Value
LEMMA Value2 ==
  ASSUME NEW s, Len(s) = 2, s[1] \in Nat, s[2] \in Nat
  PROVE  Utf8Value(s) \in Nat
BY SMT DEF Utf8Value
LEMMA Value3 ==
  ASSUME NEW s, Len(s) = 3, s[1] \in Nat, s[2] \in Nat, s[3] \in Nat
  PROVE  Utf8Value(s) \in Nat
BY SMT DEF Utf8Value
LEMMA Value4 ==
  ASSUME NEW s, Len(s) = 4, s[1] \in Nat, s[2] \in Nat, s[3] \in Nat, s[4] \in Nat
  PROVE  Utf8Value(s) \in Nat
BY SMT DEF Utf8Value

(* The loops of charconv, and a JSON parser, go from left to right in      *)
(* strides: what they yield from a place p is what they yield there and    *)
(* what they yield from next[p].  E are the places where they end.         *)
StrideRound(g, E, base, head, next, p) == IF p \in E THEN base[p] ELSE head[p] \o g[next[p]]
StrideTable(g, L, E, base, head, next) ==
    g = [p \in 1 .. L + 1 |-> StrideRound(g, E, base, head, next, p)]

LEMMA StridesExist ==
  ASSUME NEW L \in Nat, NEW E, NEW base, NEW head, NEW next, L + 1 \in E,
         \A p \in 1 .. L : p \notin E => next[p] \in p + 1 .. L + 1
  PROVE  \E g : StrideTable(g, L, E, base, head, next)
<1> DEFINE R(g, p) == StrideRound(g, E, base, head, next, p)
           T == {m \in Nat : m <= L => \E g : g = [p \in L + 1 - m .. L + 1 |-> R(g, p)]}
<1>1. 0 \in T
  <2> DEFINE g == [p \in L + 1 .. L + 1 |-> base[p]]
  <2>1. \A p \in L + 1 .. L + 1 : R(g, p) = base[p]
    BY DEF StrideRound
  <2>2. g = [p \in L + 1 .. L + 1 |-> R(g, p)]
    BY <2>1
  <2>3. L + 1 - 0 = L + 1
    OBVIOUS
  <2> QED BY <2>2, <2>3
<1>2. ASSUME NEW m \in Nat, m \in T PROVE m + 1 \in T
  <2> SUFFICES ASSUME m + 1 <= L
               PROVE  \E g : g = [p \in L + 1 - (m + 1) .. L + 1 |-> R(g, p)]
    OBVIOUS
  <2> DEFINE a == L + 1 - m
             b == L + 1 - (m + 1)
  <2>1. PICK g : g = [p \in a .. L + 1 |-> R(g, p)]
    BY <1>2
  <2>2. a \in Int /\ b \in 1 .. L /\ b + 1 = a
    OBVIOUS
  <2> HIDE DEF a, b
  <2> DEFINE h == [p \in b .. L + 1 |-> R(g, p)]
  <2>3. \A p \in a .. L + 1 : h[p] = g[p]
    <3>1. \A p \in a .. L + 1 : g[p] = R(g, p)
      BY <2>1
    <3>2. \A p \in a .. L + 1 : p \in b .. L + 1
      BY <2>2
    <3> QED BY <3>1, <3>2
  <2>4. \A p \in b .. L + 1 : h[p] = R(g, p)
    OBVIOUS
  <2>5. h = [p \in b .. L + 1 |-> h[p]]
    OBVIOUS
  <2> HIDE DEF h
  <2>6. ASSUME NEW p \in b .. L + 1 PROVE R(h, p) = R(g, p)
    <3>1. CASE p \in E
      BY <3>1 DEF StrideRound
    <3>2. CASE p \notin E
      <4>1. p \in 1 .. L
        BY <2>2, <3>2
      <4>2. next[p] \in p + 1 .. L + 1
        BY <4>1, <3>2
      <4>3. next[p] \in a .. L + 1
        BY <4>1, <4>2, <2>2
      <4> QED BY <4>3, <2>3, <3>2 DEF StrideRound
    <3> QED BY <3>1, <3>2
  <2>7. h = [p \in b .. L + 1 |-> R(h, p)]
    BY <2>4, <2>5, <2>6
  <2> QED BY <2>7 DEF b
<1> HIDE DEF T
<1>3. L \in T
  BY <1>1, <1>2, NatSet
<1>4. L + 1 - L = 1
  OBVIOUS
<1> QED BY <1>3, <1>4 DEF T, StrideTable

(* What holds at the ends and is handed on from next[p] to p holds         *)
(* everywhere.                                                             *)
LEMMA StrideInduction ==
  ASSUME NEW L \in Nat, NEW Q, L + 1 \in Q,
         \A p \in 1 .. L : (\A q \in p + 1 .. L + 1 : q \in Q) => p \in Q
  PROVE  1 .. L + 1 \subseteq Q
<1> DEFINE T == {m \in Nat : m <= L => \A q \in L + 1 - m .. L + 1 : q \in Q}
<1>1. 0 \in T
  OBVIOUS
<1>2. ASSUME NEW m \in Nat, m \in T PROVE m + 1 \in T
  <2> SUFFICES ASSUME m + 1 <= L, NEW q \in L + 1 - (m + 1) .. L + 1 PROVE q \in Q
    OBVIOUS
  <2>1. q \in L + 1 - m .. L + 1 \/ q = L - m
    OBVIOUS
  <2>2. L - m \in 1 .. L /\ (L - m) + 1 = L + 1 - m
    OBVIOUS
  <2>3. \A r \in (L - m) + 1 .. L + 1 : r \in Q
    BY <1>2, <2>2
  <2> QED BY <2>1, <2>2, <2>3
<1>3. L \in T
  <2> HIDE DEF T
  <2> QED BY <1>1, <1>2, NatSet
<1> QED BY <1>3

LEMMA StridesGood ==
  ASSUME NEW L \in Nat, NEW S, NEW base, NEW head, NEW next, NEW g, base[L + 1] = <<>>,
         \A p \in 1 .. L : next[p] \in p + 1 .. L + 1 /\ head[p] \in Seq(S),
         NEW E, E = {L + 1}, StrideTable(g, L, E, base, head, next)
  PROVE  g[1] \in Seq(S)
<1>0. \A p \in 1 .. L + 1 : g[p] = StrideRound(g, E, base, head, next, p)
  BY DEF StrideTable
<1> DEFINE Q == {p \in 1 .. L + 1 : g[p] \in Seq(S)}
<1>1. L + 1 \in Q
  <2>1. g[L + 1] = <<>>
    BY <1>0 DEF StrideRound
  <2>2. L + 1 \in 1 .. L + 1
    OBVIOUS
  <2> QED BY ONLY <2>1, <2>2, EmptyIs, Zenon DEF Q
<1>2. ASSUME NEW p \in 1 .. L, \A q \in p + 1 .. L + 1 : q \in Q PROVE p \in Q
  <2>1. p \in 1 .. L + 1 /\ p \notin {L + 1}
    OBVIOUS
  <2>2. g[p] = head[p] \o g[next[p]]
    BY <1>0, <2>1 DEF StrideRound
  <2>3. g[next[p]] \in Seq(S) /\ head[p] \in Seq(S)
    BY <1>2
  <2>4. head[p] \o g[next[p]] \in Seq(S)
    BY ONLY <2>3, CatIs, Zenon
  <2> QED BY ONLY <2>1, <2>2, <2>4, Zenon DEF Q
<1>3. 1 .. L + 1 \subseteq Q
  <2> HIDE DEF Q
  <2> QED BY <1>1, <1>2, StrideInduction
<1> QED BY <1>3

(* The calls a filter gets: a character that goes to write_non_ascii needs *)
(* no escape.                                                              *)
GoodCalls ==
    {c \in [via : {"str", "ascii", "non_ascii"}, ch : Nat] : c.via = "non_ascii" => c.ch > 127}

LEMMA GoodCall ==
  ASSUME NEW via \in {"str", "ascii", "non_ascii"}, NEW ch \in Nat, via = "non_ascii" => ch > 127
  PROVE  Call(via, ch) \in GoodCalls
BY DEF Call, GoodCalls

LEMMA Latin1Good ==
  ASSUME NEW bytes \in Seq(0 .. 255)
  PROVE  Latin1Calls(bytes) \in Seq(GoodCalls)
<1>1. DOMAIN bytes = 1 .. Len(bytes) /\ Len(bytes) \in Nat /\ \A i \in 1 .. Len(bytes) : bytes[i] \in Nat
  BY BytesAre
<1> DEFINE via(i) == IF bytes[i] <= 127 THEN "str" ELSE "non_ascii"
<1>2. ASSUME NEW i \in 1 .. Len(bytes)
      PROVE  Call(via(i), bytes[i]) \in GoodCalls
  <2>1. via(i) \in {"str", "ascii", "non_ascii"} /\ (via(i) = "non_ascii" => bytes[i] > 127)
    BY <1>1
  <2> QED BY <1>1, <2>1, GoodCall
<1> DEFINE s == [i \in 1 .. Len(bytes) |-> Call(via(i), bytes[i])]
<1>3. s \in Seq(GoodCalls)
  <2> HIDE DEF via
  <2> QED BY <1>1, <1>2
<1> QED BY <1>1, <1>3 DEF Latin1Calls

Utf8Round(g, bytes, p) ==
    IF p > Len(bytes) THEN <<>>
    ELSE LET n == Utf8Valid(bytes, p)
         IN IF n = 0 THEN <<Call("non_ascii", bytes[p])>> \o g[p + 1]
            ELSE <<Call("str", Utf8Value(SubSeq(bytes, p, p + n - 1)))>> \o g[p + n]

LEMMA Utf8LengthIs ==
  ASSUME NEW b \in 0 .. 255
  PROVE  Utf8Length(b) \in 0 .. 4 /\ (b <= 127 => Utf8Length(b) = 1)
BY DEF Utf8Length

LEMMA Utf8ValueIs ==
  ASSUME NEW s, NEW n \in 1 .. 4, Len(s) = n, \A i \in 1 .. n : s[i] \in Nat
  PROVE  Utf8Value(s) \in Nat
<1>1. CASE n \in {1}
  <2>1. Len(s) = 1 /\ s[1] \in Nat
    BY <1>1
  <2> QED BY ONLY <2>1, Value1, Zenon
<1>2. CASE n \in {2}
  <2>1. Len(s) = 2 /\ s[1] \in Nat /\ s[2] \in Nat
    BY <1>2
  <2> QED BY ONLY <2>1, Value2, Zenon
<1>3. CASE n \in {3}
  <2>1. Len(s) = 3 /\ s[1] \in Nat /\ s[2] \in Nat /\ s[3] \in Nat
    BY <1>3
  <2> QED BY ONLY <2>1, Value3, Zenon
<1>4. CASE n \in {4}
  <2>1. Len(s) = 4 /\ s[1] \in Nat /\ s[2] \in Nat /\ s[3] \in Nat /\ s[4] \in Nat
    BY <1>4
  <2> QED BY ONLY <2>1, Value4, Zenon
<1> QED BY <1>1, <1>2, <1>3, <1>4

LEMMA OneInRange ==
  ASSUME NEW ch \in Nat
  PROVE  Utf8InRange(1, ch)
BY SMT DEF Utf8InRange, Surrogate

LEMMA Utf8ValidIs ==
  ASSUME NEW bytes \in Seq(0 .. 255), NEW p \in 1 .. Len(bytes)
  PROVE  LET n == Utf8Valid(bytes, p)
         IN /\ n \in 0 .. 4 /\ p + n - 1 <= Len(bytes)
            /\ n = 0 => bytes[p] > 127
            /\ n # 0 => Utf8Value(SubSeq(bytes, p, p + n - 1)) \in Nat
<1> DEFINE b == bytes[p]
           n == Utf8Length(b)
           s == SubSeq(bytes, p, p + n - 1)
           L == Len(bytes)
<1>1. L \in Nat /\ p \in Nat /\ p >= 1 /\ p <= L /\ b \in 0 .. 255 /\ b \in Nat
  BY BytesAre
<1>2. n \in 0 .. 4 /\ (b <= 127 => n = 1)
  BY <1>1, Utf8LengthIs
<1> HIDE DEF n
<1>4. ASSUME n # 0, L - p + 1 >= n
      PROVE  Utf8Value(s) \in Nat
  <2>0. n \in Nat /\ p + n - 1 <= L /\ n \in 1 .. 4
    BY <1>1, <1>2, <1>4
  <2>1. Len(s) = n /\ \A i \in 1 .. n : s[i] \in 0 .. 255
    <3> DEFINE U == 0 .. 255
    <3>1. bytes \in Seq(U) /\ p \in 1 .. Len(bytes)
      OBVIOUS
    <3> HIDE DEF U
    <3>2. Len(s) = n /\ \A i \in 1 .. n : s[i] \in U
      BY ONLY <2>0, <3>1, SubSeqIs, ZenonT(30)
    <3> QED BY <3>2 DEF U
  <2>2. \A x \in 0 .. 255 : x \in Nat
    OBVIOUS
  <2> HIDE DEF s
  <2>3. \A i \in 1 .. n : s[i] \in Nat
    BY ONLY <2>1, <2>2, Zenon
  <2> QED BY ONLY <2>0, <2>1, <2>3, Utf8ValueIs, Zenon
<1> DEFINE ok == /\ n # 0 /\ L - p + 1 >= n
                 /\ \A i \in 2 .. n : s[i] \in 128 .. 191
                 /\ Utf8InRange(n, Utf8Value(s))
<1>5. Utf8Valid(bytes, p) = IF ok THEN n ELSE 0
  BY DEF Utf8Valid, n
<1>6. b <= 127 => ok
  <2> SUFFICES ASSUME b <= 127 PROVE ok
    OBVIOUS
  <2>1. n = 1 /\ 2 .. n = {}
    BY <1>1, <1>2
  <2>3. n # 0 /\ L - p + 1 >= n
    BY <2>1, <1>1
  <2>4. Utf8Value(s) \in Nat
    BY <1>4, <2>3
  <2>2. Utf8InRange(1, Utf8Value(s))
    BY ONLY <2>4, OneInRange, Zenon
  <2> HIDE DEF s, L, b
  <2> QED BY ONLY <2>1, <2>2, <2>3, Zenon
<1>7. CASE ok
  <2>1. Utf8Valid(bytes, p) = n
    BY <1>5, <1>7
  <2>2. n # 0 /\ L - p + 1 >= n
    BY <1>7
  <2>3. Utf8Value(s) \in Nat
    BY <2>2, <1>4
  <2>4. p + n - 1 <= L
    BY <2>2, <1>1, <1>2
  <2> QED BY <2>1, <2>2, <2>3, <2>4, <1>2
<1>8. CASE ~ok
  <2>1. Utf8Valid(bytes, p) = 0
    BY <1>5, <1>8
  <2>2. b > 127
    <3>1. ~ (b <= 127)
      BY ONLY <1>6, <1>8
    <3> HIDE DEF b
    <3> QED BY ONLY <3>1, <1>1, SMT
  <2> HIDE DEF ok
  <2> QED BY <2>1, <2>2, <1>1
<1> QED BY <1>7, <1>8

LEMMA Utf8Good ==
  ASSUME NEW bytes \in Seq(0 .. 255)
  PROVE  Utf8Calls(bytes) \in Seq(GoodCalls)
<1> DEFINE L == Len(bytes)
           n(p) == Utf8Valid(bytes, p)
           E == {L + 1}
           base == [p \in E |-> <<>>]
           head == [p \in 1 .. L |-> IF n(p) = 0 THEN <<Call("non_ascii", bytes[p])>>
                                     ELSE <<Call("str", Utf8Value(SubSeq(bytes, p, p + n(p) - 1)))>>]
           next == [p \in 1 .. L |-> IF n(p) = 0 THEN p + 1 ELSE p + n(p)]
           from == CHOOSE g : g = [p \in 1 .. L + 1 |-> Utf8Round(g, bytes, p)]
<1>1. L \in Nat
  OBVIOUS
<1>2. ASSUME NEW p \in 1 .. L
      PROVE  next[p] \in p + 1 .. L + 1 /\ head[p] \in Seq(GoodCalls)
  <2>1. /\ n(p) \in 0 .. 4 /\ p + n(p) - 1 <= L /\ (n(p) = 0 => bytes[p] > 127)
        /\ n(p) # 0 => Utf8Value(SubSeq(bytes, p, p + n(p) - 1)) \in Nat
    BY Utf8ValidIs
  <2>2. bytes[p] \in Nat
    BY BytesAre
  <2>3. next[p] \in p + 1 .. L + 1
    BY <2>1, <1>1
  <2>4. CASE n(p) = 0
    <3>1. Call("non_ascii", bytes[p]) \in GoodCalls
      BY <2>1, <2>2, <2>4, GoodCall
    <3> QED BY <3>1, <2>3, <2>4
  <2>5. CASE n(p) # 0
    <3>1. Call("str", Utf8Value(SubSeq(bytes, p, p + n(p) - 1))) \in GoodCalls
      BY <2>1, <2>5, GoodCall
    <3> QED BY <3>1, <2>3, <2>5
  <2> QED BY <2>4, <2>5
<1>3. ASSUME NEW g, NEW p \in 1 .. L + 1
      PROVE  Utf8Round(g, bytes, p) = StrideRound(g, E, base, head, next, p)
  <2>1. CASE p \in 1 .. L
    BY <2>1, <1>1 DEF Utf8Round, StrideRound
  <2>2. CASE p = L + 1
    BY <2>2, <1>1 DEF Utf8Round, StrideRound
  <2> QED BY <2>1, <2>2, <1>1
<1>4. \A p \in 1 .. L : p \notin E => next[p] \in p + 1 .. L + 1
  BY <1>2
<1>5. L + 1 \in E /\ base[L + 1] = <<>> /\ E = {L + 1}
  OBVIOUS
<1>6. Utf8Calls(bytes) = from[1]
  BY DEF Utf8Calls, Utf8Round
<1> HIDE DEF E, base, head, next
<1>7. \A g : StrideTable(g, L, E, base, head, next) <=> g = [p \in 1 .. L + 1 |-> Utf8Round(g, bytes, p)]
  BY <1>3 DEF StrideTable
<1>8. \E g : StrideTable(g, L, E, base, head, next)
  <2> HIDE DEF L
  <2>1. L + 1 \in E
    BY <1>5
  <2> QED BY ONLY <1>1, <1>4, <2>1, StridesExist
<1>9. StrideTable(from, L, E, base, head, next)
  BY ONLY <1>7, <1>8, Zenon DEF from
<1> HIDE DEF from
<1>10. from[1] \in Seq(GoodCalls)
  BY ONLY <1>1, <1>2, <1>5, <1>9, StridesGood, Zenon
<1> QED BY <1>6, <1>10

Utf16Round(g, u, p) ==
    IF p > Len(u) THEN <<>>
    ELSE IF u[p] <= 127 THEN <<Call("ascii", u[p])>> \o g[p + 1]
    ELSE IF ~Surrogate(u[p]) THEN <<Call("non_ascii", u[p])>> \o g[p + 1]
    ELSE IF PairAt(u, p) THEN <<Call("non_ascii", PairValue(u[p], u[p + 1]))>> \o g[p + 2]
    ELSE <<Call("non_ascii", Replacement)>> \o g[p + 1]

LEMMA PairIs ==
  ASSUME NEW high \in Nat, NEW low \in Nat, HighSurrogate(high), LowSurrogate(low)
  PROVE  PairValue(high, low) \in Nat /\ PairValue(high, low) > 127
BY SMT DEF HighSurrogate, LowSurrogate, PairValue

LEMMA Units16Are ==
  ASSUME NEW bytes \in Seq(0 .. 255), NEW big
  PROVE  Units16(bytes, big) \in Seq(Nat)
<1> DEFINE L == Len(bytes)
           n == L \div 2
           x(i) == bytes[2 * i - 1] * 256 + bytes[2 * i]
           y(i) == bytes[2 * i] * 256 + bytes[2 * i - 1]
           z(i) == IF big THEN x(i) ELSE y(i)
<1>1. L \in Nat /\ \A i \in 1 .. L : bytes[i] \in Nat
  BY BytesAre
<1>2. ASSUME NEW i \in 1 .. n PROVE z(i) \in Nat
  <2> HIDE DEF L
  <2>1. 2 * i - 1 \in 1 .. L /\ 2 * i \in 1 .. L
    BY <1>1
  <2>2. bytes[2 * i - 1] \in Nat /\ bytes[2 * i] \in Nat
    BY <1>1, <2>1
  <2>3. \A a, b \in Nat : a * 256 + b \in Nat
    OBVIOUS
  <2>4. x(i) \in Nat /\ y(i) \in Nat
    BY ONLY <2>2, <2>3, Zenon
  <2> HIDE DEF x, y
  <2> QED BY ONLY <2>4, Zenon
<1>3. n \in Nat
  BY <1>1
<1> HIDE DEF n, z
<1>4. [i \in 1 .. n |-> z(i)] \in Seq(Nat)
  BY <1>2, <1>3
<1> QED BY <1>4 DEF Units16, n, z

LEMMA Utf16HeadGood ==
  ASSUME NEW u \in Seq(Nat), NEW p \in 1 .. Len(u)
  PROVE  /\ u[p] <= 127 => Call("ascii", u[p]) \in GoodCalls
         /\ u[p] > 127 => Call("non_ascii", u[p]) \in GoodCalls
         /\ PairAt(u, p) => /\ Call("non_ascii", PairValue(u[p], u[p + 1])) \in GoodCalls
                            /\ p + 1 <= Len(u)
         /\ Call("non_ascii", Replacement) \in GoodCalls
<1>1. Len(u) \in Nat /\ p \in Nat /\ u[p] \in Nat
  BY SeqIs
<1>2. u[p] <= 127 => Call("ascii", u[p]) \in GoodCalls
  BY <1>1, GoodCall
<1>3. u[p] > 127 => Call("non_ascii", u[p]) \in GoodCalls
  BY <1>1, GoodCall
<1>4. ASSUME PairAt(u, p)
      PROVE  Call("non_ascii", PairValue(u[p], u[p + 1])) \in GoodCalls /\ p + 1 <= Len(u)
  <2>1. HighSurrogate(u[p]) /\ p < Len(u) /\ LowSurrogate(u[p + 1])
    BY <1>4 DEF PairAt
  <2>2. p + 1 \in 1 .. Len(u)
    BY <1>1, <2>1
  <2>3. u[p + 1] \in Nat
    BY <2>2, SeqIs
  <2>4. PairValue(u[p], u[p + 1]) \in Nat /\ PairValue(u[p], u[p + 1]) > 127
    BY ONLY <1>1, <2>1, <2>3, PairIs, Zenon
  <2> QED BY <2>2, <2>4, GoodCall
<1>5. Call("non_ascii", Replacement) \in GoodCalls
  <2>1. Replacement \in Nat /\ Replacement > 127
    BY SMT DEF Replacement
  <2> QED BY <2>1, GoodCall
<1> QED BY <1>2, <1>3, <1>4, <1>5

LEMMA Utf16Good ==
  ASSUME NEW bytes \in Seq(0 .. 255), NEW big
  PROVE  Utf16Calls(bytes, big) \in Seq(GoodCalls)
<1> DEFINE u == Units16(bytes, big)
           L == Len(u)
           E == {L + 1}
           base == [p \in E |-> <<>>]
           pair(p) == ~ (u[p] <= 127) /\ Surrogate(u[p]) /\ PairAt(u, p)
           call(p) == IF u[p] <= 127 THEN Call("ascii", u[p])
                      ELSE IF ~Surrogate(u[p]) THEN Call("non_ascii", u[p])
                      ELSE IF PairAt(u, p) THEN Call("non_ascii", PairValue(u[p], u[p + 1]))
                      ELSE Call("non_ascii", Replacement)
           head == [p \in 1 .. L |-> <<call(p)>>]
           next == [p \in 1 .. L |-> IF pair(p) THEN p + 2 ELSE p + 1]
           from == CHOOSE g : g = [p \in 1 .. L + 1 |-> Utf16Round(g, u, p)]
<1>0. u \in Seq(Nat)
  BY Units16Are
<1>6. Utf16Calls(bytes, big) = from[1]
  BY DEF Utf16Calls, Utf16Round
<1> HIDE DEF u
<1>1. L \in Nat
  BY <1>0, SeqIs
<1>2. ASSUME NEW p \in 1 .. L
      PROVE  next[p] \in p + 1 .. L + 1 /\ head[p] \in Seq(GoodCalls)
  <2>0. u[p] \in Nat
    BY <1>0, SeqIs
  <2>1. /\ u[p] <= 127 => Call("ascii", u[p]) \in GoodCalls
        /\ u[p] > 127 => Call("non_ascii", u[p]) \in GoodCalls
        /\ PairAt(u, p) => /\ Call("non_ascii", PairValue(u[p], u[p + 1])) \in GoodCalls
                           /\ p + 1 <= L
        /\ Call("non_ascii", Replacement) \in GoodCalls
    BY <1>0, Utf16HeadGood
  <2>2. ~ (u[p] <= 127) => u[p] > 127
    BY <2>0
  <2>3. call(p) \in GoodCalls
    BY ONLY <2>1, <2>2, Zenon
  <2>4. pair(p) => p + 1 <= L
    BY ONLY <2>1, Zenon
  <2> HIDE DEF call, pair
  <2>5. head[p] \in Seq(GoodCalls)
    BY <2>3, OneIs
  <2>6. next[p] \in p + 1 .. L + 1
    BY <1>1, <2>4
  <2> QED BY <2>5, <2>6
<1>3. ASSUME NEW g, NEW p \in 1 .. L + 1
      PROVE  Utf16Round(g, u, p) = StrideRound(g, E, base, head, next, p)
  <2>1. CASE p \in 1 .. L
    <3>1. StrideRound(g, E, base, head, next, p) = <<call(p)>> \o g[IF pair(p) THEN p + 2 ELSE p + 1]
      BY <2>1, <1>1 DEF StrideRound
    <3>3. ~ (p > L)
      BY <2>1, <1>1
    <3>4. Utf16Round(g, u, p) = <<call(p)>> \o g[IF pair(p) THEN p + 2 ELSE p + 1]
      BY ONLY <3>3, Zenon DEF Utf16Round
    <3> HIDE DEF call, pair, E, base, head, next
    <3> QED BY ONLY <3>1, <3>4, Zenon
  <2>2. CASE p = L + 1
    <3>1. p > L /\ ~ (p <= L) /\ p \in E
      BY <2>2, <1>1
    <3>2. base[p] = <<>>
      BY <3>1
    <3>3. Utf16Round(g, u, p) = <<>>
      BY ONLY <3>1, Zenon DEF Utf16Round
    <3> QED BY ONLY <3>1, <3>2, <3>3, Zenon DEF StrideRound
  <2> QED BY <2>1, <2>2, <1>1
<1>4. \A p \in 1 .. L : p \notin E => next[p] \in p + 1 .. L + 1
  BY <1>2
<1>5. L + 1 \in E /\ base[L + 1] = <<>> /\ E = {L + 1}
  OBVIOUS
<1> HIDE DEF E, base, head, next
<1>7. \A g : StrideTable(g, L, E, base, head, next) <=> g = [p \in 1 .. L + 1 |-> Utf16Round(g, u, p)]
  BY <1>3 DEF StrideTable
<1>8. \E g : StrideTable(g, L, E, base, head, next)
  <2> HIDE DEF L
  <2>1. L + 1 \in E
    BY <1>5
  <2> QED BY ONLY <1>1, <1>4, <2>1, StridesExist
<1>9. StrideTable(from, L, E, base, head, next)
  BY ONLY <1>7, <1>8, Zenon DEF from
<1> HIDE DEF from
<1>10. from[1] \in Seq(GoodCalls)
  BY ONLY <1>1, <1>2, <1>5, <1>9, StridesGood, Zenon
<1> QED BY <1>6, <1>10

LEMMA CallsGood ==
  ASSUME NEW encoding \in {"Latin1", "Utf8", "Utf16BE", "Utf16LE"}, NEW bytes \in Seq(0 .. 255)
  PROVE  Calls(encoding, bytes) \in Seq(GoodCalls)
<1>1. CASE encoding = "Latin1"
  <2>1. Calls(encoding, bytes) = Latin1Calls(bytes)
    BY <1>1 DEF Calls
  <2> QED BY <2>1, Latin1Good
<1>2. CASE encoding = "Utf8"
  <2>1. Calls(encoding, bytes) = Utf8Calls(bytes)
    BY <1>2 DEF Calls
  <2> QED BY <2>1, Utf8Good
<1>3. CASE encoding = "Utf16BE"
  <2>1. Calls(encoding, bytes) = Utf16Calls(bytes, TRUE)
    BY <1>3 DEF Calls
  <2> QED BY <2>1, Utf16Good
<1>4. CASE encoding = "Utf16LE"
  <2>1. Calls(encoding, bytes) = Utf16Calls(bytes, FALSE)
    BY <1>4 DEF Calls
  <2> QED BY <2>1, Utf16Good
<1> QED BY <1>1, <1>2, <1>3, <1>4

(* What the JSON filter makes of a character: itself, a backslash and a    *)
(* letter, or a backslash and its number.                                  *)
AsItIs(e, ch) == e = <<ch>> /\ ch # Backslash /\ ch # Quote /\ ~ (ch < Space)
ByLetter(e, ch) == \E l \in DOMAIN Letters : e = <<Backslash, l>> /\ Letters[l] = ch
ByNumber(e, ch) ==
    \E h, k \in Nat : e = <<Backslash, 117, 48, 48, h, k>> /\ HexValue(h) * 16 + HexValue(k) = ch
Escapes(e, ch) == AsItIs(e, ch) \/ ByLetter(e, ch) \/ ByNumber(e, ch)

LEMMA LettersAre ==
  /\ Letters[34] = 34 /\ Letters[92] = 92 /\ Letters[98] = 8 /\ Letters[102] = 12
  /\ Letters[110] = 10 /\ Letters[114] = 13 /\ Letters[116] = 9
  /\ DOMAIN Letters = {34, 92, 98, 102, 110, 114, 116}
BY DEF Letters, Quote, Backslash

LEMMA HexDigits ==
  ASSUME NEW c \in 0 .. 31
  PROVE  LET h == IF c < 16 THEN 48 ELSE 49
             k == HexDigit(c % 16)
         IN h \in Nat /\ k \in Nat /\ HexValue(h) * 16 + HexValue(k) = c
BY DEF HexDigit, HexValue

LEMMA AsciiEscapes ==
  ASSUME NEW c \in Nat
  PROVE  Escapes(JsonAscii(c, FALSE), c)
<1>1. CASE c \in {34, 92}
  <2>1. JsonAscii(c, FALSE) = <<92, c>>
    BY <1>1 DEF JsonAscii, Quote, Backslash
  <2>2. c \in DOMAIN Letters /\ Letters[c] = c
    BY <1>1, LettersAre
  <2> QED BY <2>1, <2>2 DEF Escapes, ByLetter, Backslash
<1>2. CASE c \in {8, 9, 10, 12, 13}
  <2> DEFINE l == CASE c = 8 -> 98 [] c = 12 -> 102 [] c = 10 -> 110 [] c = 13 -> 114 [] c = 9 -> 116
  <2>1. JsonAscii(c, FALSE) = <<92, l>>
    BY <1>2 DEF JsonAscii, Quote, Backslash
  <2>2. l \in DOMAIN Letters /\ Letters[l] = c
    BY <1>2, LettersAre
  <2> HIDE DEF l
  <2> QED BY <2>1, <2>2 DEF Escapes, ByLetter, Backslash
<1>3. CASE c \in (0 .. 31) \ {8, 9, 10, 12, 13}
  <2> DEFINE h == IF c < 16 THEN 48 ELSE 49
             k == HexDigit(c % 16)
  <2>1. JsonAscii(c, FALSE) = <<92, 117, 48, 48, h, k>>
    BY <1>3 DEF JsonAscii, Quote, Backslash
  <2>2. h \in Nat /\ k \in Nat /\ HexValue(h) * 16 + HexValue(k) = c
    BY <1>3, HexDigits
  <2> HIDE DEF h, k
  <2> QED BY <2>1, <2>2 DEF Escapes, ByNumber, Backslash
<1>4. CASE c > 31 /\ c \notin {34, 92}
  <2>1. JsonAscii(c, FALSE) = <<c>>
    BY <1>4 DEF JsonAscii, Quote, Backslash
  <2>2. c # 92 /\ c # 34 /\ ~ (c < 32)
    BY <1>4
  <2> QED BY <2>1, <2>2 DEF Escapes, AsItIs, Quote, Backslash, Space
<1>5. c \in {34, 92} \/ c \in {8, 9, 10, 12, 13} \/ c \in (0 .. 31) \ {8, 9, 10, 12, 13}
      \/ (c > 31 /\ c \notin {34, 92})
  <2>1. c \in 0 .. 31 \/ c > 31
    OBVIOUS
  <2> QED BY ONLY <2>1, Zenon
<1> QED BY ONLY <1>1, <1>2, <1>3, <1>4, <1>5, Zenon

LEMMA CallEscapes ==
  ASSUME NEW c \in GoodCalls
  PROVE  c.ch \in Nat /\ Filtered("none", c) = <<c.ch>> /\ Escapes(Filtered("json", c), c.ch)
<1>1. c.ch \in Nat /\ c.via \in {"str", "ascii", "non_ascii"} /\ (c.via = "non_ascii" => c.ch > 127)
  BY DEF GoodCalls
<1>2. Filtered("none", c) = <<c.ch>> /\ Filtered("json", c) = JsonCall(c, FALSE)
  BY DEF Filtered
<1>3. c.ch > 92 => Escapes(<<c.ch>>, c.ch)
  <2> SUFFICES ASSUME c.ch > 92 PROVE AsItIs(<<c.ch>>, c.ch)
    BY DEF Escapes
  <2> QED BY <1>1 DEF AsItIs, Quote, Backslash, Space
<1>4. CASE c.via = "str"
  <2>1. JsonCall(c, FALSE) = IF c.ch <= 92 THEN JsonAscii(c.ch, FALSE) ELSE <<c.ch>>
    BY <1>4 DEF JsonCall, JsonStr, Backslash
  <2>2. c.ch <= 92 \/ c.ch > 92
    BY <1>1
  <2> QED BY <1>1, <1>2, <1>3, <2>1, <2>2, AsciiEscapes
<1>5. CASE c.via = "ascii"
  <2>1. JsonCall(c, FALSE) = JsonAscii(c.ch, FALSE)
    BY <1>5 DEF JsonCall
  <2> QED BY <1>1, <1>2, <2>1, AsciiEscapes
<1>6. CASE c.via = "non_ascii"
  <2>1. JsonCall(c, FALSE) = <<c.ch>>
    BY <1>6 DEF JsonCall
  <2>2. c.ch > 92
    BY <1>1, <1>6
  <2> QED BY <1>1, <1>2, <1>3, <2>1, <2>2
<1> QED BY <1>1, <1>4, <1>5, <1>6

(* Unescaped as strides: where it goes on, and by how much.                *)
LetterAt(s, p) == p < Len(s) /\ s[p + 1] \in DOMAIN Letters
NumberAt(s, p) == p + 5 <= Len(s) /\ s[p + 1] = 117 /\ s[p + 2] = 48 /\ s[p + 3] = 48
UnescapedRound(g, s, p) ==
    IF p > Len(s) THEN <<>>
    ELSE IF s[p] # Backslash
         THEN IF s[p] = Quote \/ s[p] < Space THEN <<-1>> ELSE <<s[p]>> \o g[p + 1]
    ELSE IF LetterAt(s, p) THEN <<Letters[s[p + 1]]>> \o g[p + 2]
    ELSE IF NumberAt(s, p) THEN <<HexValue(s[p + 4]) * 16 + HexValue(s[p + 5])>> \o g[p + 6]
    ELSE <<-1>>
UnescapedTable(g, s) == g = [p \in 1 .. Len(s) + 1 |-> UnescapedRound(g, s, p)]

LEMMA UnescapedTableExists ==
  ASSUME NEW s, Len(s) \in Nat
  PROVE  \E g : UnescapedTable(g, s)
<1> DEFINE L == Len(s)
           plain(p) == s[p] # Backslash /\ ~ (s[p] = Quote \/ s[p] < Space)
           letter(p) == ~ (s[p] # Backslash) /\ LetterAt(s, p)
           number(p) == ~ (s[p] # Backslash) /\ ~LetterAt(s, p) /\ NumberAt(s, p)
           E == {p \in 1 .. L + 1 : p > L \/ ~ (plain(p) \/ letter(p) \/ number(p))}
           base == [p \in 1 .. L + 1 |-> IF p > L THEN <<>> ELSE <<-1>>]
           first(p) == IF plain(p) THEN <<s[p]>> ELSE IF letter(p) THEN <<Letters[s[p + 1]]>>
                       ELSE <<HexValue(s[p + 4]) * 16 + HexValue(s[p + 5])>>
           head == [p \in 1 .. L + 1 |-> first(p)]
           after(p) == IF plain(p) THEN p + 1 ELSE IF letter(p) THEN p + 2 ELSE p + 6
           next == [p \in 1 .. L + 1 |-> after(p)]
<1>1. ASSUME NEW p \in 1 .. L, p \notin E
      PROVE  next[p] \in p + 1 .. L + 1
  <2>1. next[p] = after(p) /\ p \in 1 .. L + 1 /\ L \in Nat
    BY Zenon, SMT
  <2>2. plain(p) \/ letter(p) \/ number(p)
    BY <1>1, <2>1, Zenon
  <2>3. letter(p) => p < L
    BY Zenon DEF LetterAt
  <2>4. number(p) => p + 5 <= L
    BY Zenon DEF NumberAt
  <2>5. p \in Nat /\ p >= 1 /\ p <= L
    OBVIOUS
  <2> HIDE DEF plain, letter, number, next, E, L
  <2> QED BY ONLY <2>1, <2>2, <2>3, <2>4, <2>5, SMT
<1>2. ASSUME NEW g, NEW p \in 1 .. L + 1
      PROVE  UnescapedRound(g, s, p) = StrideRound(g, E, base, head, next, p)
  <2>1. head[p] = first(p) /\ next[p] = after(p) /\ base[p] = IF p > L THEN <<>> ELSE <<-1>>
    OBVIOUS
  <2>2. p \in E <=> p > L \/ ~ (plain(p) \/ letter(p) \/ number(p))
    BY Zenon
  <2>3. UnescapedRound(g, s, p) = IF p > L THEN <<>>
            ELSE IF ~ (plain(p) \/ letter(p) \/ number(p)) THEN <<-1>> ELSE first(p) \o g[after(p)]
    BY ONLY Zenon DEF UnescapedRound
  <2> HIDE DEF plain, letter, number, head, next, base, first, after, E
  <2> QED BY ONLY <2>1, <2>2, <2>3, Zenon DEF StrideRound
<1>3. L + 1 \in E
  OBVIOUS
<1>4. L \in Nat
  OBVIOUS
<1> HIDE DEF head, next, base, E
<1>5. \E g : StrideTable(g, L, E, base, head, next)
  <2> HIDE DEF L
  <2> QED BY ONLY <1>1, <1>3, <1>4, StridesExist
<1> QED BY <1>2, <1>5 DEF StrideTable, UnescapedTable

LEMMA UnescapedIs ==
  ASSUME NEW s, Len(s) \in Nat
  PROVE  \E g : UnescapedTable(g, s) /\ Unescaped(s) = g[1]
<1> DEFINE at == CHOOSE g : UnescapedTable(g, s)
<1>1. UnescapedTable(at, s)
  BY UnescapedTableExists
<1>2. Unescaped(s) = at[1]
  BY DEF Unescaped, UnescapedTable, UnescapedRound, LetterAt, NumberAt
<1> QED BY <1>1, <1>2

(* One character read back, where its escape stands behind place d.        *)
Holds(s, d, e) ==
    /\ Len(s) \in Nat /\ d \in Nat /\ d + Len(e) <= Len(s)
    /\ \A j \in 1 .. Len(e) : s[d + j] = e[j]

LEMMA OneReadBack ==
  ASSUME NEW s, NEW g, UnescapedTable(g, s), NEW ch, NEW e, Escapes(e, ch), NEW d, Holds(s, d, e)
  PROVE  g[d + 1] = <<ch>> \o g[d + Len(e) + 1]
<1>0. /\ Len(s) \in Nat /\ d \in Nat /\ d + Len(e) <= Len(s)
      /\ \A j \in 1 .. Len(e) : s[d + j] = e[j]
  BY DEF Holds
<1> DEFINE L == Len(s)
           p == d + 1
<1>1. \A q \in 1 .. L + 1 : g[q] = UnescapedRound(g, s, q)
  BY DEF UnescapedTable
<1>2. CASE AsItIs(e, ch)
  <2>1. e = <<ch>> /\ Len(e) = 1 /\ e[1] = ch /\ ch # Backslash /\ ~ (ch = Quote \/ ch < Space)
    BY <1>2 DEF AsItIs
  <2>2. s[p] = ch /\ p \in 1 .. L + 1 /\ ~ (p > L) /\ d + Len(e) + 1 = p + 1
    BY <1>0, <2>1
  <2>3. UnescapedRound(g, s, p) = <<ch>> \o g[p + 1]
    BY ONLY <2>1, <2>2, Zenon DEF UnescapedRound
  <2> HIDE DEF p, L
  <2> QED BY ONLY <1>1, <2>2, <2>3, Zenon DEF p
<1>3. CASE ByLetter(e, ch)
  <2>1. PICK l \in DOMAIN Letters : e = <<Backslash, l>> /\ Letters[l] = ch
    BY <1>3 DEF ByLetter
  <2>2. Len(e) = 2 /\ e[1] = Backslash /\ e[2] = l
    BY <2>1
  <2>3. /\ s[p] = Backslash /\ s[p + 1] = l /\ p \in 1 .. L + 1 /\ ~ (p > L) /\ p < L
        /\ d + Len(e) + 1 = p + 2
    <3>1. s[d + 1] = Backslash /\ s[d + 2] = l
      BY <1>0, <2>2
    <3>2. d + 2 = p + 1
      BY <1>0
    <3> QED BY <1>0, <3>1, <3>2, <2>2
  <2>4. LetterAt(s, p) /\ <<Letters[s[p + 1]]>> = <<ch>>
    BY ONLY <2>1, <2>3, Zenon DEF LetterAt
  <2>5. UnescapedRound(g, s, p) = <<ch>> \o g[p + 2]
    BY ONLY <2>3, <2>4, Zenon DEF UnescapedRound
  <2> HIDE DEF p, L
  <2> QED BY ONLY <1>1, <2>3, <2>5, Zenon DEF p
<1>4. CASE ByNumber(e, ch)
  <2>1. PICK h, k \in Nat : e = <<Backslash, 117, 48, 48, h, k>> /\ HexValue(h) * 16 + HexValue(k) = ch
    BY <1>4 DEF ByNumber
  <2>2. Len(e) = 6 /\ e[1] = Backslash /\ e[2] = 117 /\ e[3] = 48 /\ e[4] = 48 /\ e[5] = h /\ e[6] = k
    BY <2>1
  <2>3. /\ s[p] = Backslash /\ s[p + 1] = 117 /\ s[p + 2] = 48 /\ s[p + 3] = 48
        /\ s[p + 4] = h /\ s[p + 5] = k
        /\ p \in 1 .. L + 1 /\ ~ (p > L) /\ p + 5 <= L /\ d + Len(e) + 1 = p + 6
    <3>1. s[d + 1] = Backslash /\ s[d + 2] = 117 /\ s[d + 3] = 48 /\ s[d + 4] = 48 /\ s[d + 5] = h /\ s[d + 6] = k
      BY <1>0, <2>2
    <3>0. L \in Nat /\ d \in Nat /\ d + 6 <= L /\ Len(e) = 6
      BY <1>0, <2>2
    <3>2. d + 2 = p + 1 /\ d + 3 = p + 2 /\ d + 4 = p + 3 /\ d + 5 = p + 4 /\ d + 6 = p + 5
      BY ONLY <3>0, SMT
    <3>3. p \in 1 .. L + 1 /\ ~ (p > L) /\ p + 5 <= L /\ d + Len(e) + 1 = p + 6
      BY ONLY <3>0, SMT
    <3>4. s[p] = Backslash
      BY <3>1
    <3> HIDE DEF p, L
    <3> QED BY ONLY <3>1, <3>2, <3>3, <3>4, Zenon
  <2>4. ~LetterAt(s, p)
    <3>1. 117 \notin DOMAIN Letters
      BY LettersAre
    <3> QED BY ONLY <2>3, <3>1, Zenon DEF LetterAt
  <2>5. NumberAt(s, p) /\ HexValue(s[p + 4]) * 16 + HexValue(s[p + 5]) = ch
    <3>1. HexValue(s[p + 4]) = HexValue(h) /\ HexValue(s[p + 5]) = HexValue(k)
      BY ONLY <2>3, Zenon
    <3>2. NumberAt(s, p)
      BY ONLY <2>3, Zenon DEF NumberAt
    <3> QED BY ONLY <2>1, <3>1, <3>2, Zenon
  <2>6. UnescapedRound(g, s, p) = <<ch>> \o g[p + 6]
    BY ONLY <2>3, <2>4, <2>5, Zenon DEF UnescapedRound
  <2> HIDE DEF p, L
  <2> QED BY ONLY <1>1, <2>3, <2>6, Zenon DEF p
<1> QED BY <1>2, <1>3, <1>4 DEF Escapes

LEMMA EscapeIs ==
  ASSUME NEW ch \in Nat, NEW e, Escapes(e, ch)
  PROVE  e \in Seq(Nat)
<1>1. CASE AsItIs(e, ch)
  BY <1>1 DEF AsItIs
<1>2. CASE ByLetter(e, ch)
  <2>1. PICK l \in DOMAIN Letters : e = <<Backslash, l>>
    BY <1>2 DEF ByLetter
  <2>2. l \in Nat /\ Backslash \in Nat
    BY LettersAre DEF Backslash
  <2> QED BY <2>1, <2>2
<1>3. CASE ByNumber(e, ch)
  <2>1. PICK h, k \in Nat : e = <<Backslash, 117, 48, 48, h, k>>
    BY <1>3 DEF ByNumber
  <2> QED BY <2>1 DEF Backslash
<1> QED BY <1>1, <1>2, <1>3 DEF Escapes

(* The chunks put one after the other, from none to all.                   *)
Joined(F, S, m, chunks) ==
    /\ F[0] = <<>>
    /\ \A i \in 1 .. m : F[i] = F[i - 1] \o chunks[i]
    /\ \A i \in 0 .. m : F[i] \in Seq(S)

LEMMA FlattenJoins ==
  ASSUME NEW S, NEW chunks \in Seq(Seq(S))
  PROVE  \E F : Joined(F, S, Len(chunks), chunks) /\ F[Len(chunks)] = FlattenSeq(chunks)
<1> DEFINE m == Len(chunks)
           flat == CHOOSE g : FlattenTable(g, chunks)
           F == [i \in 0 .. m |-> IF i = 0 THEN <<>> ELSE flat[i]]
<1>1. m \in Nat /\ \A i \in 1 .. m : chunks[i] \in Seq(S)
  BY SeqIs
<1>2. FlattenTable(flat, chunks)
  BY <1>1, FlattenTableExists
<1>3. FlattenSeq(chunks) = IF m = 0 THEN chunks ELSE flat[m]
  BY DEF FlattenSeq, FlattenTable, FlattenRound
<1>4. F[0] = <<>> /\ \A i \in 1 .. m : F[i] = flat[i]
  BY <1>1
<1> HIDE DEF flat
<1>5. \A i \in 1 .. m : flat[i] = FlattenRound(flat, chunks, i)
  BY <1>2 DEF FlattenTable
<1> HIDE DEF F
<1>6. ASSUME NEW i \in 1 .. m PROVE F[i] = F[i - 1] \o chunks[i]
  <2>0. chunks[i] \in Seq(S)
    BY <1>1
  <2>1. CASE i - 1 \in 0 .. 0
    <3>1. i = 1 /\ i - 1 = 0
      BY <2>1
    <3>2. flat[i] = chunks[i]
      BY <1>5, <3>1 DEF FlattenRound
    <3>3. <<>> \o chunks[i] = chunks[i]
      BY <2>0, CatEmpty
    <3>4. F[i] = flat[i] /\ F[i - 1] = <<>>
      BY <1>4, <3>1
    <3> QED BY ONLY <3>2, <3>3, <3>4, Zenon
  <2>2. CASE i - 1 \in 1 .. m
    <3>1. ~ (i = 1)
      BY <2>2
    <3>2. flat[i] = flat[i - 1] \o chunks[i]
      BY <1>5, <3>1 DEF FlattenRound
    <3>3. F[i] = flat[i] /\ F[i - 1] = flat[i - 1]
      BY <1>4, <2>2
    <3> QED BY ONLY <3>2, <3>3, Zenon
  <2>3. i - 1 \in 0 .. 0 \/ i - 1 \in 1 .. m
    BY <1>1
  <2> QED BY ONLY <2>1, <2>2, <2>3, Zenon
<1> DEFINE T == {i \in Nat : i <= m => F[i] \in Seq(S)}
<1>7. 0 \in T
  <2>1. F[0] \in Seq(S)
    BY ONLY <1>4, EmptyIs, Zenon
  <2> QED BY <2>1
<1>8. ASSUME NEW i \in Nat, i \in T PROVE i + 1 \in T
  <2> SUFFICES ASSUME i + 1 <= m PROVE F[i + 1] \in Seq(S)
    OBVIOUS
  <2>1. i + 1 \in 1 .. m /\ (i + 1) - 1 = i /\ i <= m
    BY <1>1
  <2>2. F[i + 1] = F[i] \o chunks[i + 1]
    BY <1>6, <2>1
  <2>3. F[i] \in Seq(S) /\ chunks[i + 1] \in Seq(S)
    BY <1>1, <1>8, <2>1
  <2> QED BY ONLY <2>2, <2>3, CatIs, Zenon
<1>9. \A i \in 0 .. m : F[i] \in Seq(S)
  <2>1. Nat \subseteq T
    <3> HIDE DEF T
    <3> QED BY ONLY <1>7, <1>8, NatSet
  <2> QED BY <1>1, <2>1
<1>10. F[m] = FlattenSeq(chunks)
  <2>1. CASE m \in 0 .. 0
    <3>1. m = 0 /\ chunks = <<>>
      BY <2>1
    <3> QED BY ONLY <1>3, <1>4, <3>1, Zenon
  <2>2. CASE m \in 1 .. m
    <3>1. ~ (m = 0)
      BY <2>2
    <3> QED BY ONLY <1>3, <1>4, <2>2, <3>1, Zenon
  <2> QED BY <1>1, <2>1, <2>2
<1>11. Joined(F, S, m, chunks)
  BY ONLY <1>4, <1>6, <1>9, Zenon DEF Joined
<1> QED BY ONLY <1>10, <1>11, Zenon

(* With the first i characters set aside, what a JSON parser makes of the  *)
(* rest is what is missing to the whole text.                              *)
RestReadsBack(J, P, g, m, i) ==
    LET d == Len(J[i])
    IN /\ d <= Len(J[m]) /\ \A q \in 1 .. d : J[m][q] = J[i][q]
       /\ g[d + 1] \in Seq(Nat) /\ P[m] = P[i] \o g[d + 1]

LEMMA RestStep ==
  ASSUME NEW m \in Nat, NEW J, NEW P, NEW g, NEW ec, NEW pc, NEW i \in 1 .. m, NEW ch \in Nat,
         Joined(J, Nat, m, ec), Joined(P, Nat, m, pc), UnescapedTable(g, J[m]),
         Escapes(ec[i], ch), pc[i] = <<ch>>, RestReadsBack(J, P, g, m, i)
  PROVE  RestReadsBack(J, P, g, m, i - 1)
<1> DEFINE s == J[m]
           e == ec[i]
           a == J[i - 1]
           d == Len(a)
<1>1. i - 1 \in 0 .. m /\ i \in 0 .. m /\ m \in 0 .. m
  OBVIOUS
<1>2. s \in Seq(Nat) /\ a \in Seq(Nat) /\ J[i] = a \o e /\ P[i - 1] \in Seq(Nat) /\ P[i] = P[i - 1] \o <<ch>>
  BY <1>1 DEF Joined
<1>3. e \in Seq(Nat)
  BY EscapeIs
<1>4. Len(s) \in Nat /\ d \in Nat /\ Len(e) \in Nat
  BY <1>2, <1>3, SeqIs
<1>5. /\ Len(J[i]) = d + Len(e)
      /\ \A j \in 1 .. d : J[i][j] = a[j]
      /\ \A j \in 1 .. Len(e) : J[i][d + j] = e[j]
  <2>1. /\ Len(a \o e) = d + Len(e)
        /\ \A j \in 1 .. d : (a \o e)[j] = a[j]
        /\ \A j \in 1 .. Len(e) : (a \o e)[d + j] = e[j]
    <3> DEFINE S == Nat
    <3>1. a \in Seq(S) /\ e \in Seq(S)
      BY <1>2, <1>3
    <3> HIDE DEF a, e, S
    <3> QED BY ONLY <3>1, SMT
  <2> HIDE DEF a, d, e
  <2> QED BY ONLY <1>2, <2>1, Zenon
<1>6. /\ d + Len(e) <= Len(s) /\ \A q \in 1 .. d + Len(e) : s[q] = J[i][q]
      /\ g[d + Len(e) + 1] \in Seq(Nat) /\ P[m] = P[i] \o g[d + Len(e) + 1]
  <2>1. LET x == Len(J[i])
        IN /\ x <= Len(s) /\ \A q \in 1 .. x : s[q] = J[i][q]
           /\ g[x + 1] \in Seq(Nat) /\ P[m] = P[i] \o g[x + 1]
    BY DEF RestReadsBack
  <2> HIDE DEF s, d, e, a
  <2> QED BY ONLY <1>5, <2>1, Zenon
<1>7. UnescapedTable(g, s) /\ Escapes(e, ch)
  OBVIOUS
<1> HIDE DEF s, a, e, d
<1>8. \A q \in 1 .. d : q \in 1 .. d + Len(e)
  BY <1>4
<1>9. \A j \in 1 .. Len(e) : d + j \in 1 .. d + Len(e)
  BY <1>4
<1>10. \A q \in 1 .. d : s[q] = a[q]
  BY ONLY <1>5, <1>6, <1>8, Zenon
<1>11. \A j \in 1 .. Len(e) : s[d + j] = e[j]
  BY ONLY <1>5, <1>6, <1>9, Zenon
<1>12. g[d + 1] = <<ch>> \o g[d + Len(e) + 1]
  <2>1. Holds(s, d, e)
    BY ONLY <1>4, <1>6, <1>11, Zenon DEF Holds
  <2> QED BY ONLY <1>7, <2>1, OneReadBack
<1>13. <<ch>> \in Seq(Nat)
  BY OneIs
<1>14. g[d + 1] \in Seq(Nat)
  BY ONLY <1>6, <1>12, <1>13, CatIs, Zenon
<1>15. P[m] = P[i - 1] \o g[d + 1]
  <2> DEFINE x == g[d + Len(e) + 1]
  <2>1. x \in Seq(Nat) /\ P[i - 1] \in Seq(Nat)
    BY <1>2, <1>6
  <2>2. P[m] = (P[i - 1] \o <<ch>>) \o x /\ g[d + 1] = <<ch>> \o x
    BY <1>2, <1>6, <1>12
  <2> HIDE DEF x
  <2>3. (P[i - 1] \o <<ch>>) \o x = P[i - 1] \o (<<ch>> \o x)
    <3> DEFINE y == P[i - 1]
               z == <<ch>>
               S == Nat
    <3>1. x \in Seq(S) /\ y \in Seq(S) /\ z \in Seq(S)
      BY <2>1, <1>13
    <3> HIDE DEF y, z, S
    <3>2. (y \o z) \o x = y \o (z \o x)
      BY ONLY <3>1, SMT
    <3> QED BY <3>2 DEF y, z
  <2> QED BY ONLY <2>2, <2>3, Zenon
<1>16. d <= Len(s)
  BY <1>4, <1>6
<1> QED BY ONLY <1>10, <1>14, <1>15, <1>16, Zenon DEF RestReadsBack, d, a, s

LEMMA CallsReadBack ==
  ASSUME NEW cs \in Seq(GoodCalls)
  PROVE  Unescaped(FlattenSeq([i \in DOMAIN cs |-> Filtered("json", cs[i])]))
           = FlattenSeq([i \in DOMAIN cs |-> Filtered("none", cs[i])])
<1> DEFINE m == Len(cs)
           ec == [i \in 1 .. m |-> Filtered("json", cs[i])]
           pc == [i \in 1 .. m |-> Filtered("none", cs[i])]
<1>1. m \in Nat /\ (\A i \in 1 .. m : cs[i] \in GoodCalls)
  BY SeqIs
<1>1a. DOMAIN cs = 1 .. m
  OBVIOUS
<1>2. ASSUME NEW i \in 1 .. m
      PROVE  /\ cs[i].ch \in Nat /\ pc[i] = <<cs[i].ch>> /\ Escapes(ec[i], cs[i].ch)
             /\ ec[i] \in Seq(Nat) /\ pc[i] \in Seq(Nat)
  <2>1. cs[i] \in GoodCalls
    BY <1>1
  <2>2. cs[i].ch \in Nat /\ Filtered("none", cs[i]) = <<cs[i].ch>> /\ Escapes(Filtered("json", cs[i]), cs[i].ch)
    BY ONLY <2>1, CallEscapes, Zenon
  <2>3. ec[i] = Filtered("json", cs[i]) /\ pc[i] = Filtered("none", cs[i])
    OBVIOUS
  <2> HIDE DEF ec, pc
  <2>4. cs[i].ch \in Nat /\ pc[i] = <<cs[i].ch>> /\ Escapes(ec[i], cs[i].ch)
    BY ONLY <2>2, <2>3, Zenon
  <2>5. ec[i] \in Seq(Nat)
    BY ONLY <2>4, EscapeIs, Zenon
  <2>6. pc[i] \in Seq(Nat)
    BY ONLY <2>4, OneIs, Zenon
  <2> QED BY ONLY <2>4, <2>5, <2>6, Zenon
<1>3. ec = [i \in 1 .. m |-> ec[i]] /\ pc = [i \in 1 .. m |-> pc[i]]
  OBVIOUS
<1>4. /\ FlattenSeq([i \in DOMAIN cs |-> Filtered("json", cs[i])]) = FlattenSeq(ec)
      /\ FlattenSeq([i \in DOMAIN cs |-> Filtered("none", cs[i])]) = FlattenSeq(pc)
  BY <1>1a
<1> HIDE DEF ec, pc, m
<1>5. ec \in Seq(Seq(Nat)) /\ Len(ec) = m /\ pc \in Seq(Seq(Nat)) /\ Len(pc) = m
  <2> DEFINE S == Seq(Nat)
  <2>1. \A i \in 1 .. m : ec[i] \in S /\ pc[i] \in S
    BY <1>2
  <2> HIDE DEF S
  <2>2. ec \in Seq(S) /\ Len(ec) = m
    BY ONLY <1>1, <1>3, <2>1
  <2>3. pc \in Seq(S) /\ Len(pc) = m
    BY ONLY <1>1, <1>3, <2>1
  <2> QED BY <2>2, <2>3 DEF S
<1>6. PICK J : Joined(J, Nat, m, ec) /\ J[m] = FlattenSeq(ec)
  BY ONLY <1>5, FlattenJoins, Zenon
<1>7. PICK P : Joined(P, Nat, m, pc) /\ P[m] = FlattenSeq(pc)
  BY ONLY <1>5, FlattenJoins, Zenon
<1>8. m \in 0 .. m /\ 0 \in 0 .. m
  BY <1>1
<1>9. J[m] \in Seq(Nat) /\ P[m] \in Seq(Nat) /\ J[0] = <<>> /\ P[0] = <<>>
  BY ONLY <1>6, <1>7, <1>8, Zenon DEF Joined
<1>10. Len(J[m]) \in Nat
  BY <1>9, SeqIs
<1>11. PICK g : UnescapedTable(g, J[m]) /\ Unescaped(J[m]) = g[1]
  BY ONLY <1>10, UnescapedIs, Zenon
<1> DEFINE T == {n \in Nat : n <= m => RestReadsBack(J, P, g, m, m - n)}
<1>12. 0 \in T
  <2>1. RestReadsBack(J, P, g, m, m)
    <3>1. Len(J[m]) + 1 \in 1 .. Len(J[m]) + 1 /\ Len(J[m]) + 1 > Len(J[m]) /\ Len(J[m]) <= Len(J[m])
      BY <1>10
    <3>2. g[Len(J[m]) + 1] = <<>>
      <4>1. g[Len(J[m]) + 1] = UnescapedRound(g, J[m], Len(J[m]) + 1)
        BY <1>11, <3>1 DEF UnescapedTable
      <4> QED BY ONLY <3>1, <4>1, Zenon DEF UnescapedRound
    <3>3. <<>> \in Seq(Nat)
      BY EmptyIs
    <3>4. P[m] = P[m] \o <<>>
      BY <1>9, CatEmpty
    <3> QED BY ONLY <3>1, <3>2, <3>3, <3>4, Zenon DEF RestReadsBack
  <2>2. m - 0 = m
    BY <1>1
  <2> QED BY <2>1, <2>2
<1>13. ASSUME NEW n \in Nat, n \in T PROVE n + 1 \in T
  <2> SUFFICES ASSUME n + 1 <= m PROVE RestReadsBack(J, P, g, m, m - (n + 1))
    OBVIOUS
  <2>1. m - n \in 1 .. m /\ (m - n) - 1 = m - (n + 1) /\ n <= m
    BY <1>1
  <2>2. RestReadsBack(J, P, g, m, m - n)
    BY <1>13, <2>1
  <2> DEFINE i == m - n
  <2>3. cs[i].ch \in Nat /\ pc[i] = <<cs[i].ch>> /\ Escapes(ec[i], cs[i].ch)
    BY <1>2, <2>1
  <2>4. i \in 1 .. m /\ RestReadsBack(J, P, g, m, i)
    BY <2>1, <2>2
  <2> HIDE DEF i
  <2>5. RestReadsBack(J, P, g, m, i - 1)
    BY ONLY <1>1, <1>6, <1>7, <1>11, <2>3, <2>4, RestStep, Zenon
  <2>6. i - 1 = m - (n + 1)
    BY <2>1 DEF i
  <2> QED BY ONLY <2>5, <2>6, Zenon
<1>14. RestReadsBack(J, P, g, m, 0)
  <2>1. Nat \subseteq T
    <3> HIDE DEF T
    <3> QED BY ONLY <1>12, <1>13, NatSet
  <2>2. m - m = 0 /\ m <= m
    BY <1>1
  <2> QED BY <1>1, <2>1, <2>2
<1>15. g[1] \in Seq(Nat) /\ P[m] = <<>> \o g[1]
  <2>1. Len(J[0]) = 0
    BY <1>9
  <2>2. 0 + 1 = 1
    OBVIOUS
  <2> QED BY ONLY <1>9, <1>14, <2>1, <2>2, Zenon DEF RestReadsBack
<1>16. P[m] = g[1]
  BY <1>15, CatEmpty
<1> QED BY ONLY <1>4, <1>6, <1>7, <1>11, <1>16, Zenon

LEMMA TextUnescaped ==
  ASSUME NEW encoding \in {"Latin1", "Utf8", "Utf16BE", "Utf16LE"}, NEW bytes \in Seq(0 .. 255)
  PROVE  Unescaped(WriteText(encoding, "json", bytes)) = WriteText(encoding, "none", bytes)
<1>1. Calls(encoding, bytes) \in Seq(GoodCalls)
  BY CallsGood
<1> QED BY <1>1, CallsReadBack, Zenon DEF WriteText

(* EscapedReadsBack holds for every string, of any bytes, valid in its     *)
(* encoding or not: what charconv writes through the JSON escape filter is *)
(* read by a JSON parser as what it writes through no filter, except for   *)
(* UTF-32.                                                                 *)
THEOREM ConversionsEscapedReadsBack == ConvSpec => []EscapedReadsBack
<1>1. ConvInv => EscapedReadsBack
  <2> SUFFICES ASSUME ConvInv, Served("text"), job.input.encoding \notin {"Utf32BE", "Utf32LE"}
               PROVE  Unescaped(result.json) = result.plain
    BY DEF EscapedReadsBack
  <2> DEFINE t == job.input
  <2>1. t \in Texts /\ result.plain = WriteText(t.encoding, "none", t.bytes)
                    /\ result.json = WriteText(t.encoding, "json", t.bytes)
    BY DEF ConvInv, TextDone
  <2>2. t.encoding \in {"Latin1", "Utf8", "Utf16BE", "Utf16LE"} /\ t.bytes \in Seq(0 .. 255)
    BY <2>1, ConvAssumption
  <2>3. Unescaped(WriteText(t.encoding, "json", t.bytes)) = WriteText(t.encoding, "none", t.bytes)
    BY ONLY <2>2, TextUnescaped, Zenon
  <2> QED BY <2>1, <2>3
<1> QED BY <1>1, ConvInvariant, PTL
=============================================================================
