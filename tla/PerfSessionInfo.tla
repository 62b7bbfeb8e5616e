--------------------------- MODULE PerfSessionInfo ---------------------------
(***************************************************************************)
(* PerfSessionInfo and PerfTimeSpec of the tracepoint_decode crate: the    *)
(* clock of a recording session.  The offset between the session's clock   *)
(* and real time is kept as whole seconds, which may be negative, and      *)
(* nanoseconds, which may not.  Operators only: a session is a record.     *)
(***************************************************************************)
EXTENDS Integers

CONSTANTS
    BILLION,    \* nanoseconds of a second
    U64_MAX,    \* highest u64
    CLOCK_MAX   \* u32::MAX as a clock id: not known

ASSUME ClockAssumption == BILLION \in Nat \ {0} /\ U64_MAX \in Nat /\ CLOCK_MAX \in Nat \ {0}

(* u64 subtraction wraps (overflow checks off).                            *)
WrapU64(n) == n % (U64_MAX + 1)

NewSession == [seconds |-> 0, nanoseconds |-> 0, clock_id |-> 0, known |-> FALSE]

SetClockId(s, id) == [s EXCEPT !.clock_id = id]

(* PerfTimeSpec::new: nanoseconds of a second or more are carried over.    *)
TimeSpec(sec, nsec) == [seconds |-> sec + nsec \div BILLION, nanoseconds |-> nsec % BILLION]

(* Fault: the nanoseconds of a negative offset are not complemented.       *)
NegativeOffsetTruncated(s, id, neg) ==
    [seconds |-> -(neg \div BILLION), nanoseconds |-> neg % BILLION,
     clock_id |-> id, known |-> TRUE]

(* The third case of set_clock_data: -neg as seconds and nanoseconds.      *)
NegativeOffset(s, id, neg) ==
    LET exact == neg % BILLION = 0
    IN [seconds |-> -(neg \div BILLION) - 1 + (IF exact THEN 1 ELSE 0),
        nanoseconds |-> IF exact THEN 0 ELSE BILLION - (neg % BILLION),
        clock_id |-> id, known |-> TRUE]

SetClockData(s, id, wall, time) ==
    CASE id = CLOCK_MAX ->
            [seconds |-> 0, nanoseconds |-> 0, clock_id |-> id, known |-> FALSE]
      [] id # CLOCK_MAX /\ time <= wall ->
            [seconds |-> (wall - time) \div BILLION, nanoseconds |-> (wall - time) % BILLION,
             clock_id |-> id, known |-> TRUE]
      [] OTHER -> NegativeOffset(s, id, time - wall)

(* <<wall_clock_ns, clockid_time_ns>>, one of them 0.                      *)
GetClockData(s) ==
    IF s.seconds >= 0 THEN <<WrapU64(s.seconds * BILLION + s.nanoseconds), 0>>
    ELSE <<0, WrapU64((-s.seconds) * BILLION - s.nanoseconds)>>

TimeToTimeSpec(s, time) ==
    TimeSpec(s.seconds + time \div BILLION, s.nanoseconds + (time % BILLION))

-----------------------------------------------------------------------------
(* set_session_info_headers: the contents of the CLOCKID and CLOCK_DATA    *)
(* headers, empty when not known.                                          *)
ClockIdContent(id) == <<[k |-> "clockid", v |-> <<id>>]>>
ClockDataContent(id, wall, time) == <<[k |-> "clock_data", v |-> <<1, id, wall, time>>]>>

SessionClockId(s) == IF s.clock_id = CLOCK_MAX THEN <<>> ELSE ClockIdContent(s.clock_id)
SessionClockData(s) ==
    IF ~s.known THEN <<>>
    ELSE ClockDataContent(s.clock_id, GetClockData(s)[1], GetClockData(s)[2])

(* parse_header_clockid and parse_header_clock_data: what a reader makes   *)
(* of the two headers, CLOCKID first.                                      *)
ParseClockId(s, c) == IF c = <<>> THEN s ELSE SetClockId(s, c[1].v[1])
ParseClockData(s, c) ==
    IF c = <<>> \/ c[1].v[1] < 1 THEN s ELSE SetClockData(s, c[1].v[2], c[1].v[3], c[1].v[4])
=============================================================================
