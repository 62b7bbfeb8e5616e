------------------------ MODULE MCPerfDataFileWriter ------------------------
(***************************************************************************)
(* Instance of PerfDataFileWriter: one character is plain, one takes two   *)
(* bytes in UTF-8; a name is at the limit, an id list past the reader's    *)
(* limit and one past the writer's, one attr says another size; two        *)
(* formats share an id, some a system, one has no usable common type and   *)
(* one another than the rest.                                              *)
(***************************************************************************)
EXTENDS PerfDataFileWriter

CONSTANTS Wide   \* whether event names have a wide character

MCPayloads == {<<>>, <<Unit("raw", <<1>>), Unit("raw", <<2>>)>>}
MCStrings == {<<>>, <<1, 0, 1>>}
MCNames == IF Wide THEN {<<1>>, <<1, 2>>} ELSE {<<1, 0, 1>>, [i \in 1 .. 8 |-> 1]}
MCIsWide(c) == c = 2
MCAttrs == {1, 2}
MCFullSize(a) == a = 1
MCIdLists == {<<>>, <<5, 6>>, <<5, 6, 7>>, <<5, 6, 7, 8>>}
MCFormats == {[id |-> 1, system |-> 7, common |-> 8], [id |-> 1, system |-> 8, common |-> 8],
              [id |-> 2, system |-> 7, common |-> 0], [id |-> 3, system |-> 8, common |-> 4],
              [id |-> 4, system |-> 8, common |-> 8]}
MCSessions == {NewSession, SetClockData(NewSession, 1, 2, 7), SetClockData(NewSession, CLOCK_MAX, 0, 0)}
MCBlobs == {0, 3}
=============================================================================
