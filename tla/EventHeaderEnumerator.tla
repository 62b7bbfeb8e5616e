------------------------ MODULE EventHeaderEnumerator ------------------------
(***************************************************************************)
(* EventHeaderEnumerator of the tracepoint_decode crate: walks the fields  *)
(* of one event, reading field declarations from the metadata and values   *)
(* from the data that follows, with an explicit stack instead of           *)
(* recursion.                                                              *)
(*                                                                         *)
(* Metadata is a sequence of tokens: a field declaration (name, encoding,  *)
(* array flags, format; the format of a struct is its number of fields),   *)
(* the count that follows the declaration of a constant-length array, or a *)
(* truncated declaration at the end.  Data is a sequence of units: a fixed *)
(* value takes one or two, the u16 length of an array or string takes one. *)
(* Offsets are positions in these sequences.                               *)
(*                                                                         *)
(* ctx holds the fields of EventHeaderEnumeratorContext and each function  *)
(* of the code that changes them is an operator from contexts to contexts. *)
(* The "cooked" value range is left out: it only frames the value's text.  *)
(***************************************************************************)
EXTENDS Integers, Sequences, SequencesExt

CONSTANTS
    Events,            \* set of [meta, data] records: the events to decode
    MoveLimit,         \* the move_next limit
    STRUCT_NEST_LIMIT, \* depth of the stack
    MaxTopLevel,       \* 255: field count given to the top level
    CountModulus       \* 256: counts of fields are u8

ASSUME LimitsAssumption ==
    /\ MoveLimit \in Nat /\ STRUCT_NEST_LIMIT \in Nat
    /\ CountModulus \in Nat \ {0}
    /\ MaxTopLevel \in 0 .. CountModulus - 1

(* What a token of the metadata may say: the format of a struct is seven   *)
(* bits of its byte.                                                       *)
Encodings == {"Invalid", "Unknown", "Struct", "Value8", "Value16", "ZString", "String16"}
Arrays == {"none", "carray", "varray", "both"}
Tokens == [kind : {"field", "count", "truncated"}, encoding : Encodings, array : Arrays,
           format : Nat]

ASSUME EventsAssumption ==
    \A e \in Events :
        /\ e.meta \in Seq(Tokens) /\ e.data \in Seq(Nat)
        /\ \A i \in DOMAIN e.meta :
              e.meta[i].encoding = "Struct" => e.meta[i].format < CountModulus

Field(e, a, f) == [kind |-> "field", encoding |-> e, array |-> a, format |-> f]
Count(n) == [kind |-> "count", encoding |-> "Invalid", array |-> "none", format |-> n]
Truncated == [kind |-> "truncated", encoding |-> "Invalid", array |-> "none", format |-> 0]

VARIABLES
    event,   \* the event being decoded
    ctx,     \* the enumerator's context
    depth,   \* local of move_next_sibling
    at       \* history: number of items passed, counting the current one

vars == <<event, ctx, depth, at>>

NoSibling == -2  \* depth when no move_next_sibling is in progress

MetaEnd == Len(event.meta) + 1
Remaining(c) == Len(event.data) - c.data_pos + 1

ItemStates == {"Value", "ArrayBegin", "ArrayEnd", "StructBegin", "StructEnd"}
CanMoveNext(c) == c.state \in ItemStates \cup {"BeforeFirstItem"}

SetState(c, s, sub) == [c EXCEPT !.state = s, !.substate = sub]
SetEndState(c, s) == [SetState(c, s, s) EXCEPT !.item_size = 0]
SetErrorState(c, e) == [SetState(c, "Error", "Error") EXCEPT !.last_error = e]

ElementSize(e) == CASE e = "Value8" -> 1 [] e = "Value16" -> 2 [] OTHER -> 0

(* reset_impl.  What it does not mention keeps its value from before.      *)
ResetImpl(c) ==
    [SetState(c, "BeforeFirstItem", "BeforeFirstItem") EXCEPT
        !.data_pos = 1, !.move_next_remaining = MoveLimit,
        !.next_offset = 1, !.remaining_field_count = MaxTopLevel,
        !.stack = <<>>, !.last_error = "Success"]

(* new(): every field zero.                                                *)
NewContext ==
    [state |-> "Error", substate |-> "Error", last_error |-> "Success",
     next_offset |-> 0, name_offset |-> 0, array_index |-> 0, array_count |-> 0,
     remaining_field_count |-> 0, stack |-> <<>>, encoding |-> "Invalid",
     array |-> "none", format |-> 0, element_size |-> 0, data_pos |-> 0,
     item_size |-> 0, move_next_remaining |-> 0]

(* read_field_type: also sets next_offset to just after the type.          *)
ReadFieldType(c, offset) ==
    LET tok == event.meta[offset]
    IN [c EXCEPT !.encoding = tok.encoding, !.array = tok.array,
                 !.format = tok.format, !.next_offset = offset + 1]

(* Fault: the error of read_field_name_and_type is not looked at.          *)
ReadFieldErrorIgnored(c) == FALSE

(* read_field_name_and_type of the field at next_offset; READ_FIELD_ERROR  *)
(* is the encoding Invalid without array flags.                            *)
ReadField(c) == ReadFieldType([c EXCEPT !.name_offset = c.next_offset], c.next_offset)
ReadFieldError(c) == c.encoding = "Invalid" /\ c.array = "none"

IsVArray(c) == c.array \in {"varray", "both"}
IsArray(c) == c.array # "none"

StartStruct(c) ==
    [SetState(c, "StructBegin", "StructBegin") EXCEPT !.element_size = 0, !.item_size = 0]

(* Fault: the size of a simple array is not compared with the data left.   *)
StartArrayUnchecked(c) ==
    LET size == ElementSize(c.encoding)
        c1 == [SetState(c, "ArrayBegin", "ArrayBegin") EXCEPT
                  !.element_size = size, !.item_size = c.array_count * size]
    IN CASE c.encoding = "Invalid" -> SetErrorState(c1, "InvalidData")
         [] c.encoding = "Unknown" -> SetErrorState(c1, "NotSupported")
         [] OTHER -> c1

(* start_array: a simple array's elements are validated all at once.       *)
StartArray(c) ==
    LET size == ElementSize(c.encoding)
        c1 == [SetState(c, "ArrayBegin", "ArrayBegin") EXCEPT
                  !.element_size = size, !.item_size = 0]
    IN CASE c.encoding = "Invalid" -> SetErrorState(c1, "InvalidData")
         [] c.encoding = "Unknown" -> SetErrorState(c1, "NotSupported")
         [] Remaining(c) < c.array_count * size -> SetErrorState(c1, "InvalidData")
         [] OTHER -> [c1 EXCEPT !.item_size = c.array_count * size]

(* start_value_zstring*: up to and including the NUL, or all that is left. *)
ZStringSize(c) ==
    LET nuls == {p \in c.data_pos .. Len(event.data) : event.data[p] = 0}
    IN IF nuls = {} THEN Remaining(c) ELSE Min(nuls) - c.data_pos + 1

(* start_value: the raw size of the value at data_pos.                     *)
ValueSize(c) ==
    CASE c.encoding = "ZString" -> ZStringSize(c)
      [] c.encoding = "String16" ->
            IF Remaining(c) < 1 THEN 1 ELSE event.data[c.data_pos] + 1
      [] OTHER -> ElementSize(c.encoding)

StartValue(c) ==
    LET c1 == [c EXCEPT !.element_size = ElementSize(c.encoding)]
    IN IF c.encoding \in {"Invalid", "Unknown"} \/ Remaining(c) < ValueSize(c)
          THEN SetErrorState([c1 EXCEPT !.item_size = 0], "InvalidData")
          ELSE [c1 EXCEPT !.item_size = ValueSize(c)]

(* The length of a constant-length array, in the metadata.                 *)
TakeCount(c) == [c EXCEPT !.array_count = event.meta[c.next_offset].format,
                          !.next_offset = @ + 1]

(* The length of a variable-length array, in the data.                     *)
TakeLength(c) == [c EXCEPT !.array_count = event.data[c.data_pos], !.data_pos = @ + 1]

(* next_property, the field declared at next_offset.                       *)
BeginScalar(c) ==
    CASE c.encoding # "Struct" -> StartValue(SetState(c, "Value", "ValueScalar"))
      [] c.encoding = "Struct" /\ c.format = 0 -> SetErrorState(c, "InvalidData")
      [] OTHER -> StartStruct(c)

BeginVArray(c) ==
    IF Remaining(c) < 1 THEN SetErrorState(c, "InvalidData") ELSE StartArray(TakeLength(c))

BeginCArray(c) ==
    CASE c.next_offset = MetaEnd -> SetErrorState(c, "InvalidData")
      [] c.next_offset # MetaEnd /\ TakeCount(c).array_count = 0 ->
            SetErrorState(TakeCount(c), "InvalidData")
      [] OTHER -> StartArray(TakeCount(c))

BeginProperty(c) ==
    LET c1 == ReadField([c EXCEPT !.remaining_field_count = @ - 1, !.array_index = 0])
    IN CASE ReadFieldError(c1) -> SetErrorState(c1, "InvalidData")
         [] ~ReadFieldError(c1) /\ ~IsArray(c1) -> BeginScalar([c1 EXCEPT !.array_count = 1])
         [] IsVArray(c1) -> BeginVArray(c1)
         [] OTHER -> BeginCArray(c1)

(* next_property, end of a struct: pop, read the struct's type again, and  *)
(* unless more elements follow go on after the child's metadata.           *)
Frame(c) == [next_offset |-> c.next_offset, name_offset |-> c.name_offset,
             array_index |-> c.array_index, array_count |-> c.array_count,
             remaining_field_count |-> c.remaining_field_count]

(* Fault: the last element is not recognised (off by one).                 *)
OffsetAfterStructLate(f, child, parent) ==
    IF f.array_index = f.array_count THEN child ELSE parent

OffsetAfterStruct(f, child, parent) ==
    IF f.array_index + 1 = f.array_count THEN child ELSE parent

EndStruct(c) ==
    LET f == Last(c.stack)
        c1 == ReadFieldType(
                [c EXCEPT !.stack = Front(@), !.name_offset = f.name_offset,
                          !.array_index = f.array_index,
                          !.array_count = f.array_count,
                          !.remaining_field_count = f.remaining_field_count,
                          !.element_size = 0], f.name_offset)
    IN SetEndState([c1 EXCEPT !.next_offset = OffsetAfterStruct(f, c.next_offset, @)],
                   "StructEnd")

NextProperty(c) ==
    CASE c.remaining_field_count # 0 /\ c.next_offset # MetaEnd -> BeginProperty(c)
      [] (c.remaining_field_count = 0 \/ c.next_offset = MetaEnd) /\ c.stack # <<>> ->
            EndStruct(c)
      [] OTHER -> IF c.next_offset # MetaEnd THEN SetErrorState(c, "NotSupported")
                  ELSE SetEndState(c, "AfterLastItem")

(* skip_struct_metadata: the loop as a function of the number of tokens    *)
(* left; it yields the offset after the struct's fields, or an error: 0    *)
(* for InvalidData, -1 for NotSupported.  The count of fields is a u8.     *)
(* It moves name_offset too, which is set again before it is next read.    *)
SkipFields[left \in 0 .. Len(event.meta)] ==
    [count \in 0 .. CountModulus - 1 |->
        LET offset == MetaEnd - left
            tok == event.meta[offset]
            nested == IF tok.encoding = "Struct" THEN tok.format ELSE 0
            rest == (count + nested - 1) % CountModulus
        IN IF left = 0 \/ count = 0 THEN offset
           ELSE CASE tok.encoding = "Invalid" /\ tok.array = "none" -> 0
                  [] tok.array = "both" -> -1
                  [] tok.array = "carray" -> IF left < 2 THEN 0 ELSE SkipFields[left - 2][rest]
                  [] OTHER -> SkipFields[left - 1][rest]]

SkipStruct(c) == SkipFields[MetaEnd - c.next_offset][c.format]

AfterEmptyStructArray(c) ==
    LET offset == SkipStruct(c)
    IN CASE offset = 0 -> SetErrorState(c, "InvalidData")
         [] offset = -1 -> SetErrorState(c, "NotSupported")
         [] OTHER -> NextProperty([c EXCEPT !.next_offset = offset])

PushStruct(c) ==
    IF Len(c.stack) >= STRUCT_NEST_LIMIT THEN SetErrorState(c, "StackOverflow")
    ELSE NextProperty([c EXCEPT !.stack = Append(@, Frame(c)),
                                !.remaining_field_count = c.format])

PassValue(c) == [c EXCEPT !.data_pos = @ + c.item_size]

NextElement(c, start(_)) ==
    LET c1 == [PassValue(c) EXCEPT !.array_index = @ + 1]
    IN IF c1.array_index = c1.array_count THEN SetEndState(c1, "ArrayEnd") ELSE start(c1)

FirstElement(c) ==
    CASE c.array_count = 0 -> SetEndState(c, "ArrayEnd")
      [] c.array_count # 0 /\ c.element_size # 0 ->
            SetState([c EXCEPT !.item_size = c.element_size], "Value",
                     "ValueSimpleArrayElement")
      [] c.array_count # 0 /\ c.element_size = 0 /\ c.encoding # "Struct" ->
            StartValue(SetState(c, "Value", "ValueComplexArrayElement"))
      [] OTHER -> StartStruct(c)

(* The match of move_next_impl.                                            *)
Advance(c) ==
    CASE c.substate = "BeforeFirstItem" -> NextProperty(c)
      [] c.substate = "ValueScalar" -> NextProperty(PassValue(c))
      [] c.substate = "ValueSimpleArrayElement" -> NextElement(c, LAMBDA d : d)
      [] c.substate = "ValueComplexArrayElement" -> NextElement(c, StartValue)
      [] c.substate = "ArrayBegin" -> FirstElement(c)
      [] c.substate = "ArrayEnd" ->
            IF c.encoding = "Struct" /\ c.array_count = 0
            THEN AfterEmptyStructArray(c) ELSE NextProperty(c)
      [] c.substate = "StructBegin" -> PushStruct(c)
      [] c.substate = "StructEnd" ->
            LET c1 == [c EXCEPT !.array_index = @ + 1]
            IN CASE c1.array_count # c1.array_index -> StartStruct(c1)
                 [] c1.array_count = c1.array_index /\ IsArray(c) ->
                       SetEndState(c1, "ArrayEnd")
                 [] OTHER -> NextProperty(c1)
      [] OTHER -> c

MoveNextImpl(c) ==
    IF c.move_next_remaining = 0 THEN SetErrorState(c, "ImplementationLimit")
    ELSE Advance([c EXCEPT !.move_next_remaining = @ - 1])

-----------------------------------------------------------------------------
Init ==
    /\ event \in Events
    /\ ctx = ResetImpl(NewContext)
    /\ depth = NoSibling
    /\ at = 0

Idle == depth = NoSibling
InMetadata == ctx.substate = "ValueMetadata"

MoveNext ==
    /\ Idle /\ CanMoveNext(ctx) /\ ~InMetadata
    /\ ctx' = MoveNextImpl(ctx)
    /\ at' = at + 1
    /\ UNCHANGED <<event, depth>>

(* move_next_sibling: depth counts the begun arrays and structs.           *)
MoveNextSibling ==
    /\ Idle /\ CanMoveNext(ctx) /\ ~InMetadata
    /\ depth' = 0
    /\ UNCHANGED <<event, ctx, at>>

SiblingDone(d) == depth' = IF ~CanMoveNext(ctx') \/ d <= 0 THEN NoSibling ELSE d

AtSimpleArray == ctx.state = "ArrayBegin" /\ ctx.element_size # 0

(* A simple array is jumped over, all elements and the ArrayEnd at once.   *)
PassSimpleArray(c) ==
    NextProperty([c EXCEPT !.data_pos = @ + c.array_count * c.element_size,
                           !.move_next_remaining = @ - 1])

SiblingJump ==
    /\ ~Idle
    /\ AtSimpleArray /\ ctx.move_next_remaining # 0
    /\ ctx' = PassSimpleArray(ctx)
    /\ at' = at + ctx.array_count + 2
    /\ SiblingDone(depth)
    /\ UNCHANGED event

DepthAfter ==
    CASE ctx.state \in {"ArrayEnd", "StructEnd"} -> depth - 1
      [] ctx.state \in {"ArrayBegin", "StructBegin"} -> depth + 1
      [] OTHER -> depth

(* Fault: with no moves left the loop goes round a simple array for ever.  *)
SiblingStepNoLimit ==
    /\ ~Idle
    /\ ~AtSimpleArray
    /\ ctx' = MoveNextImpl(ctx)
    /\ at' = at + 1
    /\ SiblingDone(DepthAfter)
    /\ UNCHANGED event

SiblingStep ==
    /\ ~Idle
    /\ ~AtSimpleArray \/ ctx.move_next_remaining = 0
    /\ ctx' = MoveNextImpl(ctx)
    /\ at' = at + 1
    /\ SiblingDone(DepthAfter)
    /\ UNCHANGED event

(* move_next_metadata: the declarations only, flat.                        *)
MetadataCArray(c) ==
    CASE c.next_offset = MetaEnd -> SetErrorState(c, "InvalidData")
      [] c.next_offset # MetaEnd /\ TakeCount(c).array_count = 0 ->
            SetErrorState(TakeCount(c), "InvalidData")
      [] OTHER -> SetState(TakeCount(c), "ArrayBegin", "ValueMetadata")

MetadataItem(c) ==
    LET c1 == ReadField(c)
    IN IF ReadFieldError(c1) \/ (c1.encoding = "Struct" /\ c1.format = 0)
       THEN SetErrorState(c1, "InvalidData")
       ELSE CASE ~IsArray(c1) ->
                    SetState([c1 EXCEPT !.array_count = 1], "Value", "ValueMetadata")
              [] IsVArray(c1) ->
                    SetState([c1 EXCEPT !.array_count = 0], "ArrayBegin", "ValueMetadata")
              [] OTHER -> MetadataCArray(c1)

MoveNextMetadata ==
    /\ Idle
    /\ ctx.substate \in {"BeforeFirstItem", "ValueMetadata"}
    /\ LET c == IF InMetadata THEN ctx
                ELSE SetState([ctx EXCEPT !.array_index = 0, !.element_size = 0],
                              "Value", "ValueMetadata")
       IN ctx' = IF c.next_offset # MetaEnd THEN MetadataItem(c)
                 ELSE SetEndState(c, "AfterLastItem")
    /\ UNCHANGED <<event, depth, at>>

Reset ==
    /\ Idle
    /\ ctx' = ResetImpl(ctx)
    /\ at' = 0
    /\ UNCHANGED <<event, depth>>

Next == MoveNext \/ MoveNextSibling \/ SiblingJump \/ SiblingStep
            \/ MoveNextMetadata \/ Reset

(* The loop of move_next_sibling runs to its end; nobody has to call.      *)
Spec == Init /\ [][Next]_vars /\ WF_vars(SiblingJump \/ SiblingStep)

-----------------------------------------------------------------------------
(* The slices the code takes cannot be out of range, whatever the event    *)
(* says: positions stay inside the metadata and the data, the current      *)
(* value lies inside the data, and the stack does not overflow.            *)
PositionsInRange ==
    /\ ctx.next_offset \in 1 .. MetaEnd
    /\ ctx.data_pos \in 1 .. Len(event.data) + 1
    /\ ctx.state \in ItemStates /\ ~InMetadata =>
          ctx.item_size \in 0 .. Remaining(ctx)
    /\ Len(ctx.stack) <= STRUCT_NEST_LIMIT

(* move_next_sibling always returns, because every round either ends the   *)
(* enumeration or uses up one of the allowed moves.                        *)
SiblingReturns == depth # NoSibling ~> depth = NoSibling
=============================================================================
