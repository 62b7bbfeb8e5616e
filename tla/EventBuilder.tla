---------------------------- MODULE EventBuilder ----------------------------
(***************************************************************************)
(* EventBuilder of the eventheader_dynamic crate: the metadata and the     *)
(* data of one event, appended to field by field, as operators from        *)
(* builders to builders.  Metadata is bytes.  Data is units: one for an    *)
(* 8-bit value or character and for a u16 length, two for a 16-bit value.  *)
(***************************************************************************)
EXTENDS Integers, Sequences, SequencesExt

CONSTANTS
    U16Max,      \* 65535: most elements a length can tell
    EventMax,    \* 65535: most units of an event, headers included
    HeadersMax   \* 52 + 16: units kept for write_index, header, extensions

(* What is kept is enough for write_index, the header, an extension with   *)
(* two ids and the header of the metadata.                                 *)
ASSUME BuilderAssumption ==
    U16Max \in Nat /\ EventMax \in Nat /\ HeadersMax \in 6 .. EventMax

(* FieldEncoding and its flags; the top bit of FieldFormat is ChainFlag too. *)
StructCode == 1
Value8Code == 2
Value16Code == 3
ZStringChar8Code == 7
StringLength16Char8Code == 10
BinaryLength16Char8Code == 13
CArrayFlag == 32
VArrayFlag == 64
ChainFlag == 128

(* to_ne_bytes of a u16, on a little-endian machine.                       *)
U16Bytes(n) == <<n % 256, n \div 256>>

NewBuilder == [meta |-> <<0>>, data |-> <<>>, id |-> 0, version |-> 0, tag |-> 0, opcode |-> 0]

(* Fault: what id_version and opcode set is left for the next event.       *)
ResetKeepsId(b, name, tag) ==
    [b EXCEPT !.meta = Append(name, 0), !.data = <<>>, !.tag = tag]

ResetBuilder(b, name, tag) ==
    [meta |-> Append(name, 0), data |-> <<>>, id |-> 0, version |-> 0, tag |-> tag, opcode |-> 0]

IdVersion(b, id, version) == [b EXCEPT !.id = id, !.version = version]
SetOpcode(b, opcode) == [b EXCEPT !.opcode = opcode]

(* raw_add_meta: the format is left out if it and the tag are 0, the tag   *)
(* if it is.                                                               *)
TypeBytes(encoding, format, tag) ==
    CASE tag # 0 -> <<ChainFlag + encoding, ChainFlag + format>> \o U16Bytes(tag)
      [] tag = 0 /\ format # 0 -> <<ChainFlag + encoding, format>>
      [] OTHER -> <<encoding>>

RawAddMeta(b, name, encoding, format, tag) ==
    [b EXCEPT !.meta = @ \o Append(name, 0) \o TypeBytes(encoding, format, tag)]

RawAddMetaVcount(b, name, encoding, format, tag) ==
    RawAddMeta(b, name, encoding + VArrayFlag, format, tag)

RawAddData(b, units) == [b EXCEPT !.data = @ \o units]

(* raw_add_data_value for 8 and 16 bits, _cstr and _counted: the units     *)
(* that one value adds.  A cstr goes up to its first NUL, which is         *)
(* appended if there is none.  A counted value too long for its length     *)
(* never leaves the builder: the event is then too large to be written.    *)
CStrUnits(value) ==
    IF 0 \in Range(value) THEN SubSeq(value, 1, SelectInSeq(value, LAMBDA u : u = 0))
    ELSE Append(value, 0)

CountedUnits(value) ==
    LET kept == SubSeq(value, 1, Min({Len(value), U16Max})) IN <<Len(kept)>> \o kept

ValueUnits(encoding, value) ==
    CASE encoding = ZStringChar8Code -> CStrUnits(value)
      [] encoding \in {StringLength16Char8Code, BinaryLength16Char8Code} -> CountedUnits(value)
      [] OTHER -> value

(* raw_add_data_range: the count is filled in after the values.            *)
RangeUnits(encoding, values) ==
    LET kept == SubSeq(values, 1, Min({Len(values), U16Max}))
    IN <<Len(kept)>> \o FlattenSeq([i \in DOMAIN kept |-> ValueUnits(encoding, kept[i])])

(* add_value, add_str, add_cstr, add_binary ...                            *)
AddField(b, name, encoding, format, tag, value) ==
    RawAddData(RawAddMeta(b, name, encoding, format, tag), ValueUnits(encoding, value))

(* ... and add_value_sequence, add_str_sequence and so on.                 *)
AddSequence(b, name, encoding, format, tag, values) ==
    RawAddData(RawAddMetaVcount(b, name, encoding, format, tag), RangeUnits(encoding, values))

(* add_struct, and the bookmark of add_struct_with_bookmark: the index of  *)
(* the byte that holds the count.                                          *)
AddStruct(b, name, count, tag) == RawAddMeta(b, name, StructCode, count, tag)

Bookmark(b, tag) == IF tag = 0 THEN Len(b.meta) ELSE Len(b.meta) - 2

(* Fault: the flag that a tag follows is overwritten.                      *)
SetStructFieldCountPlain(b, bookmark, count) == [b EXCEPT !.meta[bookmark] = count]

SetStructFieldCount(b, bookmark, count) ==
    [b EXCEPT !.meta[bookmark] = IF @ >= ChainFlag THEN ChainFlag + count ELSE count]

(* Fault: the headers are not counted.                                     *)
TooLargeNoHeaders(b) == Len(b.meta) + Len(b.data) > EventMax

(* The ERANGE check of write.                                              *)
TooLarge(b) == Len(b.meta) + Len(b.data) > EventMax - HeadersMax
=============================================================================
