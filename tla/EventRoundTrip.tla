--------------------------- MODULE EventRoundTrip ---------------------------
(***************************************************************************)
(* An event from the call that begins it to the JSON text a consumer       *)
(* makes of it: EventBuilder collects the fields, write_eventheader sends  *)
(* them, EventHeaderEnumerator takes them apart and JsonWriter writes them *)
(* (write_json_item_and_move_next_sibling), either all at once or one item *)
(* after the other.  The builder is used again for the next event.         *)
(*                                                                         *)
(* The decoder's module works on declarations, so Open turns the metadata  *)
(* bytes into those.  JSON text is a sequence of tokens; what a value      *)
(* looks like is the matter of module PerfItemValue.                       *)
(***************************************************************************)
EXTENDS EventHeaderEnumerator, EventHeaderWire

CONSTANTS
    Names,      \* names of events
    Tags,       \* tags of events
    IdVersions, \* pairs of id and version
    Opcodes,    \* opcodes
    Calls,      \* fields a caller may add
    FieldCounts,\* counts a caller may give to a struct later
    Sends,      \* [provider, options, level, keyword, activity, related]
    MaxFields   \* most calls for one event

(* reset's debug_assert: a name has no NUL inside.                         *)
ASSUME NamesAssumption ==
    \A name \in Names : name \in Seq(Nat) /\ \A i \in 1 .. Len(name) : name[i] # 0

(* A field has one value, a sequence any number of them.                   *)
ASSUME CallsAssumption ==
    /\ \A c \in Calls :
          /\ c.name \in Seq(Nat)
          /\ c.encoding \in Nat /\ c.format \in Nat /\ c.tag \in Nat
          /\ c.op = "field" => c.value \in Seq(Nat)
          /\ c.op = "sequence" => c.value \in Seq(Seq(Nat))
    /\ FieldCounts \subseteq Nat

(* write's debug_assert: no related id without an activity id.  Options    *)
(* begin with a letter that is neither the level's nor the keyword's.      *)
ASSUME SendsAssumption ==
    \A s \in Sends :
        /\ s.provider \in Seq(STRING) /\ s.options \in Seq(STRING)
        /\ \A i \in 1 .. Len(s.options) :
              s.options[i] \in UpperCase \cup LowerCase \cup Range(HexDigits)
        /\ s.options # <<>> => s.options[1] \in UpperCase \ {"L", "K"}
        /\ s.level \in Nat /\ s.keyword \in Nat
        /\ s.activity \in Nat /\ s.related \in Nat
        /\ s.activity = 0 => s.related = 0

VARIABLES
    builder,    \* the EventBuilder
    asked,      \* history: what the caller asked for
    bookmark,   \* the caller's [index, field] of a struct whose count may change
    wire,       \* [name, units] of the event sent
    info,       \* EventHeaderEventInfo
    json,       \* the JsonWriter and the locals of the loop that uses it
    phase

rtvars == <<builder, asked, bookmark, wire, info, json, phase, event, ctx, depth, at>>
decoder == <<event, ctx, depth, at>>

NoBookmark == [index |-> 0, field |-> 0]
NoWire == [name |-> <<>>, units |-> <<>>]
NoInfo == [err |-> "none"]
NewJson == [out |-> <<>>, comma |-> FALSE, depth |-> 0, want_name |-> FALSE, tags |-> FALSE,
            root |-> FALSE, whole |-> FALSE]
NoEvent == [meta |-> <<>>, data |-> <<>>]

Asked(name, tag) ==
    [name |-> name, tag |-> tag, id |-> 0, version |-> 0, opcode |-> 0, fields |-> <<>>,
     sent |-> [level |-> 0]]

RTInit ==
    /\ builder = NewBuilder
    /\ asked = Asked(<<>>, 0)
    /\ bookmark = NoBookmark
    /\ wire = NoWire /\ info = NoInfo /\ json = NewJson
    /\ event = NoEvent /\ ctx = NewContext /\ depth = NoSibling /\ at = 0
    /\ phase = "building"

Building == phase = "building"
Consumed == phase = "items" /\ ~CanMoveNext(ctx)

-----------------------------------------------------------------------------
(* Calls of the builder.                                                   *)
BeginEvent(name, tag) ==
    /\ Building \/ Consumed
    /\ builder' = ResetBuilder(builder, name, tag)
    /\ asked' = Asked(name, tag)
    /\ bookmark' = NoBookmark
    /\ wire' = NoWire /\ info' = NoInfo /\ json' = NewJson
    /\ event' = NoEvent /\ ctx' = NewContext
    /\ phase' = "building"
    /\ UNCHANGED <<depth, at>>

SetIdVersion(id, version) ==
    /\ Building
    /\ builder' = IdVersion(builder, id, version)
    /\ asked' = [asked EXCEPT !.id = id, !.version = version]
    /\ UNCHANGED <<bookmark, wire, info, json, phase, decoder>>

ChooseOpcode(opcode) ==
    /\ Building
    /\ builder' = SetOpcode(builder, opcode)
    /\ asked' = [asked EXCEPT !.opcode = opcode]
    /\ UNCHANGED <<bookmark, wire, info, json, phase, decoder>>

AddedBy(b, c) ==
    CASE c.op = "field" -> AddField(b, c.name, c.encoding, c.format, c.tag, c.value)
      [] c.op = "sequence" -> AddSequence(b, c.name, c.encoding, c.format, c.tag, c.value)
      [] OTHER -> AddStruct(b, c.name, c.format, c.tag)

Add(c) ==
    /\ Building /\ Len(asked.fields) < MaxFields
    /\ builder' = AddedBy(builder, c)
    /\ asked' = [asked EXCEPT !.fields = Append(@, c)]
    /\ bookmark' = IF c.op # "bookmarked" THEN bookmark
                   ELSE [index |-> Bookmark(builder', c.tag), field |-> Len(asked'.fields)]
    /\ UNCHANGED <<wire, info, json, phase, decoder>>

ChangeFieldCount(count) ==
    /\ Building /\ bookmark # NoBookmark
    /\ builder' = SetStructFieldCount(builder, bookmark.index, count)
    /\ asked' = [asked EXCEPT !.fields[bookmark.field].format = count]
    /\ UNCHANGED <<bookmark, wire, info, json, phase, decoder>>

(* EventBuilder::write to an enabled event set; it fails with ERANGE, and  *)
(* sends nothing, if the event is too large.                               *)
WriteEvent(send) ==
    /\ Building /\ ~TooLarge(builder)
    /\ LET header == [id |-> builder.id, version |-> builder.version, tag |-> builder.tag,
                      opcode |-> builder.opcode, level |-> send.level]
       IN wire' = [name |-> FormatName(send.provider, send.options, send.level, send.keyword),
                   units |-> WriteEventheader(header, send.activity, send.related,
                                              builder.meta, builder.data)]
    /\ asked' = [asked EXCEPT !.sent = send]
    /\ phase' = "sent"
    /\ UNCHANGED <<builder, bookmark, info, json, decoder>>

-----------------------------------------------------------------------------
(* The consumer: a declaration of the metadata as the decoder's module has *)
(* it, with its name and tag.                                              *)
EncodingName(code) ==
    CASE code = StructCode -> "Struct"
      [] code = Value8Code -> "Value8"
      [] code = Value16Code -> "Value16"
      [] code = ZStringChar8Code -> "ZString"
      [] code \in {StringLength16Char8Code, BinaryLength16Char8Code} -> "String16"
      [] OTHER -> "Invalid"

ArrayName(encoding) ==
    CASE encoding < CArrayFlag -> "none"
      [] encoding \in CArrayFlag .. VArrayFlag - 1 -> "carray"
      [] encoding \in VArrayFlag .. VArrayFlag + CArrayFlag - 1 -> "varray"
      [] OTHER -> "both"

Declaration(d) ==
    [kind |-> "field", encoding |-> EncodingName(d.encoding % CArrayFlag),
     array |-> ArrayName(d.encoding), format |-> d.format, name |-> d.name, tag |-> d.tag]

(* The consumer opens the event, and chooses the options it converts with. *)
Open(root, tags) ==
    /\ phase = "sent"
    /\ info' = EventInfo(wire.name, wire.units)
    /\ event' = IF info'.err # "" THEN NoEvent
                ELSE [meta |-> LET ds == Declarations(info'.meta)
                               IN [i \in DOMAIN ds |-> Declaration(ds[i])],
                      data |-> info'.data]
    /\ ctx' = IF info'.err # "" THEN NewContext ELSE ResetImpl(NewContext)
    /\ json' = [NewJson EXCEPT !.root = root, !.tags = tags]
    /\ phase' = IF info'.err # "" THEN "items" ELSE "open"
    /\ UNCHANGED <<builder, asked, bookmark, wire, depth, at>>

(* One move_next, to write the items one by one.                           *)
FirstItem ==
    /\ phase = "open"
    /\ ctx' = MoveNextImpl(ctx)
    /\ phase' = "items"
    /\ UNCHANGED <<builder, asked, bookmark, wire, info, json, event, depth, at>>

(* write_json_item_and_move_next_sibling begins; the comma it returned     *)
(* last time is its add_comma_before_first_item.                           *)
WriteJson ==
    /\ phase = "open" \/ (phase = "items" /\ CanMoveNext(ctx))
    /\ json' = [json EXCEPT !.depth = 0, !.want_name = json.root, !.whole = phase = "open"]
    /\ phase' = "json"
    /\ UNCHANGED <<builder, asked, bookmark, wire, info, decoder>>

(* JsonWriter.  A comma goes before everything but what follows a name or  *)
(* an opening bracket.                                                     *)
Tok(t) == [t |-> t, name |-> <<>>, tag |-> 0, units |-> <<>>]
NameTok(name, tag) == [Tok("name") EXCEPT !.name = name, !.tag = tag]
ValueTok(format, units) == [Tok("value") EXCEPT !.tag = format, !.units = units]

Comma(j) == IF j.comma THEN Append(j.out, Tok(",")) ELSE j.out

WritePropertyName(j, d) ==
    [j EXCEPT !.out = Append(Comma(j), NameTok(d.name, IF j.tags THEN d.tag ELSE 0)),
              !.comma = FALSE]
WriteBegin(j, bracket) == [j EXCEPT !.out = Append(Comma(j), Tok(bracket)), !.comma = FALSE]
WriteEnd(j, bracket) == [j EXCEPT !.out = Append(@, Tok(bracket)), !.comma = TRUE]
WriteValue(j, format, units) ==
    [j EXCEPT !.out = Append(Comma(j), ValueTok(format, units)), !.comma = TRUE]

(* The cooked value: no length before it and no NUL behind.                *)
RawUnits(c) == SubSeq(event.data, c.data_pos, c.data_pos + c.item_size - 1)
CookedUnits(c) ==
    CASE c.encoding = "String16" -> Tail(RawUnits(c))
      [] c.encoding = "ZString" -> SelectSeq(RawUnits(c), LAMBDA u : u # 0)
      [] OTHER -> RawUnits(c)

(* write_json_simple_array_to_impl.                                        *)
WriteSimpleArray(j, c) ==
    LET Element(i) == SubSeq(RawUnits(c), (i - 1) * c.element_size + 1, i * c.element_size)
        elements == [i \in 1 .. c.array_count |-> Element(i)]
    IN WriteEnd(FoldLeft(LAMBDA k, e : WriteValue(k, c.format, e), WriteBegin(j, "["), elements),
                "]")

(* PerfItemMetadata::is_element: a scalar item of an array field.          *)
IsElement(c) == IsArray(c) /\ c.state \notin {"ArrayBegin", "ArrayEnd"}

Named(j, c) ==
    IF j.want_name /\ ~IsElement(c) THEN WritePropertyName(j, event.meta[c.name_offset]) ELSE j

(* The match of the loop.                                                  *)
JsonItem(j, c) ==
    CASE c.state = "BeforeFirstItem" -> [j EXCEPT !.depth = @ + 1]
      [] c.state = "Value" -> WriteValue(Named(j, c), c.format, CookedUnits(c))
      [] c.state = "ArrayBegin" /\ c.element_size # 0 -> WriteSimpleArray(Named(j, c), c)
      [] c.state = "ArrayBegin" /\ c.element_size = 0 ->
            [WriteBegin(Named(j, c), "[") EXCEPT !.depth = @ + 1]
      [] c.state = "ArrayEnd" -> [WriteEnd(j, "]") EXCEPT !.depth = @ - 1]
      [] c.state = "StructBegin" -> [WriteBegin(Named(j, c), "{") EXCEPT !.depth = @ + 1]
      [] c.state = "StructEnd" -> [WriteEnd(j, "}") EXCEPT !.depth = @ - 1]

(* One round of the loop.  After a simple array it goes on with            *)
(* move_next_sibling, otherwise with move_next.                            *)
JsonStep ==
    /\ phase = "json"
    /\ ctx' = IF AtSimpleArray /\ ctx.move_next_remaining # 0
              THEN PassSimpleArray(ctx) ELSE MoveNextImpl(ctx)
    /\ json' = [JsonItem(json, ctx) EXCEPT !.want_name = @ \/ ~AtSimpleArray]
    /\ phase' = IF ctx'.state \notin ItemStates \/ json'.depth <= 0 THEN "items" ELSE "json"
    /\ UNCHANGED <<builder, asked, bookmark, wire, info, event, depth, at>>

RTNext ==
    \/ \E name \in Names, tag \in Tags : BeginEvent(name, tag)
    \/ \E iv \in IdVersions : SetIdVersion(iv[1], iv[2])
    \/ \E opcode \in Opcodes : ChooseOpcode(opcode)
    \/ \E c \in Calls : Add(c)
    \/ \E count \in FieldCounts : ChangeFieldCount(count)
    \/ \E send \in Sends : WriteEvent(send)
    \/ \E root, tags \in BOOLEAN : Open(root, tags)
    \/ FirstItem
    \/ WriteJson
    \/ JsonStep

RTSpec == RTInit /\ [][RTNext]_rtvars

-----------------------------------------------------------------------------
(* An event that write accepts fits the kernel's limit with every header   *)
(* that goes in front of it (the unit not in the wire is write_index).     *)
WrittenFits == Len(wire.units) + 1 <= EventMax

(* The decoder accepts every event that is written, and finds in it the    *)
(* provider, level, keyword, options, ids, name, tag and opcode it was     *)
(* written with: those of this event and not of the one before.            *)
HeaderReadsBack ==
    info # NoInfo =>
        /\ info.err = ""
        /\ info.header = [id |-> asked.id, version |-> asked.version, tag |-> asked.tag,
                          opcode |-> asked.opcode, level |-> asked.sent.level]
        /\ info.name = asked.name
        /\ <<info.provider, info.options>> = <<asked.sent.provider, asked.sent.options>>
        /\ info.keyword = asked.sent.keyword
        /\ <<info.activity, info.related>> = <<asked.sent.activity, asked.sent.related>>
=============================================================================
