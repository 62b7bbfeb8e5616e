----------------------- MODULE MCEventHeaderEnumerator -----------------------
(***************************************************************************)
(* Events to decode with module EventHeaderEnumerator, and a reference     *)
(* decoder to compare with: plain recursive descent, one operator per      *)
(* level of the format, that yields the whole list of items at once.       *)
(***************************************************************************)
EXTENDS EventHeaderEnumerator

(* Declarations of well-formed events ...                                  *)
GoodFields == {
    <<Field("Value16", "none", 0)>>,
    <<Field("ZString", "none", 0)>>,
    <<Field("Value8", "varray", 0)>>,
    <<Field("String16", "varray", 0)>>,
    <<Field("Value8", "carray", 0), Count(2)>>,
    <<Field("Struct", "none", 2)>>,
    <<Field("Struct", "varray", 1)>>,
    <<Field("Struct", "carray", 1), Count(1)>>}

(* ... and of events that some check of the decoder has to refuse.         *)
BadFields == {
    <<Field("Value8", "none", 0)>>,
    <<Field("Struct", "varray", 1)>>,
    <<Field("Value8", "carray", 0), Count(0)>>,
    <<Field("Value8", "carray", 0)>>,
    <<Field("Value8", "both", 0)>>,
    <<Field("Struct", "none", 0)>>,
    <<Field("Struct", "varray", 0)>>,
    <<Field("Unknown", "none", 0)>>,
    <<Field("Unknown", "varray", 0)>>,
    <<Field("Invalid", "varray", 0)>>,
    <<Truncated>>}

(* Only the last declaration of an event may be cut short.                 *)
CutShort(d) == d \in {<<Truncated>>, <<Field("Value8", "carray", 0)>>}

Metas(fields, n) ==
    {FlattenSeq(ds) : ds \in {s \in BoundedSeq(fields, n) :
        \A i \in 1 .. Len(s) - 1 : ~CutShort(s[i])}}

(* Those that can nest, for the longer events.                             *)
NestingFields == {
    <<Field("ZString", "none", 0)>>,
    <<Field("Value8", "varray", 0)>>,
    <<Field("Struct", "none", 2)>>,
    <<Field("Struct", "varray", 1)>>}

GoodEvents == [meta : Metas(GoodFields, 2) \cup Metas(NestingFields, 3), data : TupleOf({0, 2}, 3) \cup
                  {<<>>, <<2, 0, 0, 0>>, <<2, 0, 2, 0>>, <<2, 2, 0, 2>>, <<0, 2, 1, 2>>}]
BadEvents == [meta : Metas(BadFields, 2), data : {<<>>, <<0>>, <<1, 0>>}]
MCEvents == GoodEvents \cup BadEvents

-----------------------------------------------------------------------------
(* The reference decoder.  A result is the items, the offset and the data  *)
(* position after them, and an error ("" if none) that ended decoding.     *)
Result(items, off, pos, err) == [items |-> items, off |-> off, pos |-> pos, err |-> err]

ItemOf(s, name, index, pos, size) ==
    [state |-> s, name |-> name, index |-> index, pos |-> pos, size |-> size]

Left(pos) == Len(event.data) - pos + 1

(* Go on after r, unless an error ended it.                                *)
Then(r, rest(_)) ==
    IF r.err # "" THEN r
    ELSE LET next == rest(r) IN [next EXCEPT !.items = r.items \o @]

RefSize(e, pos) ==
    CASE e = "Value8" -> 1
      [] e = "Value16" -> 2
      [] e = "ZString" ->
            LET nul == SelectInSubSeq(event.data, pos, Len(event.data), LAMBDA u : u = 0)
            IN IF nul = 0 THEN Left(pos) ELSE nul - pos + 1
      [] e = "String16" -> IF Left(pos) = 0 THEN 1 ELSE 1 + event.data[pos]
      [] OTHER -> Len(event.data) + 1

RECURSIVE RefFields(_, _, _, _), RefElements(_, _, _, _, _, _), RefSkip(_, _)

(* The n fields at off and all their own fields, without decoding values.  *)
RefSkip(off, n) ==
    LET tok == event.meta[off]
        length == IF tok.array = "carray" THEN 2 ELSE 1
    IN CASE n = 0 \/ off = MetaEnd -> Result(<<>>, off, 0, "")
         [] tok.kind = "truncated" \/ off + length > MetaEnd -> Result(<<>>, off, 0, "InvalidData")
         [] tok.array = "both" -> Result(<<>>, off, 0, "NotSupported")
         [] OTHER -> Then(RefSkip(off + length, IF tok.encoding = "Struct" THEN tok.format ELSE 0),
                          LAMBDA r : RefSkip(r.off, n - 1))

(* Element i of the field at name whose body starts at off.                *)
RefStruct(name, off, i, pos, nest) ==
    Then(Result(<<ItemOf("StructBegin", name, i, pos, 0)>>, off, pos,
                IF nest >= STRUCT_NEST_LIMIT THEN "StackOverflow" ELSE ""),
         LAMBDA b : Then(RefFields(off, event.meta[name].format, pos, nest + 1),
         LAMBDA r : Result(<<ItemOf("StructEnd", name, i, r.pos, 0)>>, r.off, r.pos, "")))

RefValue(name, off, i, pos, size) ==
    IF size > Left(pos) THEN Result(<<>>, off, pos, "InvalidData")
    ELSE Result(<<ItemOf("Value", name, i, pos, size)>>, off, pos + size, "")

RefElement(name, off, i, pos, nest) ==
    IF event.meta[name].encoding = "Struct" THEN RefStruct(name, off, i, pos, nest)
    ELSE RefValue(name, off, i, pos, RefSize(event.meta[name].encoding, pos))

(* Elements i .. count - 1; each starts at off again.                      *)
RefElements(name, off, i, count, pos, nest) ==
    IF i = count THEN Result(<<>>, off, pos, "")
    ELSE Then(RefElement(name, off, i, pos, nest),
              LAMBDA r : IF i + 1 = count THEN Result(<<>>, r.off, r.pos, "")
                         ELSE RefElements(name, off, i + 1, count, r.pos, nest))

(* The fields of an empty array's struct still have to be passed.          *)
RefAfterArray(tok, off, count, r) ==
    IF count = 0 /\ tok.encoding = "Struct"
    THEN [RefSkip(off, tok.format) EXCEPT !.pos = r.pos]
    ELSE Result(<<>>, r.off, r.pos, "")

RefArray(name, off, count, pos, nest) ==
    LET tok == event.meta[name]
        fixed == IF tok.encoding \in {"Value8", "Value16"} THEN RefSize(tok.encoding, pos) ELSE 0
    IN CASE tok.encoding = "Invalid" -> Result(<<>>, off, pos, "InvalidData")
         [] tok.encoding = "Unknown" -> Result(<<>>, off, pos, "NotSupported")
         [] tok.encoding \notin {"Invalid", "Unknown"} /\ count * fixed > Left(pos) ->
               Result(<<>>, off, pos, "InvalidData")
         [] OTHER ->
               Then(Result(<<ItemOf("ArrayBegin", name, 0, pos, count * fixed)>>, off, pos, ""),
               LAMBDA b : Then(RefElements(name, off, 0, count, pos, nest),
               LAMBDA e : Then(Result(<<ItemOf("ArrayEnd", name, count, e.pos, 0)>>, e.off, e.pos, ""),
               LAMBDA r : RefAfterArray(tok, off, count, r))))

RefField(name, pos, nest) ==
    LET tok == event.meta[name]
        bad == Result(<<>>, name, pos, "InvalidData")
        empty == tok.encoding = "Struct" /\ tok.format = 0
    IN CASE tok.array = "none" ->
               IF tok.encoding = "Invalid" \/ empty THEN bad
               ELSE RefElements(name, name + 1, 0, 1, pos, nest)
         [] tok.array \in {"varray", "both"} ->
               IF Left(pos) = 0 THEN bad
               ELSE RefArray(name, name + 1, event.data[pos], pos + 1, nest)
         [] tok.array = "carray" ->
               IF name + 1 = MetaEnd \/ event.meta[name + 1].format = 0 THEN bad
               ELSE RefArray(name, name + 2, event.meta[name + 1].format, pos, nest)

RefFields(off, n, pos, nest) ==
    IF n = 0 \/ off = MetaEnd THEN Result(<<>>, off, pos, "")
    ELSE Then(RefField(off, pos, nest), LAMBDA r : RefFields(r.off, n - 1, r.pos, nest))

Reference == RefFields(1, MaxTopLevel, 1, 0)

(* The item the enumerator stands on.                                      *)
CurrentItem == ItemOf(ctx.state, ctx.name_offset, ctx.array_index, ctx.data_pos, ctx.item_size)

IsItem(items, n, item) == n \in DOMAIN items /\ items[n] = item

(* The current item is the reference decoder's item at this place: same    *)
(* kind, same declaration, same element, same bytes.                       *)
ItemMatches ==
    ctx.state \in ItemStates /\ ~InMetadata => IsItem(Reference.items, at, CurrentItem)

EndsLike(r) ==
    /\ at = Len(r.items) + 1
    /\ CASE r.err # "" -> ctx.last_error = r.err
         [] r.err = "" /\ r.off # MetaEnd -> ctx.last_error = "NotSupported"
         [] OTHER -> ctx.state = "AfterLastItem"

(* The enumeration ends exactly where the reference does, with the same    *)
(* verdict; only the limit on moves may end it sooner.                     *)
EndMatches ==
    at # 0 /\ ctx.state \in {"AfterLastItem", "Error"}
           /\ ctx.last_error # "ImplementationLimit" => EndsLike(Reference)

(* Whatever mix of move_next, move_next_sibling and reset led here, the    *)
(* enumerator presents the items a recursive-descent decoder finds, and    *)
(* stops where it does, for the same reason.                               *)
WalkMatchesReference == ItemMatches /\ EndMatches

(* move_next_metadata accepts an event exactly if every declaration is     *)
(* complete, no struct is empty and no constant-length array has length 0. *)
DeclarationOK(i) ==
    LET tok == event.meta[i]
    IN tok.kind = "field" =>
         /\ ~(tok.encoding = "Invalid" /\ tok.array = "none")
         /\ ~(tok.encoding = "Struct" /\ tok.format = 0)
         /\ tok.array = "carray" =>
               i + 1 \in DOMAIN event.meta /\ event.meta[i + 1].format # 0

MetadataOK ==
    \A i \in DOMAIN event.meta : event.meta[i].kind # "truncated" /\ DeclarationOK(i)

MetadataVerdict ==
    at = 0 =>
       /\ ctx.state = "AfterLastItem" => MetadataOK
       /\ ctx.state = "Error" => ~MetadataOK
=============================================================================
