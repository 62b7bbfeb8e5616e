-------------------------- MODULE MCEventRoundTrip --------------------------
(***************************************************************************)
(* Calls and event sets for module EventRoundTrip, and the JSON text that  *)
(* the caller's fields should give, made from the calls by plain recursion.*)
(***************************************************************************)
EXTENDS EventRoundTrip

MCNames == {<<65>>}
MCIdVersions == {<<5, 1>>}

Call(op, name, encoding, format, tag, value) ==
    [op |-> op, name |-> name, encoding |-> encoding, format |-> format, tag |-> tag,
     value |-> value]

(* 256 is a tag with a zero byte; one string has a NUL inside, one field   *)
(* has an empty name.                                                      *)
MCCalls == {
    Call("field", <<97>>, Value8Code, 0, 0, <<1>>),
    Call("field", <<98>>, Value16Code, 3, 256, <<0, 1>>),
    Call("field", <<99>>, StringLength16Char8Code, 0, 256, <<0, 5>>),
    Call("field", <<>>, ZStringChar8Code, 4, 0, <<5, 0, 6>>),
    Call("sequence", <<101>>, Value16Code, 0, 0, <<<<1, 0>>, <<2, 0>>>>),
    Call("sequence", <<102>>, ZStringChar8Code, 0, 0, <<<<>>, <<7>>>>),
    Call("sequence", <<103>>, BinaryLength16Char8Code, 1, 0, <<>>),
    Call("struct", <<104>>, StructCode, 1, 0, <<>>),
    Call("struct", <<105>>, StructCode, 2, 0, <<>>),
    Call("bookmarked", <<106>>, StructCode, 1, 256, <<>>)}

Send(provider, options, level, keyword, activity, related) ==
    [provider |-> provider, options |-> options, level |-> level, keyword |-> keyword,
     activity |-> activity, related |-> related]

(* Ids are small numbers; 0 is None.                                       *)
MCSends == {
    Send(<<"P">>, <<>>, 5, 1, 0, 0),
    Send(<<"P", "_", "L", "1">>, <<"G", "k", "1">>, 1, 0, 8, 0),
    Send(<<"_">>, <<"G", "a">>, 255, 700, 8, 9)}

-----------------------------------------------------------------------------
(* What the text of one value is made from.                                *)
RefUnits(c, value) ==
    IF c.encoding = ZStringChar8Code /\ 0 \in Range(value)
    THEN SubSeq(value, 1, SelectInSeq(value, LAMBDA u : u = 0) - 1) ELSE value

RefName(c) == NameTok(c.name, IF json.tags THEN c.tag ELSE 0)

Joined(parts) ==
    FlattenSeq([i \in DOMAIN parts |-> IF i = 1 THEN parts[i] ELSE <<Tok(",")>> \o parts[i]])

RefText(c) ==
    IF c.op = "field" THEN <<ValueTok(c.format, RefUnits(c, c.value))>>
    ELSE <<Tok("[")>> \o Joined([i \in DOMAIN c.value |->
                                    <<ValueTok(c.format, RefUnits(c, c.value[i]))>>])
                      \o <<Tok("]")>>

RECURSIVE RefParts(_, _, _)

(* The next n fields from the i-th on: their texts, and the field after    *)
(* them.                                                                   *)
RefParts(i, n, named) ==
    IF n = 0 \/ i > Len(asked.fields) THEN [parts |-> <<>>, next |-> i]
    ELSE LET c == asked.fields[i]
             simple == c.op \in {"field", "sequence"}
             inner == IF simple THEN [parts |-> <<>>, next |-> i + 1]
                      ELSE RefParts(i + 1, c.format, TRUE)
             body == IF simple THEN RefText(c)
                     ELSE <<Tok("{")>> \o Joined(inner.parts) \o <<Tok("}")>>
             rest == RefParts(inner.next, n - 1, named)
         IN [parts |-> <<(IF named THEN <<RefName(c)>> ELSE <<>>) \o body>> \o rest.parts,
             next |-> rest.next]

Reference == RefParts(1, MaxTopLevel, json.whole \/ json.root)

(* The consumer's JSON is the caller's fields: the same names, tags,       *)
(* formats, values and nesting, with commas where they belong, whether it  *)
(* was written at once or item by item, and whatever the builder and the   *)
(* struct counts went through.  Only fields beyond the most an event may   *)
(* have at its top level are not decoded, and the decoder says so.         *)
JsonIsWhatWasAsked ==
    Consumed /\ info.err = "" =>
        /\ json.out = Joined(Reference.parts)
        /\ IF Reference.next > Len(asked.fields) THEN ctx.state = "AfterLastItem"
           ELSE ctx.last_error = "NotSupported"
=============================================================================
