------------------------- MODULE PerfEventInfoProofs -------------------------
(***************************************************************************)
(* Proofs about PerfEventInfo for every recording, every number of         *)
(* descriptions and every order in which attrs and tracing data arrive.    *)
(*                                                                         *)
(* The first three theorems are about the table of descriptions.  Each is  *)
(* kept by AddAttr because a description is appended (old ones stay) and   *)
(* by AddFormats because only the formats of descriptions change.          *)
(*                                                                         *)
(* The last is about the answers (InfoIsKernels): where the kernel puts    *)
(* the words of an event (Places, Laid), where the reader's walks over the *)
(* event stand after each of them (Walked, and Partly if the sample ends   *)
(* early), and that the offsets of add_attr are such places.               *)
(***************************************************************************)
EXTENDS PerfEventInfo, SequenceTheorems, WellFoundedInduction, TLAPS

AllAttrs == UNION {{t[id] : id \in DOMAIN t} : t \in Traces}

Desc == [attr : AllAttrs, name : Names, ids : SUBSET UNION {DOMAIN t : t \in Traces},
         format : {NoFormat} \cup {a.config : a \in AllAttrs}]

(* The part of the type that the proofs need: attrs is the record of       *)
(* ReaderAttrs, its list holds descriptions.                               *)
TableOK ==
    /\ trace \in Traces
    /\ attrs = [event_desc_list |-> attrs.event_desc_list,
                event_desc_id_to_index |-> attrs.event_desc_id_to_index,
                format_by_id |-> attrs.format_by_id,
                sample_id_offset |-> attrs.sample_id_offset,
                non_sample_id_offset |-> attrs.non_sample_id_offset,
                sample_time_offset |-> attrs.sample_time_offset,
                non_sample_time_offset |-> attrs.non_sample_time_offset]
    /\ attrs.event_desc_list \in Seq(Desc)

(* Before tracing data is parsed there are no formats, and none was lost;  *)
(* what waits in vain for a format are the first descriptions.             *)
FormatsFresh ==
    /\ waiting \in Nat /\ waiting <= Len(attrs.event_desc_list)
    /\ ~parsed_tracing_data => waiting = 0 /\ attrs.format_by_id = {}

Table == TableOK /\ FormatsFresh /\ OffsetsAgree /\ LastDescWins /\ FormatsAttached

-----------------------------------------------------------------------------
(* An attr always decides its four offsets: none is left unset, which is   *)
(* how add_attr tells the first attr from the others.                      *)
LEMMA OffsetsAreSet ==
    ASSUME NEW attr
    PROVE  /\ SampleIdOffset(attr) # OFFSET_UNSET
           /\ NonSampleIdOffset(attr) # OFFSET_UNSET
           /\ SampleTimeOffset(attr) # OFFSET_UNSET
           /\ NonSampleTimeOffset(attr) # OFFSET_UNSET
<1>1. \A set, flag : Has(set, flag) \in {0, 1}
  BY DEF Has
<1>2. SampleIdOffset(attr) # OFFSET_UNSET
  BY <1>1 DEF SampleIdOffset, OFFSET_UNSET, OFFSET_NOT_PRESENT, U64_SIZE
<1>3. NonSampleIdOffset(attr) # OFFSET_UNSET
  BY <1>1 DEF NonSampleIdOffset, OFFSET_UNSET, OFFSET_NOT_PRESENT, U64_SIZE
<1>4. SampleTimeOffset(attr) # OFFSET_UNSET
  BY <1>1 DEF SampleTimeOffset, OFFSET_UNSET, OFFSET_NOT_PRESENT, U64_SIZE
<1>5. NonSampleTimeOffset(attr) # OFFSET_UNSET
  BY <1>1 DEF NonSampleTimeOffset, OFFSET_UNSET, OFFSET_NOT_PRESENT, U64_SIZE
<1> QED BY <1>2, <1>3, <1>4, <1>5

(* A description is a description, whatever formats are known.             *)
LEMMA FormatOfType ==
    ASSUME NEW formats, NEW attr \in AllAttrs
    PROVE  FormatOf(formats, attr) \in {NoFormat} \cup {a.config : a \in AllAttrs}
BY DEF FormatOf

(* Giving a description its format changes nothing else of it.             *)
LEMMA WithFormatParts ==
    ASSUME NEW formats, NEW desc \in Desc
    PROVE  /\ WithFormat(desc, formats) \in Desc
           /\ WithFormat(desc, formats).attr = desc.attr
           /\ WithFormat(desc, formats).ids = desc.ids
           /\ WithFormat(desc, formats).format =
                 IF desc.format # NoFormat THEN desc.format ELSE FormatOf(formats, desc.attr)
<1>1. FormatOf(formats, desc.attr) \in {NoFormat} \cup {a.config : a \in AllAttrs}
  BY FormatOfType DEF Desc
<1>2. CASE desc.format # NoFormat
  BY <1>2 DEF WithFormat
<1>3. CASE desc.format = NoFormat
  <2>1. WithFormat(desc, formats) = [desc EXCEPT !.format = FormatOf(formats, desc.attr)]
    BY <1>3 DEF WithFormat
  <2> QED BY <1>1, <1>3, <2>1 DEF Desc
<1> QED BY <1>2, <1>3

(* The new table after add_attr has taken an attr.                         *)
LEMMA AddAttrTable ==
    ASSUME TableOK, NEW attr \in AllAttrs, NEW name \in Names,
           NEW ids \in SUBSET UNION {DOMAIN t : t \in Traces},
           Compatible(attrs, attr), attrs' = AddAttr(attrs, attr, name, ids)
    PROVE  /\ attrs'.event_desc_list = Append(attrs.event_desc_list, NewDesc(attrs, attr, name, ids))
           /\ attrs'.event_desc_id_to_index =
                 MapIds(attrs.event_desc_id_to_index, ids, Len(attrs.event_desc_list) + 1)
           /\ attrs'.format_by_id = attrs.format_by_id
           /\ attrs'.sample_id_offset = SampleIdOffset(attr)
           /\ attrs'.non_sample_id_offset = NonSampleIdOffset(attr)
           /\ attrs'.sample_time_offset = SampleTimeOffset(attr)
           /\ attrs'.non_sample_time_offset = NonSampleTimeOffset(attr)
           /\ NewDesc(attrs, attr, name, ids) \in Desc
           /\ attrs' = [event_desc_list |-> attrs'.event_desc_list,
                event_desc_id_to_index |-> attrs'.event_desc_id_to_index,
                format_by_id |-> attrs'.format_by_id,
                sample_id_offset |-> attrs'.sample_id_offset,
                non_sample_id_offset |-> attrs'.non_sample_id_offset,
                sample_time_offset |-> attrs'.sample_time_offset,
                non_sample_time_offset |-> attrs'.non_sample_time_offset]
<1>1. NewDesc(attrs, attr, name, ids) \in Desc
  BY FormatOfType DEF NewDesc, Desc
<1> DEFINE new(a) ==
      [event_desc_list |-> Append(a.event_desc_list, NewDesc(a, attr, name, ids)),
       event_desc_id_to_index |-> MapIds(a.event_desc_id_to_index, ids, Len(a.event_desc_list) + 1),
       format_by_id |-> a.format_by_id,
       sample_id_offset |-> SampleIdOffset(attr),
       non_sample_id_offset |-> NonSampleIdOffset(attr),
       sample_time_offset |-> SampleTimeOffset(attr),
       non_sample_time_offset |-> NonSampleTimeOffset(attr)]
<1>2. attrs' = new(attrs)
  BY DEF AddAttr, TableOK
<1> QED BY <1>1, <1>2

(* The new table after parse_tracing_data.                                 *)
LEMMA AddFormatsTable ==
    ASSUME TableOK, NEW formats, NEW whole \in BOOLEAN, attrs' = AddFormats(attrs, formats, whole)
    PROVE  /\ attrs' = [attrs EXCEPT !.format_by_id = attrs'.format_by_id,
                                     !.event_desc_list = attrs'.event_desc_list]
           /\ attrs'.format_by_id = attrs.format_by_id \cup formats
           /\ attrs'.event_desc_list \in Seq(Desc)
           /\ Len(attrs'.event_desc_list) = Len(attrs.event_desc_list)
           /\ \A i \in DOMAIN attrs.event_desc_list :
                 attrs'.event_desc_list[i] =
                     IF whole THEN WithFormat(attrs.event_desc_list[i], attrs'.format_by_id)
                     ELSE attrs.event_desc_list[i]
<1> DEFINE known == attrs.format_by_id \cup formats
           list == attrs.event_desc_list
           attached == [i \in DOMAIN list |-> WithFormat(list[i], known)]
           new == IF whole THEN attached ELSE list
<1>1. attrs' = [attrs EXCEPT !.format_by_id = known, !.event_desc_list = new]
  BY DEF AddFormats, TableOK
<1>2. attrs'.format_by_id = known /\ attrs'.event_desc_list = new
  BY <1>1 DEF TableOK
<1>3. \A i \in DOMAIN list : WithFormat(list[i], known) \in Desc
  BY WithFormatParts DEF TableOK
<1>4. new \in Seq(Desc) /\ Len(new) = Len(list)
  <2>1. list \in Seq(Desc) /\ DOMAIN list = 1 .. Len(list) /\ Len(list) \in Nat
    BY DEF TableOK
  <2>2. attached \in [1 .. Len(list) -> Desc]
    BY <1>3, <2>1
  <2> HIDE DEF attached, list
  <2>3. attached \in Seq(Desc) /\ Len(attached) = Len(list)
    BY <2>1, <2>2
  <2> QED BY <2>1, <2>3
<1> QED BY <1>1, <1>2, <1>4

-----------------------------------------------------------------------------
(* A new reader has an empty table.                                        *)
LEMMA TableInit == Init => Table
<1> SUFFICES ASSUME Init PROVE Table
  OBVIOUS
<1>1. attrs = NewAttrs /\ trace \in Traces
  BY DEF Init
<1>2. TableOK /\ attrs.event_desc_list = << >>
  BY <1>1 DEF TableOK, NewAttrs
<1>3. DOMAIN attrs.event_desc_id_to_index = {}
  BY <1>1 DEF NewAttrs
<1>4. FormatsFresh
  BY <1>1, <1>2 DEF Init, NewAttrs, FormatsFresh
<1> QED BY <1>2, <1>3, <1>4 DEF Table, OffsetsAgree, LastDescWins, FormatsAttached

(* A step that leaves the table alone keeps what holds of it.              *)
LEMMA TableSame == Table /\ UNCHANGED <<trace, attrs, parsing>> => Table'
BY DEF Table, TableOK, FormatsFresh, OffsetsAgree, LastDescWins, FormatsAttached, parsing

(* add_attr keeps the table, whether it takes the attr or refuses it.      *)
LEMMA TableAddAttr ==
    ASSUME Table, NEW attr \in AllAttrs, NEW name \in Names,
           NEW ids \in SUBSET UNION {DOMAIN t : t \in Traces},
           attrs' = AddAttr(attrs, attr, name, ids), UNCHANGED <<trace, parsing>>
    PROVE  Table'
<1>1. CASE ~Compatible(attrs, attr)
  <2>1. attrs' = attrs
    BY <1>1 DEF AddAttr
  <2> QED BY <2>1, TableSame
<1>2. CASE Compatible(attrs, attr)
  <2> DEFINE list == attrs.event_desc_list
             desc == NewDesc(attrs, attr, name, ids)
             last == Len(list) + 1
  <2>1. list \in Seq(Desc) /\ Len(list) \in Nat /\ DOMAIN list = 1 .. Len(list) /\ TableOK
    BY DEF Table, TableOK
  <2>2. /\ desc \in Desc
        /\ attrs'.event_desc_list = Append(list, desc)
        /\ attrs'.event_desc_id_to_index = MapIds(attrs.event_desc_id_to_index, ids, last)
        /\ attrs'.format_by_id = attrs.format_by_id
        /\ attrs'.sample_id_offset = SampleIdOffset(attr)
        /\ attrs'.non_sample_id_offset = NonSampleIdOffset(attr)
        /\ attrs'.sample_time_offset = SampleTimeOffset(attr)
        /\ attrs'.non_sample_time_offset = NonSampleTimeOffset(attr)
    BY <1>2, <2>1, AddAttrTable
  <2>3. /\ DOMAIN attrs'.event_desc_list = 1 .. last
        /\ attrs'.event_desc_list[last] = desc
        /\ \A i \in 1 .. Len(list) : attrs'.event_desc_list[i] = list[i]
        /\ attrs'.event_desc_list \in Seq(Desc)
    BY <2>1, <2>2
  <2>4. TableOK'
    <3>1. attrs'.event_desc_list \in Seq(Desc) /\ trace' \in Traces
      BY <2>1, <2>3 DEF TableOK
    <3> QED BY <3>1, <1>2, <2>1, AddAttrTable DEF TableOK
  <2>5. OffsetsAgree'
    <3>1. \A i \in 1 .. Len(list) :
             /\ SampleIdOffset(list[i].attr) = SampleIdOffset(attr)
             /\ NonSampleIdOffset(list[i].attr) = NonSampleIdOffset(attr)
             /\ SampleTimeOffset(list[i].attr) = SampleTimeOffset(attr)
             /\ NonSampleTimeOffset(list[i].attr) = NonSampleTimeOffset(attr)
      BY <1>2, <2>1, OffsetsAreSet DEF Table, OffsetsAgree, Compatible
    <3>2. desc.attr = attr
      BY DEF NewDesc
    <3> QED
      BY <2>1, <2>2, <2>3, <3>1, <3>2 DEF OffsetsAgree
  <2>6. LastDescWins'
    <3> DEFINE map == attrs.event_desc_id_to_index
               map2 == attrs'.event_desc_id_to_index
               list2 == attrs'.event_desc_list
    <3>1. /\ DOMAIN map2 = ids \cup DOMAIN map
          /\ \A id \in ids : map2[id] = last
          /\ \A id \in DOMAIN map \ ids : map2[id] = map[id]
      BY <2>2 DEF MapIds
    <3>2. desc.ids = ids
      BY DEF NewDesc
    <3>3. /\ \A i \in DOMAIN list : list[i].ids \subseteq DOMAIN map
          /\ \A id \in DOMAIN map :
                /\ map[id] \in DOMAIN list /\ id \in list[map[id]].ids
                /\ \A i \in DOMAIN list : id \in list[i].ids => i <= map[id]
      BY DEF Table, LastDescWins
    <3> HIDE DEF map, map2, list2, list, desc
    <3>4. \A i \in 1 .. last : list2[i].ids \subseteq DOMAIN map2
      BY <2>1, <2>3, <3>1, <3>2, <3>3, SMTT(30) DEF list2
    <3>5. \A id \in DOMAIN map2 :
             /\ map2[id] \in 1 .. last /\ id \in list2[map2[id]].ids
             /\ \A i \in 1 .. last : id \in list2[i].ids => i <= map2[id]
      <4> SUFFICES ASSUME NEW id \in DOMAIN map2
                   PROVE /\ map2[id] \in 1 .. last /\ id \in list2[map2[id]].ids
                         /\ \A i \in 1 .. last : id \in list2[i].ids => i <= map2[id]
        OBVIOUS
      <4>1. CASE id \in ids
        BY <4>1, <2>1, <2>3, <3>1, <3>2 DEF list2
      <4>2. CASE id \notin ids
        BY <4>2, <2>1, <2>3, <3>1, <3>2, <3>3 DEF list2
      <4> QED BY <4>1, <4>2
    <3> QED BY <2>3, <3>4, <3>5 DEF LastDescWins, list2, map2
  <2>7. FormatsAttached'
    <3>1. desc.attr = attr /\ desc.format = FormatOf(attrs.format_by_id, attr)
      BY DEF NewDesc
    <3>2. waiting' = waiting /\ waiting \in Nat /\ waiting <= Len(list)
      BY DEF Table, FormatsFresh, parsing
    <3>3. \A i \in 1 .. Len(list) : list[i].format = IF i <= waiting THEN NoFormat
                                                   ELSE FormatOf(attrs.format_by_id, list[i].attr)
      BY <2>1 DEF Table, FormatsAttached
    <3> HIDE DEF list, desc
    <3>4. ~(last <= waiting)
      BY <2>1, <3>2
    <3> QED BY <2>1, <2>2, <2>3, <3>1, <3>2, <3>3, <3>4 DEF FormatsAttached
  <2>8. FormatsFresh'
    <3>1. Len(attrs'.event_desc_list) = Len(list) + 1
      BY <2>1, <2>2
    <3>2. /\ waiting' = waiting /\ parsed_tracing_data' = parsed_tracing_data
          /\ waiting \in Nat /\ waiting <= Len(list)
          /\ ~parsed_tracing_data => waiting = 0 /\ attrs.format_by_id = {}
      BY DEF Table, FormatsFresh, parsing
    <3> HIDE DEF list
    <3> QED BY <2>1, <2>2, <3>1, <3>2 DEF FormatsFresh
  <2> QED BY <2>4, <2>5, <2>6, <2>7, <2>8 DEF Table
<1> QED BY <1>1, <1>2

(* So does parse_tracing_data, the first time it finds something to parse: *)
(* all descriptions there are have no format yet, and get theirs or, when  *)
(* the data breaks off, are counted as waiting.                            *)
LEMMA TableAddFormats ==
    ASSUME Table, NEW formats, NEW whole \in BOOLEAN, ParseTracingData(formats, whole)
    PROVE  Table'
<1> DEFINE list == attrs.event_desc_list
           list2 == attrs'.event_desc_list
<1>1. TableOK /\ DOMAIN list = 1 .. Len(list) /\ \A i \in DOMAIN list : list[i] \in Desc
  BY DEF Table, TableOK
<1>2. /\ attrs' = [attrs EXCEPT !.format_by_id = attrs'.format_by_id, !.event_desc_list = list2]
      /\ attrs'.format_by_id = attrs.format_by_id \cup formats
      /\ list2 \in Seq(Desc) /\ Len(list2) = Len(list)
      /\ \A i \in DOMAIN list : list2[i] = IF whole THEN WithFormat(list[i], attrs'.format_by_id)
                                           ELSE list[i]
  <2>1. attrs' = AddFormats(attrs, formats, whole)
    BY DEF ParseTracingData
  <2> QED BY <1>1, <2>1, AddFormatsTable
<1>3. DOMAIN list2 = DOMAIN list
  BY <1>1, <1>2
<1>4. \A i \in DOMAIN list : list2[i].attr = list[i].attr /\ list2[i].ids = list[i].ids
  BY <1>1, <1>2, WithFormatParts
<1>a. /\ waiting = 0 /\ attrs.format_by_id = {} /\ parsed_tracing_data'
      /\ waiting' = IF whole THEN 0 ELSE Len(list)
      /\ trace' = trace
  BY DEF ParseTracingData, Table, FormatsFresh
<1>b. Len(list) \in Nat /\ DOMAIN list = 1 .. Len(list)
  BY <1>1 DEF TableOK
<1>c. FormatsFresh'
  BY <1>a, <1>b, <1>2 DEF FormatsFresh
<1>5. /\ attrs'.event_desc_id_to_index = attrs.event_desc_id_to_index
      /\ attrs'.sample_id_offset = attrs.sample_id_offset
      /\ attrs'.non_sample_id_offset = attrs.non_sample_id_offset
      /\ attrs'.sample_time_offset = attrs.sample_time_offset
      /\ attrs'.non_sample_time_offset = attrs.non_sample_time_offset
  BY <1>1, <1>2 DEF TableOK
<1>6. TableOK'
  BY <1>1, <1>2, <1>a DEF TableOK
<1>7. OffsetsAgree'
  BY <1>3, <1>4, <1>5 DEF Table, OffsetsAgree
<1>8. LastDescWins'
  BY <1>3, <1>4, <1>5 DEF Table, LastDescWins
<1>9. FormatsAttached'
  <2> SUFFICES ASSUME NEW i \in DOMAIN list
               PROVE list2[i].format = IF i <= waiting' THEN NoFormat
                                       ELSE FormatOf(attrs'.format_by_id, list2[i].attr)
    BY <1>3 DEF FormatsAttached
  <2>1. list[i].format = NoFormat
    <3>1. list[i].format = IF i <= waiting THEN NoFormat ELSE FormatOf(attrs.format_by_id, list[i].attr)
      BY DEF Table, FormatsAttached
    <3> QED BY <1>a, <3>1 DEF FormatOf
  <2>2. list[i] \in Desc /\ i \in 1 .. Len(list)
    BY <1>1, <1>b
  <2> HIDE DEF list, list2
  <2>3. CASE whole
    <3>1. list2[i] = WithFormat(list[i], attrs'.format_by_id) /\ ~(i <= waiting')
      BY <1>2, <1>a, <1>b, <2>2, <2>3
    <3>2. list2[i].format = FormatOf(attrs'.format_by_id, list[i].attr)
      BY <2>1, <2>2, <3>1, WithFormatParts
    <3> QED BY <1>4, <3>1, <3>2
  <2>4. CASE ~whole
    <3>1. list2[i] = list[i] /\ i <= waiting'
      BY <1>2, <1>a, <1>b, <2>2, <2>4
    <3> QED BY <2>1, <3>1
  <2> QED BY <2>3, <2>4
<1> QED BY <1>6, <1>c, <1>7, <1>8, <1>9 DEF Table

(* Every step keeps the table.                                             *)
LEMMA TableNext == Table /\ [Next]_vars => Table'
<1> SUFFICES ASSUME Table, [Next]_vars PROVE Table'
  OBVIOUS
<1>1. ASSUME NEW ids \in SUBSET Ids, NEW name \in Names, AddDesc(ids, name) PROVE Table'
  <2>1. PICK attr \in {trace[id] : id \in Ids} : attrs' = AddAttr(attrs, attr, name, ids)
    BY <1>1 DEF AddDesc
  <2>2. trace \in Traces /\ UNCHANGED <<trace, parsing>>
    BY <1>1 DEF AddDesc, Table, TableOK
  <2>3. attr \in AllAttrs /\ ids \in SUBSET UNION {DOMAIN t : t \in Traces}
    BY <2>2 DEF AllAttrs, Ids
  <2> QED BY <2>1, <2>2, <2>3, TableAddAttr
<1>2. ASSUME NEW formats \in SUBSET Formats, NEW whole \in BOOLEAN, ParseTracingData(formats, whole)
      PROVE  Table'
  BY <1>2, TableAddFormats
<1>3. ASSUME NEW id \in Ids, AskSample(id) PROVE Table'
  BY <1>3, TableSame DEF AskSample
<1>4. ASSUME NEW id \in Ids, AskNonSample(id) PROVE Table'
  BY <1>4, TableSame DEF AskNonSample
<1>5. CASE UNCHANGED vars
  BY <1>5, TableSame DEF vars, parsing
<1> QED BY <1>1, <1>2, <1>3, <1>4, <1>5 DEF Next

(* The table as it always is: the invariant the three properties follow from. *)
THEOREM TableHolds == Spec => []Table
BY TableInit, TableNext, PTL DEF Spec

-----------------------------------------------------------------------------
(* The reader's four offsets fit every description it has taken, whatever  *)
(* attrs it was given and in whatever order.                               *)
THEOREM OffsetsFitEveryDesc == Spec => []OffsetsAgree
<1>1. Table => OffsetsAgree
  BY DEF Table
<1> QED BY <1>1, TableHolds, PTL

(* event_desc_by_id leads to the last description that lists the id.       *)
THEOREM IdLeadsToLastDesc == Spec => []LastDescWins
<1>1. Table => LastDescWins
  BY DEF Table
<1> QED BY <1>1, TableHolds, PTL

(* A tracepoint's description has its format as soon as both are known,    *)
(* unless the tracing data broke off after the description had come.       *)
THEOREM FormatsAreAttached == Spec => []FormatsAttached
<1>1. Table => FormatsAttached
  BY DEF Table
<1> QED BY <1>1, TableHolds, PTL

-----------------------------------------------------------------------------
(* Induction over the naturals, for a set.                                 *)
LEMMA NatSet ==
  ASSUME NEW T, 0 \in T, \A n \in Nat : n \in T => n + 1 \in T
  PROVE  Nat \subseteq T
<1> DEFINE B == Nat \ T
<1> DEFINE R == OpToRel(<, Nat)
<1> SUFFICES ASSUME B # {} PROVE FALSE
  OBVIOUS
<1>1. IsWellFoundedOn(R, Nat)
  BY NatLessThanWellFounded
<1>2. B \subseteq Nat
  OBVIOUS
<1>3. \A a, b \in Nat : a < b => <<a, b>> \in R
  BY DEF OpToRel
<1> HIDE DEF R
<1>4. PICK x \in B : \A y \in B : ~ (<<y, x>> \in R)
  BY <1>1, <1>2, WFMin
<1>5. x # 0 /\ x \in Nat
  OBVIOUS
<1>6. x - 1 \in Nat /\ x - 1 < x /\ (x - 1) + 1 = x
  BY <1>5
<1>7. x - 1 \in T
  BY <1>6, <1>3, <1>4
<1> QED
  BY <1>6, <1>7

(* Sequences put one after the other.                                      *)
LEMMA SeqIs ==
  ASSUME NEW U, NEW s \in Seq(U)
  PROVE  s = [j \in 1 .. Len(s) |-> s[j]] /\ Len(s) \in Nat /\ \A j \in 1 .. Len(s) : s[j] \in U
OBVIOUS

LEMMA EmptyIs ==
  ASSUME NEW S
  PROVE  <<>> \in Seq(S) /\ Len(<<>>) = 0
OBVIOUS

LEMMA CatIs ==
  ASSUME NEW S, NEW s \in Seq(S), NEW t \in Seq(S)
  PROVE  /\ s \o t \in Seq(S) /\ Len(s \o t) = Len(s) + Len(t)
         /\ \A j \in 1 .. Len(s) : (s \o t)[j] = s[j]
         /\ \A j \in 1 .. Len(t) : (s \o t)[Len(s) + j] = t[j]
OBVIOUS

LEMMA CatParts ==
  ASSUME NEW S, NEW s \in Seq(S), NEW t \in Seq(S), NEW c, c = s \o t,
         NEW m, m = Len(s), NEW n, n = Len(c)
  PROVE  /\ n = m + Len(t)
         /\ \A j \in 1 .. m : c[j] = s[j]
         /\ \A j \in 1 .. Len(t) : c[m + j] = t[j]
BY CatIs

LEMMA CatEmpty ==
  ASSUME NEW S, NEW s \in Seq(S)
  PROVE  s \o <<>> = s /\ <<>> \o s = s
OBVIOUS

FlattenRound(f, seqs, i) == IF i = 1 THEN seqs[i] ELSE f[i - 1] \o seqs[i]
FlattenTable(f, seqs) == f = [i \in 1 .. Len(seqs) |-> FlattenRound(f, seqs, i)]

LEMMA FlattenTableExists ==
  ASSUME NEW seqs, Len(seqs) \in Nat
  PROVE  \E g : FlattenTable(g, seqs)
<1> DEFINE T == {m \in Nat : \E g : g = [i \in 1 .. m |-> FlattenRound(g, seqs, i)]}
<1>1. 0 \in T
  <2> DEFINE g == [k \in 1 .. 0 |-> 0]
  <2>1. g = [i \in 1 .. 0 |-> FlattenRound(g, seqs, i)]
    OBVIOUS
  <2> QED BY <2>1
<1>2. ASSUME NEW m \in Nat, m \in T
      PROVE  m + 1 \in T
  <2>1. PICK g : g = [i \in 1 .. m |-> FlattenRound(g, seqs, i)]
    BY <1>2
  <2> DEFINE h == [k \in 1 .. m + 1 |-> FlattenRound(g, seqs, k)]
  <2>2. \A k \in 1 .. m : h[k] = g[k]
    <3>1. \A k \in 1 .. m : g[k] = FlattenRound(g, seqs, k)
      BY <2>1
    <3> QED BY <3>1
  <2>3. \A k \in 1 .. m + 1 : h[k] = FlattenRound(g, seqs, k)
    OBVIOUS
  <2>4. h = [k \in 1 .. m + 1 |-> h[k]]
    OBVIOUS
  <2> HIDE DEF h
  <2>5. ASSUME NEW k \in 1 .. m + 1
        PROVE  FlattenRound(h, seqs, k) = FlattenRound(g, seqs, k)
    <3>1. k = 1 \/ k - 1 \in 1 .. m
      OBVIOUS
    <3> QED BY <3>1, <2>2 DEF FlattenRound
  <2>6. h = [i \in 1 .. m + 1 |-> FlattenRound(h, seqs, i)]
    BY <2>3, <2>4, <2>5
  <2> QED BY <2>6
<1> HIDE DEF T
<1>3. Len(seqs) \in T
  BY <1>1, <1>2, NatSet
<1> QED BY <1>3 DEF T, FlattenTable

(* The chunks put one after the other, from none to all.                   *)
Joined(F, S, m, chunks) ==
    /\ F[0] = <<>>
    /\ \A i \in 1 .. m : F[i] = F[i - 1] \o chunks[i]
    /\ \A i \in 0 .. m : F[i] \in Seq(S)

LEMMA FlattenJoins ==
  ASSUME NEW S, NEW chunks \in Seq(Seq(S))
  PROVE  \E F : Joined(F, S, Len(chunks), chunks) /\ F[Len(chunks)] = FlattenSeq(chunks)
<1> DEFINE m == Len(chunks)
           flat == CHOOSE g : FlattenTable(g, chunks)
           F == [i \in 0 .. m |-> IF i = 0 THEN <<>> ELSE flat[i]]
<1>1. m \in Nat /\ \A i \in 1 .. m : chunks[i] \in Seq(S)
  BY SeqIs
<1>2. FlattenTable(flat, chunks)
  BY <1>1, FlattenTableExists
<1>3. FlattenSeq(chunks) = IF m = 0 THEN chunks ELSE flat[m]
  BY DEF FlattenSeq, FlattenTable, FlattenRound
<1>4. F[0] = <<>> /\ \A i \in 1 .. m : F[i] = flat[i]
  BY <1>1
<1> HIDE DEF flat
<1>5. \A i \in 1 .. m : flat[i] = FlattenRound(flat, chunks, i)
  BY <1>2 DEF FlattenTable
<1> HIDE DEF F
<1>6. ASSUME NEW i \in 1 .. m PROVE F[i] = F[i - 1] \o chunks[i]
  <2>0. chunks[i] \in Seq(S)
    BY <1>1
  <2>1. CASE i - 1 \in 0 .. 0
    <3>1. i = 1 /\ i - 1 = 0
      BY <2>1
    <3>2. flat[i] = chunks[i]
      BY <1>5, <3>1 DEF FlattenRound
    <3>3. <<>> \o chunks[i] = chunks[i]
      BY <2>0, CatEmpty
    <3>4. F[i] = flat[i] /\ F[i - 1] = <<>>
      BY <1>4, <3>1
    <3> QED BY ONLY <3>2, <3>3, <3>4, Zenon
  <2>2. CASE i - 1 \in 1 .. m
    <3>1. ~ (i = 1)
      BY <2>2
    <3>2. flat[i] = flat[i - 1] \o chunks[i]
      BY <1>5, <3>1 DEF FlattenRound
    <3>3. F[i] = flat[i] /\ F[i - 1] = flat[i - 1]
      BY <1>4, <2>2
    <3> QED BY ONLY <3>2, <3>3, Zenon
  <2>3. i - 1 \in 0 .. 0 \/ i - 1 \in 1 .. m
    BY <1>1
  <2> QED BY ONLY <2>1, <2>2, <2>3, Zenon
<1> DEFINE T == {i \in Nat : i <= m => F[i] \in Seq(S)}
<1>7. 0 \in T
  <2>1. F[0] \in Seq(S)
    BY ONLY <1>4, EmptyIs, Zenon
  <2> QED BY <2>1
<1>8. ASSUME NEW i \in Nat, i \in T PROVE i + 1 \in T
  <2> SUFFICES ASSUME i + 1 <= m PROVE F[i + 1] \in Seq(S)
    OBVIOUS
  <2>1. i + 1 \in 1 .. m /\ (i + 1) - 1 = i /\ i <= m
    BY <1>1
  <2>2. F[i + 1] = F[i] \o chunks[i + 1]
    BY <1>6, <2>1
  <2>3. F[i] \in Seq(S) /\ chunks[i + 1] \in Seq(S)
    BY <1>1, <1>8, <2>1
  <2> QED BY ONLY <2>2, <2>3, CatIs, ZenonT(60)
<1>9. \A i \in 0 .. m : F[i] \in Seq(S)
  <2>1. Nat \subseteq T
    <3> HIDE DEF T
    <3> QED BY ONLY <1>7, <1>8, NatSet
  <2> QED BY <1>1, <2>1
<1>10. F[m] = FlattenSeq(chunks)
  <2>1. CASE m \in 0 .. 0
    <3>1. m = 0 /\ chunks = <<>>
      BY <2>1
    <3> QED BY ONLY <1>3, <1>4, <3>1, Zenon
  <2>2. CASE m \in 1 .. m
    <3>1. ~ (m = 0)
      BY <2>2
    <3> QED BY ONLY <1>3, <1>4, <2>2, <3>1, Zenon
  <2> QED BY <1>1, <2>1, <2>2
<1>11. Joined(F, S, m, chunks)
  BY ONLY <1>4, <1>6, <1>9, Zenon DEF Joined
<1> QED BY ONLY <1>10, <1>11, Zenon

-----------------------------------------------------------------------------
(* The words of a sample, or of a suffix, where the kernel puts them.  The *)
(* first k of the fields take p[k] units.                                  *)
Places(p, st, fields) ==
    /\ p[0] = 0
    /\ \A k \in 1 .. Len(fields) :
          /\ fields[k] \in st => p[k] = p[k - 1] + 2
          /\ fields[k] \notin st => p[k] = p[k - 1]
    /\ \A k \in 0 .. Len(fields) : p[k] \in Nat

WordIs(w, pos, v) == w[pos + 1] = v % UnitRange /\ w[pos + 2] = v \div UnitRange

Laid(p, w, st, fields, v) ==
    /\ Places(p, st, fields)
    /\ w \in Seq(Nat) /\ Len(w) = p[Len(fields)]
    /\ \A k \in 1 .. Len(fields) :
          fields[k] \in st => p[k - 1] + 2 <= Len(w) /\ WordIs(w, p[k - 1], v[fields[k]])

LEMMA WordType ==
  ASSUME NEW n \in Nat
  PROVE  /\ Word(n) \in Seq(Nat) /\ Len(Word(n)) = 2
         /\ Word(n)[1] = n % UnitRange /\ Word(n)[2] = n \div UnitRange
         /\ (n % UnitRange) + UnitRange * (n \div UnitRange) = n
<1>1. n % UnitRange \in Nat /\ n \div UnitRange \in Nat
      /\ (n % UnitRange) + UnitRange * (n \div UnitRange) = n
  BY DEF UnitRange
<1> QED BY <1>1 DEF Word

LEMMA WordsLaidOut ==
  ASSUME NEW fields, NEW U, fields \in Seq(U), NEW st, NEW id,
         \A k \in 1 .. Len(fields) : FieldValue(id)[fields[k]] \in Nat
  PROVE  \E p : Laid(p, Words(fields, st, id), st, fields, FieldValue(id))
<1> DEFINE n == Len(fields)
           v == FieldValue(id)
           chunks == [i \in DOMAIN fields |-> IF fields[i] \in st THEN Word(v[fields[i]]) ELSE <<>>]
<1>1. n \in Nat /\ DOMAIN fields = 1 .. n
  OBVIOUS
<1>2. \A i \in 1 .. n : chunks[i] = IF fields[i] \in st THEN Word(v[fields[i]]) ELSE <<>>
  BY <1>1
<1>3. \A i \in 1 .. n : v[fields[i]] \in Nat
  OBVIOUS
<1>4. Words(fields, st, id) = FlattenSeq(chunks)
  BY DEF Words
<1>5. chunks = [i \in 1 .. n |-> chunks[i]]
  BY <1>1
<1> HIDE DEF chunks, v
<1>6. \A i \in 1 .. n : chunks[i] \in Seq(Nat)
  BY <1>2, <1>3, WordType, EmptyIs
<1>7. chunks \in Seq(Seq(Nat)) /\ Len(chunks) = n
  BY <1>1, <1>5, <1>6
<1>8. PICK F : Joined(F, Nat, n, chunks) /\ F[n] = FlattenSeq(chunks)
  BY <1>7, FlattenJoins
<1> HIDE DEF n
<1> DEFINE p == [k \in 0 .. n |-> Len(F[k])]
<1>9. /\ \A k \in 0 .. n : F[k] \in Seq(Nat) /\ Len(F[k]) \in Nat /\ p[k] = Len(F[k])
      /\ \A k \in 1 .. n : F[k] = F[k - 1] \o chunks[k] /\ k - 1 \in 0 .. n
  <2>1. /\ \A k \in 0 .. n : F[k] \in Seq(Nat)
        /\ \A k \in 1 .. n : F[k] = F[k - 1] \o chunks[k]
    BY ONLY <1>8, Zenon DEF Joined
  <2>2. \A k \in 0 .. n : p[k] = Len(F[k])
    OBVIOUS
  <2>3. \A k \in 1 .. n : k - 1 \in 0 .. n
    BY <1>1
  <2>4. ASSUME NEW k \in 0 .. n PROVE Len(F[k]) \in Nat
    <3>1. F[k] \in Seq(Nat)
      BY ONLY <2>1, Zenon
    <3> QED BY ONLY <3>1, SeqIs, Zenon
  <2> HIDE DEF p
  <2> QED BY ONLY <2>1, <2>2, <2>3, <2>4, Zenon
<1>10. p[0] = 0
  BY <1>1, <1>8, EmptyIs DEF Joined
<1> HIDE DEF p
<1>11. ASSUME NEW k \in 1 .. n
       PROVE /\ p[k] = p[k - 1] + Len(chunks[k])
             /\ \A j \in 1 .. p[k - 1] : F[k][j] = F[k - 1][j]
             /\ \A j \in 1 .. Len(chunks[k]) : F[k][p[k - 1] + j] = chunks[k][j]
  <2>1. k \in 0 .. n
    BY <1>1
  <2>2. F[k - 1] \in Seq(Nat) /\ chunks[k] \in Seq(Nat) /\ F[k] = F[k - 1] \o chunks[k]
        /\ p[k] = Len(F[k]) /\ p[k - 1] = Len(F[k - 1])
    BY ONLY <1>6, <1>9, <2>1, k \in 1 .. n, Zenon
  <2> DEFINE a == F[k - 1]
             b == chunks[k]
             c == F[k]
             x == p[k - 1]
             y == p[k]
  <2>3. a \in Seq(Nat) /\ b \in Seq(Nat) /\ c = a \o b /\ y = Len(c) /\ x = Len(a)
    BY ONLY <2>2, Zenon
  <2> HIDE DEF a, b, c, x, y
  <2>4. /\ y = x + Len(b)
        /\ \A j \in 1 .. x : c[j] = a[j]
        /\ \A j \in 1 .. Len(b) : c[x + j] = b[j]
    BY ONLY <2>3, CatParts, SMT
  <2> QED BY ONLY <2>4, Zenon DEF a, b, c, x, y
<1>12. Places(p, st, fields)
  <2>1. ASSUME NEW k \in 1 .. n
        PROVE /\ fields[k] \in st => p[k] = p[k - 1] + 2
              /\ fields[k] \notin st => p[k] = p[k - 1]
    <3>1. p[k] = p[k - 1] + Len(chunks[k]) /\ p[k - 1] \in Nat
      BY <1>9, <1>11
    <3>2. fields[k] \in st => Len(chunks[k]) = 2
      BY ONLY <1>2, <1>3, k \in 1 .. n, WordType, ZenonT(60)
    <3>3. fields[k] \notin st => Len(chunks[k]) = 0
      BY <1>2, EmptyIs
    <3>4. p[k - 1] + 0 = p[k - 1]
      BY ONLY <3>1
    <3> QED BY ONLY <3>1, <3>2, <3>3, <3>4, Zenon
  <2> QED BY <1>9, <1>10, <2>1 DEF Places, n
<1>13. ASSUME NEW k \in 1 .. n, fields[k] \in st
       PROVE p[k - 1] + 2 <= Len(F[n]) /\ WordIs(F[n], p[k - 1], v[fields[k]])
  <2> DEFINE T == {m \in Nat : k + m <= n =>
                     p[k - 1] + 2 <= Len(F[k + m]) /\ WordIs(F[k + m], p[k - 1], v[fields[k]])}
  <2>0. k \in Nat /\ k - 1 \in 0 .. n /\ p[k - 1] \in Nat
    BY <1>1, <1>9
  <2>1. 0 \in T
    <3>1. chunks[k] = Word(v[fields[k]]) /\ v[fields[k]] \in Nat
      BY <1>2, <1>3, <1>13
    <3>2. /\ Len(chunks[k]) = 2 /\ chunks[k][1] = v[fields[k]] % UnitRange
          /\ chunks[k][2] = v[fields[k]] \div UnitRange
      BY <3>1, WordType
    <3>3. p[k] = p[k - 1] + 2 /\ p[k] = Len(F[k])
      <4>1. k \in 0 .. n
        BY <1>1
      <4>2. p[k] = p[k - 1] + Len(chunks[k])
        BY ONLY <1>11, k \in 1 .. n, Zenon
      <4> QED BY ONLY <1>9, <3>2, <4>1, <4>2, Zenon
    <3>4. WordIs(F[k], p[k - 1], v[fields[k]])
      BY <1>11, <3>2 DEF WordIs
    <3>5. k + 0 = k /\ p[k - 1] + 2 <= p[k - 1] + 2
      BY <2>0
    <3> QED BY <3>3, <3>4, <3>5
  <2>2. ASSUME NEW m \in Nat, m \in T PROVE m + 1 \in T
    <3> SUFFICES ASSUME k + (m + 1) <= n
                 PROVE /\ p[k - 1] + 2 <= Len(F[k + (m + 1)])
                       /\ WordIs(F[k + (m + 1)], p[k - 1], v[fields[k]])
      OBVIOUS
    <3> DEFINE i == k + (m + 1)
    <3>1. i \in 1 .. n /\ i - 1 = k + m /\ k + m <= n /\ k + m \in 0 .. n
      BY <1>1, <2>0
    <3>2. p[k - 1] + 2 <= Len(F[i - 1]) /\ WordIs(F[i - 1], p[k - 1], v[fields[k]])
      BY <2>2, <3>1
    <3> HIDE DEF i
    <3>3. p[i] = Len(F[i]) /\ p[i - 1] = Len(F[i - 1]) /\ p[i] \in Nat /\ p[i - 1] \in Nat
      BY <1>1, <1>9, <3>1
    <3>4. p[i] = p[i - 1] + Len(chunks[i]) /\ Len(chunks[i]) \in Nat
          /\ \A j \in 1 .. p[i - 1] : F[i][j] = F[i - 1][j]
      <4>1. chunks[i] \in Seq(Nat)
        BY <1>6, <3>1
      <4> QED BY <1>11, <3>1, <4>1
    <3>5. p[k - 1] + 1 \in 1 .. p[i - 1] /\ p[k - 1] + 2 \in 1 .. p[i - 1]
          /\ p[k - 1] + 2 <= p[i]
      <4> DEFINE a == p[k - 1]
                 b == p[i - 1]
                 d == Len(chunks[i])
      <4>1. a \in Nat /\ b \in Nat /\ a + 2 <= b /\ d \in Nat /\ p[i] = b + d
        BY ONLY <2>0, <3>2, <3>3, <3>4, Zenon
      <4> HIDE DEF a, b, d
      <4>2. a + 1 \in 1 .. b /\ a + 2 \in 1 .. b /\ a + 2 <= b + d
        BY ONLY <4>1, SMT
      <4> QED BY ONLY <4>1, <4>2, Zenon DEF a, b
    <3>6. WordIs(F[i], p[k - 1], v[fields[k]])
      BY ONLY <3>2, <3>4, <3>5, Zenon DEF WordIs
    <3> QED BY <3>3, <3>5, <3>6 DEF i
  <2> HIDE DEF T
  <2>3. n - k \in T
    <3>1. n - k \in Nat
      BY <1>1
    <3> QED BY <2>1, <2>2, <3>1, NatSet
  <2>4. k + (n - k) = n /\ n <= n
    BY <1>1
  <2> QED BY <2>3, <2>4 DEF T
<1>14. F[n] \in Seq(Nat) /\ Len(F[n]) = p[n]
  BY <1>1, <1>9
<1>15. Laid(p, F[n], st, fields, v)
  BY ONLY <1>12, <1>13, <1>14, Zenon DEF Laid, n
<1> QED BY <1>4, <1>8, <1>15 DEF v

-----------------------------------------------------------------------------
(* The walk over the words of a sample, which may be cut short: after the  *)
(* first k fields it has their values, or it met the end.                  *)
WordsRound(g, data, st, k) ==
    IF k = 0 THEN StartWalk ELSE WalkWord(data, st, g[k - 1], SampleFields[k])
WordsTable(g, data, st) ==
    g = [k \in 0 .. Len(SampleFields) |-> WordsRound(g, data, st, k)]

LEMMA WordsTableExists ==
  ASSUME NEW data, NEW st
  PROVE  \E g : WordsTable(g, data, st)
<1> DEFINE R(g, k) == WordsRound(g, data, st, k)
           T == {m \in Nat : \E g : g = [k \in 0 .. m |-> R(g, k)]}
<1>1. 0 \in T
  <2> DEFINE g == [k \in 0 .. 0 |-> StartWalk]
  <2>1. \A k \in 0 .. 0 : R(g, k) = StartWalk
    BY DEF WordsRound
  <2>2. g = [k \in 0 .. 0 |-> R(g, k)]
    BY <2>1
  <2> QED BY <2>2
<1>2. ASSUME NEW m \in Nat, m \in T PROVE m + 1 \in T
  <2>1. PICK g : g = [k \in 0 .. m |-> R(g, k)]
    BY <1>2
  <2> DEFINE h == [k \in 0 .. m + 1 |-> R(g, k)]
  <2>2. \A k \in 0 .. m : h[k] = g[k]
    <3>1. \A k \in 0 .. m : g[k] = R(g, k)
      BY <2>1
    <3> QED BY <3>1
  <2>3. \A k \in 0 .. m + 1 : h[k] = R(g, k)
    OBVIOUS
  <2>4. h = [k \in 0 .. m + 1 |-> h[k]]
    OBVIOUS
  <2> HIDE DEF h
  <2>5. ASSUME NEW k \in 0 .. m + 1 PROVE R(h, k) = R(g, k)
    <3>1. k = 0 \/ k - 1 \in 0 .. m
      OBVIOUS
    <3> QED BY <3>1, <2>2 DEF WordsRound
  <2>6. h = [k \in 0 .. m + 1 |-> R(h, k)]
    BY <2>3, <2>4, <2>5
  <2> QED BY <2>6
<1> HIDE DEF T
<1>3. Len(SampleFields) \in T
  <2>1. Len(SampleFields) \in Nat
    BY DEF SampleFields
  <2> QED BY <1>1, <1>2, <2>1, NatSet
<1> QED BY <1>3 DEF T, WordsTable

LEMMA WordsWalkedBy ==
  ASSUME NEW data, NEW st
  PROVE  \E g : /\ g[0] = StartWalk /\ g[Len(SampleFields)] = WalkWords(data, st)
                /\ \A k \in 1 .. Len(SampleFields) :
                      g[k] = WalkWord(data, st, g[k - 1], SampleFields[k])
<1> DEFINE g == CHOOSE f : WordsTable(f, data, st)
<1>1. WordsTable(g, data, st)
  BY WordsTableExists
<1>2. WalkWords(data, st) = g[Len(SampleFields)]
  BY DEF WalkWords, WordsTable, WordsRound
<1> HIDE DEF g
<1>3. \A k \in 0 .. Len(SampleFields) : g[k] = WordsRound(g, data, st, k)
  BY <1>1 DEF WordsTable
<1>4. Len(SampleFields) \in Nat
  BY DEF SampleFields
<1>5. g[0] = StartWalk
  BY <1>3, <1>4 DEF WordsRound
<1>6. \A k \in 1 .. Len(SampleFields) : g[k] = WalkWord(data, st, g[k - 1], SampleFields[k])
  BY <1>3, <1>4 DEF WordsRound
<1> QED BY <1>2, <1>5, <1>6

Firsts(fields, k) == {fields[j] : j \in 1 .. k}
ValuesOf(v, S) == [f \in S \ IdFields |-> v[f]]
At(pos, values) == [pos |-> pos, values |-> values, ranges |-> <<>>, error |-> "none"]

Walked(w, A, p, st, v, k) ==
    \/ 2 + p[k] <= A /\ w = At(2 + p[k], ValuesOf(v, st \cap Firsts(SampleFields, k)))
    \/ 2 + p[k] > A /\ w.error = "InvalidData"

LEMMA NoValues == ASSUME NEW v PROVE <<>> = ValuesOf(v, {})
  BY DEF ValuesOf

LEMMA ValuesGrow ==
  ASSUME NEW v, NEW S, NEW flag
  PROVE  Found(ValuesOf(v, S), flag, v[flag]) = ValuesOf(v, S \cup {flag})
<1>1. CASE flag \in IdFields
  <2>1. S \ IdFields = (S \cup {flag}) \ IdFields
    BY <1>1
  <2> QED BY <1>1, <2>1 DEF Found, ValuesOf
<1>2. CASE flag \notin IdFields
  <2>1. (S \cup {flag}) \ IdFields = (S \ IdFields) \cup {flag}
    BY <1>2
  <2> QED BY <1>2, <2>1 DEF Found, ValuesOf, Put
<1> QED BY <1>1, <1>2

LEMMA AlignIs ==
  ASSUME NEW n \in Nat
  PROVE  Align(n) \in Nat /\ Align(n) <= n /\ n <= Align(n) + 1 /\ \E h \in Nat : Align(n) = 2 * h
<1>1. n \div 2 \in Nat /\ 2 * (n \div 2) <= n /\ n <= 2 * (n \div 2) + 1
  OBVIOUS
<1> QED BY <1>1 DEF Align, U64_SIZE

(* Places are whole words apart.                                           *)
Evens == {2 * h : h \in Nat}

LEMMA PlacesEven ==
  ASSUME NEW p, NEW st, NEW fields, Len(fields) \in Nat, Places(p, st, fields)
  PROVE  \A k \in 0 .. Len(fields) : p[k] \in Evens
<1> DEFINE n == Len(fields)
           T == {k \in Nat : k <= n => p[k] \in Evens}
<1>1. 0 \in T
  <2>1. 0 = 2 * 0
    OBVIOUS
  <2>2. p[0] \in Evens
    BY <2>1 DEF Places, Evens
  <2> QED BY <2>2
<1>2. ASSUME NEW k \in Nat, k \in T PROVE k + 1 \in T
  <2> SUFFICES ASSUME k + 1 <= n PROVE p[k + 1] \in Evens
    OBVIOUS
  <2>1. k + 1 \in 1 .. n /\ (k + 1) - 1 = k /\ k <= n
    OBVIOUS
  <2>2. p[k + 1] = p[k] \/ p[k + 1] = p[k] + 2
    BY <2>1 DEF Places
  <2>3. PICK h \in Nat : p[k] = 2 * h
    BY <1>2, <2>1 DEF Evens
  <2>4. p[k] + 2 = 2 * (h + 1) /\ h + 1 \in Nat
    BY <2>3
  <2> QED BY <2>2, <2>3, <2>4 DEF Evens
<1> HIDE DEF T
<1>3. Nat \subseteq T
  BY <1>1, <1>2, NatSet
<1> QED BY <1>3 DEF T

LEMMA RoomForWord ==
  ASSUME NEW A \in Evens, NEW p \in Evens, 2 + p <= A, 2 + p # A
  PROVE  4 + p <= A
<1>1. PICK a \in Nat : A = 2 * a
  BY DEF Evens
<1>2. PICK b \in Nat : p = 2 * b
  BY DEF Evens
<1> QED BY <1>1, <1>2

(* One field of the walk.                                                  *)
LEMMA WordWalked ==
  ASSUME NEW data, Len(data) \in Nat, NEW st, NEW p, Places(p, st, SampleFields), NEW v,
         NEW k \in 1 .. Len(SampleFields),
         SampleFields[k] \in st /\ 2 + p[k] <= Len(data) =>
            ReadU64(data, 2 + p[k - 1]) = v[SampleFields[k]],
         NEW w, Walked(w, Align(Len(data)), p, st, v, k - 1)
  PROVE  Walked(WalkWord(data, st, w, SampleFields[k]), Align(Len(data)), p, st, v, k)
<1> DEFINE A == Align(Len(data))
           flag == SampleFields[k]
           q == 2 + p[k - 1]
           F(j) == st \cap Firsts(SampleFields, j)
<1>0. k \in Nat /\ k - 1 \in 0 .. Len(SampleFields) /\ k \in 0 .. Len(SampleFields)
  BY DEF SampleFields
<1>1. p[k] \in Nat /\ p[k - 1] \in Nat /\ (flag \in st => p[k] = p[k - 1] + 2)
      /\ (flag \notin st => p[k] = p[k - 1])
  BY <1>0 DEF Places
<1>2. A \in Nat /\ A <= Len(data) /\ A \in Evens
  BY AlignIs DEF Evens
<1>3. p[k - 1] \in Evens
  BY <1>0, PlacesEven DEF SampleFields
<1>4. Firsts(SampleFields, k) = Firsts(SampleFields, k - 1) \cup {flag}
  <2>1. \A j \in 1 .. k : j \in 1 .. k - 1 \/ j = k
    BY <1>0
  <2>2. \A j \in 1 .. k - 1 : j \in 1 .. k
    BY <1>0
  <2>3. k \in 1 .. k
    BY <1>0
  <2> HIDE DEF flag
  <2> QED BY <2>1, <2>2, <2>3 DEF Firsts, flag
<1> HIDE DEF A
<1>5. CASE 2 + p[k - 1] > A
  <2>1. w.error = "InvalidData"
    BY <1>1, <1>2, <1>5 DEF Walked, A
  <2>2. WalkWord(data, st, w, flag) = w
    BY <2>1 DEF WalkWord
  <2>3. 2 + p[k] > A
    BY <1>1, <1>2, <1>5
  <2> QED BY <2>1, <2>2, <2>3 DEF Walked, A
<1>6. CASE q <= A
  <2>1. w = At(q, ValuesOf(v, F(k - 1)))
    BY <1>1, <1>2, <1>6 DEF Walked, A
  <2>2. w.error = "none" /\ w.pos = q
    BY <2>1 DEF At
  <2>3. CASE flag \notin st
    <3>1. WalkWord(data, st, w, flag) = w
      BY <2>3 DEF WalkWord
    <3>2. F(k) = F(k - 1) /\ p[k] = p[k - 1]
      BY <1>1, <1>4, <2>3
    <3> QED BY <1>6, <2>1, <3>1, <3>2 DEF Walked, A
  <2>4. CASE flag \in st /\ q = A
    <3>1. WalkWord(data, st, w, flag) = [w EXCEPT !.error = "InvalidData"]
      BY <2>2, <2>4 DEF WalkWord, TakeWord, Fail, A
    <3>2. [w EXCEPT !.error = "InvalidData"].error = "InvalidData"
      BY <2>1 DEF At
    <3>3. 2 + p[k] > A
      BY <1>1, <1>2, <2>4
    <3> QED BY <3>1, <3>2, <3>3 DEF Walked, A
  <2>5. CASE flag \in st /\ q # A
    <3>1. 2 + p[k] <= A /\ 2 + p[k] <= Len(data) /\ 2 + p[k] = q + 2
      <4>1. 4 + p[k - 1] <= A
        BY <1>2, <1>3, <1>6, <2>5, RoomForWord
      <4> QED BY <1>1, <1>2, <2>5, <4>1, SMTT(60)
    <3>2. ReadU64(data, q) = v[flag]
      BY <2>5, <3>1
    <3>3. F(k) = F(k - 1) \cup {flag}
      BY <1>4, <2>5
    <3> HIDE DEF q, flag, F
    <3>4. WalkWord(data, st, w, flag) =
             [w EXCEPT !.values = Found(w.values, flag, v[flag]), !.pos = q + 2]
      BY <2>2, <2>5, <3>2 DEF WalkWord, TakeWord, A, U64_SIZE
    <3> DEFINE new == Found(ValuesOf(v, F(k - 1)), flag, v[flag])
    <3>5. w.values = ValuesOf(v, F(k - 1))
      BY <2>1 DEF At
    <3>6. new = ValuesOf(v, F(k))
      BY <3>3, ValuesGrow
    <3> HIDE DEF new
    <3>7. WalkWord(data, st, w, flag) = [w EXCEPT !.values = new, !.pos = q + 2]
      BY ONLY <3>4, <3>5, Zenon DEF new
    <3>8. WalkWord(data, st, w, flag) = At(q + 2, new)
      BY <2>1, <3>7 DEF At
    <3>9. WalkWord(data, st, w, flag) = At(2 + p[k], ValuesOf(v, F(k)))
      BY ONLY <3>1, <3>6, <3>8, Zenon
    <3> QED BY <3>1, <3>9 DEF Walked, A, F, flag
  <2> QED BY <2>3, <2>4, <2>5
<1> QED BY <1>1, <1>2, <1>5, <1>6

LEMMA WordsWalked ==
  ASSUME NEW data, Len(data) \in Nat, Len(data) >= 2, NEW st, NEW p,
         Places(p, st, SampleFields), NEW v,
         \A k \in 1 .. Len(SampleFields) :
            SampleFields[k] \in st /\ 2 + p[k] <= Len(data) =>
               ReadU64(data, 2 + p[k - 1]) = v[SampleFields[k]]
  PROVE  Walked(WalkWords(data, st), Align(Len(data)), p, st, v, Len(SampleFields))
<1> DEFINE n == Len(SampleFields)
           A == Align(Len(data))
<1>1. PICK g : /\ g[0] = StartWalk /\ g[n] = WalkWords(data, st)
               /\ \A k \in 1 .. n : g[k] = WalkWord(data, st, g[k - 1], SampleFields[k])
  BY WordsWalkedBy
<1>2. n \in Nat
  BY DEF SampleFields
<1>3. A \in Nat /\ 2 <= A
  <2>1. A \in Nat /\ Len(data) <= A + 1 /\ A \in Evens
    BY AlignIs DEF Evens
  <2>2. PICK h \in Nat : A = 2 * h
    BY <2>1 DEF Evens
  <2> QED BY <2>1, <2>2
<1> HIDE DEF n, A
<1> DEFINE T == {k \in Nat : k <= n => Walked(g[k], A, p, st, v, k)}
<1>4. 0 \in T
  <2>1. p[0] = 0 /\ 2 + p[0] = 2
    BY DEF Places
  <2>2. st \cap Firsts(SampleFields, 0) = {}
    BY DEF Firsts
  <2>3. StartWalk = At(2, ValuesOf(v, {}))
    BY NoValues DEF StartWalk, At, PERF_EVENT_HEADER_SIZE
  <2>4. Walked(g[0], A, p, st, v, 0)
    BY <1>1, <1>3, <2>1, <2>2, <2>3 DEF Walked
  <2> QED BY <2>4
<1>5. ASSUME NEW k \in Nat, k \in T PROVE k + 1 \in T
  <2> SUFFICES ASSUME k + 1 <= n PROVE Walked(g[k + 1], A, p, st, v, k + 1)
    OBVIOUS
  <2> DEFINE i == k + 1
  <2>1. i \in 1 .. n /\ i - 1 = k /\ k <= n
    BY <1>2
  <2>2. Walked(g[i - 1], A, p, st, v, i - 1)
    BY <1>5, <2>1
  <2> HIDE DEF i
  <2>3. g[i] = WalkWord(data, st, g[i - 1], SampleFields[i])
    BY <1>1, <2>1
  <2>4. Walked(g[i], A, p, st, v, i)
    BY <2>1, <2>2, <2>3, WordWalked DEF n, A
  <2> QED BY <2>4 DEF i
<1> HIDE DEF T
<1>6. n \in T
  BY <1>2, <1>4, <1>5, NatSet
<1> QED BY <1>1, <1>2, <1>6 DEF T, n, A

-----------------------------------------------------------------------------
(* The parts behind the words.  A walk that has come to pos has found the  *)
(* values and the ranges before it, unless the data ends before pos or     *)
(* the read format is one the reader refuses (ok is FALSE).                *)
Ranges(S, r) == [f \in S |-> r[f]]

Partly(w, A, pos, ok, values, ranges) ==
    \/ pos <= A /\ ok /\ w = [pos |-> pos, values |-> values, ranges |-> ranges, error |-> "none"]
    \/ (pos > A \/ ~ok) /\ w.error # "none"

LEMMA NoRanges == ASSUME NEW r PROVE <<>> = Ranges({}, r)
  BY DEF Ranges

LEMMA RangesGrow ==
  ASSUME NEW S, NEW r, NEW f
  PROVE  Put(Ranges(S, r), f, r[f]) = Ranges(S \cup {f}, r)
  BY DEF Ranges, Put

LEMMA RangeTaken ==
  ASSUME NEW data, Align(Len(data)) \in Nat, NEW pos \in Nat, NEW size \in Nat, NEW values, NEW S, NEW r,
         NEW flag, r[flag] = <<pos, pos + size>>, NEW w,
         w = [pos |-> pos, values |-> values, ranges |-> Ranges(S, r), error |-> "none"]
  PROVE  Partly(TakeRange(data, w, flag, size), Align(Len(data)), pos + size, TRUE, values,
                Ranges(S \cup {flag}, r))
<1> DEFINE A == Align(Len(data))
<1> HIDE DEF A
<1>0. A \in Nat
  BY DEF A
<1>1. CASE A - pos < size
  <2>1. TakeRange(data, w, flag, size) = [w EXCEPT !.error = "InvalidData"]
    BY <1>1 DEF TakeRange, Fail, A
  <2>2. pos + size > A
    BY <1>0, <1>1
  <2>3. TakeRange(data, w, flag, size).error = "InvalidData"
    BY <2>1
  <2> QED BY <2>2, <2>3 DEF Partly, A
<1>2. CASE ~(A - pos < size)
  <2>1. TakeRange(data, w, flag, size) =
           [w EXCEPT !.ranges = Put(w.ranges, flag, <<pos, pos + size>>), !.pos = pos + size]
    BY <1>2 DEF TakeRange, A
  <2>2. Put(w.ranges, flag, <<pos, pos + size>>) = Ranges(S \cup {flag}, r)
    BY RangesGrow
  <2>3. TakeRange(data, w, flag, size) =
           [pos |-> pos + size, values |-> values, ranges |-> Ranges(S \cup {flag}, r), error |-> "none"]
    BY <2>1, <2>2
  <2>4. pos + size <= A
    BY <1>0, <1>2
  <2> QED BY <2>3, <2>4 DEF Partly, A
<1> QED BY <1>1, <1>2

Each(formats) == 1 + Has(formats, "Id") + Has(formats, "Lost")
Fixed(formats) == Has(formats, "TotalTimeEnabled") + Has(formats, "TotalTimeRunning")
ReadSize(formats) ==
    IF "Group" \in formats THEN 2 * (1 + Fixed(formats) + ReadCount * Each(formats))
    ELSE 2 * (Fixed(formats) + Each(formats))
ChainSize == 2 * (1 + ReadCount)
RawSize == 4

LEMMA SizesAre ==
  ASSUME NEW formats
  PROVE  /\ Fixed(formats) \in Nat /\ Each(formats) \in Nat /\ ReadCount * Each(formats) \in Nat
         /\ ReadSize(formats) \in Evens /\ ReadSize(formats) \in Nat /\ ReadSize(formats) >= 2
         /\ ChainSize \in Evens /\ ChainSize \in Nat /\ ChainSize >= 2
<1>1. \A flag : Has(formats, flag) \in {0, 1}
  BY DEF Has
<1>2. Fixed(formats) \in Nat /\ Each(formats) \in Nat \ {0}
  BY <1>1 DEF Fixed, Each
<1>3. ReadCount * Each(formats) \in Nat /\ ReadCount \in Nat
  BY <1>2, CountsAssumption
<1>4. ReadSize(formats) \in Evens /\ ReadSize(formats) \in Nat /\ ReadSize(formats) >= 2
  <2> DEFINE m == ReadCount * Each(formats)
             h == 1 + Fixed(formats) + m
             l == Fixed(formats) + Each(formats)
  <2>1. m \in Nat
    BY <1>3
  <2> HIDE DEF m
  <2>2. h \in Nat /\ l \in Nat /\ h >= 1 /\ l >= 1
    BY <1>2, <2>1
  <2>3. ReadSize(formats) = 2 * h \/ ReadSize(formats) = 2 * l
    BY DEF ReadSize, m
  <2> HIDE DEF h, l
  <2> QED BY <2>2, <2>3 DEF Evens
<1>5. ChainSize \in Evens /\ ChainSize \in Nat /\ ChainSize >= 2
  BY <1>3 DEF ChainSize, Evens
<1> QED BY <1>2, <1>3, <1>4, <1>5

(* Where the walk stands at the end of the data, or a word is still there. *)
LEMMA EndOrWord ==
  ASSUME NEW n \in Nat, NEW pos \in Evens, pos <= Align(n)
  PROVE  pos \in Nat /\ Align(n) \in Nat /\ Align(n) <= n /\ (pos # Align(n) => pos + 2 <= Align(n))
<1>1. Align(n) \in Nat /\ Align(n) <= n /\ Align(n) \in Evens
  BY AlignIs DEF Evens
<1>2. PICK a \in Nat : Align(n) = 2 * a
  BY <1>1 DEF Evens
<1>3. PICK b \in Nat : pos = 2 * b
  BY DEF Evens
<1> QED BY <1>1, <1>2, <1>3

LEMMA ReadWalked ==
  ASSUME NEW data, Len(data) \in Nat, NEW pos \in Evens, pos <= Align(Len(data)),
         NEW values, NEW r, NEW formats,
         r["Read"] = <<pos, pos + ReadSize(formats)>>,
         "Group" \in formats /\ pos + 2 <= Len(data) => ReadU64(data, pos) = ReadCount,
         NEW w, w = [pos |-> pos, values |-> values, ranges |-> Ranges({}, r), error |-> "none"]
  PROVE  Partly(WalkRead(data, formats, w), Align(Len(data)), pos + ReadSize(formats),
                formats \subseteq ReadFormats, values, Ranges({"Read"}, r))
<1> DEFINE A == Align(Len(data))
           size == ReadSize(formats)
<1>1. pos \in Nat /\ A \in Nat /\ A <= Len(data) /\ (pos # A => pos + 2 <= A)
  BY EndOrWord
<1>2. size \in Nat /\ size >= 2
  BY SizesAre
<1>3. {} \cup {"Read"} = {"Read"}
  OBVIOUS
<1>4. Partly(TakeRange(data, w, "Read", size), A, pos + size, TRUE, values, Ranges({"Read"}, r))
  BY <1>1, <1>2, <1>3, RangeTaken
<1>5. CASE ~(formats \subseteq ReadFormats)
  <2>1. WalkRead(data, formats, w) = [w EXCEPT !.error = "NotSupported"]
    BY <1>5 DEF WalkRead, Fail
  <2>2. WalkRead(data, formats, w).error = "NotSupported"
    BY <2>1
  <2> QED BY <1>5, <2>2 DEF Partly
<1>6. CASE formats \subseteq ReadFormats /\ "Group" \notin formats
  <2>1. WalkRead(data, formats, w) = TakeRange(data, w, "Read", size)
    BY <1>6 DEF WalkRead, ReadSize, Fixed, Each, U64_SIZE
  <2> QED BY <1>4, <1>6, <2>1 DEF Partly
<1>7. CASE formats \subseteq ReadFormats /\ "Group" \in formats /\ pos = A
  <2>1. WalkRead(data, formats, w) = [w EXCEPT !.error = "InvalidData"]
    BY <1>7 DEF WalkRead, Fail
  <2>2. WalkRead(data, formats, w).error = "InvalidData"
    BY <2>1
  <2>3. pos + size > A
    BY <1>1, <1>2, <1>7
  <2> QED BY <2>2, <2>3 DEF Partly
<1>8. CASE formats \subseteq ReadFormats /\ "Group" \in formats /\ pos # A
  <2>1. ReadU64(data, pos) = ReadCount
    BY <1>1, <1>8
  <2>2. WalkRead(data, formats, w) =
           TakeRange(data, w, "Read",
                     U64_SIZE * (1 + Fixed(formats) + ReadU64(data, pos) * Each(formats)))
    BY <1>8 DEF WalkRead, Fixed, Each
  <2>3. U64_SIZE * (1 + Fixed(formats) + ReadU64(data, pos) * Each(formats)) = size
    BY <1>8, <2>1 DEF ReadSize, U64_SIZE
  <2>4. WalkRead(data, formats, w) = TakeRange(data, w, "Read", size)
    BY ONLY <2>2, <2>3
  <2> QED BY <1>4, <1>8, <2>4 DEF Partly
<1> QED BY <1>5, <1>6, <1>7, <1>8

LEMMA CallchainWalked ==
  ASSUME NEW data, Len(data) \in Nat, NEW pos \in Evens, pos <= Align(Len(data)),
         NEW values, NEW S, NEW r,
         r["Callchain"] = <<pos, pos + ChainSize>>,
         pos + 2 <= Len(data) => ReadU64(data, pos) = ReadCount,
         NEW w, w = [pos |-> pos, values |-> values, ranges |-> Ranges(S, r), error |-> "none"]
  PROVE  Partly(WalkCallchain(data, w), Align(Len(data)), pos + ChainSize, TRUE, values,
                Ranges(S \cup {"Callchain"}, r))
<1> DEFINE A == Align(Len(data))
<1>1. pos \in Nat /\ A \in Nat /\ A <= Len(data) /\ (pos # A => pos + 2 <= A)
  BY EndOrWord
<1>2. ChainSize \in Nat /\ ChainSize >= 2
  BY SizesAre
<1>3. CASE pos = A
  <2>1. WalkCallchain(data, w) = [w EXCEPT !.error = "InvalidData"]
    BY <1>3 DEF WalkCallchain, Fail
  <2>2. WalkCallchain(data, w).error = "InvalidData"
    BY <2>1
  <2>3. pos + ChainSize > A
    BY <1>1, <1>2, <1>3
  <2> QED BY <2>2, <2>3 DEF Partly
<1>4. CASE pos # A
  <2>1. ReadU64(data, pos) = ReadCount
    BY <1>1, <1>4
  <2>2. WalkCallchain(data, w) = TakeRange(data, w, "Callchain", ChainSize)
    BY <1>4, <2>1 DEF WalkCallchain, ChainSize, U64_SIZE
  <2>3. Partly(TakeRange(data, w, "Callchain", ChainSize), A, pos + ChainSize, TRUE, values,
               Ranges(S \cup {"Callchain"}, r))
    BY <1>1, <1>2, RangeTaken
  <2> QED BY ONLY <2>2, <2>3, Zenon
<1> QED BY <1>3, <1>4

LEMMA RawWalked ==
  ASSUME NEW data, Len(data) \in Nat, NEW pos \in Evens, pos <= Align(Len(data)),
         NEW values, NEW S, NEW r,
         r["Raw"] = <<pos + 1, pos + 3>>,
         pos + 1 <= Len(data) => data[pos + 1] = 2,
         NEW w, w = [pos |-> pos, values |-> values, ranges |-> Ranges(S, r), error |-> "none"]
  PROVE  Partly(WalkRaw(data, w), Align(Len(data)), pos + RawSize, TRUE, values,
                Ranges(S \cup {"Raw"}, r))
<1> DEFINE A == Align(Len(data))
<1>1. pos \in Nat /\ A \in Nat /\ A <= Len(data) /\ (pos # A => pos + 2 <= A)
  BY EndOrWord
<1>2. pos + 4 <= A \/ pos = A \/ pos + 2 = A
  <2>1. A \in Evens
    BY AlignIs DEF Evens
  <2>2. PICK a \in Nat : A = 2 * a
    BY <2>1 DEF Evens
  <2>3. PICK b \in Nat : pos = 2 * b
    BY DEF Evens
  <2> QED BY <2>2, <2>3
<1>3. pos # A => data[pos + 1] = 2
  BY <1>1
<1>4. CASE pos = A \/ pos + 2 = A
  <2>1. pos = A \/ ReadU32(data, pos) > A - pos - U32_SIZE
    BY <1>1, <1>3, <1>4 DEF ReadU32, U32_SIZE
  <2>2. WalkRaw(data, w) = [w EXCEPT !.error = "InvalidData"]
    BY <2>1 DEF WalkRaw, Fail
  <2>3. WalkRaw(data, w).error = "InvalidData"
    BY <2>2
  <2>4. pos + RawSize > A
    BY <1>1, <1>4 DEF RawSize
  <2> QED BY <2>3, <2>4 DEF Partly
<1>5. CASE pos + 4 <= A
  <2>1. pos # A /\ ReadU32(data, pos) = 2 /\ ~(2 > A - pos - 1)
    BY <1>1, <1>3, <1>5 DEF ReadU32
  <2>2. Align(U32_SIZE + 2 + U64_SIZE - 1) = 4
    BY DEF Align, U32_SIZE, U64_SIZE
  <2>3. pos + U32_SIZE = pos + 1 /\ pos + 1 + 2 = pos + 3
    BY <1>1 DEF U32_SIZE
  <2>4. WalkRaw(data, w) =
           [w EXCEPT !.ranges = Put(w.ranges, "Raw", <<pos + 1, pos + 3>>), !.pos = pos + 4]
    BY <2>1, <2>2, <2>3 DEF WalkRaw, U32_SIZE
  <2>5. Put(w.ranges, "Raw", <<pos + 1, pos + 3>>) = Ranges(S \cup {"Raw"}, r)
    BY RangesGrow
  <2>6. WalkRaw(data, w) =
           [pos |-> pos + 4, values |-> values, ranges |-> Ranges(S \cup {"Raw"}, r), error |-> "none"]
    BY <2>4, <2>5
  <2> QED BY <1>5, <2>6 DEF Partly, RawSize
<1> QED BY <1>2, <1>4, <1>5

-----------------------------------------------------------------------------
(* A sample as the kernel writes it: the header, the words, the parts.     *)
LEMMA WordLeft ==
  ASSUME NEW s \in Seq(Nat), NEW t \in Seq(Nat), NEW pos \in Nat, NEW v,
         pos + 2 <= Len(s), WordIs(s, pos, v)
  PROVE  WordIs(s \o t, pos, v)
<1>1. Len(s) \in Nat
  BY SeqIs
<1>2. pos + 1 \in 1 .. Len(s) /\ pos + 2 \in 1 .. Len(s)
  BY <1>1
<1>3. (s \o t)[pos + 1] = s[pos + 1] /\ (s \o t)[pos + 2] = s[pos + 2]
  BY <1>2, CatIs
<1> QED BY ONLY <1>3, WordIs(s, pos, v), Zenon DEF WordIs

LEMMA WordRight ==
  ASSUME NEW s \in Seq(Nat), NEW t \in Seq(Nat), NEW pos \in Nat, NEW v,
         pos + 2 <= Len(t), WordIs(t, pos, v)
  PROVE  WordIs(s \o t, Len(s) + pos, v)
<1>1. Len(s) \in Nat /\ Len(t) \in Nat
  BY SeqIs
<1>2. pos + 1 \in 1 .. Len(t) /\ pos + 2 \in 1 .. Len(t)
  BY <1>1
<1>3. Len(s) + (pos + 1) = (Len(s) + pos) + 1 /\ Len(s) + (pos + 2) = (Len(s) + pos) + 2
  BY <1>1
<1>4. (s \o t)[Len(s) + (pos + 1)] = t[pos + 1] /\ (s \o t)[Len(s) + (pos + 2)] = t[pos + 2]
  BY <1>2, CatIs
<1> QED BY ONLY <1>3, <1>4, WordIs(t, pos, v), Zenon DEF WordIs

LEMMA ZerosAre ==
  ASSUME NEW n \in Nat
  PROVE  Zeros(n) \in Seq(Nat) /\ Len(Zeros(n)) = n
BY DEF Zeros

(* A word with zeros behind it.                                            *)
LEMMA WordThenZeros ==
  ASSUME NEW v \in Nat, NEW n \in Nat
  PROVE  /\ Word(v) \o Zeros(n) \in Seq(Nat) /\ Len(Word(v) \o Zeros(n)) = 2 + n
         /\ WordIs(Word(v) \o Zeros(n), 0, v)
<1>1. Word(v) \in Seq(Nat) /\ Len(Word(v)) = 2 /\ WordIs(Word(v), 0, v)
  BY WordType DEF WordIs
<1>2. Zeros(n) \in Seq(Nat) /\ Len(Zeros(n)) = n
  BY ZerosAre
<1> DEFINE a == Word(v)
           b == Zeros(n)
<1> HIDE DEF a, b
<1>3. a \in Seq(Nat) /\ b \in Seq(Nat) /\ Len(a) = 2 /\ Len(b) = n /\ WordIs(a, 0, v)
  BY <1>1, <1>2 DEF a, b
<1>4. a \o b \in Seq(Nat) /\ Len(a \o b) = 2 + n
  <2>1. a \o b \in Seq(Nat) /\ Len(a \o b) = Len(a) + Len(b)
    BY ONLY <1>3, CatIs, ZenonT(60)
  <2> QED BY ONLY <1>3, <2>1, Zenon
<1>5. WordIs(a \o b, 0, v)
  <2>1. 0 \in Nat /\ 0 + 2 <= Len(a)
    BY ONLY <1>3
  <2> QED BY ONLY <1>3, <2>1, WordLeft, Zenon
<1> QED BY <1>4, <1>5 DEF a, b

LEMMA ReadPartIs ==
  ASSUME NEW formats
  PROVE  /\ ReadPart(formats) \in Seq(Nat) /\ Len(ReadPart(formats)) = ReadSize(formats)
         /\ "Group" \in formats => WordIs(ReadPart(formats), 0, ReadCount)
<1> DEFINE m == ReadCount * Each(formats)
           f == Fixed(formats)
           e == Each(formats)
<1>1. f \in Nat /\ e \in Nat /\ m \in Nat /\ ReadCount \in Nat
  BY SizesAre, CountsAssumption
<1>2. ReadPart(formats) = IF "Group" \in formats THEN Word(ReadCount) \o Zeros(2 * (f + m))
                          ELSE Zeros(2 * (f + e))
  BY DEF ReadPart, Fixed, Each, U64_SIZE
<1>3. ReadSize(formats) = IF "Group" \in formats THEN 2 * (1 + f + m) ELSE 2 * (f + e)
  BY DEF ReadSize
<1> HIDE DEF m, f, e
<1>4. 2 * (f + m) \in Nat /\ 2 * (f + e) \in Nat /\ 2 + 2 * (f + m) = 2 * (1 + f + m)
  BY <1>1
<1>5. CASE "Group" \in formats
  BY <1>1, <1>2, <1>3, <1>4, <1>5, WordThenZeros
<1>6. CASE "Group" \notin formats
  BY <1>2, <1>3, <1>4, <1>6, ZerosAre
<1> QED BY <1>5, <1>6

LEMMA CallchainPartIs ==
  /\ CallchainPart \in Seq(Nat) /\ Len(CallchainPart) = ChainSize
  /\ WordIs(CallchainPart, 0, ReadCount)
<1>1. ReadCount \in Nat
  BY CountsAssumption
<1>2. 2 * ReadCount \in Nat /\ 2 + 2 * ReadCount = ChainSize
  BY <1>1 DEF ChainSize
<1>3. CallchainPart = Word(ReadCount) \o Zeros(2 * ReadCount)
  BY DEF CallchainPart, U64_SIZE
<1> QED BY <1>1, <1>2, <1>3, WordThenZeros

LEMMA RawPartIs ==
  RawPart \in Seq(Nat) /\ Len(RawPart) = RawSize /\ RawPart[1] = 2
<1>1. <<2>> \in Seq(Nat) /\ Len(<<2>>) = 1 /\ <<2>>[1] = 2
  OBVIOUS
<1>2. Zeros(3) \in Seq(Nat) /\ Len(Zeros(3)) = 3
  BY ZerosAre
<1> DEFINE a == <<2>>
           b == Zeros(3)
<1> HIDE DEF a, b
<1>3. a \in Seq(Nat) /\ b \in Seq(Nat) /\ Len(a) = 1 /\ Len(b) = 3 /\ a[1] = 2
  BY <1>1, <1>2 DEF a, b
<1>4. a \o b \in Seq(Nat) /\ Len(a \o b) = 4 /\ (a \o b)[1] = 2
  <2>1. /\ a \o b \in Seq(Nat) /\ Len(a \o b) = Len(a) + Len(b)
        /\ \A j \in 1 .. Len(a) : (a \o b)[j] = a[j]
    BY ONLY <1>3, CatIs, ZenonT(60)
  <2>2. 1 \in 1 .. Len(a) /\ Len(a) + Len(b) = 4
    BY ONLY <1>3
  <2> QED BY ONLY <1>3, <2>1, <2>2, Zenon
<1> QED BY <1>4 DEF RawPart, RawSize, a, b

LEMMA CatRight ==
  ASSUME NEW s \in Seq(Nat), NEW t \in Seq(Nat), NEW j \in 1 .. Len(t)
  PROVE  (s \o t)[Len(s) + j] = t[j]
BY CatIs

InOrder(D, H, W, R, C, Q) ==
    /\ D \in Seq(Nat) /\ Len(D) = 2 + Len(W) + Len(R) + Len(C) + Len(Q)
    /\ D[1] = H[1]
    /\ \A x : \A pos \in Nat : pos + 2 <= Len(W) /\ WordIs(W, pos, x) => WordIs(D, 2 + pos, x)
    /\ \A x : 2 <= Len(R) /\ WordIs(R, 0, x) => WordIs(D, 2 + Len(W), x)
    /\ \A x : 2 <= Len(C) /\ WordIs(C, 0, x) => WordIs(D, 2 + Len(W) + Len(R), x)
    /\ 1 <= Len(Q) => D[2 + Len(W) + Len(R) + Len(C) + 1] = Q[1]

LEMMA SampleJoined ==
  ASSUME NEW H \in Seq(Nat), Len(H) = 2, NEW W \in Seq(Nat), NEW R \in Seq(Nat),
         NEW C \in Seq(Nat), NEW Q \in Seq(Nat), NEW D, D = H \o (W \o ((R \o C) \o Q))
  PROVE  InOrder(D, H, W, R, C, Q)
<1> DEFINE RC == R \o C
           T == RC \o Q
           B == W \o T
<1>1. RC \in Seq(Nat) /\ Len(RC) = Len(R) + Len(C)
  BY ONLY R \in Seq(Nat), C \in Seq(Nat), CatIs, ZenonT(60)
<1> HIDE DEF RC
<1>2. T \in Seq(Nat) /\ Len(T) = Len(RC) + Len(Q)
  BY ONLY <1>1, Q \in Seq(Nat), CatIs, ZenonT(60)
<1> HIDE DEF T
<1>3. B \in Seq(Nat) /\ Len(B) = Len(W) + Len(T)
  BY <1>2, CatIs, ZenonT(60)
<1> HIDE DEF B
<1>4. D = H \o B
  BY DEF B, T, RC
<1>5. D \in Seq(Nat) /\ Len(D) = Len(H) + Len(B) /\ \A j \in 1 .. Len(H) : D[j] = H[j]
  <2>1. /\ H \o B \in Seq(Nat) /\ Len(H \o B) = Len(H) + Len(B)
        /\ \A j \in 1 .. Len(H) : (H \o B)[j] = H[j]
    <3>1. B \in Seq(Nat)
      BY ONLY <1>3, Zenon
    <3> QED BY ONLY <3>1, H \in Seq(Nat), CatIs, ZenonT(60)
  <2> QED BY ONLY <1>4, <2>1, Zenon
<1>6. Len(W) \in Nat /\ Len(R) \in Nat /\ Len(C) \in Nat /\ Len(Q) \in Nat
  BY SeqIs, Zenon
<1>7. Len(D) = 2 + Len(W) + Len(R) + Len(C) + Len(Q)
  BY ONLY <1>1, <1>2, <1>3, <1>5, <1>6, Len(H) = 2
<1>8. D[1] = H[1]
  <2>1. 1 \in 1 .. Len(H)
    OBVIOUS
  <2> QED BY ONLY <1>5, <2>1, Zenon
<1>9. ASSUME NEW pos \in Nat, NEW x, pos + 2 <= Len(B), WordIs(B, pos, x)
      PROVE  WordIs(D, 2 + pos, x)
  <2>1. WordIs(H \o B, Len(H) + pos, x)
    BY ONLY <1>3, <1>9, H \in Seq(Nat), pos \in Nat, WordRight, Zenon
  <2> QED BY ONLY <1>4, <2>1, Len(H) = 2, Zenon
<1>10. ASSUME NEW pos \in Nat, NEW x, pos + 2 <= Len(W), WordIs(W, pos, x)
       PROVE  WordIs(D, 2 + pos, x)
  <2>1. WordIs(B, pos, x)
    BY ONLY <1>2, <1>10, W \in Seq(Nat), pos \in Nat, WordLeft, Zenon DEF B
  <2>2. pos + 2 <= Len(B)
    BY ONLY <1>1, <1>2, <1>3, <1>6, <1>10, pos \in Nat
  <2> QED BY ONLY <1>9, <2>1, <2>2, pos \in Nat, Zenon
<1>11. ASSUME NEW pos \in Nat, NEW x, pos + 2 <= Len(RC), WordIs(RC, pos, x)
       PROVE  WordIs(D, 2 + Len(W) + pos, x)
  <2>1. WordIs(T, pos, x)
    BY ONLY <1>1, <1>11, Q \in Seq(Nat), pos \in Nat, WordLeft, Zenon DEF T
  <2>2. pos + 2 <= Len(T) /\ Len(W) + pos \in Nat /\ Len(W) + pos + 2 <= Len(B)
        /\ 2 + (Len(W) + pos) = 2 + Len(W) + pos
    <3> DEFINE w == Len(W)
               rc == Len(RC)
               q == Len(Q)
               b == Len(B)
               l == Len(T)
    <3>0. Len(RC) \in Nat
      BY ONLY <1>1, <1>6
    <3>1. w \in Nat /\ rc \in Nat /\ q \in Nat /\ l = rc + q /\ b = w + l /\ pos + 2 <= rc
      BY ONLY <1>2, <1>3, <1>6, <1>11, <3>0, Zenon
    <3> HIDE DEF w, rc, q, b, l
    <3>2. pos + 2 <= l /\ w + pos \in Nat /\ w + pos + 2 <= b /\ 2 + (w + pos) = 2 + w + pos
      BY ONLY <3>1, pos \in Nat
    <3> QED BY ONLY <3>2, Zenon DEF w, rc, q, b, l
  <2>3. WordIs(B, Len(W) + pos, x)
    BY ONLY <1>2, <2>1, <2>2, W \in Seq(Nat), pos \in Nat, WordRight, Zenon DEF B
  <2>4. WordIs(D, 2 + (Len(W) + pos), x)
    BY ONLY <1>9, <2>2, <2>3, Zenon
  <2> QED BY ONLY <2>2, <2>4, Zenon
<1>12. ASSUME NEW x, 2 <= Len(R), WordIs(R, 0, x) PROVE WordIs(D, 2 + Len(W), x)
  <2>1. 0 \in Nat /\ 0 + 2 <= Len(R) /\ 0 + 2 <= Len(RC) /\ 2 + Len(W) + 0 = 2 + Len(W)
    BY ONLY <1>1, <1>6, <1>12
  <2>2. WordIs(RC, 0, x)
    BY ONLY <1>12, <2>1, R \in Seq(Nat), C \in Seq(Nat), WordLeft, Zenon DEF RC
  <2>3. WordIs(D, 2 + Len(W) + 0, x)
    BY ONLY <1>11, <2>1, <2>2, Zenon
  <2> QED BY ONLY <2>1, <2>3, Zenon
<1>13. ASSUME NEW x, 2 <= Len(C), WordIs(C, 0, x) PROVE WordIs(D, 2 + Len(W) + Len(R), x)
  <2>1. 0 \in Nat /\ 0 + 2 <= Len(C) /\ Len(R) + 2 <= Len(RC) /\ Len(R) + 0 = Len(R)
    BY ONLY <1>1, <1>6, <1>13
  <2>2. WordIs(RC, Len(R) + 0, x)
    BY ONLY <1>13, <2>1, R \in Seq(Nat), C \in Seq(Nat), WordRight, Zenon DEF RC
  <2> QED BY ONLY <1>6, <1>11, <2>1, <2>2, Zenon
<1>14. ASSUME 1 <= Len(Q) PROVE D[2 + Len(W) + Len(R) + Len(C) + 1] = Q[1]
  <2>1. /\ 1 \in 1 .. Len(Q) /\ Len(RC) + 1 \in 1 .. Len(T)
        /\ Len(W) + (Len(RC) + 1) \in 1 .. Len(B)
        /\ Len(H) + (Len(W) + (Len(RC) + 1)) = 2 + Len(W) + Len(R) + Len(C) + 1
    <3> DEFINE w == Len(W)
               r == Len(R)
               c == Len(C)
               q == Len(Q)
               b == Len(B)
               l == Len(T)
               rc == Len(RC)
               hh == Len(H)
    <3>1. w \in Nat /\ r \in Nat /\ c \in Nat /\ q \in Nat /\ rc = r + c /\ l = rc + q
          /\ b = w + l /\ hh = 2 /\ 1 <= q
      BY ONLY <1>1, <1>2, <1>3, <1>6, <1>14, Len(H) = 2, Zenon
    <3> HIDE DEF w, r, c, q, b, l, rc, hh
    <3>2. /\ 1 \in 1 .. q /\ rc + 1 \in 1 .. l /\ w + (rc + 1) \in 1 .. b
          /\ hh + (w + (rc + 1)) = 2 + w + r + c + 1
      BY ONLY <3>1
    <3> QED BY ONLY <3>2, Zenon DEF w, r, c, q, b, l, rc, hh
  <2>2. T[Len(RC) + 1] = Q[1]
    BY ONLY <1>1, <2>1, Q \in Seq(Nat), CatRight, Zenon DEF T
  <2>3. B[Len(W) + (Len(RC) + 1)] = T[Len(RC) + 1]
    BY ONLY <1>2, <2>1, W \in Seq(Nat), CatRight, Zenon DEF B
  <2>4. D[Len(H) + (Len(W) + (Len(RC) + 1))] = B[Len(W) + (Len(RC) + 1)]
    BY ONLY <1>3, <1>4, <2>1, H \in Seq(Nat), CatRight, Zenon
  <2> QED BY ONLY <2>1, <2>2, <2>3, <2>4, Zenon
<1> QED BY ONLY <1>5, <1>7, <1>8, <1>10, <1>12, <1>13, <1>14, Zenon DEF InOrder

LEMMA HeaderIs ==
  ASSUME NEW type \in Nat, NEW n \in Nat
  PROVE  <<type, n>> \in Seq(Nat) /\ Len(<<type, n>>) = 2 /\ <<type, n>>[1] = type
OBVIOUS

(* What follows the words starts at PartsAt; a part the attr does not ask  *)
(* for has no size.                                                        *)
PartsAt(p) == 2 + p[Len(SampleFields)]
ChainAt(p, attr) ==
    PartsAt(p) + IF "Read" \in attr.sample_type THEN ReadSize(attr.read_format) ELSE 0
RawAt(p, attr) == ChainAt(p, attr) + IF "Callchain" \in attr.sample_type THEN ChainSize ELSE 0
EndAt(p, attr) == RawAt(p, attr) + IF "Raw" \in attr.sample_type THEN RawSize ELSE 0

SampleLaid(D, p, attr, v) ==
    /\ D \in Seq(Nat) /\ Len(D) = EndAt(p, attr) /\ D[1] = SampleType
    /\ \A k \in 1 .. Len(SampleFields) :
          SampleFields[k] \in attr.sample_type => WordIs(D, 2 + p[k - 1], v[SampleFields[k]])
    /\ "Read" \in attr.sample_type /\ "Group" \in attr.read_format => WordIs(D, PartsAt(p), ReadCount)
    /\ "Callchain" \in attr.sample_type => WordIs(D, ChainAt(p, attr), ReadCount)
    /\ "Raw" \in attr.sample_type => D[RawAt(p, attr) + 1] = 2

LEMMA FieldValuesAre ==
  ASSUME NEW id \in Nat
  PROVE  /\ \A k \in 1 .. Len(SampleFields) : FieldValue(id)[SampleFields[k]] \in Nat
         /\ SampleFields \in Seq(Flags)
         /\ FieldValue(id)["Identifier"] = id /\ FieldValue(id)["Id"] = id
         /\ FieldValue(id)["Time"] = 14 /\ FieldValue(id).Time = 14
<1>1. SampleFields \in Seq(Flags)
  BY DEF SampleFields, Flags
<1>2. \A f \in {"Identifier", "IP", "Tid", "Time", "Addr", "Id", "StreamId", "Cpu", "Period"} :
         FieldValue(id)[f] \in Nat
  BY DEF FieldValue, UnitRange
<1>3. \A k \in 1 .. Len(SampleFields) : SampleFields[k] \in
         {"Identifier", "IP", "Tid", "Time", "Addr", "Id", "StreamId", "Cpu", "Period"}
  BY DEF SampleFields
<1>4. FieldValue(id)["Identifier"] = id /\ FieldValue(id)["Id"] = id
      /\ FieldValue(id)["Time"] = 14 /\ FieldValue(id).Time = 14
  BY DEF FieldValue
<1> QED BY <1>1, <1>2, <1>3, <1>4

LEMMA KernelSampleLaid ==
  ASSUME NEW id \in Nat
  PROVE  \E p : /\ Laid(p, Words(SampleFields, trace[id].sample_type, id), trace[id].sample_type,
                        SampleFields, FieldValue(id))
                /\ SampleLaid(KernelSample(id), p, trace[id], FieldValue(id))
<1> DEFINE attr == trace[id]
           st == attr.sample_type
           v == FieldValue(id)
           W == Words(SampleFields, st, id)
           R == IF "Read" \in st THEN ReadPart(attr.read_format) ELSE <<>>
           C == IF "Callchain" \in st THEN CallchainPart ELSE <<>>
           Q == IF "Raw" \in st THEN RawPart ELSE <<>>
           body == W \o ((R \o C) \o Q)
           H == <<SampleType, Len(body) + 2>>
           D == H \o body
<1>1. PICK p : Laid(p, W, st, SampleFields, v)
  BY FieldValuesAre, WordsLaidOut
<1>2. KernelSample(id) = D
  BY DEF KernelSample, WithHeader, PartsAfter
<1>3. W \in Seq(Nat) /\ Len(W) = p[Len(SampleFields)] /\ Len(W) \in Nat
  BY <1>1, SeqIs DEF Laid
<1>4. /\ R \in Seq(Nat) /\ Len(R) = IF "Read" \in st THEN ReadSize(attr.read_format) ELSE 0
      /\ "Read" \in st /\ "Group" \in attr.read_format => 2 <= Len(R) /\ WordIs(R, 0, ReadCount)
  BY ReadPartIs, SizesAre, EmptyIs
<1>5. /\ C \in Seq(Nat) /\ Len(C) = IF "Callchain" \in st THEN ChainSize ELSE 0
      /\ "Callchain" \in st => 2 <= Len(C) /\ WordIs(C, 0, ReadCount)
  BY CallchainPartIs, SizesAre, EmptyIs
<1>6. /\ Q \in Seq(Nat) /\ Len(Q) = IF "Raw" \in st THEN RawSize ELSE 0
      /\ "Raw" \in st => 1 <= Len(Q) /\ Q[1] = 2
  <2>1. RawSize >= 1
    BY DEF RawSize
  <2> QED BY <2>1, RawPartIs, EmptyIs
<1> HIDE DEF W, R, C, Q
<1>7. body \in Seq(Nat) /\ Len(body) \in Nat
  <2>1. R \o C \in Seq(Nat)
    BY ONLY <1>4, <1>5, CatIs, ZenonT(60)
  <2>2. (R \o C) \o Q \in Seq(Nat)
    BY ONLY <1>6, <2>1, CatIs, ZenonT(60)
  <2>3. body \in Seq(Nat)
    BY ONLY <1>3, <2>2, CatIs, ZenonT(60)
  <2> QED BY ONLY <2>3, SeqIs, Zenon
<1> HIDE DEF body
<1>8. H \in Seq(Nat) /\ Len(H) = 2 /\ H[1] = SampleType
  <2>1. SampleType \in Nat /\ Len(body) + 2 \in Nat
    BY ONLY <1>7 DEF SampleType
  <2> QED BY ONLY <2>1, HeaderIs, Zenon
<1> HIDE DEF H
<1>9. /\ D \in Seq(Nat) /\ Len(D) = 2 + Len(W) + Len(R) + Len(C) + Len(Q)
      /\ D[1] = H[1]
      /\ \A x : \A pos \in Nat : pos + 2 <= Len(W) /\ WordIs(W, pos, x) => WordIs(D, 2 + pos, x)
      /\ \A x : 2 <= Len(R) /\ WordIs(R, 0, x) => WordIs(D, 2 + Len(W), x)
      /\ \A x : 2 <= Len(C) /\ WordIs(C, 0, x) => WordIs(D, 2 + Len(W) + Len(R), x)
      /\ 1 <= Len(Q) => D[2 + Len(W) + Len(R) + Len(C) + 1] = Q[1]
  <2>1. D = H \o (W \o ((R \o C) \o Q))
    BY DEF body
  <2> HIDE DEF D
  <2>2. H \in Seq(Nat) /\ W \in Seq(Nat) /\ R \in Seq(Nat) /\ C \in Seq(Nat) /\ Q \in Seq(Nat)
        /\ Len(H) = 2
    BY ONLY <1>3, <1>4, <1>5, <1>6, <1>8, Zenon
  <2>3. InOrder(D, H, W, R, C, Q)
    BY ONLY <2>1, <2>2, SampleJoined, Zenon
  <2> QED BY ONLY <2>3, Zenon DEF InOrder
<1> HIDE DEF D
<1>10. /\ PartsAt(p) = 2 + Len(W) /\ ChainAt(p, attr) = 2 + Len(W) + Len(R)
       /\ RawAt(p, attr) = 2 + Len(W) + Len(R) + Len(C)
       /\ EndAt(p, attr) = 2 + Len(W) + Len(R) + Len(C) + Len(Q)
  BY ONLY <1>3, <1>4, <1>5, <1>6, Zenon DEF PartsAt, ChainAt, RawAt, EndAt
<1>11. ASSUME NEW k \in 1 .. Len(SampleFields), SampleFields[k] \in st
       PROVE  WordIs(D, 2 + p[k - 1], v[SampleFields[k]])
  <2>1. k - 1 \in 0 .. Len(SampleFields)
    BY DEF SampleFields
  <2>2. p[k - 1] \in Nat /\ p[k - 1] + 2 <= Len(W) /\ WordIs(W, p[k - 1], v[SampleFields[k]])
    BY ONLY <1>1, <1>11, <2>1, k \in 1 .. Len(SampleFields), Zenon DEF Laid, Places
  <2> QED BY ONLY <1>9, <2>2, Zenon
<1>12. SampleLaid(D, p, attr, v)
  <2>1. D \in Seq(Nat) /\ Len(D) = EndAt(p, attr) /\ D[1] = SampleType
    BY ONLY <1>8, <1>9, <1>10, Zenon
  <2>2. "Read" \in st /\ "Group" \in attr.read_format => WordIs(D, PartsAt(p), ReadCount)
    BY ONLY <1>4, <1>9, <1>10, Zenon
  <2>3. "Callchain" \in st => WordIs(D, ChainAt(p, attr), ReadCount)
    BY ONLY <1>5, <1>9, <1>10, Zenon
  <2>4. "Raw" \in st => D[RawAt(p, attr) + 1] = 2
    BY ONLY <1>6, <1>9, <1>10, Zenon
  <2> QED BY ONLY <1>11, <2>1, <2>2, <2>3, <2>4, Zenon DEF SampleLaid
<1> QED BY ONLY <1>1, <1>2, <1>12, Zenon DEF W

-----------------------------------------------------------------------------
(* The walk over a sample of which n units are there.                      *)
LEMMA CutIs ==
  ASSUME NEW D \in Seq(Nat), NEW n \in 2 .. Len(D)
  PROVE  /\ Len(SubSeq(D, 1, n)) = n /\ n \in Nat /\ n >= 2 /\ n <= Len(D)
         /\ \A j \in 1 .. n : SubSeq(D, 1, n)[j] = D[j]
         /\ n = Len(D) => SubSeq(D, 1, n) = D
<1>1. Len(D) \in Nat
  OBVIOUS
<1>2. n \in Nat /\ n >= 2 /\ n <= Len(D)
  BY <1>1
<1>3. Len(SubSeq(D, 1, n)) = n /\ \A j \in 1 .. n : SubSeq(D, 1, n)[j] = D[j]
  BY <1>1, <1>2
<1>4. n = Len(D) => SubSeq(D, 1, n) = D
  BY <1>1
<1> QED BY <1>2, <1>3, <1>4

SameUpTo(n, data, D) == \A j \in 1 .. n : data[j] = D[j]

LEMMA WordRead ==
  ASSUME NEW D, NEW data, NEW n \in Nat, SameUpTo(n, data, D),
         NEW pos \in Nat, pos + 2 <= n, NEW x \in Nat, WordIs(D, pos, x)
  PROVE  ReadU64(data, pos) = x
<1>1. pos + 1 \in 1 .. n /\ pos + 2 \in 1 .. n
  OBVIOUS
<1>2. data[pos + 1] = x % UnitRange /\ data[pos + 2] = x \div UnitRange
  BY <1>1 DEF WordIs, SameUpTo
<1> QED BY <1>2, WordType DEF ReadU64

(* One part more, if the attr asks for it and the walk has come so far.    *)
PartReady(st, flag, w, next, A, pos, size, ok, more, values, S, r) ==
    /\ A \in Nat /\ pos \in Nat /\ size \in Nat /\ ok \in BOOLEAN /\ more \in BOOLEAN
    /\ Partly(w, A, pos, ok, values, Ranges(S, r))
    /\ flag \in st /\ pos <= A /\ ok =>
          Partly(next, A, pos + size, more, values, Ranges(S \cup {flag}, r))

LEMMA PartWalked ==
  ASSUME NEW st, NEW flag, NEW w, NEW next, NEW A, NEW pos, NEW size, NEW ok, NEW more,
         NEW values, NEW S, NEW r,
         PartReady(st, flag, w, next, A, pos, size, ok, more, values, S, r)
  PROVE  Partly(IF flag \in st /\ w.error = "none" THEN next ELSE w, A,
                pos + IF flag \in st THEN size ELSE 0, ok /\ (flag \in st => more), values,
                Ranges(S \cup (st \cap {flag}), r))
<1>0. /\ A \in Nat /\ pos \in Nat /\ size \in Nat /\ ok \in BOOLEAN /\ more \in BOOLEAN
      /\ Partly(w, A, pos, ok, values, Ranges(S, r))
      /\ flag \in st /\ pos <= A /\ ok =>
            Partly(next, A, pos + size, more, values, Ranges(S \cup {flag}, r))
  BY DEF PartReady
<1>1. CASE flag \notin st
  <2>1. S \cup (st \cap {flag}) = S /\ pos + 0 = pos
    BY <1>0, <1>1
  <2> QED BY <1>0, <1>1, <2>1
<1>2. CASE flag \in st /\ pos <= A /\ ok
  <2>1. S \cup (st \cap {flag}) = S \cup {flag}
    BY <1>2
  <2>2. w.error = "none"
    BY <1>0, <1>2 DEF Partly
  <2> QED BY <1>0, <1>2, <2>1, <2>2
<1>3. CASE flag \in st /\ ~(pos <= A /\ ok)
  <2>1. w.error # "none"
    BY <1>0, <1>3 DEF Partly
  <2>2. pos + size > A \/ ~ok
    BY <1>0, <1>3
  <2> QED BY <1>0, <1>3, <2>1, <2>2 DEF Partly
<1> QED BY <1>1, <1>2, <1>3

CanTell(attr) == "Read" \in attr.sample_type => attr.read_format \subseteq ReadFormats
PartFlags == {"Read", "Callchain", "Raw"}

LEMMA PlacesOfParts ==
  ASSUME NEW p, NEW attr, Places(p, attr.sample_type, SampleFields)
  PROVE  /\ PartsAt(p) \in Evens /\ ChainAt(p, attr) \in Evens /\ RawAt(p, attr) \in Evens
         /\ EndAt(p, attr) \in Evens
         /\ PartsAt(p) <= ChainAt(p, attr) /\ ChainAt(p, attr) <= RawAt(p, attr)
         /\ RawAt(p, attr) <= EndAt(p, attr)
         /\ PartsAt(p) >= 2
<1>0. \A a, b \in Evens : a + b \in Evens /\ a \in Nat /\ a <= a + b
  <2> SUFFICES ASSUME NEW a \in Evens, NEW b \in Evens
               PROVE a + b \in Evens /\ a \in Nat /\ a <= a + b
    OBVIOUS
  <2>1. PICK x \in Nat : a = 2 * x
    BY DEF Evens
  <2>2. PICK y \in Nat : b = 2 * y
    BY DEF Evens
  <2>3. x + y \in Nat /\ a + b = 2 * (x + y) /\ a \in Nat /\ a <= a + b
    BY <2>1, <2>2
  <2> QED BY <2>3 DEF Evens
<1>1. 0 \in Evens /\ 2 \in Evens /\ RawSize \in Evens
  <2>1. 0 = 2 * 0 /\ 2 = 2 * 1 /\ 4 = 2 * 2
    OBVIOUS
  <2> QED BY <2>1 DEF Evens, RawSize
<1>2. ChainSize \in Evens /\ ReadSize(attr.read_format) \in Evens
  BY SizesAre
<1>3. p[Len(SampleFields)] \in Evens
  <2>1. Len(SampleFields) \in Nat
    BY DEF SampleFields
  <2>2. Len(SampleFields) \in 0 .. Len(SampleFields)
    BY <2>1
  <2> QED BY <2>1, <2>2, PlacesEven
<1>4. PartsAt(p) \in Evens /\ PartsAt(p) >= 2
  BY <1>0, <1>1, <1>3 DEF PartsAt
<1>5. ChainAt(p, attr) \in Evens /\ PartsAt(p) <= ChainAt(p, attr)
  BY <1>0, <1>1, <1>2, <1>4 DEF ChainAt
<1>6. RawAt(p, attr) \in Evens /\ ChainAt(p, attr) <= RawAt(p, attr)
  BY <1>0, <1>1, <1>2, <1>5 DEF RawAt
<1>7. EndAt(p, attr) \in Evens /\ RawAt(p, attr) <= EndAt(p, attr)
  BY <1>0, <1>1, <1>6 DEF EndAt
<1> QED BY <1>4, <1>5, <1>6, <1>7

LEMMA SampleWalked ==
  ASSUME NEW id \in Nat, NEW attr, NEW p, Places(p, attr.sample_type, SampleFields),
         NEW D, SampleLaid(D, p, attr, FieldValue(id)), NEW n \in 2 .. Len(D), NEW r,
         r["Read"] = <<PartsAt(p), PartsAt(p) + ReadSize(attr.read_format)>>,
         r["Callchain"] = <<ChainAt(p, attr), ChainAt(p, attr) + ChainSize>>,
         r["Raw"] = <<RawAt(p, attr) + 1, RawAt(p, attr) + 3>>
  PROVE  Partly(Walk(SubSeq(D, 1, n), attr), Align(n), EndAt(p, attr), CanTell(attr),
                ValuesOf(FieldValue(id), attr.sample_type \cap Firsts(SampleFields, Len(SampleFields))),
                Ranges(attr.sample_type \cap PartFlags, r))
<1> DEFINE data == SubSeq(D, 1, n)
           A == Align(n)
           st == attr.sample_type
           fm == attr.read_format
           v == FieldValue(id)
           V == ValuesOf(v, st \cap Firsts(SampleFields, Len(SampleFields)))
           x0 == WalkWords(data, st)
           x1 == IF "Read" \in st /\ x0.error = "none" THEN WalkRead(data, fm, x0) ELSE x0
           x2 == IF "Callchain" \in st /\ x1.error = "none" THEN WalkCallchain(data, x1) ELSE x1
           x3 == IF "Raw" \in st /\ x2.error = "none" THEN WalkRaw(data, x2) ELSE x2
           b0 == PartsAt(p)
           b1 == ChainAt(p, attr)
           b2 == RawAt(p, attr)
           S1 == {} \cup (st \cap {"Read"})
           S2 == S1 \cup (st \cap {"Callchain"})
           S3 == S2 \cup (st \cap {"Raw"})
           ok == TRUE /\ ("Read" \in st => fm \subseteq ReadFormats)
<1>1. Walk(data, attr) = x3
  BY DEF Walk
<1>2. D \in Seq(Nat)
  BY DEF SampleLaid
<1>3. Len(data) = n /\ n \in Nat /\ n >= 2 /\ SameUpTo(n, data, D)
  BY <1>2, CutIs DEF SameUpTo
<1> HIDE DEF data
<1>4. A \in Nat /\ A <= n /\ A = Align(Len(data))
  BY <1>3, AlignIs
<1>5. /\ b0 \in Evens /\ b1 \in Evens /\ b2 \in Evens
      /\ b0 \in Nat /\ b1 \in Nat /\ b2 \in Nat
  BY PlacesOfParts DEF Evens
<1>6. /\ b1 = b0 + IF "Read" \in st THEN ReadSize(fm) ELSE 0
      /\ b2 = b1 + IF "Callchain" \in st THEN ChainSize ELSE 0
      /\ EndAt(p, attr) = b2 + IF "Raw" \in st THEN RawSize ELSE 0
  BY DEF ChainAt, RawAt, EndAt
<1>7. ReadSize(fm) \in Nat /\ ChainSize \in Nat /\ RawSize \in Nat /\ ReadCount \in Nat
  BY SizesAre, CountsAssumption DEF RawSize
<1>8. /\ "Read" \in st /\ "Group" \in fm => WordIs(D, b0, ReadCount)
      /\ "Callchain" \in st => WordIs(D, b1, ReadCount)
      /\ "Raw" \in st => D[b2 + 1] = 2
  BY DEF SampleLaid
<1>9. Partly(x0, A, b0, TRUE, V, Ranges({}, r))
  <2>1. ASSUME NEW k \in 1 .. Len(SampleFields), SampleFields[k] \in st, 2 + p[k] <= Len(data)
        PROVE  ReadU64(data, 2 + p[k - 1]) = v[SampleFields[k]]
    <3>1. WordIs(D, 2 + p[k - 1], v[SampleFields[k]]) /\ v[SampleFields[k]] \in Nat
      BY <2>1, FieldValuesAre DEF SampleLaid
    <3>2. k - 1 \in 0 .. Len(SampleFields)
      BY DEF SampleFields
    <3>3. p[k - 1] \in Nat /\ p[k] = p[k - 1] + 2
      BY <2>1, <3>2 DEF Places
    <3>4. 2 + p[k - 1] \in Nat /\ (2 + p[k - 1]) + 2 <= n
      BY ONLY <1>3, <2>1, <3>3, SMTT(30)
    <3> DEFINE at == 2 + p[k - 1]
               x == v[SampleFields[k]]
    <3>5. at \in Nat /\ at + 2 <= n /\ x \in Nat /\ WordIs(D, at, x)
      BY ONLY <3>1, <3>4, Zenon
    <3> HIDE DEF at, x
    <3>6. ReadU64(data, at) = x
      BY ONLY <1>3, <3>5, WordRead
    <3> QED BY ONLY <3>6, Zenon DEF at, x
  <2>2. Walked(x0, A, p, st, v, Len(SampleFields))
    BY <1>3, <1>4, <2>1, WordsWalked
  <2>3. <<>> = Ranges({}, r)
    BY NoRanges
  <2> HIDE DEF x0, V, v, A
  <2>4. CASE b0 <= A
    <3>1. x0 = At(b0, V)
      BY <1>4, <1>5, <2>2, <2>4 DEF Walked, PartsAt, V
    <3> QED BY <2>3, <2>4, <3>1 DEF At, Partly
  <2>5. CASE ~(b0 <= A)
    <3>1. x0.error = "InvalidData" /\ b0 > A
      BY <1>4, <1>5, <2>2, <2>5 DEF Walked, PartsAt
    <3> QED BY <3>1 DEF Partly
  <2> QED BY <2>4, <2>5
<1> HIDE DEF x0, V, v, A, b0, b1, b2
<1>10. Partly(x1, A, b1, ok, V, Ranges(S1, r))
  <2>1. ASSUME "Read" \in st, b0 <= A
        PROVE  Partly(WalkRead(data, fm, x0), A, b0 + ReadSize(fm), fm \subseteq ReadFormats, V,
                      Ranges({} \cup {"Read"}, r))
    <3>1. "Group" \in fm /\ b0 + 2 <= Len(data) => ReadU64(data, b0) = ReadCount
      BY <1>3, <1>5, <1>7, <1>8, <2>1, WordRead
    <3>2. x0 = [pos |-> b0, values |-> V, ranges |-> Ranges({}, r), error |-> "none"]
      BY <1>4, <1>5, <1>9, <2>1 DEF Partly
    <3>3. {} \cup {"Read"} = {"Read"}
      OBVIOUS
    <3>4. Len(data) \in Nat /\ b0 <= Align(Len(data)) /\ r["Read"] = <<b0, b0 + ReadSize(fm)>>
      BY <1>3, <1>4, <2>1 DEF b0
    <3>5. Partly(WalkRead(data, fm, x0), Align(Len(data)), b0 + ReadSize(fm),
                 fm \subseteq ReadFormats, V, Ranges({"Read"}, r))
      BY ONLY <1>5, <3>1, <3>2, <3>4, ReadWalked
    <3> QED BY ONLY <1>4, <3>3, <3>5, Zenon
  <2>2. (fm \subseteq ReadFormats) \in BOOLEAN /\ TRUE \in BOOLEAN
    OBVIOUS
  <2>3. Partly(x1, A, b0 + IF "Read" \in st THEN ReadSize(fm) ELSE 0,
               TRUE /\ ("Read" \in st => fm \subseteq ReadFormats), V,
               Ranges({} \cup (st \cap {"Read"}), r))
    <3>1. "Read" \in st /\ b0 <= A /\ TRUE =>
             Partly(WalkRead(data, fm, x0), A, b0 + ReadSize(fm), fm \subseteq ReadFormats, V,
                    Ranges({} \cup {"Read"}, r))
      BY ONLY <2>1, Zenon
    <3>2. PartReady(st, "Read", x0, WalkRead(data, fm, x0), A, b0, ReadSize(fm), TRUE,
                    fm \subseteq ReadFormats, V, {}, r)
      BY ONLY <1>4, <1>5, <1>7, <1>9, <2>2, <3>1, Zenon DEF PartReady
    <3> QED BY ONLY <3>2, PartWalked, Zenon
  <2> QED BY <1>6, <2>3
<1>11. Partly(x2, A, b2, ok /\ ("Callchain" \in st => TRUE), V, Ranges(S2, r))
  <2> HIDE DEF x1, S1, ok
  <2>1. ASSUME "Callchain" \in st, b1 <= A, ok
        PROVE  Partly(WalkCallchain(data, x1), A, b1 + ChainSize, TRUE, V,
                      Ranges(S1 \cup {"Callchain"}, r))
    <3>1. b1 + 2 <= Len(data) => ReadU64(data, b1) = ReadCount
      BY <1>3, <1>5, <1>7, <1>8, <2>1, WordRead
    <3>2. x1 = [pos |-> b1, values |-> V, ranges |-> Ranges(S1, r), error |-> "none"]
      BY <1>4, <1>5, <1>10, <2>1 DEF Partly
    <3>3. Len(data) \in Nat /\ b1 <= Align(Len(data)) /\ r["Callchain"] = <<b1, b1 + ChainSize>>
      BY <1>3, <1>4, <2>1 DEF b1
    <3>4. Partly(WalkCallchain(data, x1), Align(Len(data)), b1 + ChainSize, TRUE, V,
                 Ranges(S1 \cup {"Callchain"}, r))
      BY ONLY <1>5, <3>1, <3>2, <3>3, CallchainWalked
    <3> QED BY ONLY <1>4, <3>4, Zenon
  <2>2. ok \in BOOLEAN /\ TRUE \in BOOLEAN
    BY DEF ok
  <2>3. Partly(x2, A, b1 + IF "Callchain" \in st THEN ChainSize ELSE 0,
               ok /\ ("Callchain" \in st => TRUE), V, Ranges(S1 \cup (st \cap {"Callchain"}), r))
    <3>1. "Callchain" \in st /\ b1 <= A /\ ok =>
             Partly(WalkCallchain(data, x1), A, b1 + ChainSize, TRUE, V,
                    Ranges(S1 \cup {"Callchain"}, r))
      BY ONLY <2>1, Zenon
    <3>2. PartReady(st, "Callchain", x1, WalkCallchain(data, x1), A, b1, ChainSize, ok, TRUE,
                    V, S1, r)
      BY ONLY <1>4, <1>5, <1>7, <1>10, <2>2, <3>1, Zenon DEF PartReady
    <3> QED BY ONLY <3>2, PartWalked, Zenon
  <2> QED BY <1>6, <2>3
<1>12. Partly(x2, A, b2, ok, V, Ranges(S2, r))
  BY <1>11
<1>13. Partly(x3, A, EndAt(p, attr), ok /\ ("Raw" \in st => TRUE), V, Ranges(S3, r))
  <2> HIDE DEF x2, S2, ok
  <2>1. ASSUME "Raw" \in st, b2 <= A, ok
        PROVE  Partly(WalkRaw(data, x2), A, b2 + RawSize, TRUE, V, Ranges(S2 \cup {"Raw"}, r))
    <3>1. b2 + 1 <= Len(data) => data[b2 + 1] = 2
      BY <1>3, <1>5, <1>8, <2>1 DEF SameUpTo
    <3>2. x2 = [pos |-> b2, values |-> V, ranges |-> Ranges(S2, r), error |-> "none"]
      BY <1>4, <1>5, <1>12, <2>1 DEF Partly
    <3>3. Len(data) \in Nat /\ b2 <= Align(Len(data)) /\ r["Raw"] = <<b2 + 1, b2 + 3>>
      BY <1>3, <1>4, <2>1 DEF b2
    <3>4. Partly(WalkRaw(data, x2), Align(Len(data)), b2 + RawSize, TRUE, V,
                 Ranges(S2 \cup {"Raw"}, r))
      BY ONLY <1>5, <3>1, <3>2, <3>3, RawWalked
    <3> QED BY ONLY <1>4, <3>4, Zenon
  <2>2. ok \in BOOLEAN /\ TRUE \in BOOLEAN
    BY DEF ok
  <2>3. Partly(x3, A, b2 + IF "Raw" \in st THEN RawSize ELSE 0,
               ok /\ ("Raw" \in st => TRUE), V, Ranges(S2 \cup (st \cap {"Raw"}), r))
    <3>1. "Raw" \in st /\ b2 <= A /\ ok =>
             Partly(WalkRaw(data, x2), A, b2 + RawSize, TRUE, V, Ranges(S2 \cup {"Raw"}, r))
      BY ONLY <2>1, Zenon
    <3>2. PartReady(st, "Raw", x2, WalkRaw(data, x2), A, b2, RawSize, ok, TRUE, V, S2, r)
      BY ONLY <1>4, <1>5, <1>7, <1>12, <2>2, <3>1, Zenon DEF PartReady
    <3> QED BY ONLY <3>2, PartWalked, Zenon
  <2> QED BY <1>6, <2>3
<1>14. Partly(x3, A, EndAt(p, attr), ok, V, Ranges(S3, r))
  BY <1>13
<1>15. S3 = st \cap PartFlags
  BY DEF PartFlags
<1>16. ok <=> CanTell(attr)
  BY DEF CanTell
<1> HIDE DEF x3, ok, S3
<1>17. Partly(x3, A, EndAt(p, attr), CanTell(attr), V, Ranges(st \cap PartFlags, r))
  BY ONLY <1>14, <1>15, <1>16, Zenon DEF Partly
<1> QED BY ONLY <1>1, <1>17, Zenon DEF data, A, V, v

-----------------------------------------------------------------------------
(* The suffix of another event, and the walk back over it.                 *)
BackFields == <<"Tid", "Time", "Id", "StreamId", "Cpu", "Identifier">>

LEMMA BackFieldsAre ==
  /\ Reverse(SuffixFields) = BackFields
  /\ Len(SuffixFields) = 6 /\ Len(BackFields) = 6
  /\ \A k \in 1 .. 6 : SuffixFields[k] = BackFields[7 - k]
<1>1. Len(SuffixFields) = 6 /\ Len(BackFields) = 6
  BY DEF SuffixFields, BackFields
<1>2. SuffixFields[1] = "Identifier" /\ SuffixFields[2] = "Cpu" /\ SuffixFields[3] = "StreamId"
      /\ SuffixFields[4] = "Id" /\ SuffixFields[5] = "Time" /\ SuffixFields[6] = "Tid"
  BY DEF SuffixFields
<1>3. BackFields[1] = "Tid" /\ BackFields[2] = "Time" /\ BackFields[3] = "Id"
      /\ BackFields[4] = "StreamId" /\ BackFields[5] = "Cpu" /\ BackFields[6] = "Identifier"
  BY DEF BackFields
<1>4. \A k \in 1 .. 6 : k = 1 \/ k = 2 \/ k = 3 \/ k = 4 \/ k = 5 \/ k = 6
  OBVIOUS
<1>5. \A k \in 1 .. 6 : SuffixFields[k] = BackFields[7 - k]
  <2> SUFFICES ASSUME NEW k \in 1 .. 6 PROVE SuffixFields[k] = BackFields[7 - k]
    OBVIOUS
  <2>1. 7 - 1 = 6 /\ 7 - 2 = 5 /\ 7 - 3 = 4 /\ 7 - 4 = 3 /\ 7 - 5 = 2 /\ 7 - 6 = 1
    OBVIOUS
  <2> QED BY ONLY <1>2, <1>3, <1>4, <2>1, k \in 1 .. 6, Zenon
<1>6. BackFields = [i \in 1 .. 6 |-> BackFields[i]]
  BY DEF BackFields
<1>7. \A i \in 1 .. 6 : SuffixFields[(6 - i) + 1] = BackFields[i]
  <2> SUFFICES ASSUME NEW i \in 1 .. 6 PROVE SuffixFields[(6 - i) + 1] = BackFields[i]
    OBVIOUS
  <2>1. (6 - i) + 1 \in 1 .. 6 /\ 7 - ((6 - i) + 1) = i
    OBVIOUS
  <2> QED BY ONLY <1>5, <2>1, Zenon
<1>8. Reverse(SuffixFields) = [i \in 1 .. 6 |-> SuffixFields[(6 - i) + 1]]
  BY ONLY <1>1, Zenon DEF Reverse
<1> QED BY <1>1, <1>5, <1>6, <1>7, <1>8

OtherLaid(D, p, n, st, v) ==
    /\ D \in Seq(Nat) /\ Len(D) = 2 + n + p[6] /\ D[1] = 1
    /\ \A j \in 1 .. 6 : BackFields[j] \in st => WordIs(D, 2 + n + p[j - 1], v[BackFields[j]])

LEMMA OtherJoined ==
  ASSUME NEW H \in Seq(Nat), Len(H) = 2, H[1] = 1, NEW Z \in Seq(Nat), NEW W \in Seq(Nat)
  PROVE  /\ H \o (Z \o W) \in Seq(Nat) /\ Len(H \o (Z \o W)) = 2 + Len(Z) + Len(W)
         /\ (H \o (Z \o W))[1] = 1
         /\ \A x : \A pos \in Nat : pos + 2 <= Len(W) /\ WordIs(W, pos, x) =>
               WordIs(H \o (Z \o W), 2 + Len(Z) + pos, x)
<1> DEFINE B == Z \o W
           D == H \o B
<1>1. B \in Seq(Nat) /\ Len(B) = Len(Z) + Len(W)
  BY ONLY Z \in Seq(Nat), W \in Seq(Nat), CatIs, ZenonT(60)
<1>2. Len(Z) \in Nat /\ Len(W) \in Nat
  BY SeqIs, Zenon
<1>3. ASSUME NEW pos \in Nat, NEW x, pos + 2 <= Len(W), WordIs(W, pos, x)
      PROVE  WordIs(B, Len(Z) + pos, x)
  BY ONLY <1>3, pos \in Nat, Z \in Seq(Nat), W \in Seq(Nat), WordRight, Zenon
<1> HIDE DEF B
<1>4. D \in Seq(Nat) /\ Len(D) = Len(H) + Len(B) /\ \A j \in 1 .. Len(H) : D[j] = H[j]
  <2>1. B \in Seq(Nat)
    BY ONLY <1>1, Zenon
  <2> QED BY ONLY <2>1, H \in Seq(Nat), CatIs, ZenonT(60)
<1>5. ASSUME NEW pos \in Nat, NEW x, pos + 2 <= Len(W), WordIs(W, pos, x)
      PROVE  WordIs(D, 2 + Len(Z) + pos, x)
  <2>1. WordIs(B, Len(Z) + pos, x)
    BY ONLY <1>3, <1>5, pos \in Nat, Zenon
  <2> DEFINE z == Len(Z)
             w == Len(W)
             b == Len(B)
  <2>2. z \in Nat /\ w \in Nat /\ b = z + w /\ pos + 2 <= w
    BY ONLY <1>1, <1>2, <1>5, Zenon
  <2> HIDE DEF z, w, b
  <2>3. z + pos \in Nat /\ z + pos + 2 <= b /\ 2 + (z + pos) = 2 + z + pos
    BY ONLY <2>2, pos \in Nat
  <2>4. z + pos \in Nat /\ z + pos + 2 <= Len(B) /\ WordIs(B, z + pos, x) /\ B \in Seq(Nat)
    BY ONLY <1>1, <2>1, <2>3, Zenon DEF z, b
  <2>5. WordIs(H \o B, Len(H) + (z + pos), x)
    BY ONLY <2>4, H \in Seq(Nat), WordRight, Zenon
  <2> QED BY ONLY <2>3, <2>5, Len(H) = 2, Zenon DEF z
<1>6. Len(D) = 2 + Len(Z) + Len(W)
  BY ONLY <1>1, <1>2, <1>4, Len(H) = 2
<1>7. D[1] = 1
  <2>1. 1 \in 1 .. Len(H)
    OBVIOUS
  <2> QED BY ONLY <1>4, <2>1, H[1] = 1, Zenon
<1> QED BY ONLY <1>4, <1>5, <1>6, <1>7, Zenon DEF B

LEMMA KernelEventLaid ==
  ASSUME NEW id \in Nat, NEW n \in Nat, trace[id].sample_id_all
  PROVE  \E p : /\ Places(p, trace[id].sample_type, BackFields)
                /\ OtherLaid(KernelEvent(id, n), p, n, trace[id].sample_type, FieldValue(id))
<1> DEFINE st == trace[id].sample_type
           v == FieldValue(id)
           W == Words(Reverse(SuffixFields), st, id)
           Z == Zeros(n)
           body == Z \o W
           H == <<1, Len(body) + 2>>
<1>1. \A k \in 1 .. Len(BackFields) : v[BackFields[k]] \in Nat
  <2>1. \A f \in {"Identifier", "Tid", "Time", "Id", "StreamId", "Cpu"} : v[f] \in Nat
    BY DEF FieldValue, UnitRange
  <2>2. \A k \in 1 .. Len(BackFields) : BackFields[k] \in {"Identifier", "Tid", "Time", "Id", "StreamId", "Cpu"}
    BY DEF BackFields
  <2> QED BY ONLY <2>1, <2>2, Zenon
<1>2. BackFields \in Seq(Flags)
  BY DEF BackFields, Flags
<1>3. PICK p : Laid(p, W, st, BackFields, v)
  <2>1. \E p : Laid(p, Words(BackFields, st, id), st, BackFields, v)
    BY ONLY <1>1, <1>2, WordsLaidOut
  <2> QED BY ONLY <2>1, BackFieldsAre, Zenon
<1>4. KernelEvent(id, n) = H \o (Z \o W)
  BY DEF KernelEvent, WithHeader
<1>5. Z \in Seq(Nat) /\ Len(Z) = n
  BY ZerosAre
<1>6. W \in Seq(Nat) /\ Len(W) = p[6] /\ Len(BackFields) = 6
  BY ONLY <1>3, BackFieldsAre, Zenon DEF Laid
<1> HIDE DEF W, Z
<1>7. H \in Seq(Nat) /\ Len(H) = 2 /\ H[1] = 1
  <2>1. body \in Seq(Nat)
    BY ONLY <1>5, <1>6, CatIs, ZenonT(60)
  <2>2. Len(body) \in Nat
    BY ONLY <2>1, SeqIs, Zenon
  <2> HIDE DEF body
  <2>3. 1 \in Nat /\ Len(body) + 2 \in Nat
    BY ONLY <2>2
  <2> QED BY ONLY <2>3, HeaderIs, Zenon
<1> HIDE DEF H
<1>8. /\ H \o (Z \o W) \in Seq(Nat) /\ Len(H \o (Z \o W)) = 2 + Len(Z) + Len(W)
      /\ (H \o (Z \o W))[1] = 1
      /\ \A x : \A pos \in Nat : pos + 2 <= Len(W) /\ WordIs(W, pos, x) =>
            WordIs(H \o (Z \o W), 2 + Len(Z) + pos, x)
  BY ONLY <1>5, <1>6, <1>7, OtherJoined, Zenon
<1> DEFINE D == H \o (Z \o W)
<1> HIDE DEF D
<1>9. ASSUME NEW j \in 1 .. 6, BackFields[j] \in st
      PROVE  WordIs(D, 2 + n + p[j - 1], v[BackFields[j]])
  <2>1. j - 1 \in 0 .. 6
    OBVIOUS
  <2>2. p[j - 1] \in Nat /\ p[j - 1] + 2 <= Len(W) /\ WordIs(W, p[j - 1], v[BackFields[j]])
    BY ONLY <1>3, <1>6, <1>9, <2>1, j \in 1 .. 6, Zenon DEF Laid, Places
  <2> QED BY ONLY <1>5, <1>8, <2>2, Zenon DEF D
<1>10. OtherLaid(D, p, n, st, v)
  BY ONLY <1>5, <1>6, <1>8, <1>9, Zenon DEF OtherLaid, D
<1>11. Places(p, st, BackFields)
  BY ONLY <1>3, Zenon DEF Laid
<1> QED BY ONLY <1>4, <1>10, <1>11, Zenon DEF D

BackStart(data) == [StartWalk EXCEPT !.pos = Align(Len(data))]
BackRound(g, data, attr, k) ==
    IF k = 0 THEN BackStart(data)
    ELSE WalkWordBack(data, attr.sample_type, g[k - 1], SuffixFields[k])
BackTable(g, data, attr) ==
    g = [k \in 0 .. Len(SuffixFields) |-> BackRound(g, data, attr, k)]

LEMMA BackTableExists ==
  ASSUME NEW data, NEW attr
  PROVE  \E g : BackTable(g, data, attr)
<1> DEFINE R(g, k) == BackRound(g, data, attr, k)
           T == {m \in Nat : \E g : g = [k \in 0 .. m |-> R(g, k)]}
<1>1. 0 \in T
  <2> DEFINE g == [k \in 0 .. 0 |-> BackStart(data)]
  <2>1. \A k \in 0 .. 0 : R(g, k) = BackStart(data)
    BY DEF BackRound
  <2>2. g = [k \in 0 .. 0 |-> R(g, k)]
    BY <2>1
  <2> QED BY <2>2
<1>2. ASSUME NEW m \in Nat, m \in T PROVE m + 1 \in T
  <2>1. PICK g : g = [k \in 0 .. m |-> R(g, k)]
    BY <1>2
  <2> DEFINE h == [k \in 0 .. m + 1 |-> R(g, k)]
  <2>2. \A k \in 0 .. m : h[k] = g[k]
    <3>1. \A k \in 0 .. m : g[k] = R(g, k)
      BY <2>1
    <3> QED BY <3>1
  <2>3. \A k \in 0 .. m + 1 : h[k] = R(g, k)
    OBVIOUS
  <2>4. h = [k \in 0 .. m + 1 |-> h[k]]
    OBVIOUS
  <2> HIDE DEF h
  <2>5. ASSUME NEW k \in 0 .. m + 1 PROVE R(h, k) = R(g, k)
    <3>1. k = 0 \/ k - 1 \in 0 .. m
      OBVIOUS
    <3> QED BY <3>1, <2>2 DEF BackRound
  <2>6. h = [k \in 0 .. m + 1 |-> R(h, k)]
    BY <2>3, <2>4, <2>5
  <2> QED BY <2>6
<1> HIDE DEF T
<1>3. Len(SuffixFields) \in T
  <2>1. Len(SuffixFields) \in Nat
    BY DEF SuffixFields
  <2> QED BY <1>1, <1>2, <2>1, NatSet
<1> QED BY <1>3 DEF T, BackTable

LEMMA BackWalkedBy ==
  ASSUME NEW data, NEW attr
  PROVE  \E g : /\ g[0] = BackStart(data) /\ g[6] = WalkBack(data, attr)
                /\ \A k \in 1 .. 6 :
                      g[k] = WalkWordBack(data, attr.sample_type, g[k - 1], SuffixFields[k])
<1> DEFINE g == CHOOSE f : BackTable(f, data, attr)
<1>1. BackTable(g, data, attr)
  BY BackTableExists
<1>2. WalkBack(data, attr) = g[Len(SuffixFields)]
  BY DEF WalkBack, BackTable, BackRound, BackStart
<1> HIDE DEF g
<1>3. Len(SuffixFields) = 6
  BY BackFieldsAre
<1>4. \A k \in 0 .. 6 : g[k] = BackRound(g, data, attr, k)
  BY <1>1, <1>3 DEF BackTable
<1>5. g[0] = BackStart(data)
  BY <1>4 DEF BackRound
<1>6. \A k \in 1 .. 6 : g[k] = WalkWordBack(data, attr.sample_type, g[k - 1], SuffixFields[k])
  BY <1>4 DEF BackRound
<1> QED BY <1>2, <1>3, <1>5, <1>6

BackAt(w, st, v, p, n, k, m) ==
    w = At(2 + n + p[m], ValuesOf(v, st \cap Firsts(SuffixFields, k)))

BackReady(st, v, p, n, D) ==
    /\ Places(p, st, BackFields) /\ n \in Nat /\ OtherLaid(D, p, n, st, v)
    /\ \A j \in 1 .. 6 : v[BackFields[j]] \in Nat

(* One field: a position below the event's header is never reached.        *)
LEMMA WordWalkedBack ==
  ASSUME NEW st, NEW v, NEW p, NEW n, NEW D, BackReady(st, v, p, n, D), NEW k \in 1 .. 6, NEW w,
         BackAt(w, st, v, p, n, k - 1, 7 - k)
  PROVE  BackAt(WalkWordBack(D, st, w, SuffixFields[k]), st, v, p, n, k, 6 - k)
<1> DEFINE flag == SuffixFields[k]
           F(j) == st \cap Firsts(SuffixFields, j)
           q == 2 + n + p[6 - k]
<1>0. /\ Places(p, st, BackFields) /\ n \in Nat /\ OtherLaid(D, p, n, st, v)
      /\ \A j \in 1 .. 6 : v[BackFields[j]] \in Nat
  BY DEF BackReady
<1>1. flag = BackFields[7 - k] /\ Len(BackFields) = 6
  BY BackFieldsAre
<1>2. 7 - k \in 1 .. 6 /\ (7 - k) - 1 = 6 - k /\ 6 - k \in 0 .. 6 /\ 7 - k \in 0 .. 6
  OBVIOUS
<1>3. p[6 - k] \in Nat /\ p[7 - k] \in Nat
      /\ (flag \in st => p[7 - k] = p[6 - k] + 2) /\ (flag \notin st => p[7 - k] = p[6 - k])
  BY ONLY <1>0, <1>1, <1>2, Zenon DEF Places
<1>4. Firsts(SuffixFields, k) = Firsts(SuffixFields, k - 1) \cup {flag}
  <2>1. \A j \in 1 .. k : j \in 1 .. k - 1 \/ j = k
    OBVIOUS
  <2>2. \A j \in 1 .. k - 1 : j \in 1 .. k
    OBVIOUS
  <2>3. k \in 1 .. k
    OBVIOUS
  <2> HIDE DEF flag
  <2> QED BY <2>1, <2>2, <2>3 DEF Firsts, flag
<1>8. w = At(2 + n + p[7 - k], ValuesOf(v, F(k - 1)))
  BY DEF BackAt
<1>5. w.error = "none" /\ w.pos = 2 + n + p[7 - k] /\ w.values = ValuesOf(v, F(k - 1))
  BY <1>8 DEF At
<1>6. CASE flag \notin st
  <2>1. WalkWordBack(D, st, w, flag) = w
    BY <1>6 DEF WalkWordBack
  <2>2. F(k) = F(k - 1) /\ p[7 - k] = p[6 - k]
    BY <1>3, <1>4, <1>6
  <2> QED BY <1>8, <2>1, <2>2 DEF BackAt
<1>7. CASE flag \in st
  <2>1. q \in Nat /\ q >= 2 /\ w.pos - 2 = q
    BY <1>0, <1>3, <1>5, <1>7
  <2>2. WordIs(D, q, v[flag]) /\ v[flag] \in Nat /\ q + 2 <= Len(D) /\ Len(D) \in Nat
    <3>1. WordIs(D, 2 + n + p[(7 - k) - 1], v[BackFields[7 - k]]) /\ v[BackFields[7 - k]] \in Nat
      BY ONLY <1>0, <1>1, <1>2, <1>7, Zenon DEF OtherLaid
    <3>2. D \in Seq(Nat) /\ Len(D) = 2 + n + p[6]
      BY <1>0 DEF OtherLaid
    <3>3. p[7 - k] <= p[6]
      <4> DEFINE j == 7 - k
      <4>1. p[1] <= p[2] /\ p[2] <= p[3] /\ p[3] <= p[4] /\ p[4] <= p[5] /\ p[5] <= p[6]
        BY <1>0, <1>1 DEF Places
      <4>2. p[1] \in Nat /\ p[2] \in Nat /\ p[3] \in Nat /\ p[4] \in Nat /\ p[5] \in Nat /\ p[6] \in Nat
        BY <1>0, <1>1 DEF Places
      <4>3. j = 1 \/ j = 2 \/ j = 3 \/ j = 4 \/ j = 5 \/ j = 6
        BY <1>2
      <4> HIDE DEF j
      <4>4. p[j] <= p[6]
        BY ONLY <4>1, <4>2, <4>3
      <4> QED BY <4>4 DEF j
    <3>4. p[6] \in Nat
      BY <1>0, <1>1 DEF Places
    <3>5. q + 2 <= 2 + n + p[6] /\ 2 + n + p[6] \in Nat
      BY <1>0, <1>3, <1>7, <3>3, <3>4
    <3> QED BY ONLY <1>1, <1>2, <3>1, <3>2, <3>5, Zenon
  <2>3. ReadU64(D, q) = v[flag]
    <3> DEFINE x == v[flag]
    <3>1. SameUpTo(Len(D), D, D)
      BY DEF SameUpTo
    <3> HIDE DEF x, q, flag
    <3>2. WordIs(D, q, x) /\ x \in Nat /\ q + 2 <= Len(D) /\ Len(D) \in Nat /\ q \in Nat
      BY ONLY <2>1, <2>2, Zenon DEF x
    <3>3. ReadU64(D, q) = x
      BY ONLY <3>1, <3>2, WordRead
    <3> QED BY <3>3 DEF x
  <2>4. F(k) = F(k - 1) \cup {flag}
    BY <1>4, <1>7
  <2> HIDE DEF q, flag, F
  <2>5. ~(q < 0) /\ ~(q = 0)
    BY <2>1
  <2> DEFINE new == Found(ValuesOf(v, F(k - 1)), flag, v[flag])
  <2>6. WalkWordBack(D, st, w, flag) = TakeWordBack(D, w, flag)
    BY ONLY <1>5, <1>7, Zenon DEF WalkWordBack
  <2>7. TakeWordBack(D, w, flag) = [w EXCEPT !.pos = q, !.values = new]
    BY <1>5, <2>1, <2>3, <2>5 DEF TakeWordBack, U64_SIZE
  <2>8. new = ValuesOf(v, F(k))
    BY <2>4, ValuesGrow
  <2> HIDE DEF new
  <2> DEFINE z == WalkWordBack(D, st, w, flag)
             a == 2 + n + p[7 - k]
             b == ValuesOf(v, F(k - 1))
  <2>9. z = [w EXCEPT !.pos = q, !.values = new] /\ w = At(a, b)
    BY ONLY <1>8, <2>6, <2>7, Zenon
  <2> HIDE DEF z, a, b
  <2>10. z = At(q, new)
    BY ONLY <2>9 DEF At
  <2> QED BY ONLY <2>8, <2>10, Zenon DEF flag, q, F, z, BackAt
<1> QED BY <1>6, <1>7

LEMMA SuffixWalked ==
  ASSUME NEW attr, NEW v, NEW p, Places(p, attr.sample_type, BackFields), NEW n \in Evens,
         NEW D, OtherLaid(D, p, n, attr.sample_type, v), \A j \in 1 .. 6 : v[BackFields[j]] \in Nat
  PROVE  WalkBack(D, attr) =
            At(2 + n + p[0], ValuesOf(v, attr.sample_type \cap Firsts(SuffixFields, 6)))
<1> DEFINE st == attr.sample_type
           V(k) == ValuesOf(v, st \cap Firsts(SuffixFields, k))
<1>1. PICK g : /\ g[0] = BackStart(D) /\ g[6] = WalkBack(D, attr)
               /\ \A k \in 1 .. 6 : g[k] = WalkWordBack(D, st, g[k - 1], SuffixFields[k])
  BY BackWalkedBy
<1>2. n \in Nat
  BY DEF Evens
<1>3. g[0] = At(2 + n + p[6], V(0))
  <2>1. p[6] \in Evens
    <3>1. Len(BackFields) = 6 /\ 6 \in Nat /\ 6 \in 0 .. 6
      BY BackFieldsAre
    <3> QED BY ONLY <3>1, Places(p, attr.sample_type, BackFields), PlacesEven, Zenon
  <2>2. PICK a \in Nat : n = 2 * a
    BY DEF Evens
  <2>3. PICK b \in Nat : p[6] = 2 * b
    BY <2>1 DEF Evens
  <2>4. 2 + n + p[6] = 2 * (1 + a + b) /\ 1 + a + b \in Nat
    BY <2>2, <2>3
  <2>5. \A h \in Nat : Align(2 * h) = 2 * h
    BY DEF Align, U64_SIZE
  <2>6. Align(Len(D)) = 2 + n + p[6]
    BY <2>4, <2>5 DEF OtherLaid
  <2>7. V(0) = <<>>
    <3>1. st \cap Firsts(SuffixFields, 0) = {}
      BY DEF Firsts
    <3> QED BY <3>1, NoValues
  <2> HIDE DEF V
  <2> QED BY <1>1, <2>6, <2>7 DEF At, BackStart, StartWalk
<1>4. ASSUME NEW k \in 1 .. 6, BackAt(g[k - 1], st, v, p, n, k - 1, 7 - k)
      PROVE  BackAt(g[k], st, v, p, n, k, 6 - k)
  <2>1. BackReady(st, v, p, n, D)
    BY <1>2 DEF BackReady
  <2>2. BackAt(WalkWordBack(D, st, g[k - 1], SuffixFields[k]), st, v, p, n, k, 6 - k)
    BY ONLY <1>4, <2>1, k \in 1 .. 6, WordWalkedBack, Zenon
  <2> QED BY ONLY <1>1, <2>2, k \in 1 .. 6, Zenon
<1> HIDE DEF V
<1> DEFINE B(k, m) == BackAt(g[k], st, v, p, n, k, m)
<1>5. B(0, 6)
  BY <1>3 DEF BackAt, V
<1>6. \A k \in 1 .. 6 : B(k - 1, 7 - k) => B(k, 6 - k)
  BY ONLY <1>4, Zenon
<1> HIDE DEF B
<1>7. B(1, 5)
  BY ONLY <1>5, <1>6
<1>8. B(2, 4)
  BY ONLY <1>6, <1>7
<1>9. B(3, 3)
  BY ONLY <1>6, <1>8
<1>10. B(4, 2)
  BY ONLY <1>6, <1>9
<1>11. B(5, 1)
  BY ONLY <1>6, <1>10
<1>12. B(6, 0)
  BY ONLY <1>6, <1>11
<1> QED BY ONLY <1>1, <1>12, Zenon DEF B, BackAt

-----------------------------------------------------------------------------
(* The reader's offsets are the places where the kernel put id and time.   *)
LEMMA SamplePlaces ==
  ASSUME NEW p, NEW st, Places(p, st, SampleFields)
  PROVE  /\ p[0] = 0
         /\ p[1] = p[0] + 2 * Has(st, "Identifier") /\ p[2] = p[1] + 2 * Has(st, "IP")
         /\ p[3] = p[2] + 2 * Has(st, "Tid") /\ p[4] = p[3] + 2 * Has(st, "Time")
         /\ p[5] = p[4] + 2 * Has(st, "Addr") /\ p[6] = p[5] + 2 * Has(st, "Id")
         /\ \A k \in 1 .. 9 : p[k - 1] \in Nat /\ p[k - 1] <= p[k] /\ p[k] <= p[9]
<1>1. Len(SampleFields) = 9
  BY DEF SampleFields
<1>2. \A k \in 0 .. 9 : p[k] \in Nat
  BY <1>1 DEF Places
<1>3. /\ SampleFields[1] = "Identifier" /\ SampleFields[2] = "IP" /\ SampleFields[3] = "Tid"
      /\ SampleFields[4] = "Time" /\ SampleFields[5] = "Addr" /\ SampleFields[6] = "Id"
  BY DEF SampleFields
<1>4. \A k \in 1 .. 9 : p[k] = p[k - 1] + 2 * Has(st, SampleFields[k])
  <2> SUFFICES ASSUME NEW k \in 1 .. 9 PROVE p[k] = p[k - 1] + 2 * Has(st, SampleFields[k])
    OBVIOUS
  <2>1. p[k - 1] \in Nat
    BY <1>2
  <2>2. CASE SampleFields[k] \in st
    BY <1>1, <2>1, <2>2 DEF Places, Has
  <2>3. CASE SampleFields[k] \notin st
    BY <1>1, <2>1, <2>3 DEF Places, Has
  <2> QED BY <2>2, <2>3
<1>5. \A k \in 1 .. 9 : p[k - 1] \in Nat /\ p[k - 1] <= p[k]
  <2>1. \A flag : Has(st, flag) \in {0, 1}
    BY DEF Has
  <2> QED BY <1>2, <1>4, <2>1
<1>6. /\ p[0] <= p[1] /\ p[1] <= p[2] /\ p[2] <= p[3] /\ p[3] <= p[4] /\ p[4] <= p[5]
      /\ p[5] <= p[6] /\ p[6] <= p[7] /\ p[7] <= p[8] /\ p[8] <= p[9]
  BY <1>5
<1>7. \A k \in 1 .. 9 : p[k] <= p[9]
  BY ONLY <1>2, <1>6
<1>8. /\ p[1] = p[0] + 2 * Has(st, "Identifier") /\ p[2] = p[1] + 2 * Has(st, "IP")
      /\ p[3] = p[2] + 2 * Has(st, "Tid") /\ p[4] = p[3] + 2 * Has(st, "Time")
      /\ p[5] = p[4] + 2 * Has(st, "Addr") /\ p[6] = p[5] + 2 * Has(st, "Id")
  BY ONLY <1>3, <1>4
<1> QED BY <1>5, <1>7, <1>8 DEF Places

LEMMA SampleOffsets ==
  ASSUME NEW p, NEW attr, Places(p, attr.sample_type, SampleFields)
  PROVE  /\ \/ SampleIdOffset(attr) = OFFSET_NOT_PRESENT
            \/ \E k \in 1 .. 9 : /\ SampleFields[k] \in attr.sample_type \cap IdFields
                                 /\ SampleIdOffset(attr) = 2 + p[k - 1]
         /\ "Time" \notin attr.sample_type => SampleTimeOffset(attr) = OFFSET_NOT_PRESENT
         /\ "Time" \in attr.sample_type => SampleTimeOffset(attr) = 2 + p[3]
<1> DEFINE st == attr.sample_type
<1>1. \A flag : Has(st, flag) \in {0, 1}
  BY DEF Has
<1>2. /\ p[0] = 0 /\ p[1] = p[0] + 2 * Has(st, "Identifier") /\ p[2] = p[1] + 2 * Has(st, "IP")
      /\ p[3] = p[2] + 2 * Has(st, "Tid") /\ p[4] = p[3] + 2 * Has(st, "Time")
      /\ p[5] = p[4] + 2 * Has(st, "Addr")
  BY SamplePlaces
<1>3. SampleFields[1] = "Identifier" /\ SampleFields[6] = "Id"
  BY DEF SampleFields
<1>4. CASE "Identifier" \in st
  <2>1. SampleIdOffset(attr) = 2 + p[1 - 1]
    BY <1>2, <1>4 DEF SampleIdOffset, U64_SIZE
  <2>2. SampleFields[1] \in st \cap IdFields /\ 1 \in 1 .. 9
    BY <1>3, <1>4 DEF IdFields
  <2> HIDE DEF st
  <2>3. SampleTimeOffset(attr) = IF "Time" \notin st THEN OFFSET_NOT_PRESENT ELSE 2 + p[3]
    BY <1>1, <1>2 DEF SampleTimeOffset, U64_SIZE, st
  <2> QED BY <2>1, <2>2, <2>3 DEF st
<1>5. CASE "Identifier" \notin st /\ "Id" \in st
  <2>1. ~(st \cap {"Identifier", "Id"} = {})
    BY <1>5
  <2>2. SampleIdOffset(attr) = 2 * (1 + Has(st, "IP") + Has(st, "Tid") + Has(st, "Time")
                                   + Has(st, "Addr"))
    BY <1>5, <2>1 DEF SampleIdOffset, U64_SIZE
  <2>3. Has(st, "Identifier") = 0
    BY <1>5 DEF Has
  <2> HIDE DEF st
  <2>4. SampleIdOffset(attr) = 2 + p[5]
    BY ONLY <1>1, <1>2, <2>2, <2>3
  <2>5. SampleIdOffset(attr) = 2 + p[6 - 1]
    BY ONLY <2>4
  <2>6. SampleFields[6] \in st \cap IdFields /\ 6 \in 1 .. 9
    BY <1>3, <1>5 DEF IdFields
  <2>7. SampleTimeOffset(attr) = IF "Time" \notin st THEN OFFSET_NOT_PRESENT ELSE 2 + p[3]
    BY <1>1, <1>2 DEF SampleTimeOffset, U64_SIZE, st
  <2> QED BY <2>5, <2>6, <2>7 DEF st
<1>6. CASE "Identifier" \notin st /\ "Id" \notin st
  <2>1. SampleIdOffset(attr) = OFFSET_NOT_PRESENT
    <3>1. st \cap {"Identifier", "Id"} = {}
      BY <1>6
    <3> QED BY <1>6, <3>1 DEF SampleIdOffset
  <2> HIDE DEF st
  <2>2. SampleTimeOffset(attr) = IF "Time" \notin st THEN OFFSET_NOT_PRESENT ELSE 2 + p[3]
    BY <1>1, <1>2 DEF SampleTimeOffset, U64_SIZE, st
  <2> QED BY <2>1, <2>2 DEF st
<1> QED BY <1>4, <1>5, <1>6

LEMMA BackPlaces ==
  ASSUME NEW p, NEW st, Places(p, st, BackFields)
  PROVE  /\ p[0] = 0
         /\ p[1] = p[0] + 2 * Has(st, "Tid") /\ p[2] = p[1] + 2 * Has(st, "Time")
         /\ p[3] = p[2] + 2 * Has(st, "Id") /\ p[4] = p[3] + 2 * Has(st, "StreamId")
         /\ p[5] = p[4] + 2 * Has(st, "Cpu") /\ p[6] = p[5] + 2 * Has(st, "Identifier")
         /\ \A k \in 0 .. 6 : p[k] \in Nat
<1>1. Len(BackFields) = 6
  BY BackFieldsAre
<1>2. \A k \in 0 .. 6 : p[k] \in Nat
  BY <1>1 DEF Places
<1>3. /\ BackFields[1] = "Tid" /\ BackFields[2] = "Time" /\ BackFields[3] = "Id"
      /\ BackFields[4] = "StreamId" /\ BackFields[5] = "Cpu" /\ BackFields[6] = "Identifier"
  BY DEF BackFields
<1>4. \A k \in 1 .. 6 : p[k] = p[k - 1] + 2 * Has(st, BackFields[k])
  <2> SUFFICES ASSUME NEW k \in 1 .. 6 PROVE p[k] = p[k - 1] + 2 * Has(st, BackFields[k])
    OBVIOUS
  <2>1. p[k - 1] \in Nat
    BY <1>2
  <2>2. CASE BackFields[k] \in st
    BY <1>1, <2>1, <2>2 DEF Places, Has
  <2>3. CASE BackFields[k] \notin st
    BY <1>1, <2>1, <2>3 DEF Places, Has
  <2> QED BY <2>2, <2>3
<1>5. /\ p[1] = p[0] + 2 * Has(st, "Tid") /\ p[2] = p[1] + 2 * Has(st, "Time")
      /\ p[3] = p[2] + 2 * Has(st, "Id") /\ p[4] = p[3] + 2 * Has(st, "StreamId")
      /\ p[5] = p[4] + 2 * Has(st, "Cpu") /\ p[6] = p[5] + 2 * Has(st, "Identifier")
  BY ONLY <1>3, <1>4
<1> QED BY <1>2, <1>5 DEF Places

LEMMA BackOffsets ==
  ASSUME NEW p, NEW attr, Places(p, attr.sample_type, BackFields), attr.sample_id_all
  PROVE  /\ \/ NonSampleIdOffset(attr) = OFFSET_NOT_PRESENT
            \/ \E j \in 1 .. 6 : /\ BackFields[j] \in attr.sample_type \cap IdFields
                                 /\ NonSampleIdOffset(attr) = p[6] - p[j - 1]
         /\ "Time" \notin attr.sample_type => NonSampleTimeOffset(attr) = OFFSET_NOT_PRESENT
         /\ "Time" \in attr.sample_type => NonSampleTimeOffset(attr) = p[6] - p[1]
<1> DEFINE st == attr.sample_type
<1>1. \A flag : Has(st, flag) \in {0, 1}
  BY DEF Has
<1>2. /\ p[1] = p[0] + 2 * Has(st, "Tid") /\ p[2] = p[1] + 2 * Has(st, "Time")
      /\ p[3] = p[2] + 2 * Has(st, "Id") /\ p[4] = p[3] + 2 * Has(st, "StreamId")
      /\ p[5] = p[4] + 2 * Has(st, "Cpu") /\ p[6] = p[5] + 2 * Has(st, "Identifier")
      /\ p[0] = 0
  BY BackPlaces
<1>3. BackFields[6] = "Identifier" /\ BackFields[3] = "Id"
  BY DEF BackFields
<1>4. NonSampleTimeOffset(attr) = IF "Time" \notin st THEN OFFSET_NOT_PRESENT
         ELSE 2 * (1 + Has(st, "Identifier") + Has(st, "Cpu") + Has(st, "StreamId") + Has(st, "Id"))
  BY DEF NonSampleTimeOffset, U64_SIZE
<1>5. "Time" \in st => NonSampleTimeOffset(attr) = p[6] - p[1]
  <2>1. "Time" \in st => Has(st, "Time") = 1
    BY DEF Has
  <2> HIDE DEF st
  <2> QED BY ONLY <1>1, <1>2, <1>4, <2>1
<1>6. "Time" \notin st => NonSampleTimeOffset(attr) = OFFSET_NOT_PRESENT
  BY <1>4
<1>7. CASE "Identifier" \in st
  <2>1. ~(st \cap {"Identifier", "Id"} = {})
    BY <1>7
  <2>2. NonSampleIdOffset(attr) = 2
    BY <1>7, <2>1 DEF NonSampleIdOffset, U64_SIZE
  <2>3. Has(st, "Identifier") = 1
    BY <1>7 DEF Has
  <2> HIDE DEF st
  <2>4. NonSampleIdOffset(attr) = p[6] - p[6 - 1]
    BY ONLY <1>1, <1>2, <2>2, <2>3
  <2>5. BackFields[6] \in st \cap IdFields /\ 6 \in 1 .. 6
    BY <1>3, <1>7 DEF IdFields
  <2> QED BY <1>5, <1>6, <2>4, <2>5 DEF st
<1>8. CASE "Identifier" \notin st /\ "Id" \in st
  <2>1. ~(st \cap {"Identifier", "Id"} = {})
    BY <1>8
  <2>2. NonSampleIdOffset(attr) = 2 * (1 + Has(st, "Cpu") + Has(st, "StreamId"))
    BY <1>8, <2>1 DEF NonSampleIdOffset, U64_SIZE
  <2>3. Has(st, "Identifier") = 0 /\ Has(st, "Id") = 1
    BY <1>8 DEF Has
  <2> HIDE DEF st
  <2>4. NonSampleIdOffset(attr) = p[6] - p[3 - 1]
    BY ONLY <1>1, <1>2, <2>2, <2>3
  <2>5. BackFields[3] \in st \cap IdFields /\ 3 \in 1 .. 6
    BY <1>3, <1>8 DEF IdFields
  <2> QED BY <1>5, <1>6, <2>4, <2>5 DEF st
<1>9. CASE "Identifier" \notin st /\ "Id" \notin st
  <2>1. st \cap {"Identifier", "Id"} = {}
    BY <1>9
  <2>2. NonSampleIdOffset(attr) = OFFSET_NOT_PRESENT
    BY <2>1 DEF NonSampleIdOffset
  <2> QED BY <1>5, <1>6, <2>2
<1> QED BY <1>7, <1>8, <1>9

-----------------------------------------------------------------------------
(* What get_sample_event_info answers, for a reader whose offset of the id *)
(* is not set or is the one of the event's attr.                           *)
LEMMA ErrIs == ASSUME NEW e PROVE Err(e).ok = FALSE
  BY DEF Err

LEMMA EvenAligned == ASSUME NEW n \in Evens PROVE Align(n) = n
<1>1. PICK h \in Nat : n = 2 * h
  BY DEF Evens
<1> QED BY <1>1 DEF Align, U64_SIZE

SampleInfo(i, n, id, p, attr, r, known, offset, whole) ==
    /\ i.ok => /\ i.id = id
               /\ i.values = ValuesOf(FieldValue(id),
                                attr.sample_type \cap Firsts(SampleFields, Len(SampleFields)))
               /\ i.ranges = Ranges(attr.sample_type \cap PartFlags, r)
               /\ EndAt(p, attr) <= n
    /\ whole => (i.ok <=> known /\ CanTell(attr) /\ offset >= U64_SIZE)

Answers(x, id, A, pos, ok, values, ranges) ==
    /\ x.ok => x.id = id /\ x.values = values /\ x.ranges = ranges /\ pos <= A /\ ok
    /\ pos <= A /\ ok => x.ok
    /\ x.ok \in BOOLEAN

LEMMA AnswerIs ==
  ASSUME NEW a, NEW id, NEW w, NEW A \in Nat, NEW pos \in Nat, NEW ok \in BOOLEAN,
         NEW values, NEW ranges,
         Partly(w, A, pos, ok, values, ranges)
  PROVE  Answers(Answer(a, id, w), id, A, pos, ok, values, ranges)
<1>1. CASE pos <= A /\ ok /\ w = [pos |-> pos, values |-> values, ranges |-> ranges, error |-> "none"]
  <2>1. w.error = "none" /\ w.values = values /\ w.ranges = ranges
    BY <1>1
  <2> DEFINE x == Answer(a, id, w)
  <2>2. x = [ok |-> TRUE, id |-> id, desc |-> a.event_desc_id_to_index[id], values |-> w.values,
             ranges |-> w.ranges]
    BY <2>1 DEF Answer
  <2> HIDE DEF x
  <2>3. x.ok = TRUE /\ x.id = id /\ x.values = w.values /\ x.ranges = w.ranges
    BY ONLY <2>2
  <2> QED BY ONLY <1>1, <2>1, <2>3, Zenon DEF x, Answers
<1>2. CASE (pos > A \/ ~ok) /\ w.error # "none" /\ ~(pos <= A /\ ok)
  <2>1. Answer(a, id, w) = Err(w.error)
    BY <1>2 DEF Answer
  <2>2. Answer(a, id, w).ok = FALSE
    BY <2>1, ErrIs
  <2> QED BY ONLY <1>2, <2>2, Zenon DEF Answers
<1> QED BY <1>1, <1>2 DEF Partly

LEMMA SampleAnswer ==
  ASSUME NEW a, NEW id \in Nat, NEW attr, NEW p, Places(p, attr.sample_type, SampleFields),
         NEW D, SampleLaid(D, p, attr, FieldValue(id)), NEW n \in 2 .. Len(D), NEW r,
         r["Read"] = <<PartsAt(p), PartsAt(p) + ReadSize(attr.read_format)>>,
         r["Callchain"] = <<ChainAt(p, attr), ChainAt(p, attr) + ChainSize>>,
         r["Raw"] = <<RawAt(p, attr) + 1, RawAt(p, attr) + 3>>,
         a.sample_id_offset \in {OFFSET_UNSET, SampleIdOffset(attr)},
         KnowsId(a, id) => AttrOf(a, id) = attr
  PROVE  SampleInfo(GetSampleEventInfo(a, SubSeq(D, 1, n)), n, id, p, attr, r, KnowsId(a, id),
                    a.sample_id_offset, n = Len(D))
<1> DEFINE data == SubSeq(D, 1, n)
           i == GetSampleEventInfo(a, data)
           off == a.sample_id_offset
           w == Walk(data, attr)
           end == EndAt(p, attr)
           V == ValuesOf(FieldValue(id), attr.sample_type \cap Firsts(SampleFields, Len(SampleFields)))
           R == Ranges(attr.sample_type \cap PartFlags, r)
<1>1. D \in Seq(Nat) /\ Len(D) = end
  BY DEF SampleLaid
<1>2. Len(data) = n /\ n \in Nat /\ n >= 2 /\ SameUpTo(n, data, D)
  BY <1>1, CutIs DEF SameUpTo
<1>3. Partly(w, Align(n), end, CanTell(attr), V, R)
  BY ONLY SampleWalked, id \in Nat, Places(p, attr.sample_type, SampleFields),
          SampleLaid(D, p, attr, FieldValue(id)), n \in 2 .. Len(D),
          r["Read"] = <<PartsAt(p), PartsAt(p) + ReadSize(attr.read_format)>>,
          r["Callchain"] = <<ChainAt(p, attr), ChainAt(p, attr) + ChainSize>>,
          r["Raw"] = <<RawAt(p, attr) + 1, RawAt(p, attr) + 3>>, Zenon
<1>4. end \in Evens /\ end \in Nat /\ PartsAt(p) <= end /\ Align(n) \in Nat /\ Align(n) <= n
  <2>1. end \in Evens /\ PartsAt(p) \in Evens /\ PartsAt(p) <= ChainAt(p, attr)
        /\ ChainAt(p, attr) <= RawAt(p, attr) /\ RawAt(p, attr) <= end
        /\ ChainAt(p, attr) \in Evens /\ RawAt(p, attr) \in Evens
    BY PlacesOfParts
  <2> HIDE DEF end
  <2>2. end \in Nat /\ PartsAt(p) <= end
    BY ONLY <2>1 DEF Evens
  <2> QED BY <1>2, <2>1, <2>2, AlignIs
<1>5. n = Len(D) => Align(n) = end
  BY <1>1, <1>4, EvenAligned
<1>6. \/ SampleIdOffset(attr) = OFFSET_NOT_PRESENT
      \/ \E k \in 1 .. 9 : /\ SampleFields[k] \in attr.sample_type \cap IdFields
                           /\ SampleIdOffset(attr) = 2 + p[k - 1]
  BY SampleOffsets
<1> HIDE DEF data, end, V, R
<1>7. CASE off = OFFSET_UNSET \/ off = OFFSET_NOT_PRESENT
  <2>1. off < U64_SIZE /\ ~(off >= U64_SIZE)
    BY <1>7 DEF OFFSET_UNSET, OFFSET_NOT_PRESENT, U64_SIZE
  <2>2. i = Err("NoData")
    BY <2>1 DEF GetSampleEventInfo
  <2>3. i.ok = FALSE
    BY <2>2, ErrIs
  <2> HIDE DEF i
  <2>4. SampleInfo(i, n, id, p, attr, r, KnowsId(a, id), off, n = Len(D))
    BY ONLY <2>1, <2>3, Zenon DEF SampleInfo
  <2> QED BY <2>4 DEF i, data
<1>8. ASSUME NEW k \in 1 .. 9, SampleFields[k] \in attr.sample_type \cap IdFields, off = 2 + p[k - 1]
      PROVE  SampleInfo(i, n, id, p, attr, r, KnowsId(a, id), off, n = Len(D))
  <2>1. /\ p[k - 1] \in Nat /\ p[k] = p[k - 1] + 2 /\ p[k] <= p[9] /\ p[9] \in Nat
        /\ PartsAt(p) = 2 + p[9]
    <3>1. Len(SampleFields) = 9
      BY DEF SampleFields
    <3>2. p[k - 1] \in Nat /\ p[k] <= p[9]
      BY SamplePlaces
    <3>3. p[k] = p[k - 1] + 2 /\ p[9] \in Nat
      <4>1. 9 \in 0 .. 9 /\ SampleFields[k] \in attr.sample_type
        BY <1>8
      <4> QED BY ONLY <3>1, <4>1, k \in 1 .. 9, Places(p, attr.sample_type, SampleFields), Zenon DEF Places
    <3> QED BY <3>1, <3>2, <3>3 DEF PartsAt
  <2>2. off \in Nat /\ off >= 2 /\ off + 2 <= end /\ ~(off < U64_SIZE) /\ off >= U64_SIZE
    <3> DEFINE x == p[k - 1]
               y == p[9]
               z == p[k]
               f == PartsAt(p)
    <3>1. x \in Nat /\ y \in Nat /\ z = x + 2 /\ z <= y /\ f = 2 + y /\ off = 2 + x
          /\ end \in Nat /\ f <= end
      BY ONLY <1>4, <1>8, <2>1, Zenon
    <3> HIDE DEF x, y, z, f, off
    <3> QED BY ONLY <3>1 DEF U64_SIZE
  <2>3. WordIs(D, off, id)
    <3>1. WordIs(D, 2 + p[k - 1], FieldValue(id)[SampleFields[k]])
      <4>1. Len(SampleFields) = 9
        BY DEF SampleFields
      <4> QED BY <1>8, <4>1 DEF SampleLaid
    <3>2. FieldValue(id)[SampleFields[k]] = id
      BY <1>8, FieldValuesAre DEF IdFields
    <3> QED BY ONLY <1>8, <3>1, <3>2, Zenon
  <2>4. CASE off + 2 > n
    <3>1. off + U64_SIZE > Len(data)
      BY <1>2, <2>4 DEF U64_SIZE
    <3>2. i = Err("InvalidData")
      BY <2>2, <3>1 DEF GetSampleEventInfo
    <3>3. i.ok = FALSE
      BY <3>2, ErrIs
    <3>4. ~(n = Len(D))
      BY <1>1, <1>2, <1>4, <2>2, <2>4
    <3> HIDE DEF i
    <3> QED BY ONLY <3>3, <3>4, Zenon DEF SampleInfo
  <2>5. CASE off + 2 <= n
    <3>1. ~(off + U64_SIZE > Len(data))
      BY <1>2, <2>2, <2>5 DEF U64_SIZE
    <3>2. ReadU64(data, off) = id
      BY ONLY <1>2, <2>2, <2>3, <2>5, id \in Nat, WordRead
    <3>3. i = IF ~KnowsId(a, id) THEN Err("IdNotFound") ELSE Answer(a, id, Walk(data, AttrOf(a, id)))
      BY <2>2, <3>1, <3>2 DEF GetSampleEventInfo
    <3>4. CASE ~KnowsId(a, id)
      <4>1. i.ok = FALSE
        BY <3>3, <3>4, ErrIs
      <4> HIDE DEF i
      <4> QED BY ONLY <3>4, <4>1, Zenon DEF SampleInfo
    <3>5. CASE KnowsId(a, id)
      <4>1. i = Answer(a, id, w)
        BY <3>3, <3>5
      <4>2. CanTell(attr) \in BOOLEAN
        BY DEF CanTell
      <4>3. /\ i.ok => i.id = id /\ i.values = V /\ i.ranges = R /\ end <= Align(n) /\ CanTell(attr)
            /\ end <= Align(n) /\ CanTell(attr) => i.ok
            /\ i.ok \in BOOLEAN
        <5> HIDE DEF w, i
        <5>1. Answers(Answer(a, id, w), id, Align(n), end, CanTell(attr), V, R)
          BY ONLY <1>3, <1>4, <4>2, AnswerIs, Zenon
        <5> QED BY ONLY <4>1, <5>1, Zenon DEF Answers
      <4>4. end <= Align(n) => end <= n
        BY ONLY <1>2, <1>4
      <4>5. n = Len(D) => end <= Align(n)
        BY ONLY <1>4, <1>5
      <4> HIDE DEF i
      <4> QED BY ONLY <2>2, <3>5, <4>3, <4>4, <4>5, Zenon DEF SampleInfo, V, R, end
    <3> QED BY <3>4, <3>5
  <2>6. off + 2 > n \/ off + 2 <= n
    BY ONLY <1>2, <2>2
  <2> QED BY ONLY <2>4, <2>5, <2>6, Zenon
<1>9. off = OFFSET_UNSET \/ off = SampleIdOffset(attr)
  OBVIOUS
<1> HIDE DEF i
<1>10. SampleInfo(i, n, id, p, attr, r, KnowsId(a, id), off, n = Len(D))
  BY ONLY <1>6, <1>7, <1>8, <1>9, Zenon DEF i, data
<1> QED BY ONLY <1>10, Zenon DEF i, data

(* The same for get_non_sample_event_info.                                 *)
LEMMA NoSuffixLaid ==
  ASSUME NEW id \in Nat, NEW n \in Nat, ~trace[id].sample_id_all
  PROVE  KernelEvent(id, n) \in Seq(Nat) /\ KernelEvent(id, n)[1] = 1
<1> DEFINE Z == Zeros(n)
           H == <<1, Len(Z) + 2>>
<1>1. Z \in Seq(Nat)
  BY ZerosAre
<1>2. Z \o <<>> = Z
  BY ONLY <1>1, CatEmpty, Zenon
<1>3. KernelEvent(id, n) = H \o Z
  <2>1. KernelEvent(id, n) = WithHeader(1, Z \o <<>>)
    BY DEF KernelEvent
  <2>2. KernelEvent(id, n) = WithHeader(1, Z)
    BY ONLY <1>2, <2>1, Zenon
  <2> QED BY ONLY <2>2, Zenon DEF WithHeader
<1>4. Len(Z) \in Nat
  BY ONLY <1>1, SeqIs, Zenon
<1> HIDE DEF Z
<1>5. H \in Seq(Nat) /\ Len(H) = 2 /\ H[1] = 1
  <2>1. 1 \in Nat /\ Len(Z) + 2 \in Nat
    BY ONLY <1>4
  <2> QED BY ONLY <2>1, HeaderIs, Zenon
<1> HIDE DEF H
<1>6. 1 \in 1 .. Len(H)
  BY ONLY <1>5
<1>7. H \o Z \in Seq(Nat) /\ \A j \in 1 .. Len(H) : (H \o Z)[j] = H[j]
  <2>1. H \in Seq(Nat)
    BY ONLY <1>5, Zenon
  <2> QED BY ONLY <1>1, <2>1, CatIs, ZenonT(60)
<1> QED BY ONLY <1>3, <1>5, <1>6, <1>7, Zenon

(* An event that is not a sample: with a suffix laid out, or without one.  *)
OtherEvent(D, n, attr, v) ==
    /\ D \in Seq(Nat) /\ D[1] = 1
    /\ attr.sample_id_all => \E p : /\ Places(p, attr.sample_type, BackFields)
                                    /\ OtherLaid(D, p, n, attr.sample_type, v)

LEMMA KernelEventIs ==
  ASSUME NEW id \in Nat, NEW n \in Nat
  PROVE  OtherEvent(KernelEvent(id, n), n, trace[id], FieldValue(id))
<1>1. CASE trace[id].sample_id_all
  <2>1. PICK p : /\ Places(p, trace[id].sample_type, BackFields)
                 /\ OtherLaid(KernelEvent(id, n), p, n, trace[id].sample_type, FieldValue(id))
    BY ONLY <1>1, id \in Nat, n \in Nat, KernelEventLaid, Zenon
  <2>2. KernelEvent(id, n) \in Seq(Nat) /\ KernelEvent(id, n)[1] = 1
    BY ONLY <2>1, Zenon DEF OtherLaid
  <2> QED BY ONLY <2>1, <2>2, Zenon DEF OtherEvent
<1>2. CASE ~trace[id].sample_id_all
  BY ONLY <1>2, id \in Nat, n \in Nat, NoSuffixLaid, Zenon DEF OtherEvent
<1> QED BY <1>1, <1>2

OtherInfo(i, id, attr, known, offset) ==
    /\ i.ok => /\ i.id = id
               /\ i.values = ValuesOf(FieldValue(id), attr.sample_type \cap Firsts(SuffixFields, 6))
    /\ i.ok <=> known /\ offset >= U64_SIZE

LEMMA OtherAnswer ==
  ASSUME NEW a, NEW id \in Nat, NEW attr, NEW n \in Evens, NEW D, OtherEvent(D, n, attr, FieldValue(id)),
         a.non_sample_id_offset \in {OFFSET_UNSET, NonSampleIdOffset(attr)},
         KnowsId(a, id) => AttrOf(a, id) = attr
  PROVE  OtherInfo(GetNonSampleEventInfo(a, D), id, attr, KnowsId(a, id), a.non_sample_id_offset)
<1> DEFINE i == GetNonSampleEventInfo(a, D)
           off == a.non_sample_id_offset
           v == FieldValue(id)
           V == ValuesOf(v, attr.sample_type \cap Firsts(SuffixFields, 6))
           Goal == OtherInfo(i, id, attr, KnowsId(a, id), off)
<1>1. ReadU32(D, 0) = 1 /\ ~(ReadU32(D, 0) >= UserTypeStart) /\ ReadU32(D, 0) < UserTypeStart
  BY DEF OtherEvent, ReadU32, UserTypeStart
<1>2. n \in Nat
  BY DEF Evens
<1>3. CASE off = OFFSET_UNSET \/ off = OFFSET_NOT_PRESENT
  <2>1. off < U64_SIZE /\ ~(off >= U64_SIZE)
    BY <1>3 DEF OFFSET_UNSET, OFFSET_NOT_PRESENT, U64_SIZE
  <2>2. i = Err("NoData")
    <3>1. Len(D) \in Nat
      BY DEF OtherEvent
    <3>2. ~(off > Len(D))
      BY <1>3, <3>1 DEF OFFSET_UNSET, OFFSET_NOT_PRESENT
    <3> QED BY <1>1, <2>1, <3>2 DEF GetNonSampleEventInfo
  <2>3. i.ok = FALSE
    BY <2>2, ErrIs
  <2> HIDE DEF i
  <2> QED BY ONLY <2>1, <2>3, Zenon DEF OtherInfo, i
<1>4. CASE ~attr.sample_id_all
  <2>1. NonSampleIdOffset(attr) = OFFSET_NOT_PRESENT
    BY <1>4 DEF NonSampleIdOffset
  <2> QED BY <1>3, <2>1
<1>5. CASE attr.sample_id_all
  <2>1. PICK p : Places(p, attr.sample_type, BackFields) /\ OtherLaid(D, p, n, attr.sample_type, v)
    BY <1>5 DEF OtherEvent
  <2>2. \A j \in 1 .. 6 : v[BackFields[j]] \in Nat
    <3>1. \A f \in {"Identifier", "Tid", "Time", "Id", "StreamId", "Cpu"} : v[f] \in Nat
      BY DEF FieldValue, UnitRange
    <3>2. \A k \in 1 .. 6 : BackFields[k] \in {"Identifier", "Tid", "Time", "Id", "StreamId", "Cpu"}
      BY DEF BackFields
    <3> QED BY ONLY <3>1, <3>2, Zenon
  <2>3. WalkBack(D, attr) = At(2 + n + p[0], V)
    BY ONLY <2>1, <2>2, n \in Evens, SuffixWalked, Zenon
  <2>4. /\ D \in Seq(Nat) /\ Len(D) = 2 + n + p[6]
        /\ \A j \in 1 .. 6 : BackFields[j] \in attr.sample_type =>
              WordIs(D, 2 + n + p[j - 1], v[BackFields[j]])
    BY ONLY <2>1, Zenon DEF OtherLaid
  <2>5. ASSUME NEW j \in 1 .. 6, BackFields[j] \in attr.sample_type \cap IdFields, off = p[6] - p[j - 1]
        PROVE  Goal
    <3>1. p[j - 1] \in Nat /\ p[j] = p[j - 1] + 2 /\ p[j] <= p[6] /\ p[6] \in Nat
      <4>1. BackFields[j] \in attr.sample_type /\ BackFields[j] \in IdFields
        BY <2>5
      <4>2. \A k \in 0 .. 6 : p[k] \in Nat
        BY <2>1, BackPlaces
      <4>3. p[j] = p[j - 1] + 2
        <5>1. Len(BackFields) = 6
          BY BackFieldsAre
        <5> QED BY ONLY <2>1, <4>1, <5>1, j \in 1 .. 6, Zenon DEF Places
      <4>4. p[j] <= p[6]
        <5>1. /\ p[1] <= p[2] /\ p[2] <= p[3] /\ p[3] <= p[4] /\ p[4] <= p[5] /\ p[5] <= p[6]
          <6>1. Len(BackFields) = 6
            BY BackFieldsAre
          <6> QED BY <2>1, <4>2, <6>1 DEF Places
        <5> QED BY ONLY <4>2, <5>1, j \in 1 .. 6
      <4> QED BY <4>2, <4>3, <4>4
    <3> DEFINE x == p[j - 1]
               y == p[6]
               z == p[j]
               l == Len(D)
    <3>2. x \in Nat /\ y \in Nat /\ z = x + 2 /\ z <= y /\ off = y - x /\ l = 2 + n + y
      BY ONLY <2>4, <2>5, <3>1, Zenon
    <3> HIDE DEF x, y, z, l, off
    <3>3. off >= 2 /\ ~(off < 2) /\ ~(off > l) /\ l - off = 2 + n + x /\ 2 + n + x \in Nat
          /\ (2 + n + x) + 2 <= l /\ l \in Nat
      BY ONLY <1>2, <3>2
    <3> DEFINE at == 2 + n + x
    <3>4. WordIs(D, at, id)
      <4>1. v[BackFields[j]] = id
        BY <2>5, FieldValuesAre DEF IdFields
      <4>2. BackFields[j] \in attr.sample_type
        BY <2>5
      <4> QED BY ONLY <2>4, <4>1, <4>2, j \in 1 .. 6, Zenon DEF x
    <3>5. ReadU64(D, at) = id
      <4>1. SameUpTo(l, D, D)
        BY DEF SameUpTo
      <4> HIDE DEF at
      <4>2. at \in Nat /\ at + 2 <= l /\ l \in Nat
        BY ONLY <3>3, Zenon DEF at
      <4> QED BY ONLY <3>4, <4>1, <4>2, id \in Nat, WordRead
    <3>6. ReadU64(D, Len(D) - a.non_sample_id_offset) = id
      BY ONLY <3>3, <3>5, Zenon DEF l, off
    <3>7. ~(a.non_sample_id_offset < U64_SIZE) /\ ~(a.non_sample_id_offset > Len(D)) /\ off >= U64_SIZE
      BY <3>3 DEF l, off, U64_SIZE
    <3>8. i = IF ~KnowsId(a, id) THEN Err("IdNotFound")
              ELSE Answer(a, id, WalkBack(D, AttrOf(a, id)))
      BY <1>1, <3>6, <3>7 DEF GetNonSampleEventInfo
    <3>9. CASE ~KnowsId(a, id)
      <4>1. i.ok = FALSE
        BY <3>8, <3>9, ErrIs
      <4> HIDE DEF i
      <4> QED BY ONLY <3>9, <4>1, Zenon DEF OtherInfo
    <3>10. CASE KnowsId(a, id)
      <4> DEFINE w == WalkBack(D, attr)
                 q == 2 + n + p[0]
      <4>1. i = Answer(a, id, w)
        BY <3>8, <3>10
      <4>2. w = At(q, V)
        BY <2>3
      <4> HIDE DEF w, q, V, i
      <4>3. w.error = "none" /\ w.values = V
        BY ONLY <4>2 DEF At
      <4>4. i = [ok |-> TRUE, id |-> id, desc |-> a.event_desc_id_to_index[id], values |-> w.values,
                 ranges |-> w.ranges]
        BY ONLY <4>1, <4>3 DEF Answer
      <4>5. i.ok = TRUE /\ i.id = id /\ i.values = w.values
        BY ONLY <4>4
      <4> QED BY ONLY <3>7, <3>10, <4>3, <4>5, Zenon DEF OtherInfo, V
    <3> QED BY ONLY <3>9, <3>10, Zenon
  <2>6. \/ NonSampleIdOffset(attr) = OFFSET_NOT_PRESENT
        \/ \E j \in 1 .. 6 : /\ BackFields[j] \in attr.sample_type \cap IdFields
                             /\ NonSampleIdOffset(attr) = p[6] - p[j - 1]
    BY ONLY <1>5, <2>1, BackOffsets, Zenon
  <2>7. off = OFFSET_UNSET \/ off = NonSampleIdOffset(attr)
    OBVIOUS
  <2> HIDE DEF i, off
  <2> QED BY ONLY <1>3, <2>5, <2>6, <2>7, Zenon DEF i, off
<1> QED BY ONLY <1>4, <1>5, Zenon DEF i

-----------------------------------------------------------------------------
(* The time read_event_time_order finds, for a reader that has taken the   *)
(* event's attr.                                                           *)
LEMMA SampleTimeIs ==
  ASSUME NEW a, NEW id \in Nat, NEW attr, NEW p, Places(p, attr.sample_type, SampleFields),
         NEW D, SampleLaid(D, p, attr, FieldValue(id)), a.sample_time_offset = SampleTimeOffset(attr)
  PROVE  EventTime(a, D) = IF "Time" \in attr.sample_type THEN 14 ELSE 0
<1> DEFINE off == a.sample_time_offset
           st == attr.sample_type
<1>1. D \in Seq(Nat) /\ Len(D) = EndAt(p, attr) /\ D[1] = SampleType
      /\ \A k \in 1 .. Len(SampleFields) :
            SampleFields[k] \in st => WordIs(D, 2 + p[k - 1], FieldValue(id)[SampleFields[k]])
  BY DEF SampleLaid
<1>2. EventTime(a, D) = IF off < U64_SIZE \/ off + U64_SIZE > Len(D) THEN 0 ELSE ReadU64(D, off)
  BY <1>1 DEF EventTime, ReadU32
<1>3. CASE "Time" \notin st
  <2>1. off = OFFSET_NOT_PRESENT
    BY ONLY <1>3, a.sample_time_offset = SampleTimeOffset(attr), SampleOffsets,
            Places(p, attr.sample_type, SampleFields), Zenon
  <2>2. off < U64_SIZE
    BY <2>1 DEF OFFSET_NOT_PRESENT, U64_SIZE
  <2> QED BY <1>2, <1>3, <2>2
<1>4. CASE "Time" \in st
  <2>1. off = 2 + p[3]
    BY ONLY <1>4, a.sample_time_offset = SampleTimeOffset(attr), SampleOffsets,
            Places(p, attr.sample_type, SampleFields), Zenon
  <2>2. SampleFields[4] = "Time" /\ Len(SampleFields) = 9 /\ 4 \in 1 .. 9 /\ 4 - 1 = 3
    BY DEF SampleFields
  <2>3. FieldValue(id)["Time"] = 14
    BY FieldValuesAre
  <2>4. WordIs(D, off, 14)
    BY ONLY <1>1, <1>4, <2>1, <2>2, <2>3, Zenon
  <2>5. p[3] \in Nat /\ p[4] \in Nat /\ p[4] <= p[9] /\ p[9] \in Nat
    <3>1. \A k \in 1 .. 9 : p[k - 1] \in Nat /\ p[k] <= p[9]
      BY SamplePlaces
    <3>2. \A k \in 0 .. 9 : p[k] \in Nat
      BY ONLY <2>2, Places(p, attr.sample_type, SampleFields), Zenon DEF Places
    <3> QED BY ONLY <3>1, <3>2
  <2>6. p[4] = p[3] + 2
    BY ONLY <1>4, <2>2, Places(p, attr.sample_type, SampleFields), Zenon DEF Places
  <2>7. PartsAt(p) = 2 + p[9] /\ PartsAt(p) <= EndAt(p, attr) /\ EndAt(p, attr) \in Nat
    <3>1. /\ PartsAt(p) \in Evens /\ ChainAt(p, attr) \in Evens /\ RawAt(p, attr) \in Evens
          /\ EndAt(p, attr) \in Evens
          /\ PartsAt(p) <= ChainAt(p, attr) /\ ChainAt(p, attr) <= RawAt(p, attr)
          /\ RawAt(p, attr) <= EndAt(p, attr)
      BY PlacesOfParts
    <3>2. PartsAt(p) <= EndAt(p, attr) /\ EndAt(p, attr) \in Nat
      BY ONLY <3>1 DEF Evens
    <3> QED BY <2>2, <3>2 DEF PartsAt
  <2> DEFINE x == p[3]
             y == p[4]
             z == p[9]
             l == Len(D)
             f == PartsAt(p)
  <2>8. x \in Nat /\ y = x + 2 /\ y <= z /\ z \in Nat /\ l \in Nat /\ f = 2 + z /\ f <= l /\ off = 2 + x
    BY ONLY <1>1, <2>1, <2>5, <2>6, <2>7, Zenon
  <2> HIDE DEF x, y, z, l, f, off
  <2>9. off \in Nat /\ off + 2 <= l /\ ~(off < 2) /\ ~(off + 2 > l) /\ l \in Nat
    BY ONLY <2>8
  <2>10. ReadU64(D, off) = 14
    <3>1. SameUpTo(l, D, D) /\ 14 \in Nat
      BY DEF SameUpTo
    <3> QED BY ONLY <2>4, <2>9, <3>1, WordRead
  <2> QED BY ONLY <1>2, <1>4, <2>9, <2>10 DEF U64_SIZE, l
<1> QED BY <1>3, <1>4

LEMMA OtherTimeIs ==
  ASSUME NEW a, NEW id \in Nat, NEW attr, NEW n \in Nat, NEW D, OtherEvent(D, n, attr, FieldValue(id)),
         a.non_sample_time_offset = NonSampleTimeOffset(attr)
  PROVE  EventTime(a, D) = IF "Time" \in attr.sample_type /\ attr.sample_id_all THEN 14 ELSE 0
<1> DEFINE off == a.non_sample_time_offset
           st == attr.sample_type
<1>1. D \in Seq(Nat) /\ D[1] = 1
  BY DEF OtherEvent
<1>2. EventTime(a, D) = IF off < U64_SIZE \/ off > Len(D) THEN 0 ELSE ReadU64(D, Len(D) - off)
  BY <1>1 DEF EventTime, ReadU32, SampleType, UserTypeStart
<1>4. CASE ~attr.sample_id_all
  <2>1. off = OFFSET_NOT_PRESENT
    BY <1>4 DEF NonSampleTimeOffset
  <2>2. off < U64_SIZE
    BY <2>1 DEF OFFSET_NOT_PRESENT, U64_SIZE
  <2> QED BY <1>2, <1>4, <2>2
<1>5. CASE attr.sample_id_all
  <2>1. PICK p : Places(p, st, BackFields) /\ OtherLaid(D, p, n, st, FieldValue(id))
    BY <1>5 DEF OtherEvent
  <2>2. CASE "Time" \notin st
    <3>1. off = OFFSET_NOT_PRESENT
      BY ONLY <1>5, <2>1, <2>2, a.non_sample_time_offset = NonSampleTimeOffset(attr), BackOffsets, Zenon
    <3>2. off < U64_SIZE
      BY <3>1 DEF OFFSET_NOT_PRESENT, U64_SIZE
    <3> QED BY <1>2, <2>2, <3>2
  <2>3. CASE "Time" \in st
    <3>1. off = p[6] - p[1]
      BY ONLY <1>5, <2>1, <2>3, a.non_sample_time_offset = NonSampleTimeOffset(attr), BackOffsets, Zenon
    <3>2. BackFields[2] = "Time" /\ 2 \in 1 .. 6 /\ 2 - 1 = 1
      BY DEF BackFields
    <3>3. FieldValue(id)["Time"] = 14
      BY FieldValuesAre
    <3>4. WordIs(D, 2 + n + p[1], 14) /\ Len(D) = 2 + n + p[6]
      BY ONLY <2>1, <2>3, <3>2, <3>3, Zenon DEF OtherLaid
    <3>5. p[1] \in Nat /\ p[6] \in Nat /\ p[1] + 2 <= p[6]
      <4>1. /\ p[2] = p[1] + 2 * Has(st, "Time")
            /\ p[3] = p[2] + 2 * Has(st, "Id") /\ p[4] = p[3] + 2 * Has(st, "StreamId")
            /\ p[5] = p[4] + 2 * Has(st, "Cpu") /\ p[6] = p[5] + 2 * Has(st, "Identifier")
            /\ \A k \in 0 .. 6 : p[k] \in Nat
        BY ONLY <2>1, BackPlaces, ZenonT(60)
      <4>2. Has(st, "Time") = 1 /\ \A flag : Has(st, flag) \in {0, 1}
        BY <2>3 DEF Has
      <4>3. p[1] \in Nat /\ p[6] \in Nat
        BY ONLY <4>1
      <4> HIDE DEF st
      <4> QED BY ONLY <4>1, <4>2, <4>3
    <3> DEFINE x == p[1]
               y == p[6]
               l == Len(D)
               at == 2 + n + x
    <3>6. x \in Nat /\ y \in Nat /\ x + 2 <= y /\ l = 2 + n + y /\ off = y - x
      BY ONLY <3>1, <3>4, <3>5, Zenon
    <3> HIDE DEF x, y, l, off
    <3>7. ~(off < 2) /\ ~(off > l) /\ l - off = at /\ at \in Nat /\ at + 2 <= l /\ l \in Nat
      BY ONLY <3>6, n \in Nat
    <3>8. ReadU64(D, at) = 14
      <4>1. SameUpTo(l, D, D) /\ 14 \in Nat /\ WordIs(D, at, 14)
        BY <3>4 DEF SameUpTo, x
      <4> HIDE DEF at
      <4> QED BY ONLY <3>7, <4>1, WordRead
    <3> QED BY ONLY <1>2, <1>5, <2>3, <3>7, <3>8 DEF U64_SIZE, l
  <2> QED BY <2>2, <2>3
<1> QED BY <1>4, <1>5

-----------------------------------------------------------------------------
(* The expectations of the properties, in the terms of the lemmas above.   *)
RangeOf(p, attr) ==
    [f \in PartFlags |->
        CASE f = "Read" -> <<PartsAt(p), PartsAt(p) + ReadSize(attr.read_format)>>
          [] f = "Callchain" -> <<ChainAt(p, attr), ChainAt(p, attr) + ChainSize>>
          [] f = "Raw" -> <<RawAt(p, attr) + 1, RawAt(p, attr) + 3>>]

LEMMA RangeOfParts ==
  ASSUME NEW p, NEW attr
  PROVE  /\ RangeOf(p, attr)["Read"] = <<PartsAt(p), PartsAt(p) + ReadSize(attr.read_format)>>
         /\ RangeOf(p, attr)["Callchain"] = <<ChainAt(p, attr), ChainAt(p, attr) + ChainSize>>
         /\ RangeOf(p, attr)["Raw"] = <<RawAt(p, attr) + 1, RawAt(p, attr) + 3>>
BY DEF RangeOf, PartFlags

LEMMA RangesEnd ==
  ASSUME NEW p, NEW attr, Places(p, attr.sample_type, SampleFields)
  PROVE  \A f \in attr.sample_type \cap PartFlags :
            RangeOf(p, attr)[f][2] \in Nat /\ RangeOf(p, attr)[f][2] <= EndAt(p, attr)
<1> SUFFICES ASSUME NEW f \in attr.sample_type \cap PartFlags
             PROVE  RangeOf(p, attr)[f][2] \in Nat /\ RangeOf(p, attr)[f][2] <= EndAt(p, attr)
  OBVIOUS
<1> DEFINE b0 == PartsAt(p)
           b1 == ChainAt(p, attr)
           b2 == RawAt(p, attr)
           end == EndAt(p, attr)
           rs == ReadSize(attr.read_format)
           cs == ChainSize
<1>1. b0 \in Evens /\ b1 \in Evens /\ b2 \in Evens /\ end \in Evens /\ b1 <= b2 /\ b2 <= end
  BY PlacesOfParts
<1>2. /\ "Read" \in attr.sample_type => b1 = b0 + rs
      /\ "Callchain" \in attr.sample_type => b2 = b1 + cs
      /\ "Raw" \in attr.sample_type => end = b2 + 4
  BY DEF ChainAt, RawAt, EndAt, RawSize
<1>3. /\ RangeOf(p, attr)["Read"] = <<b0, b0 + rs>>
      /\ RangeOf(p, attr)["Callchain"] = <<b1, b1 + cs>>
      /\ RangeOf(p, attr)["Raw"] = <<b2 + 1, b2 + 3>>
  BY RangeOfParts
<1>4. f = "Read" \/ f = "Callchain" \/ f = "Raw"
  BY DEF PartFlags
<1>5. rs \in Nat /\ cs \in Nat
  BY SizesAre
<1> HIDE DEF b0, b1, b2, end, rs, cs
<1>6. b0 \in Nat /\ b1 \in Nat /\ b2 \in Nat /\ end \in Nat
  BY ONLY <1>1 DEF Evens
<1>7. RangeOf(p, attr)[f][2] \in Nat /\ RangeOf(p, attr)[f][2] <= end
  BY <1>1, <1>2, <1>3, <1>4, <1>5, <1>6
<1> QED BY <1>7 DEF end

LEMMA FirstsAre ==
  /\ ToSet(SampleFields) = Firsts(SampleFields, Len(SampleFields))
  /\ ToSet(SuffixFields) = Firsts(SuffixFields, 6)
<1>1. DOMAIN SampleFields = 1 .. Len(SampleFields)
  BY DEF SampleFields
<1>2. DOMAIN SuffixFields = 1 .. 6
  BY DEF SuffixFields
<1> QED BY ONLY <1>1, <1>2, Zenon DEF ToSet, Firsts

(* What is expected is what the walks find.                                *)
LEMMA ExpectedAre ==
  ASSUME NEW id, query.id = id, NEW p,
         Laid(p, Words(SampleFields, trace[id].sample_type, id), trace[id].sample_type,
              SampleFields, FieldValue(id))
  PROVE  ExpectedRanges = Ranges(trace[id].sample_type \cap PartFlags, RangeOf(p, trace[id]))
<1> DEFINE attr == trace[id]
           st == attr.sample_type
           first == PERF_EVENT_HEADER_SIZE + Len(Words(SampleFields, st, id))
           chain == first + IF "Read" \in st THEN Len(ReadPart(attr.read_format)) ELSE 0
           raw == chain + IF "Callchain" \in st THEN Len(CallchainPart) ELSE 0
           val(f) == CASE f = "Read" -> <<first, chain>>
                       [] f = "Callchain" -> <<chain, raw>>
                       [] f = "Raw" -> <<raw + U32_SIZE, raw + U32_SIZE + 2>>
<1>1. ExpectedRanges = [f \in st \cap {"Read", "Callchain", "Raw"} |-> val(f)]
  BY DEF ExpectedRanges
<1>2. Len(ReadPart(attr.read_format)) = ReadSize(attr.read_format) /\ Len(CallchainPart) = ChainSize
  BY ReadPartIs, CallchainPartIs
<1>3. first = PartsAt(p)
  BY DEF Laid, PartsAt, PERF_EVENT_HEADER_SIZE
<1>4. chain = ChainAt(p, attr)
  BY ONLY <1>2, <1>3, Zenon DEF ChainAt
<1>5. raw = RawAt(p, attr)
  BY ONLY <1>2, <1>4, Zenon DEF RawAt
<1>6. /\ "Read" \in st => ChainAt(p, attr) = PartsAt(p) + ReadSize(attr.read_format)
      /\ "Callchain" \in st => RawAt(p, attr) = ChainAt(p, attr) + ChainSize
  BY DEF ChainAt, RawAt
<1>7. RawAt(p, attr) + U32_SIZE = RawAt(p, attr) + 1
      /\ RawAt(p, attr) + U32_SIZE + 2 = RawAt(p, attr) + 3
  <2>1. RawAt(p, attr) \in Nat
    <3>1. Places(p, st, SampleFields)
      BY DEF Laid
    <3> QED BY <3>1, PlacesOfParts DEF Evens
  <2> QED BY ONLY <2>1 DEF U32_SIZE
<1> HIDE DEF first, chain, raw
<1>8. \A f \in st \cap PartFlags : val(f) = RangeOf(p, attr)[f]
  <2> SUFFICES ASSUME NEW f \in st \cap PartFlags PROVE val(f) = RangeOf(p, attr)[f]
    OBVIOUS
  <2>1. f = "Read" \/ f = "Callchain" \/ f = "Raw"
    BY DEF PartFlags
  <2>2. CASE f = "Read"
    <3>1. val(f) = <<first, chain>> /\ "Read" \in st
      BY <2>2
    <3>2. RangeOf(p, attr)["Read"] = <<PartsAt(p), PartsAt(p) + ReadSize(attr.read_format)>>
      BY ONLY RangeOfParts, Zenon
    <3> QED BY ONLY <1>3, <1>4, <1>6, <2>2, <3>1, <3>2
  <2>3. CASE f = "Callchain"
    <3>1. val(f) = <<chain, raw>> /\ "Callchain" \in st
      BY <2>3
    <3>2. RangeOf(p, attr)["Callchain"] = <<ChainAt(p, attr), ChainAt(p, attr) + ChainSize>>
      BY ONLY RangeOfParts, Zenon
    <3> QED BY ONLY <1>4, <1>5, <1>6, <2>3, <3>1, <3>2
  <2>4. CASE f = "Raw"
    <3>1. val(f) = <<raw + U32_SIZE, raw + U32_SIZE + 2>>
      BY <2>4
    <3>2. RangeOf(p, attr)["Raw"] = <<RawAt(p, attr) + 1, RawAt(p, attr) + 3>>
      BY ONLY RangeOfParts, Zenon
    <3> QED BY ONLY <1>5, <1>7, <2>4, <3>1, <3>2
  <2> QED BY ONLY <2>1, <2>2, <2>3, <2>4, Zenon
<1> HIDE DEF val, st
<1> QED BY <1>1, <1>8 DEF Ranges, PartFlags, st

-----------------------------------------------------------------------------
(* A description's ids were recorded with its attr; and the question last  *)
(* asked is about an event the kernel wrote, the answer the one the table  *)
(* as it is now gives.                                                     *)
Recorded ==
    \A i \in DOMAIN attrs.event_desc_list :
        \A id \in attrs.event_desc_list[i].ids : attrs.event_desc_list[i].attr = trace[id]

AskedSample(id, n) ==
    /\ query = [kind |-> "sample", id |-> id, complete |-> n = Len(KernelSample(id)),
                data |-> SubSeq(KernelSample(id), 1, n)]
    /\ info = GetSampleEventInfo(attrs, SubSeq(KernelSample(id), 1, n))

AskedOther(id, n) ==
    /\ query = [kind |-> "other", id |-> id,
                complete |-> Len(KernelEvent(id, n)) = Len(KernelEvent(id, n)),
                data |-> SubSeq(KernelEvent(id, n), 1, Len(KernelEvent(id, n)))]
    /\ info = GetNonSampleEventInfo(attrs, KernelEvent(id, n))

Asked ==
    \/ query = NoQuery
    \/ \E id \in Ids : \E n \in 2 .. Len(KernelSample(id)) : AskedSample(id, n)
    \/ \E id \in Ids : \E n \in {0, 2} : AskedOther(id, n)

InfoInv == Table /\ Recorded /\ Asked

LEMMA InfoInvInit == Init => InfoInv
<1> SUFFICES ASSUME Init PROVE InfoInv
  OBVIOUS
<1>1. Table
  BY TableInit
<1>2. attrs.event_desc_list = <<>> /\ query = NoQuery
  BY DEF Init, NewAttrs
<1> QED BY <1>1, <1>2 DEF InfoInv, Recorded, Asked

LEMMA RecordedSame == Recorded /\ UNCHANGED <<trace, attrs>> => Recorded'
BY DEF Recorded

LEMMA RecordedAddAttr ==
  ASSUME Table, Recorded, NEW attr \in AllAttrs, NEW name \in Names,
         NEW ids \in SUBSET UNION {DOMAIN t : t \in Traces}, \A id \in ids : trace[id] = attr,
         attrs' = AddAttr(attrs, attr, name, ids), UNCHANGED trace
  PROVE  Recorded'
<1>1. CASE ~Compatible(attrs, attr)
  <2>1. attrs' = attrs
    BY <1>1 DEF AddAttr
  <2> QED BY <2>1, RecordedSame
<1>2. CASE Compatible(attrs, attr)
  <2> DEFINE list == attrs.event_desc_list
             desc == NewDesc(attrs, attr, name, ids)
             list2 == attrs'.event_desc_list
  <2>1. list \in Seq(Desc) /\ Len(list) \in Nat /\ DOMAIN list = 1 .. Len(list) /\ TableOK
    BY DEF Table, TableOK
  <2>2. desc \in Desc /\ list2 = Append(list, desc)
    BY <1>2, <2>1, AddAttrTable
  <2>3. desc.attr = attr /\ desc.ids = ids
    BY DEF NewDesc
  <2>4. \A i \in DOMAIN list : \A id \in list[i].ids : list[i].attr = trace[id]
    BY DEF Recorded
  <2> HIDE DEF list, desc, list2
  <2>5. DOMAIN list2 = 1 .. Len(list) + 1 /\ list2[Len(list) + 1] = desc
        /\ \A i \in 1 .. Len(list) : list2[i] = list[i]
    BY <2>1, <2>2
  <2>6. \A i \in DOMAIN list2 : i \in 1 .. Len(list) \/ i = Len(list) + 1
    BY <2>1, <2>5
  <2>7. \A i \in DOMAIN list2 : \A id \in list2[i].ids : list2[i].attr = trace[id]
    BY ONLY <2>1, <2>3, <2>4, <2>5, <2>6, \A id \in ids : trace[id] = attr, Zenon
  <2>8. trace' = trace
    OBVIOUS
  <2> QED BY <2>7, <2>8 DEF Recorded, list2
<1> QED BY <1>1, <1>2

LEMMA RecordedAddFormats ==
  ASSUME Table, Recorded, NEW formats, NEW whole \in BOOLEAN,
         attrs' = AddFormats(attrs, formats, whole), UNCHANGED trace
  PROVE  Recorded'
<1> DEFINE list == attrs.event_desc_list
           list2 == attrs'.event_desc_list
<1>1. TableOK /\ DOMAIN list = 1 .. Len(list) /\ \A i \in DOMAIN list : list[i] \in Desc
  BY DEF Table, TableOK
<1>2. /\ list2 \in Seq(Desc) /\ Len(list2) = Len(list)
      /\ \A i \in DOMAIN list : list2[i] = IF whole THEN WithFormat(list[i], attrs'.format_by_id)
                                           ELSE list[i]
  BY <1>1, AddFormatsTable
<1>3. DOMAIN list2 = DOMAIN list
  BY <1>1, <1>2
<1>4. \A i \in DOMAIN list : list2[i].attr = list[i].attr /\ list2[i].ids = list[i].ids
  BY <1>1, <1>2, WithFormatParts
<1>5. \A i \in DOMAIN list : \A id \in list[i].ids : list[i].attr = trace[id]
  BY DEF Recorded
<1> HIDE DEF list, list2
<1>6. \A i \in DOMAIN list2 : \A id \in list2[i].ids : list2[i].attr = trace[id]
  BY ONLY <1>3, <1>4, <1>5, Zenon
<1>7. trace' = trace
  OBVIOUS
<1> QED BY <1>6, <1>7 DEF Recorded, list2

LEMMA InfoInvNext == InfoInv /\ [Next]_vars => InfoInv'
<1> SUFFICES ASSUME InfoInv, [Next]_vars PROVE InfoInv'
  OBVIOUS
<1>1. Table /\ Recorded /\ Asked
  BY DEF InfoInv
<1>2. Table'
  BY <1>1, TableNext
<1>3. ASSUME NEW ids \in SUBSET Ids, NEW name \in Names, AddDesc(ids, name) PROVE InfoInv'
  <2>1. PICK attr \in {trace[id] : id \in Ids} :
           /\ \A id \in ids : trace[id] = attr
           /\ attrs' = AddAttr(attrs, attr, name, ids)
    BY <1>3 DEF AddDesc
  <2>2. trace \in Traces /\ UNCHANGED trace /\ query' = NoQuery
    BY <1>1, <1>3 DEF AddDesc, Table, TableOK
  <2>3. attr \in AllAttrs /\ ids \in SUBSET UNION {DOMAIN t : t \in Traces}
    BY <2>2 DEF AllAttrs, Ids
  <2>4. Recorded'
    BY <1>1, <2>1, <2>2, <2>3, RecordedAddAttr
  <2> QED BY <1>2, <2>2, <2>4 DEF InfoInv, Asked
<1>4. ASSUME NEW formats \in SUBSET Formats, NEW whole \in BOOLEAN, ParseTracingData(formats, whole)
      PROVE  InfoInv'
  <2>1. Recorded' /\ query' = NoQuery
    BY <1>1, <1>4, RecordedAddFormats DEF ParseTracingData
  <2> QED BY <1>2, <2>1 DEF InfoInv, Asked
<1>5. ASSUME NEW id \in Ids, AskSample(id) PROVE InfoInv'
  <2>1. PICK n \in 2 .. Len(KernelSample(id)) :
           /\ Ask("sample", id, KernelSample(id), n)
           /\ info' = GetSampleEventInfo(attrs, SubSeq(KernelSample(id), 1, n))
           /\ trace' = trace /\ attrs' = attrs
    BY <1>5 DEF AskSample
  <2>2. Recorded'
    BY <1>1, <2>1, RecordedSame
  <2>3. KernelSample(id)' = KernelSample(id) /\ Ids' = Ids
    BY <2>1 DEF KernelSample, Ids
  <2>4. AskedSample(id, n)'
    BY <2>1, <2>3 DEF AskedSample, Ask
  <2>5. Asked'
    BY ONLY <2>3, <2>4, id \in Ids, n \in 2 .. Len(KernelSample(id)), Zenon DEF Asked
  <2> QED BY <1>2, <2>2, <2>5 DEF InfoInv
<1>6. ASSUME NEW id \in Ids, AskNonSample(id) PROVE InfoInv'
  <2>1. PICK n \in {0, 2} :
           /\ Ask("other", id, KernelEvent(id, n), Len(KernelEvent(id, n)))
           /\ info' = GetNonSampleEventInfo(attrs, KernelEvent(id, n))
           /\ trace' = trace /\ attrs' = attrs
    BY <1>6 DEF AskNonSample
  <2>2. Recorded'
    BY <1>1, <2>1, RecordedSame
  <2>3. KernelEvent(id, n)' = KernelEvent(id, n) /\ Ids' = Ids
    BY <2>1 DEF KernelEvent, Ids
  <2>4. AskedOther(id, n)'
    BY <2>1, <2>3 DEF AskedOther, Ask
  <2>5. Asked'
    BY ONLY <2>3, <2>4, id \in Ids, n \in {0, 2}, Zenon DEF Asked
  <2> QED BY <1>2, <2>2, <2>5 DEF InfoInv
<1>7. CASE UNCHANGED vars
  <2>1. trace' = trace /\ attrs' = attrs /\ query' = query /\ info' = info
    BY <1>7 DEF vars
  <2>2. Recorded'
    BY <1>1, <2>1, RecordedSame
  <2>3. Asked'
    BY <1>1, <2>1 DEF Asked, AskedSample, AskedOther, KernelSample, KernelEvent, Ids
  <2> QED BY <1>2, <2>2, <2>3 DEF InfoInv
<1> QED BY <1>3, <1>4, <1>5, <1>6, <1>7 DEF Next

(* The table as it is for an id it knows: the attr the id was recorded with. *)
LEMMA KnownAttr ==
  ASSUME InfoInv, NEW id, KnowsId(attrs, id)
  PROVE  /\ AttrOf(attrs, id) = trace[id]
         /\ attrs.sample_time_offset = SampleTimeOffset(trace[id])
         /\ attrs.non_sample_time_offset = NonSampleTimeOffset(trace[id])
<1> DEFINE i == attrs.event_desc_id_to_index[id]
<1>1. i \in DOMAIN attrs.event_desc_list /\ id \in attrs.event_desc_list[i].ids
  BY DEF InfoInv, Table, LastDescWins, KnowsId
<1>2. attrs.event_desc_list[i].attr = trace[id]
  BY <1>1 DEF InfoInv, Recorded
<1> QED BY <1>1, <1>2 DEF InfoInv, Table, OffsetsAgree, AttrOf

(* The event asked about was recorded with an attr the reader takes, or    *)
(* has taken.  The samples of an attr it refused have their id elsewhere.  *)
AttrFits == query.kind # "none" => Compatible(attrs, trace[query.id])

LEMMA IdsAreNat == ASSUME InfoInv, NEW id \in Ids PROVE id \in Nat
  BY IdsAssumption DEF InfoInv, Table, TableOK, Ids

LEMMA SampleRight ==
  ASSUME InfoInv, AttrFits, NEW id \in Ids, NEW n \in 2 .. Len(KernelSample(id)), AskedSample(id, n)
  PROVE  InfoIsKernels
<1> DEFINE D == KernelSample(id)
           attr == trace[id]
           st == attr.sample_type
           v == FieldValue(id)
           known == KnowsId(attrs, id)
           off == attrs.sample_id_offset
           V == ValuesOf(v, st \cap Firsts(SampleFields, Len(SampleFields)))
<1>1. id \in Nat
  BY IdsAreNat
<1>2. PICK p : Laid(p, Words(SampleFields, st, id), st, SampleFields, v) /\ SampleLaid(D, p, attr, v)
  BY ONLY <1>1, KernelSampleLaid, Zenon
<1>3. Places(p, st, SampleFields) /\ D \in Seq(Nat)
  BY ONLY <1>2, Zenon DEF Laid, SampleLaid
<1> DEFINE r == RangeOf(p, attr)
           R == Ranges(st \cap PartFlags, r)
           end == EndAt(p, attr)
<1>4. /\ query.kind = "sample" /\ query.id = id /\ query.data = SubSeq(D, 1, n)
      /\ query.complete = (n = Len(D))
      /\ info = GetSampleEventInfo(attrs, SubSeq(D, 1, n))
  BY DEF AskedSample
<1>5. known => /\ AttrOf(attrs, id) = attr
               /\ attrs.sample_time_offset = SampleTimeOffset(attr)
  BY KnownAttr
<1>6. off \in {OFFSET_UNSET, SampleIdOffset(attr)}
  BY <1>4 DEF AttrFits, Compatible
<1>7. SampleInfo(info, n, id, p, attr, r, known, off, n = Len(D))
  <2>1. /\ r["Read"] = <<PartsAt(p), PartsAt(p) + ReadSize(attr.read_format)>>
        /\ r["Callchain"] = <<ChainAt(p, attr), ChainAt(p, attr) + ChainSize>>
        /\ r["Raw"] = <<RawAt(p, attr) + 1, RawAt(p, attr) + 3>>
    BY ONLY RangeOfParts, Zenon
  <2>2. SampleInfo(GetSampleEventInfo(attrs, SubSeq(D, 1, n)), n, id, p, attr, r, known, off, n = Len(D))
    <3> HIDE DEF r, D, known
    <3>1. known => AttrOf(attrs, id) = attr
      BY ONLY <1>5, Zenon
    <3>2. n \in 2 .. Len(D)
      BY DEF D
    <3> QED BY ONLY <1>1, <1>2, <1>3, <1>6, <2>1, <3>1, <3>2, SampleAnswer, Zenon DEF known
  <2> QED BY ONLY <1>4, <2>2, Zenon
<1>8. Expected(SampleFields) = V
  <2>1. Expected(SampleFields) = [f \in (st \cap ToSet(SampleFields)) \ IdFields |-> v[f]]
    BY <1>4 DEF Expected
  <2> QED BY ONLY <2>1, FirstsAre, Zenon DEF ValuesOf
<1>9. ExpectedRanges = R
  BY ONLY <1>2, <1>4, ExpectedAre, Zenon
<1>10. KnownId <=> known
  BY <1>4 DEF KnownId
<1>11. CanRead <=> CanTell(attr)
  BY <1>4 DEF CanRead, CanTell
<1>12. Len(query.data) = n /\ n \in Nat /\ (n = Len(D) => query.data = D)
  <2> HIDE DEF D
  <2>1. n \in 2 .. Len(D)
    BY DEF D
  <2>2. Len(SubSeq(D, 1, n)) = n /\ n \in Nat /\ (n = Len(D) => SubSeq(D, 1, n) = D)
    BY ONLY <1>3, <2>1, CutIs, Zenon
  <2> QED BY ONLY <1>4, <2>2, Zenon
<1>13. \A f \in DOMAIN R : end <= n => R[f][2] <= Len(query.data)
  <2>1. DOMAIN R = st \cap PartFlags /\ \A f \in DOMAIN R : R[f] = r[f]
    BY DEF Ranges
  <2>2. \A f \in st \cap PartFlags : r[f][2] \in Nat /\ r[f][2] <= end
    BY ONLY <1>3, RangesEnd, Zenon
  <2>3. end \in Nat
    BY ONLY <1>3, PlacesOfParts DEF Evens
  <2> HIDE DEF R, r, end
  <2>4. end <= n => \A f \in st \cap PartFlags : r[f][2] <= n
    BY ONLY <1>12, <2>2, <2>3
  <2> QED BY ONLY <1>12, <2>1, <2>4, Zenon
<1>14. SampleInfoIsKernels
  <2>1. info.ok => /\ info.id = id /\ info.values = V /\ info.ranges = R /\ end <= n
    BY ONLY <1>7, Zenon DEF SampleInfo
  <2>2. n = Len(D) => (info.ok <=> known /\ CanTell(attr) /\ off >= U64_SIZE)
    BY ONLY <1>7, Zenon DEF SampleInfo
  <2> HIDE DEF V, R, known, end, D
  <2>3. info.ok => /\ info.id = query.id /\ info.values = Expected(SampleFields)
                   /\ info.ranges = ExpectedRanges
                   /\ \A f \in DOMAIN info.ranges : info.ranges[f][2] <= Len(query.data)
    BY ONLY <1>4, <1>8, <1>9, <1>13, <2>1, Zenon
  <2>4. query.complete => (info.ok <=> KnownId /\ CanRead /\ off >= U64_SIZE)
    BY ONLY <1>4, <1>10, <1>11, <2>2, Zenon
  <2> QED BY ONLY <2>3, <2>4, Zenon DEF SampleInfoIsKernels
<1>15. SortTimeIsEventTime
  <2> DEFINE timed == /\ "Time" \in trace[query.id].sample_type
                      /\ query.kind = "sample" \/ trace[query.id].sample_id_all
  <2>1. ASSUME query.complete, KnownId
        PROVE  EventTime(attrs, query.data) = IF timed THEN FieldValue(query.id).Time ELSE 0
    <3>1. query.data = D
      BY ONLY <1>4, <1>12, <2>1, Zenon
    <3>2. attrs.sample_time_offset = SampleTimeOffset(attr)
      BY ONLY <1>5, <1>10, <2>1, Zenon
    <3>3. EventTime(attrs, D) = IF "Time" \in st THEN 14 ELSE 0
      <4> HIDE DEF D
      <4> QED BY ONLY <1>1, <1>2, <1>3, <3>2, SampleTimeIs, Zenon
    <3>4. FieldValue(query.id).Time = 14
      BY <1>1, <1>4, FieldValuesAre
    <3>5. timed <=> "Time" \in st
      BY <1>4
    <3> HIDE DEF timed, D
    <3> QED BY ONLY <3>1, <3>3, <3>4, <3>5, Zenon
  <2> QED BY ONLY <2>1, Zenon DEF SortTimeIsEventTime
<1>16. NonSampleInfoIsKernels
  BY <1>4 DEF NonSampleInfoIsKernels
<1> QED BY ONLY <1>14, <1>15, <1>16, Zenon DEF InfoIsKernels

LEMMA OtherRight ==
  ASSUME InfoInv, AttrFits, NEW id \in Ids, NEW n \in {0, 2}, AskedOther(id, n)
  PROVE  InfoIsKernels
<1> DEFINE D == KernelEvent(id, n)
           attr == trace[id]
           st == attr.sample_type
           v == FieldValue(id)
           known == KnowsId(attrs, id)
           off == attrs.non_sample_id_offset
           V == ValuesOf(v, st \cap Firsts(SuffixFields, 6))
<1>1. id \in Nat
  BY IdsAreNat
<1>2. n \in Nat /\ n \in Evens
  <2>1. 0 = 2 * 0 /\ 2 = 2 * 1
    OBVIOUS
  <2> QED BY <2>1 DEF Evens
<1>3. OtherEvent(D, n, attr, v) /\ D \in Seq(Nat)
  <2>1. OtherEvent(D, n, attr, v)
    BY ONLY <1>1, <1>2, KernelEventIs, Zenon
  <2> QED BY ONLY <2>1, Zenon DEF OtherEvent
<1>4. /\ query.kind = "other" /\ query.id = id /\ query.data = SubSeq(D, 1, Len(D))
      /\ info = GetNonSampleEventInfo(attrs, D)
  BY DEF AskedOther
<1>5. known => /\ AttrOf(attrs, id) = attr
               /\ attrs.non_sample_time_offset = NonSampleTimeOffset(attr)
  BY KnownAttr
<1>6. off \in {OFFSET_UNSET, NonSampleIdOffset(attr)}
  BY <1>4 DEF AttrFits, Compatible
<1>7. OtherInfo(info, id, attr, known, off)
  <2>1. OtherInfo(GetNonSampleEventInfo(attrs, D), id, attr, known, off)
    <3> HIDE DEF D
    <3>1. known => AttrOf(attrs, id) = attr
      BY ONLY <1>5, Zenon
    <3> QED BY ONLY <1>1, <1>2, <1>3, <1>6, <3>1, OtherAnswer, Zenon
  <2> QED BY ONLY <1>4, <2>1, Zenon
<1>8. Expected(SuffixFields) = V
  <2>1. Expected(SuffixFields) = [f \in (st \cap ToSet(SuffixFields)) \ IdFields |-> v[f]]
    BY <1>4 DEF Expected
  <2> QED BY ONLY <2>1, FirstsAre, Zenon DEF ValuesOf
<1>9. KnownId <=> known
  BY <1>4 DEF KnownId
<1>10. query.data = D
  <2> HIDE DEF D
  <2>1. SubSeq(D, 1, Len(D)) = D
    BY ONLY <1>3
  <2> QED BY ONLY <1>4, <2>1, Zenon
<1>11. NonSampleInfoIsKernels
  <2> HIDE DEF V, known, off
  <2>1. /\ info.ok => info.id = id /\ info.values = V
        /\ info.ok <=> known /\ off >= U64_SIZE
    BY ONLY <1>7, Zenon DEF OtherInfo, V
  <2> QED BY ONLY <1>4, <1>8, <1>9, <2>1, Zenon DEF NonSampleInfoIsKernels, off
<1>12. SortTimeIsEventTime
  <2> DEFINE timed == /\ "Time" \in trace[query.id].sample_type
                      /\ query.kind = "sample" \/ trace[query.id].sample_id_all
  <2>1. ASSUME KnownId
        PROVE  EventTime(attrs, query.data) = IF timed THEN FieldValue(query.id).Time ELSE 0
    <3>2. attrs.non_sample_time_offset = NonSampleTimeOffset(attr)
      BY ONLY <1>5, <1>9, <2>1, Zenon
    <3>3. EventTime(attrs, D) = IF "Time" \in st /\ attr.sample_id_all THEN 14 ELSE 0
      <4> HIDE DEF D
      <4> QED BY ONLY <1>1, <1>2, <1>3, <3>2, OtherTimeIs, Zenon
    <3>4. FieldValue(query.id).Time = 14
      BY <1>1, <1>4, FieldValuesAre
    <3>5. timed <=> "Time" \in st /\ attr.sample_id_all
      BY <1>4
    <3> HIDE DEF timed, D
    <3> QED BY ONLY <1>10, <3>3, <3>4, <3>5, Zenon
  <2> QED BY ONLY <2>1, Zenon DEF SortTimeIsEventTime
<1>13. SampleInfoIsKernels
  BY <1>4 DEF SampleInfoIsKernels
<1> QED BY ONLY <1>11, <1>12, <1>13, Zenon DEF InfoIsKernels

(* For every recording, whatever layouts its events have, and every order  *)
(* in which attrs and tracing data arrive: what get_sample_event_info,     *)
(* get_non_sample_event_info and read_event_time_order say of an event is  *)
(* what the kernel wrote, wherever a sample is cut, unless its attr is one *)
(* that add_attr refuses.                                                  *)
THEOREM InfoIsWhatWasWritten == Spec => [](AttrFits => InfoIsKernels)
<1>1. InfoInv /\ AttrFits => InfoIsKernels
  <2> SUFFICES ASSUME InfoInv, AttrFits PROVE InfoIsKernels
    OBVIOUS
  <2>1. Asked
    BY DEF InfoInv
  <2>2. CASE query = NoQuery
    BY <2>2 DEF NoQuery, InfoIsKernels, SampleInfoIsKernels, NonSampleInfoIsKernels,
                SortTimeIsEventTime
  <2>3. CASE \E id \in Ids : \E n \in 2 .. Len(KernelSample(id)) : AskedSample(id, n)
    BY ONLY InfoInv, AttrFits, <2>3, SampleRight, Zenon
  <2>4. CASE \E id \in Ids : \E n \in {0, 2} : AskedOther(id, n)
    BY ONLY InfoInv, AttrFits, <2>4, OtherRight, Zenon
  <2> QED BY ONLY <2>1, <2>2, <2>3, <2>4, Zenon DEF Asked
<1> QED BY <1>1, InfoInvInit, InfoInvNext, PTL DEF Spec

=============================================================================
