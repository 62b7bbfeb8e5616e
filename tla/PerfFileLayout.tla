--------------------------- MODULE PerfFileLayout ---------------------------
(***************************************************************************)
(* The layout of a perf.data file in normal mode, as PerfDataFileReader    *)
(* reads it.  A file is a sequence of units; the file header, a section    *)
(* (offset and size), an attr, an id and an event take one unit each, the  *)
(* content of a perf header takes any number.  Offsets count units from 0. *)
(* Values are tuples of numbers, whatever the kind of the unit.            *)
(***************************************************************************)
EXTENDS Integers, Sequences, FiniteSets

CONSTANTS
    SECTION_LIMIT,   \* 0x80000000: sections from this size on are refused
    IDS_LIMIT,       \* 0x10000: ids of a description
    STRING_LIMIT,    \* 0x10000: size of its name with the padding
    FullSize(_)      \* an attr whose field size says size_of::<PerfEventAttr>()

(* Indexes of the perf headers that matter here, numbered without gaps in  *)
(* the order of the code; LastFeature is the length of the array.          *)
TracingData == 1
Hostname == 2
OSRelease == 3
Arch == 4
NrCpus == 5
EventDesc == 6
SampleTime == 7
ClockId == 8
ClockDataIndex == 9
LastFeature == 10

HeaderIndexes == 0 .. LastFeature - 1

Unit(kind, value) == [k |-> kind, v |-> value]
Word(n) == Unit("word", <<n>>)

Slice(d, offset, size) == SubSeq(d, offset + 1, offset + size)

-----------------------------------------------------------------------------
(* section_valid: an offset at the end of the file is refused, even for an *)
(* empty section.                                                          *)
SectionValid(d, section) ==
    section[1] < Len(d) /\ section[2] <= Len(d) - section[1]

(* What open found: the attrs with their ids, the headers, the events.     *)
Refused == [ok |-> FALSE, attrs |-> <<>>, headers |-> [i \in HeaderIndexes |-> <<>>],
            events |-> <<>>]

IsKind(d, offset, kind) == offset < Len(d) /\ d[offset + 1].k = kind

(* load_attrs: pairs of an attr and the section of its ids.                *)
ENTRY_SIZE == 2

EntryValid(d, offset) ==
    /\ IsKind(d, offset, "attr") /\ IsKind(d, offset + 1, "section")
    /\ SectionValid(d, d[offset + 2].v) /\ d[offset + 2].v[2] < SECTION_LIMIT

LoadEntry(d, offset) ==
    LET section == d[offset + 2].v
        ids == Slice(d, section[1], section[2])
    IN [attr |-> d[offset + 1].v[1], ids |-> [i \in 1 .. section[2] |-> ids[i].v[1]]]

(* The entries that begin before the section's end.                        *)
Entries(section) == 1 .. (section[2] + ENTRY_SIZE - 1) \div ENTRY_SIZE
EntryOffset(section, n) == section[1] + (n - 1) * ENTRY_SIZE

LoadAttrs(d, section) ==
    [n \in Entries(section) |-> LoadEntry(d, EntryOffset(section, n))]

(* load_headers: one section per flag, right after the data.               *)
HeaderPos(data, flags, index) ==
    data[1] + data[2] + Cardinality({i \in 0 .. index - 1 : flags[i + 1] = 1})

HeaderValid(d, pos) ==
    IsKind(d, pos, "section") /\ SectionValid(d, d[pos + 1].v) /\ d[pos + 1].v[2] < SECTION_LIMIT

LoadHeader(d, pos) == Slice(d, d[pos + 1].v[1], d[pos + 1].v[2])

LoadHeaders(d, data, flags) ==
    [i \in HeaderIndexes |-> IF flags[i + 1] = 1 THEN LoadHeader(d, HeaderPos(data, flags, i))
                             ELSE <<>>]

(* open: the header's value is the attrs section, the data section and the *)
(* flags.  A header that was never rewritten has no magic.                 *)
OpenLayout(d) ==
    LET h == d[1].v
        attrs == SubSeq(h, 1, 2)
        data == SubSeq(h, 3, 4)
        flags == SubSeq(h, 5, 4 + LastFeature)
    IN IF /\ IsKind(d, 0, "header")
          /\ SectionValid(d, attrs) /\ SectionValid(d, data) /\ attrs[2] < SECTION_LIMIT
          /\ \A n \in Entries(attrs) : EntryValid(d, EntryOffset(attrs, n))
          /\ \A i \in HeaderIndexes : flags[i + 1] = 1 => HeaderValid(d, HeaderPos(data, flags, i))
       THEN [ok |-> TRUE, attrs |-> LoadAttrs(d, attrs), headers |-> LoadHeaders(d, data, flags),
             events |-> Slice(d, data[1], data[2])]
       ELSE Refused

-----------------------------------------------------------------------------
(* parse_header_event_desc: the count, then for each description its attr, *)
(* the number of ids, the name and the ids.  It stops, without an error,   *)
(* at the first description that is cut off, whose attr says another size  *)
(* or that is beyond the limits.  A name is padded with 1 to 8 NULs.       *)
StringSize(name) == Len(name) + (8 - (Len(name) % 8))

ParseDesc(c, acc) ==
    LET n == c[acc.pos + 2].v[1]
    IN IF \/ acc.pos + 2 >= Len(c)
          \/ ~ FullSize(c[acc.pos + 1].v[1])
          \/ n > IDS_LIMIT \/ StringSize(c[acc.pos + 3].v) > STRING_LIMIT
          \/ acc.pos + 3 + n > Len(c)
       THEN acc
       ELSE [pos |-> acc.pos + 3 + n,
             descs |-> Append(acc.descs,
                [attr |-> c[acc.pos + 1].v[1], name |-> c[acc.pos + 3].v,
                 ids |-> [i \in 1 .. n |-> c[acc.pos + 3 + i].v[1]]])]

ParseEventDesc(c) ==
    LET after[n \in 0 .. c[1].v[1]] ==
            IF n = 0 THEN [pos |-> 1, descs |-> <<>>] ELSE ParseDesc(c, after[n - 1])
    IN IF c = <<>> THEN <<>> ELSE after[c[1].v[1]].descs

(* parse_tracing_data: the signature, sizes, two named sections, a counted *)
(* list of ftraces, a counted list of systems, each a counted list of      *)
(* formats, and three sections.  It stops where the data ends too soon.    *)
NoTracing == [long_size |-> 0, page_size |-> 0, header_page |-> 0, header_event |-> 0,
              ftraces |-> <<>>, kallsyms |-> 0, printk |-> 0, cmd_line |-> 0, formats |-> {}]

(* A format is its id and the place of its field common_type, 0 when it    *)
(* does not parse or has no usable one.  The first usable place counts for *)
(* the file: formats with another are skipped.                             *)
ParseSystem(c, acc) ==
    IF acc.pos + 2 > Len(c) THEN acc
    ELSE LET n == c[acc.pos + 2].v[1]
             id(i) == c[acc.pos + 2 + i].v[1]
             place(i) == c[acc.pos + 2 + i].v[2]
             usable == {i \in 1 .. n : place(i) # 0}
             first == CHOOSE i \in usable : \A j \in usable : i <= j
             common == IF acc.common # 0 \/ usable = {} THEN acc.common ELSE place(first)
         IN [pos |-> acc.pos + 2 + n, common |-> common,
             formats |-> acc.formats \cup
                {[id |-> id(i), system |-> c[acc.pos + 1].v[1], common |-> common] :
                    i \in {j \in usable : place(j) = common}}]

ParseSystems(c, start, count) ==
    LET after[n \in 0 .. count] ==
            IF n = 0 THEN [pos |-> start, common |-> 0, formats |-> {}]
            ELSE ParseSystem(c, after[n - 1])
    IN after[count]

ParseTracing(c) ==
    IF c = <<>> \/ c[1].k # "signature" THEN NoTracing
    ELSE LET nf == c[5].v[1]
             all == ParseSystems(c, 6 + nf, c[6 + nf].v[1])
         IN [long_size |-> c[2].v[1], page_size |-> c[2].v[2],
             header_page |-> c[3].v[1], header_event |-> c[4].v[1],
             ftraces |-> [i \in 1 .. nf |-> c[5 + i].v[1]],
             kallsyms |-> c[all.pos + 1].v[1], printk |-> c[all.pos + 2].v[1],
             cmd_line |-> c[all.pos + 3].v[1], formats |-> all.formats]
=============================================================================
