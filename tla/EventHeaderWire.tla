--------------------------- MODULE EventHeaderWire ---------------------------
(***************************************************************************)
(* An EventHeader event between the two programs: the name of its          *)
(* tracepoint and the units written to user_events_data, as the eventheader *)
(* crate makes them (CommandString::format, write_eventheader) and as      *)
(* tracepoint_decode takes them apart (enumerate_with_name_and_data,       *)
(* read_field_name_and_type, EventHeaderEventInfo).                        *)
(*                                                                         *)
(* The fixed header and the header of an extension are one unit each, a    *)
(* 16-byte activity id is one, and so is every byte of the metadata.       *)
(* Names are sequences of one-character strings.                           *)
(***************************************************************************)
EXTENDS EventBuilder

HexDigits == <<"0", "1", "2", "3", "4", "5", "6", "7", "8", "9",
              "a", "b", "c", "d", "e", "f">>
LowerCase == {"a", "b", "c", "d", "e", "f", "g", "h", "i", "j", "k", "l", "m",
              "n", "o", "p", "q", "r", "s", "t", "u", "v", "w", "x", "y", "z"}
UpperCase == {"A", "B", "C", "D", "E", "F", "G", "H", "I", "J", "K", "L", "M",
              "N", "O", "P", "Q", "R", "S", "T", "U", "V", "W", "X", "Y", "Z"}

(* {:x}.                                                                   *)
Hex(n) ==
    LET hex[m \in 0 .. n] ==
          IF m < 16 THEN <<HexDigits[m + 1]>> ELSE Append(hex[m \div 16], HexDigits[(m % 16) + 1])
    IN hex[n]

(* CommandString::format, up to the first space.                           *)
FormatName(provider, options, level, keyword) ==
    provider \o <<"_", "L">> \o Hex(level) \o <<"K">> \o Hex(keyword) \o options

(* write_eventheader.  An extension says whether another one follows it.   *)
Extension(size, kind, chain) == [size |-> size, kind |-> kind, chain |-> chain]

Ids(activity, related) ==
    (IF activity = 0 THEN <<>> ELSE <<activity>>) \o (IF related = 0 THEN <<>> ELSE <<related>>)

ActivityExtension(activity, related, more) ==
    IF activity = 0 THEN <<>>
    ELSE <<Extension(Len(Ids(activity, related)), "ActivityId", more)>> \o Ids(activity, related)

MetadataExtension(meta) ==
    IF meta = <<>> THEN <<>> ELSE <<Extension(Len(meta), "Metadata", FALSE)>> \o meta

WriteEventheader(header, activity, related, meta, data) ==
    <<header>> \o ActivityExtension(activity, related, meta # <<>>)
               \o MetadataExtension(meta) \o data

-----------------------------------------------------------------------------
(* lowercase_hex_to_int, from pos: the value and where it ends.            *)
Nibble(ch) == SelectInSeq(HexDigits, LAMBDA d : d = ch) - 1

HexToInt(name, pos) ==
    LET end == Min({i \in pos .. Len(name) : name[i] \notin Range(HexDigits)} \cup {Len(name) + 1})
        val[i \in pos - 1 .. end - 1] == IF i < pos THEN 0 ELSE val[i - 1] * 16 + Nibble(name[i])
    IN [val |-> val[end - 1], end |-> end]

(* 0 if there is none, as rfind and the loop of enumerate_* report it.     *)
LastUnderscore(name) == SelectLastInSeq(name, LAMBDA ch : ch = "_")

IsChar(name, pos, ch) == pos <= Len(name) /\ name[pos] = ch

(* Other attributes: an upper-case letter, then lower-case and digits.     *)
AttributesOK(name, pos) ==
    /\ pos <= Len(name) => name[pos] \in UpperCase
    /\ \A i \in pos .. Len(name) : name[i] \in UpperCase \cup LowerCase \cup Range(HexDigits)

(* The keyword in the name, or -1 if the name does not fit the header.     *)
ParseName(name, level) ==
    LET l == LastUnderscore(name) + 1
        lev == HexToInt(name, l + 1)
        key == HexToInt(name, lev.end + 1)
    IN IF /\ l > 1 /\ IsChar(name, l, "L") /\ lev.val = level
          /\ IsChar(name, lev.end, "K") /\ AttributesOK(name, key.end)
       THEN key.val ELSE -1

(* provider_name and options of EventHeaderEventInfo.                      *)
ProviderName(name) ==
    IF LastUnderscore(name) = 0 THEN name ELSE SubSeq(name, 1, LastUnderscore(name) - 1)

OptionsOf(name) ==
    LET starts == {i \in LastUnderscore(name) + 1 .. Len(name) : name[i] \in UpperCase \ {"L", "K"}}
    IN IF LastUnderscore(name) = 0 \/ starts = {} THEN <<>>
       ELSE SubSeq(name, Min(starts), Len(name))

(* The loop over the extensions from pos: a sequence of [kind, start,      *)
(* size] and the position after the last, or an error.                     *)
ExtensionsFrom(wire, pos) ==
    LET exts[p \in pos .. Len(wire) + 1] ==
          LET e == wire[p]
              one == [kind |-> e.kind, start |-> p + 1, size |-> e.size]
              rest == exts[p + 1 + e.size]
          IN CASE p > Len(wire) -> [list |-> <<>>, pos |-> p, err |-> "InvalidData"]
               [] p <= Len(wire) /\ (e.size \notin 0 .. Len(wire) - p \/ e.kind = "Invalid") ->
                     [list |-> <<>>, pos |-> p, err |-> "InvalidData"]
               [] p <= Len(wire) /\ e.size \in 0 .. Len(wire) - p /\ e.kind # "Invalid" /\ ~e.chain ->
                     [list |-> <<one>>, pos |-> p + 1 + e.size, err |-> ""]
               [] OTHER -> [rest EXCEPT !.list = <<one>> \o @]
    IN exts[pos]

OfKind(list, kind) == {i \in DOMAIN list : list[i].kind = kind}
Repeated(places) == \E i, j \in places : i # j

(* enumerate_with_name_and_data: the event's info, or an error.            *)
(* Three of its checks pass for all that write_eventheader sends, and are  *)
(* left out: the length of the name, which Provider::new bounds; unknown   *)
(* flags; and extensions only under the Extension flag, which is set.      *)
EventInfo(name, wire) ==
    LET header == wire[1]
        keyword == ParseName(name, header.level)
        exts == ExtensionsFrom(wire, 2)
        metas == OfKind(exts.list, "Metadata")
        ids == OfKind(exts.list, "ActivityId")
        m == exts.list[Min(metas)]
        a == exts.list[Min(ids)]
        meta == SubSeq(wire, m.start, m.start + m.size - 1)
        nul == SelectInSeq(meta, LAMBDA u : u = 0)
        Err(e) == [err |-> e]
    IN CASE wire = <<>> -> Err("InvalidParameter")
         [] wire # <<>> /\ keyword = -1 -> Err("NotSupported")
         [] wire # <<>> /\ keyword # -1 /\
              (exts.err # "" \/ Repeated(metas) \/ Repeated(ids)
                 \/ \E i \in ids : exts.list[i].size \notin {1, 2}) -> Err("InvalidData")
         [] wire # <<>> /\ keyword # -1 /\ exts.err = "" /\ metas = {} -> Err("NotSupported")
         [] wire # <<>> /\ keyword # -1 /\ exts.err = "" /\ metas # {} /\ nul = 0 ->
              Err("InvalidData")
         [] OTHER ->
              [err |-> "", header |-> header, keyword |-> keyword,
               provider |-> ProviderName(name), options |-> OptionsOf(name),
               name |-> SubSeq(meta, 1, nul - 1),
               activity |-> IF ids = {} THEN 0 ELSE wire[a.start],
               related |-> IF ids = {} \/ a.size < 2 THEN 0 ELSE wire[a.start + 1],
               meta |-> SubSeq(meta, nul + 1, Len(meta)),
               data |-> SubSeq(wire, exts.pos, Len(wire))]

-----------------------------------------------------------------------------
(* read_field_name_and_type at pos of the metadata: the encoding without   *)
(* ChainFlag, format, tag, name, and next, the position of the next field. *)
HasFormat(meta, t) == meta[t] >= ChainFlag
HasTag(meta, t) == HasFormat(meta, t) /\ meta[t + 1] >= ChainFlag

ReadNameAndType(meta, pos) ==
    LET nul == SelectInSubSeq(meta, pos, Len(meta), LAMBDA u : u = 0)
        t == nul + 1
        next == t + 1 + (IF HasFormat(meta, t) THEN 1 ELSE 0) + (IF HasTag(meta, t) THEN 2 ELSE 0)
    IN IF nul = 0 \/ t > Len(meta)
          \/ (HasFormat(meta, t) /\ t = Len(meta))
          \/ (HasTag(meta, t) /\ t + 3 > Len(meta))
       THEN [encoding |-> 0, format |-> 0, tag |-> 0, name |-> <<>>, next |-> Len(meta) + 1]
       ELSE [encoding |-> meta[t] % ChainFlag,
             format |-> IF HasFormat(meta, t) THEN meta[t + 1] % ChainFlag ELSE 0,
             tag |-> IF HasTag(meta, t) THEN meta[t + 2] + 256 * meta[t + 3] ELSE 0,
             name |-> SubSeq(meta, pos, nul - 1), next |-> next]

(* All the declarations, one after the other.                              *)
Declarations(meta) ==
    LET from[pos \in 1 .. Len(meta) + 1] ==
          IF pos > Len(meta) THEN <<>>
          ELSE LET d == ReadNameAndType(meta, pos) IN <<d>> \o from[d.next]
    IN from[1]
=============================================================================
