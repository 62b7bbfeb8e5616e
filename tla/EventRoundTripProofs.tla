-------------------------- MODULE EventRoundTripProofs --------------------------
(***************************************************************************)
(* Proofs about modules EventHeaderEnumerator and EventRoundTrip, which    *)
(* extends it.  First the enumerator alone: whatever the metadata and the  *)
(* data of an event say, however deep it nests and in whatever order the   *)
(* enumerator's functions are called, every offset stays in its slice and  *)
(* none of the debug_asserts of the functions that move it can fail.       *)
(* Then the round trip: for every builder, name, level, keyword and pair   *)
(* of ids, what write sends fits the kernel's limit and the decoder finds  *)
(* in it what it was written with.                                         *)
(***************************************************************************)
EXTENDS EventRoundTrip, SequenceTheorems, WellFoundedInduction, TLAPS

M == Len(event.meta)
D == Len(event.data)

EventOK ==
    /\ event.meta \in Seq(Tokens) /\ event.data \in Seq(Nat)
    /\ \A i \in 1 .. M : event.meta[i].encoding = "Struct" => event.meta[i].format < CountModulus

(* A saved StackEntry belongs to a struct field, one of whose elements is  *)
(* being read: there is more than one only if the field is an array.       *)
Frames ==
    {f \in [next_offset : 1 .. M + 1, name_offset : 1 .. M, array_index : Nat,
            array_count : Nat, remaining_field_count : Nat] :
        /\ event.meta[f.name_offset].encoding = "Struct"
        /\ f.array_index < f.array_count
        /\ event.meta[f.name_offset].array = "none" => f.array_count = 1}

Moving ==
    {"ValueScalar", "ValueSimpleArrayElement", "ValueComplexArrayElement",
     "ArrayBegin", "ArrayEnd", "StructBegin", "StructEnd"}

Errors == {"Success", "InvalidData", "NotSupported", "StackOverflow", "ImplementationLimit"}

States == ItemStates \cup {"BeforeFirstItem", "AfterLastItem", "Error"}
Substates == Moving \cup {"ValueMetadata", "BeforeFirstItem", "AfterLastItem", "Error"}

Contexts ==
    [state : States, substate : Substates,
     last_error : Errors, next_offset : 1 .. M + 1, name_offset : 0 .. M,
     array_index : Nat, array_count : Nat, remaining_field_count : Nat,
     stack : Seq(Frames), encoding : Encodings, array : Arrays, format : Nat,
     element_size : 0 .. 2, data_pos : 1 .. D + 1, item_size : Nat,
     move_next_remaining : Nat]

CtxOK(c) == c \in Contexts /\ Len(c.stack) <= STRUCT_NEST_LIMIT

(* The field's type is the one declared at name_offset.                    *)
TypeRead(c) ==
    /\ c.name_offset \in 1 .. M
    /\ c.encoding = event.meta[c.name_offset].encoding
    /\ c.array = event.meta[c.name_offset].array
    /\ c.format = event.meta[c.name_offset].format

ValueFits(c) == c.item_size <= Remaining(c)

StateOf(sub) ==
    IF sub \in {"ValueScalar", "ValueSimpleArrayElement", "ValueComplexArrayElement"}
    THEN "Value" ELSE sub

(* What the debug_asserts of move_next_impl and of the functions it calls  *)
(* say of the context, substate by substate ...                            *)
Asserted(c) ==
    /\ c.substate = "ValueScalar" => c.encoding # "Struct" /\ ~IsArray(c)
    /\ c.substate = "ValueSimpleArrayElement" =>
          /\ c.encoding # "Struct" /\ IsArray(c) /\ c.element_size # 0
          /\ c.array_index < c.array_count /\ c.item_size = c.element_size
    /\ c.substate = "ValueComplexArrayElement" =>
          /\ c.encoding # "Struct" /\ IsArray(c) /\ c.element_size = 0
          /\ c.array_index < c.array_count
    /\ c.substate = "ArrayBegin" =>
          /\ IsArray(c) /\ c.array_index = 0
          /\ c.element_size # 0 => c.encoding # "Struct"
    /\ c.substate = "ArrayEnd" => IsArray(c) /\ c.array_index = c.array_count
    /\ c.substate = "StructBegin" => c.encoding = "Struct" /\ c.array_index < c.array_count
    /\ c.substate = "StructEnd" =>
          /\ c.encoding = "Struct" /\ c.item_size = 0 /\ c.array_index < c.array_count
          /\ c.array_count # c.array_index + 1 => IsArray(c)

(* ... and what they rest on: the elements of a simple array that are      *)
(* still to come are all there, and a struct that is no array is alone.    *)
Support(c) ==
    /\ c.substate = "ValueSimpleArrayElement" =>
          (c.array_count - c.array_index) * c.element_size <= Remaining(c)
    /\ c.substate = "ValueComplexArrayElement" => ElementSize(c.encoding) = 0
    /\ c.substate = "ArrayBegin" =>
          /\ c.element_size = ElementSize(c.encoding)
          /\ c.item_size = c.array_count * c.element_size
    /\ c.substate \in {"StructBegin", "StructEnd"} => (~IsArray(c) => c.array_count = 1)

Situation(c) ==
    /\ c.substate \in Moving =>
          c.state = StateOf(c.substate) /\ TypeRead(c) /\ ValueFits(c) /\ Support(c)
    /\ c.substate \in {"BeforeFirstItem", "AfterLastItem", "Error"} => c.state = c.substate
    /\ Asserted(c)

Good(c) == CtxOK(c) /\ c.substate # "ValueMetadata" /\ Situation(c)

(* move_next_metadata leaves values aside.                                 *)
Sound(c) == IF c.substate = "ValueMetadata" THEN CtxOK(c) ELSE Good(c)

(* The locals of move_next_sibling.                                        *)
DepthOK ==
    /\ depth \in Nat \cup {NoSibling}
    /\ ~Idle => CanMoveNext(ctx) /\ ~InMetadata

IndInv ==
    /\ EventOK
    /\ Sound(ctx)
    /\ DepthOK

(* The debug_asserts: also those of move_next_sibling's jump over a simple *)
(* array, and that the match of move_next_impl has an arm for the state.   *)
DebugAsserts ==
    /\ Asserted(ctx)
    /\ ctx.substate \in Moving => ctx.state = StateOf(ctx.substate)
    /\ CanMoveNext(ctx) /\ ~InMetadata => ctx.substate \in Moving \cup {"BeforeFirstItem"}
    /\ ~Idle /\ AtSimpleArray =>
          ctx.substate = "ArrayBegin" /\ ctx.encoding # "Struct" /\ ctx.array_index = 0

-----------------------------------------------------------------------------
(* Induction over the naturals, for a set: a set that holds 0 and with     *)
(* each number the next one holds them all.                                *)
LEMMA NatSet ==
  ASSUME NEW T, 0 \in T, \A n \in Nat : n \in T => n + 1 \in T
  PROVE  Nat \subseteq T
<1> DEFINE B == Nat \ T
<1> DEFINE R == OpToRel(<, Nat)
<1> SUFFICES ASSUME B # {} PROVE FALSE
  OBVIOUS
<1>1. IsWellFoundedOn(R, Nat)
  BY NatLessThanWellFounded
<1>2. B \subseteq Nat
  OBVIOUS
<1>3. \A a, b \in Nat : a < b => <<a, b>> \in R
  BY DEF OpToRel
<1> HIDE DEF R
<1>4. PICK x \in B : \A y \in B : ~ (<<y, x>> \in R)
  BY <1>1, <1>2, WFMin
<1>5. x # 0 /\ x \in Nat
  OBVIOUS
<1>6. x - 1 \in Nat /\ x - 1 < x /\ (x - 1) + 1 = x
  BY <1>5
<1>7. x - 1 \in T
  BY <1>6, <1>3, <1>4
<1> QED
  BY <1>6, <1>7

(* Min is a member, for sets of naturals: the first NUL of a string.       *)
LEMMA MinMember ==
  ASSUME NEW S, S \subseteq Nat, S # {}
  PROVE  Min(S) \in S
<1> DEFINE R == OpToRel(<, Nat)
<1>1. IsWellFoundedOn(R, Nat)
  BY NatLessThanWellFounded
<1>2. \A a, b \in Nat : a < b => <<a, b>> \in R
  BY DEF OpToRel
<1> HIDE DEF R
<1>3. PICK x \in S : \A y \in S : ~ (<<y, x>> \in R)
  BY <1>1, WFMin
<1>4. \A y \in S : ~ (y < x)
  BY <1>2, <1>3
<1>5. \A y \in S : x <= y
  BY <1>4
<1> QED
  BY <1>5 DEF Min

-----------------------------------------------------------------------------
(* skip_struct_metadata.  One round of the loop, as a function of what the *)
(* later rounds yield.                                                     *)
Counts == 0 .. CountModulus - 1

SkipRound(f, left, count) ==
    LET offset == MetaEnd - left
        tok == event.meta[offset]
        nested == IF tok.encoding = "Struct" THEN tok.format ELSE 0
        rest == (count + nested - 1) % CountModulus
    IN IF left = 0 \/ count = 0 THEN offset
       ELSE CASE tok.encoding = "Invalid" /\ tok.array = "none" -> 0
              [] tok.array = "both" -> -1
              [] tok.array = "carray" -> IF left < 2 THEN 0 ELSE f[left - 2][rest]
              [] OTHER -> f[left - 1][rest]

(* The count of fields left stays a u8.                                    *)
LEMMA SkipRest ==
  ASSUME EventOK, NEW left \in 1 .. M, NEW count \in Counts, count # 0
  PROVE  LET tok == event.meta[MetaEnd - left]
             nested == IF tok.encoding = "Struct" THEN tok.format ELSE 0
         IN (count + nested - 1) % CountModulus \in Counts
<1> DEFINE tok == event.meta[MetaEnd - left]
<1> DEFINE nested == IF tok.encoding = "Struct" THEN tok.format ELSE 0
<1>1. tok \in Tokens
  BY DEF EventOK, MetaEnd, M
<1>2. nested \in Nat
  BY <1>1 DEF Tokens
<1> HIDE DEF nested
<1>3. CountModulus \in Nat \ {0}
  BY LimitsAssumption
<1>4. count + nested - 1 \in Nat
  BY <1>2, <1>3 DEF Counts
<1>5. \A k \in Nat : k % CountModulus \in 0 .. CountModulus - 1
  BY <1>3
<1>6. (count + nested - 1) % CountModulus \in Counts
  BY <1>4, <1>5 DEF Counts
<1> QED
  BY <1>6 DEF nested

(* A round looks only at rows below its own.                               *)
LEMMA SkipRoundLocal ==
  ASSUME EventOK, NEW left \in 0 .. M, NEW count \in Counts, NEW f, NEW g,
         \A l \in 0 .. left - 1, k \in Counts : f[l][k] = g[l][k]
  PROVE  SkipRound(f, left, count) = SkipRound(g, left, count)
<1> DEFINE tok == event.meta[MetaEnd - left]
<1> DEFINE nested == IF tok.encoding = "Struct" THEN tok.format ELSE 0
<1> DEFINE rest == (count + nested - 1) % CountModulus
<1>1. CASE left = 0 \/ count = 0
  BY <1>1 DEF SkipRound
<1>2. CASE left # 0 /\ count # 0
  <2>1. rest \in Counts
    BY <1>2, SkipRest, M \in Nat DEF M, EventOK
  <2> HIDE DEF rest
  <2>2. left - 1 \in 0 .. left - 1 /\ (left >= 2 => left - 2 \in 0 .. left - 1) /\ left \in Nat
    BY <1>2, M \in Nat DEF M, EventOK
  <2>3. f[left - 1][rest] = g[left - 1][rest]
    BY <2>1, <2>2
  <2>4. ~ (left < 2) => f[left - 2][rest] = g[left - 2][rest]
    BY <2>1, <2>2
  <2> QED
    BY <2>3, <2>4 DEF SkipRound, rest
<1> QED
  BY <1>1, <1>2

(* The loop ends: the table of its results can be filled row by row, so    *)
(* that the recursive definition means what it says.                       *)
LEMMA SkipTable ==
  ASSUME EventOK
  PROVE  \E g : g = [left \in 0 .. M |-> [count \in Counts |-> SkipRound(g, left, count)]]
<1>0. M \in Nat
  BY DEF M, EventOK
<1> DEFINE Rows(g, n) == \A l \in 0 .. n, k \in Counts : g[l][k] = SkipRound(g, l, k)
<1> DEFINE T == {n \in Nat : n <= M => \E g : Rows(g, n)}
<1>1. 0 \in T
  <2> DEFINE g == [l \in 0 .. 0 |-> [k \in Counts |-> MetaEnd]]
  <2>1. \A l \in 0 .. 0, k \in Counts : g[l][k] = MetaEnd /\ SkipRound(g, l, k) = MetaEnd
    BY DEF SkipRound, MetaEnd, M, EventOK
  <2>2. Rows(g, 0)
    BY <2>1
  <2> QED
    BY <2>2
<1>2. ASSUME NEW n \in Nat, n \in T
      PROVE  n + 1 \in T
  <2> SUFFICES ASSUME n + 1 <= M
               PROVE  \E h : Rows(h, n + 1)
    OBVIOUS
  <2>1. PICK g : Rows(g, n)
    BY <1>2, <1>0
  <2> DEFINE h == [l \in 0 .. n + 1 |-> [k \in Counts |->
                      IF l <= n THEN g[l][k] ELSE SkipRound(g, l, k)]]
  <2>2. \A l \in 0 .. n, k \in Counts : h[l][k] = g[l][k]
    OBVIOUS
  <2>3. \A k \in Counts : h[n + 1][k] = SkipRound(g, n + 1, k)
    OBVIOUS
  <2> HIDE DEF h
  <2>4. ASSUME NEW l \in 0 .. n + 1, NEW k \in Counts
        PROVE  h[l][k] = SkipRound(h, l, k)
    <3>1. l \in 0 .. M /\ \A i \in 0 .. l - 1 : i \in 0 .. n
      BY <1>0
    <3>2. SkipRound(h, l, k) = SkipRound(g, l, k)
      BY <3>1, <2>2, SkipRoundLocal
    <3>3. CASE l = n + 1
      BY <3>2, <3>3, <2>3
    <3>4. CASE l # n + 1
      <4>1. l \in 0 .. n
        BY <3>4
      <4> QED
        BY <4>1, <3>2, <2>2, <2>1
    <3> QED
      BY <3>3, <3>4
  <2> QED
    BY <2>4
<1> HIDE DEF T
<1>3. M \in T
  BY <1>0, <1>1, <1>2, NatSet
<1>4. PICK g : Rows(g, M)
  BY <1>0, <1>3 DEF T
<1> DEFINE h == [l \in 0 .. M |-> [k \in Counts |-> g[l][k]]]
<1>5. \A l \in 0 .. M, k \in Counts : h[l][k] = g[l][k]
  OBVIOUS
<1>6. ASSUME NEW l \in 0 .. M, NEW k \in Counts
      PROVE  g[l][k] = SkipRound(h, l, k)
  <2>1. \A i \in 0 .. l - 1 : i \in 0 .. M
    BY <1>0
  <2>2. SkipRound(h, l, k) = SkipRound(g, l, k)
    BY <2>1, <1>5, SkipRoundLocal
  <2> QED
    BY <2>2, <1>4
<1>7. h = [l \in 0 .. M |-> [k \in Counts |-> SkipRound(h, l, k)]]
  BY <1>6
<1> QED
  BY <1>7

LEMMA SkipFieldsUnfold ==
  ASSUME EventOK, NEW left \in 0 .. M, NEW count \in Counts
  PROVE  SkipFields[left][count] = SkipRound(SkipFields, left, count)
<1> DEFINE Table(g) == [l \in 0 .. M |-> [k \in Counts |-> SkipRound(g, l, k)]]
<1>1. SkipFields = CHOOSE g : g = Table(g)
  BY DEF SkipFields, SkipRound, M, Counts
<1>2. \E g : g = Table(g)
  BY SkipTable
<1>3. SkipFields = Table(SkipFields)
  BY <1>1, <1>2, Zenon
<1>4. Table(SkipFields)[left][count] = SkipRound(SkipFields, left, count)
  OBVIOUS
<1> HIDE DEF Table
<1> QED
  BY <1>3, <1>4, Zenon

(* It ends inside the metadata or with one of its two errors.              *)
LEMMA SkipFieldsRange ==
  ASSUME EventOK, NEW left \in 0 .. M, NEW count \in Counts
  PROVE  SkipFields[left][count] \in {0, -1} \cup 1 .. M + 1
<1>0. M \in Nat
  BY DEF M, EventOK
<1> DEFINE Ends(l) == \A k \in Counts : SkipFields[l][k] \in {0, -1} \cup 1 .. M + 1
<1> DEFINE T == {n \in Nat : \A l \in 0 .. n : l <= M => Ends(l)}
<1>1. ASSUME NEW n \in Nat, n <= M, \A l \in 0 .. n - 1 : Ends(l)
      PROVE  Ends(n)
  <2> SUFFICES ASSUME NEW k \in Counts
               PROVE  SkipFields[n][k] \in {0, -1} \cup 1 .. M + 1
    OBVIOUS
  <2> DEFINE tok == event.meta[MetaEnd - n]
  <2> DEFINE nested == IF tok.encoding = "Struct" THEN tok.format ELSE 0
  <2> DEFINE rest == (k + nested - 1) % CountModulus
  <2>1. SkipFields[n][k] = SkipRound(SkipFields, n, k)
    BY <1>0, <1>1, SkipFieldsUnfold
  <2>2. MetaEnd - n \in 1 .. M + 1
    BY <1>0, <1>1 DEF MetaEnd, M
  <2>3. CASE n = 0 \/ k = 0
    BY <2>1, <2>2, <2>3 DEF SkipRound
  <2>4. CASE n # 0 /\ k # 0
    <3>1. rest \in Counts
      BY <1>0, <1>1, <2>4, SkipRest
    <3> HIDE DEF rest
    <3>2. n - 1 \in 0 .. n - 1 /\ (~ (n < 2) => n - 2 \in 0 .. n - 1)
      BY <2>4
    <3>3. SkipFields[n - 1][rest] \in {0, -1} \cup 1 .. M + 1
      BY <1>1, <3>1, <3>2
    <3>4. ~ (n < 2) => SkipFields[n - 2][rest] \in {0, -1} \cup 1 .. M + 1
      BY <1>1, <3>1, <3>2
    <3> QED
      BY <2>1, <2>4, <3>3, <3>4 DEF SkipRound, rest
  <2> QED
    BY <2>3, <2>4
<1>2. 0 \in T
  <2>1. \A l \in 0 .. 0 - 1 : Ends(l)
    OBVIOUS
  <2> HIDE DEF Ends
  <2>2. 0 <= M
    BY <1>0
  <2>3. Ends(0)
    BY <1>1, <2>1, <2>2
  <2> QED
    BY <2>3
<1>3. ASSUME NEW n \in Nat, n \in T
      PROVE  n + 1 \in T
  <2> HIDE DEF Ends
  <2>1. ASSUME n + 1 <= M
        PROVE  Ends(n + 1)
    <3>1. \A l \in 0 .. (n + 1) - 1 : l \in 0 .. n /\ l <= M
      BY <2>1, <1>0
    <3>2. \A l \in 0 .. (n + 1) - 1 : Ends(l)
      BY <3>1, <1>3
    <3> QED
      BY <2>1, <3>2, <1>1
  <2>2. \A l \in 0 .. n + 1 : l \in 0 .. n \/ l = n + 1
    OBVIOUS
  <2> QED
    BY <1>3, <2>1, <2>2
<1> HIDE DEF T
<1>4. left \in T
  BY <1>0, <1>2, <1>3, NatSet
<1> QED
  BY <1>0, <1>4 DEF T

-----------------------------------------------------------------------------
(* What the operators make of a context.                                   *)
LEMMA Sizes ==
  ASSUME EventOK
  PROVE  M \in Nat /\ D \in Nat /\ MetaEnd = M + 1
  BY DEF EventOK, M, D, MetaEnd

LEMMA StateNames ==
  /\ Moving \subseteq Substates
  /\ ItemStates \subseteq States
  /\ {"BeforeFirstItem", "AfterLastItem", "Error"} \subseteq States \cap Substates
  /\ "ValueMetadata" \in Substates
  /\ {"ArrayBegin", "ArrayEnd", "StructBegin", "StructEnd"} \subseteq States \cap Substates
  /\ "Value" \in States
  BY DEF States, Substates, Moving, ItemStates

(* Room for what the data_pos of a context leaves.                         *)
LEMMA RemainingNat ==
  ASSUME EventOK, NEW c, CtxOK(c)
  PROVE  c.data_pos \in 1 .. D + 1 /\ Remaining(c) = D - c.data_pos + 1 /\ Remaining(c) \in Nat
<1>1. c.data_pos \in 1 .. D + 1
  BY DEF CtxOK, Contexts
<1>2. D \in Nat
  BY Sizes
<1> QED
  BY <1>1, <1>2 DEF Remaining, D

LEMMA OutsideGood ==
  ASSUME NEW d, CtxOK(d), d.substate \in {"BeforeFirstItem", "AfterLastItem", "Error"},
         d.state = d.substate
  PROVE  Good(d)
  BY DEF Good, Situation, Asserted, Moving

LEMMA ErrorGood ==
  ASSUME NEW c, CtxOK(c), NEW e \in Errors
  PROVE  Good(SetErrorState(c, e))
<1> DEFINE d == SetErrorState(c, e)
<1>1. CtxOK(d) /\ d.substate = "Error" /\ d.state = "Error"
  BY StateNames DEF CtxOK, Contexts, SetErrorState, SetState
<1> HIDE DEF d
<1>2. Good(d)
  BY <1>1, OutsideGood
<1> QED
  BY <1>2 DEF d

LEMMA AfterLastGood ==
  ASSUME NEW c, CtxOK(c)
  PROVE  Good(SetEndState(c, "AfterLastItem"))
<1> DEFINE d == SetEndState(c, "AfterLastItem")
<1>1. CtxOK(d) /\ d.substate = "AfterLastItem" /\ d.state = "AfterLastItem"
  BY StateNames DEF CtxOK, Contexts, SetEndState, SetState
<1> HIDE DEF d
<1>2. Good(d)
  BY <1>1, OutsideGood
<1> QED
  BY <1>2 DEF d

LEMMA ElementSizes ==
  ASSUME NEW e
  PROVE  ElementSize(e) \in 0 .. 2 /\ (ElementSize(e) # 0 => e \in {"Value8", "Value16"})
  BY DEF ElementSize

LEMMA ValueSizeNat ==
  ASSUME EventOK, NEW c, CtxOK(c)
  PROVE  ValueSize(c) \in Nat
<1> DEFINE nuls == {p \in c.data_pos .. D : event.data[p] = 0}
<1>0. M \in Nat /\ D \in Nat
  BY Sizes
<1>1. c.data_pos \in 1 .. D + 1
  BY DEF CtxOK, Contexts
<1>2. nuls # {} => Min(nuls) \in nuls
  BY <1>0, <1>1, MinMember
<1>3. Remaining(c) \in Nat
  BY <1>0, <1>1 DEF Remaining, D
<1>4. ZStringSize(c) \in Nat
  <2>1. CASE nuls = {}
    BY <2>1, <1>3 DEF ZStringSize, D
  <2>2. CASE nuls # {}
    <3>1. Min(nuls) \in c.data_pos .. D
      BY <2>2, <1>2
    <3> HIDE DEF nuls
    <3>2. Min(nuls) - c.data_pos + 1 \in Nat
      BY <3>1, <1>0, <1>1
    <3> QED
      BY <2>2, <3>2 DEF ZStringSize, D, nuls
  <2> QED
    BY <2>1, <2>2
<1>5. ~ (Remaining(c) < 1) => event.data[c.data_pos] \in Nat
  <2> SUFFICES ASSUME ~ (Remaining(c) < 1)
               PROVE  event.data[c.data_pos] \in Nat
    OBVIOUS
  <2>1. c.data_pos \in 1 .. D
    BY <1>0, <1>1 DEF Remaining, D
  <2> QED
    BY <2>1 DEF EventOK, D
<1>6. ElementSize(c.encoding) \in Nat
  BY ElementSizes
<1> QED
  BY <1>4, <1>5, <1>6 DEF ValueSize

LEMMA StartValueGood ==
  ASSUME EventOK, NEW c, CtxOK(c), TypeRead(c), c.state = "Value", c.encoding # "Struct",
         \/ c.substate = "ValueScalar" /\ ~IsArray(c)
         \/ /\ c.substate = "ValueComplexArrayElement" /\ IsArray(c)
            /\ ElementSize(c.encoding) = 0 /\ c.array_index < c.array_count
  PROVE  Good(StartValue(c))
<1> DEFINE c1 == [c EXCEPT !.element_size = ElementSize(c.encoding)]
<1> DEFINE bad == [c1 EXCEPT !.item_size = 0]
<1> DEFINE ok == [c1 EXCEPT !.item_size = ValueSize(c)]
<1>1. ElementSize(c.encoding) \in 0 .. 2 /\ ValueSize(c) \in Nat
  BY ElementSizes, ValueSizeNat
<1>2. CtxOK(bad)
  BY <1>1 DEF CtxOK, Contexts
<1> HIDE DEF bad
<1>3. Good(SetErrorState(bad, "InvalidData"))
  BY <1>2, ErrorGood DEF Errors
<1>4. Remaining(c) \in Int
  BY RemainingNat
<1>5. ASSUME ~ (Remaining(c) < ValueSize(c))
      PROVE  Good(ok)
  <2>1. CtxOK(ok)
    BY <1>1 DEF CtxOK, Contexts
  <2>2. /\ ok.item_size = ValueSize(c) /\ ok.element_size = ElementSize(c.encoding)
        /\ ok.state = c.state /\ ok.substate = c.substate /\ ok.encoding = c.encoding
        /\ ok.array = c.array /\ ok.format = c.format /\ ok.name_offset = c.name_offset
        /\ ok.data_pos = c.data_pos /\ ok.array_index = c.array_index
        /\ ok.array_count = c.array_count
    BY DEF CtxOK, Contexts
  <2> HIDE DEF ok
  <2>3. ValueFits(ok)
    BY <1>1, <1>4, <1>5, <2>2 DEF ValueFits, Remaining
  <2>4. TypeRead(ok)
    BY <2>2 DEF TypeRead
  <2>5. Asserted(ok) /\ Support(ok)
    BY <2>2 DEF Asserted, Support, IsArray
  <2> QED
    BY <2>1, <2>2, <2>3, <2>4, <2>5 DEF Good, Situation, StateOf
<1> QED
  BY <1>3, <1>5 DEF StartValue, bad

LEMMA StartOK ==
  ASSUME NEW c, CtxOK(c), NEW s \in States, NEW sub \in Substates, NEW z \in 0 .. 2,
         NEW n \in Nat
  PROVE  CtxOK([c EXCEPT !.state = s, !.substate = sub, !.element_size = z, !.item_size = n])
  BY DEF CtxOK, Contexts

LEMMA StartArrayGood ==
  ASSUME EventOK, NEW c, CtxOK(c), TypeRead(c), IsArray(c), c.array_index = 0
  PROVE  Good(StartArray(c))
<1> DEFINE size == ElementSize(c.encoding)
<1> DEFINE c1 == [SetState(c, "ArrayBegin", "ArrayBegin") EXCEPT
                     !.element_size = size, !.item_size = 0]
<1> DEFINE ok == [c1 EXCEPT !.item_size = c.array_count * size]
<1>1. size \in 0 .. 2 /\ (size # 0 => c.encoding # "Struct")
  BY ElementSizes
<1>2. c.array_count \in Nat
  BY DEF CtxOK, Contexts
<1>3. c.array_count * size \in Nat
  <2> HIDE DEF size
  <2> QED
    BY <1>1, <1>2
<1>begun. ASSUME NEW n \in Nat
          PROVE  CtxOK([c EXCEPT !.state = "ArrayBegin", !.substate = "ArrayBegin",
                                 !.element_size = size, !.item_size = n])
  <2>1. "ArrayBegin" \in States \cap Substates
    BY StateNames
  <2> HIDE DEF size
  <2>2. \A s \in States, sub \in Substates, z \in 0 .. 2 :
           CtxOK([c EXCEPT !.state = s, !.substate = sub, !.element_size = z, !.item_size = n])
    BY StartOK
  <2> QED BY <1>1, <2>1, <2>2
<1>4. CtxOK(c1)
  <2>1. c1 = [c EXCEPT !.state = "ArrayBegin", !.substate = "ArrayBegin",
                       !.element_size = size, !.item_size = 0]
    BY DEF SetState
  <2> HIDE DEF c1, size
  <2> QED BY <1>begun, <2>1, 0 \in Nat
<1>5. Good(SetErrorState(c1, "InvalidData")) /\ Good(SetErrorState(c1, "NotSupported"))
  <2> HIDE DEF c1
  <2> QED
    BY <1>4, ErrorGood DEF Errors
<1>6. Remaining(c) \in Int
  BY RemainingNat
<1>7. ASSUME ~ (Remaining(c) < c.array_count * size)
      PROVE  Good(ok)
  <2>1. CtxOK(ok)
    <3> DEFINE bytes == c.array_count * size
    <3>1. bytes \in Nat
      BY <1>3
    <3>2. ok = [c EXCEPT !.state = "ArrayBegin", !.substate = "ArrayBegin",
                         !.element_size = size, !.item_size = bytes]
      BY DEF SetState
    <3> HIDE DEF bytes, c1, ok, size
    <3> QED BY <1>begun, <3>1, <3>2
  <2>2. /\ ok.item_size = c.array_count * size /\ ok.element_size = size
        /\ ok.state = "ArrayBegin" /\ ok.substate = "ArrayBegin" /\ ok.encoding = c.encoding
        /\ ok.array = c.array /\ ok.format = c.format /\ ok.name_offset = c.name_offset
        /\ ok.data_pos = c.data_pos /\ ok.array_index = 0
        /\ ok.array_count = c.array_count
    BY DEF CtxOK, Contexts, SetState
  <2> HIDE DEF ok
  <2>3. ValueFits(ok)
    BY <1>3, <1>6, <1>7, <2>2 DEF ValueFits, Remaining
  <2>4. TypeRead(ok)
    BY <2>2 DEF TypeRead
  <2>5. Asserted(ok) /\ Support(ok)
    BY <1>1, <2>2 DEF Asserted, Support, IsArray
  <2> QED
    BY <2>1, <2>2, <2>3, <2>4, <2>5 DEF Good, Situation, StateOf
<1> QED
  BY <1>5, <1>7 DEF StartArray

LEMMA StartStructOK ==
  ASSUME NEW c, CtxOK(c)
  PROVE  CtxOK(StartStruct(c))
<1>1. "StructBegin" \in States \cap Substates /\ 0 \in 0 .. 2
  BY StateNames
<1>2. StartStruct(c) = [c EXCEPT !.state = "StructBegin", !.substate = "StructBegin",
                                 !.element_size = 0, !.item_size = 0]
  BY DEF StartStruct, SetState
<1>3. \A s \in States, sub \in Substates, z \in 0 .. 2, n \in Nat :
         CtxOK([c EXCEPT !.state = s, !.substate = sub, !.element_size = z, !.item_size = n])
  BY StartOK
<1>4. CtxOK([c EXCEPT !.state = "StructBegin", !.substate = "StructBegin",
                      !.element_size = 0, !.item_size = 0])
  BY <1>1, <1>3, 0 \in Nat
<1> QED
  BY <1>2, <1>4

LEMMA StartStructGood ==
  ASSUME EventOK, NEW c, CtxOK(c), TypeRead(c), c.encoding = "Struct",
         c.array_index < c.array_count, ~IsArray(c) => c.array_count = 1
  PROVE  Good(StartStruct(c))
<1> DEFINE ok == StartStruct(c)
<1>1. CtxOK(ok)
  BY StartStructOK
<1>2. /\ ok.item_size = 0 /\ ok.element_size = 0
      /\ ok.state = "StructBegin" /\ ok.substate = "StructBegin" /\ ok.encoding = c.encoding
      /\ ok.array = c.array /\ ok.format = c.format /\ ok.name_offset = c.name_offset
      /\ ok.data_pos = c.data_pos /\ ok.array_index = c.array_index
      /\ ok.array_count = c.array_count
  BY DEF CtxOK, Contexts, StartStruct, SetState
<1> HIDE DEF ok
<1>3. ValueFits(ok)
  <2>1. ok.data_pos \in 1 .. D + 1 /\ D \in Nat
    BY <1>1, Sizes DEF CtxOK, Contexts
  <2> QED
    BY <1>2, <2>1 DEF ValueFits, Remaining, D
<1>4. TypeRead(ok)
  BY <1>2 DEF TypeRead
<1>5. Asserted(ok) /\ Support(ok)
  BY <1>2 DEF Asserted, Support, IsArray
<1>6. Good(ok)
  BY <1>1, <1>2, <1>3, <1>4, <1>5 DEF Good, Situation, StateOf
<1> QED
  BY <1>6 DEF ok

LEMMA ReadOK ==
  ASSUME NEW c, CtxOK(c), NEW r \in Nat, NEW n \in 0 .. M, NEW e \in Encodings,
         NEW a \in Arrays, NEW f \in Nat, NEW o \in 1 .. M + 1
  PROVE  CtxOK([c EXCEPT !.remaining_field_count = r, !.array_index = 0,
                         !.name_offset = n, !.encoding = e,
                         !.array = a, !.format = f, !.next_offset = o])
  BY DEF CtxOK, Contexts

LEMMA ReadFieldOK ==
  ASSUME EventOK, NEW c, CtxOK(c), c.remaining_field_count # 0, c.next_offset # MetaEnd
  PROVE  LET c1 == ReadField([c EXCEPT !.remaining_field_count = @ - 1, !.array_index = 0])
         IN CtxOK(c1) /\ TypeRead(c1) /\ c1.array_index = 0
<1> DEFINE c0 == [c EXCEPT !.remaining_field_count = @ - 1, !.array_index = 0]
<1> DEFINE c1 == ReadField(c0)
<1> DEFINE tok == event.meta[c.next_offset]
<1>1. c.next_offset \in 1 .. M /\ M \in Nat
  BY Sizes DEF CtxOK, Contexts
<1>2. tok \in Tokens
  BY <1>1 DEF EventOK, M
<1>3. tok.encoding \in Encodings /\ tok.array \in Arrays /\ tok.format \in Nat
  BY <1>2 DEF Tokens
<1>4. c.next_offset + 1 \in 1 .. M + 1 /\ c.next_offset \in 0 .. M
  BY <1>1
<1>5. c.remaining_field_count - 1 \in Nat
  BY DEF CtxOK, Contexts
<1>6. c1 = [c EXCEPT !.remaining_field_count = c.remaining_field_count - 1, !.array_index = 0,
                     !.name_offset = c.next_offset, !.encoding = tok.encoding,
                     !.array = tok.array, !.format = tok.format,
                     !.next_offset = c.next_offset + 1]
  BY DEF ReadField, ReadFieldType, CtxOK, Contexts
<1> HIDE DEF tok
<1>7. CtxOK(c1)
  <2> HIDE DEF c1
  <2> QED
    BY <1>3, <1>4, <1>5, <1>6, ReadOK
<1>8. /\ c1.name_offset = c.next_offset /\ c1.encoding = tok.encoding
      /\ c1.array = tok.array /\ c1.format = tok.format /\ c1.array_index = 0
  BY <1>6 DEF CtxOK, Contexts
<1> HIDE DEF c1
<1>9. TypeRead(c1)
  BY <1>1, <1>8 DEF TypeRead, tok
<1> QED
  BY <1>7, <1>8, <1>9 DEF c1

LEMMA SetStateOK ==
  ASSUME NEW c, CtxOK(c), NEW s \in States, NEW sub \in Substates
  PROVE  LET d == SetState(c, s, sub)
         IN /\ CtxOK(d) /\ d.state = s /\ d.substate = sub
            /\ d.encoding = c.encoding /\ d.array = c.array /\ d.format = c.format
            /\ d.name_offset = c.name_offset /\ d.array_index = c.array_index
            /\ d.array_count = c.array_count /\ d.data_pos = c.data_pos
  BY DEF CtxOK, Contexts, SetState

(* The length of an array, wherever it is, leaves the field's type alone.  *)
LEMMA TakeCountOK ==
  ASSUME EventOK, NEW c, CtxOK(c), TypeRead(c), c.next_offset # MetaEnd
  PROVE  LET d == TakeCount(c)
         IN CtxOK(d) /\ TypeRead(d) /\ d.array = c.array /\ d.array_index = c.array_index
<1> DEFINE n == event.meta[c.next_offset].format
<1> DEFINE o == c.next_offset + 1
<1> DEFINE p == c.data_pos
<1> DEFINE d == [c EXCEPT !.array_count = n, !.next_offset = o, !.data_pos = p]
<1>1. c.next_offset \in 1 .. M /\ M \in Nat /\ c.data_pos \in 1 .. D + 1
  BY Sizes DEF CtxOK, Contexts
<1>2. event.meta[c.next_offset] \in Tokens
  BY <1>1 DEF EventOK, M
<1>3. n \in Nat
  BY <1>2 DEF Tokens
<1>4. c.next_offset + 1 \in 1 .. M + 1
  BY <1>1
<1>5. TakeCount(c) = d
  BY DEF TakeCount, CtxOK, Contexts
<1>room. o \in 1 .. M + 1 /\ p \in 1 .. D + 1
  BY <1>1, <1>4
<1> HIDE DEF n, o, p
<1>6. /\ CtxOK(d) /\ d.encoding = c.encoding /\ d.array = c.array /\ d.format = c.format
      /\ d.name_offset = c.name_offset /\ d.array_index = c.array_index
  BY <1>3, <1>room DEF CtxOK, Contexts
<1> HIDE DEF d
<1>7. TypeRead(d)
  BY <1>6 DEF TypeRead
<1> QED
  BY <1>5, <1>6, <1>7

LEMMA TakeLengthOK ==
  ASSUME EventOK, NEW c, CtxOK(c), TypeRead(c), ~ (Remaining(c) < 1)
  PROVE  LET d == TakeLength(c)
         IN CtxOK(d) /\ TypeRead(d) /\ d.array = c.array /\ d.array_index = c.array_index
<1> DEFINE n == event.data[c.data_pos]
<1> DEFINE o == c.next_offset
<1> DEFINE p == c.data_pos + 1
<1> DEFINE d == [c EXCEPT !.array_count = n, !.next_offset = o, !.data_pos = p]
<1>1. c.next_offset \in 1 .. M + 1
  BY DEF CtxOK, Contexts
<1>2. c.data_pos \in 1 .. D /\ D \in Nat
  BY RemainingNat, Sizes
<1>3. n \in Nat
  BY <1>2 DEF EventOK, D
<1>4. c.data_pos + 1 \in 1 .. D + 1
  BY <1>2
<1>5. TakeLength(c) = d
  BY DEF TakeLength, CtxOK, Contexts
<1>room. o \in 1 .. M + 1 /\ p \in 1 .. D + 1
  BY <1>1, <1>4
<1> HIDE DEF n, o, p
<1>6. /\ CtxOK(d) /\ d.encoding = c.encoding /\ d.array = c.array /\ d.format = c.format
      /\ d.name_offset = c.name_offset /\ d.array_index = c.array_index
  BY <1>3, <1>room DEF CtxOK, Contexts
<1> HIDE DEF d
<1>7. TypeRead(d)
  BY <1>6 DEF TypeRead
<1> QED
  BY <1>5, <1>6, <1>7

(* next_property, first part: the next field's first item.                 *)
LEMMA BeginScalarGood ==
  ASSUME EventOK, NEW c, CtxOK(c), TypeRead(c), ~IsArray(c), c.array_index = 0
  PROVE  Good(BeginScalar([c EXCEPT !.array_count = 1]))
<1> DEFINE d == [c EXCEPT !.array_count = 1]
<1>1. /\ CtxOK(d) /\ d.array_count = 1
      /\ d.encoding = c.encoding /\ d.array = c.array /\ d.format = c.format
      /\ d.name_offset = c.name_offset /\ d.array_index = c.array_index
  <2>1. CtxOK(d)
    BY SMTT(40) DEF CtxOK, Contexts
  <2>2. /\ d.array_count = 1
        /\ d.encoding = c.encoding /\ d.array = c.array /\ d.format = c.format
        /\ d.name_offset = c.name_offset /\ d.array_index = c.array_index
    BY DEF CtxOK, Contexts
  <2> QED BY <2>1, <2>2
<1> HIDE DEF d
<1>2. TypeRead(d) /\ ~IsArray(d) /\ d.array_index = 0
  BY <1>1 DEF TypeRead, IsArray
<1>3. CASE d.encoding # "Struct"
  <2> DEFINE v == SetState(d, "Value", "ValueScalar")
  <2>1. "Value" \in States /\ "ValueScalar" \in Substates
    BY StateNames DEF Moving
  <2>2. /\ CtxOK(v) /\ v.state = "Value" /\ v.substate = "ValueScalar"
        /\ v.encoding = d.encoding /\ v.array = d.array /\ v.format = d.format
        /\ v.name_offset = d.name_offset
    BY <1>1, <2>1, SetStateOK
  <2> HIDE DEF v
  <2>3. TypeRead(v) /\ ~IsArray(v)
    BY <1>2, <2>2 DEF TypeRead, IsArray
  <2>4. Good(StartValue(v))
    BY <1>3, <2>2, <2>3, StartValueGood
  <2> QED
    BY <1>3, <2>4 DEF BeginScalar, d, v
<1>4. CASE d.encoding = "Struct" /\ d.format = 0
  <2>1. Good(SetErrorState(d, "InvalidData"))
    BY <1>1, ErrorGood DEF Errors
  <2> QED
    BY <1>4, <2>1 DEF BeginScalar, d
<1>5. CASE d.encoding = "Struct" /\ d.format # 0
  <2>1. Good(StartStruct(d))
    BY <1>1, <1>2, <1>5, StartStructGood
  <2> QED
    BY <1>5, <2>1 DEF BeginScalar, d
<1> QED
  BY <1>3, <1>4, <1>5

LEMMA BeginVArrayGood ==
  ASSUME EventOK, NEW c, CtxOK(c), TypeRead(c), IsArray(c), c.array_index = 0
  PROVE  Good(BeginVArray(c))
<1>1. Good(SetErrorState(c, "InvalidData"))
  BY ErrorGood DEF Errors
<1>2. ASSUME ~ (Remaining(c) < 1)
      PROVE  Good(StartArray(TakeLength(c)))
  <2> DEFINE d == TakeLength(c)
  <2>1. CtxOK(d) /\ TypeRead(d) /\ d.array = c.array /\ d.array_index = 0
    BY <1>2, TakeLengthOK
  <2> HIDE DEF d
  <2>2. IsArray(d)
    BY <2>1 DEF IsArray
  <2>3. Good(StartArray(d))
    BY <2>1, <2>2, StartArrayGood
  <2> QED
    BY <2>3 DEF d
<1> QED
  BY <1>1, <1>2 DEF BeginVArray

LEMMA BeginCArrayGood ==
  ASSUME EventOK, NEW c, CtxOK(c), TypeRead(c), IsArray(c), c.array_index = 0
  PROVE  Good(BeginCArray(c))
<1>1. CASE c.next_offset = MetaEnd
  <2>1. Good(SetErrorState(c, "InvalidData"))
    BY ErrorGood DEF Errors
  <2> QED
    BY <1>1, <2>1 DEF BeginCArray
<1>2. CASE c.next_offset # MetaEnd
  <2> DEFINE d == TakeCount(c)
  <2>1. CtxOK(d) /\ TypeRead(d) /\ d.array = c.array /\ d.array_index = 0
    BY <1>2, TakeCountOK
  <2> HIDE DEF d
  <2>2. IsArray(d)
    BY <2>1 DEF IsArray
  <2>3. Good(StartArray(d)) /\ Good(SetErrorState(d, "InvalidData"))
    BY <2>1, <2>2, StartArrayGood, ErrorGood DEF Errors
  <2> QED
    BY <1>2, <2>3 DEF BeginCArray, d
<1> QED
  BY <1>1, <1>2

LEMMA BeginPropertyGood ==
  ASSUME EventOK, NEW c, CtxOK(c), c.remaining_field_count # 0, c.next_offset # MetaEnd
  PROVE  Good(BeginProperty(c))
<1> DEFINE c1 == ReadField([c EXCEPT !.remaining_field_count = @ - 1, !.array_index = 0])
<1>1. CtxOK(c1) /\ TypeRead(c1) /\ c1.array_index = 0
  BY ReadFieldOK
<1>2. BeginProperty(c) =
        CASE ReadFieldError(c1) -> SetErrorState(c1, "InvalidData")
          [] ~ReadFieldError(c1) /\ ~IsArray(c1) -> BeginScalar([c1 EXCEPT !.array_count = 1])
          [] IsVArray(c1) -> BeginVArray(c1)
          [] OTHER -> BeginCArray(c1)
  BY DEF BeginProperty
<1> HIDE DEF c1
<1>3. Good(SetErrorState(c1, "InvalidData"))
  BY <1>1, ErrorGood DEF Errors
<1>4. ~IsArray(c1) => Good(BeginScalar([c1 EXCEPT !.array_count = 1]))
  BY <1>1, BeginScalarGood
<1>5. IsArray(c1) => Good(BeginVArray(c1)) /\ Good(BeginCArray(c1))
  BY <1>1, BeginVArrayGood, BeginCArrayGood
<1>6. ReadFieldError(c1) => ~IsArray(c1)
  BY DEF ReadFieldError, IsArray
<1>7. IsVArray(c1) => IsArray(c1)
  BY DEF IsVArray, IsArray
<1>8. CASE ReadFieldError(c1)
  BY <1>2, <1>3, <1>6, <1>7, <1>8
<1>9. CASE ~ReadFieldError(c1) /\ ~IsArray(c1)
  BY <1>2, <1>4, <1>7, <1>9
<1>10. CASE IsArray(c1)
  BY <1>2, <1>5, <1>6, <1>10
<1> QED
  BY <1>8, <1>9, <1>10

(* next_property, second part: the end of a struct.                        *)
LEMMA StructEndGood ==
  ASSUME EventOK, NEW c, CtxOK(c), TypeRead(c), c.encoding = "Struct",
         c.array_index < c.array_count, ~IsArray(c) => c.array_count = 1
  PROVE  Good(SetEndState(c, "StructEnd"))
<1> DEFINE d == SetEndState(c, "StructEnd")
<1>1. /\ CtxOK(d) /\ d.state = "StructEnd" /\ d.substate = "StructEnd" /\ d.item_size = 0
      /\ d.encoding = c.encoding /\ d.array = c.array /\ d.format = c.format
      /\ d.name_offset = c.name_offset /\ d.array_index = c.array_index
      /\ d.array_count = c.array_count
  BY StateNames DEF CtxOK, Contexts, SetEndState, SetState
<1> HIDE DEF d
<1>2. TypeRead(d)
  BY <1>1 DEF TypeRead
<1>3. ValueFits(d)
  <2>1. Remaining(d) \in Nat
    BY <1>1, RemainingNat
  <2> QED
    BY <1>1, <2>1 DEF ValueFits
<1>4. d.array_count \in Nat /\ d.array_index \in Nat
  BY <1>1 DEF CtxOK, Contexts
<1>5. d.array_count # d.array_index + 1 => IsArray(d)
  BY <1>1, <1>4 DEF IsArray
<1>6. Asserted(d) /\ Support(d)
  BY <1>1, <1>5 DEF Asserted, Support, IsArray
<1>7. Good(d)
  BY <1>1, <1>2, <1>3, <1>6 DEF Good, Situation, StateOf
<1> QED
  BY <1>7 DEF d

LEMMA EndStructGood ==
  ASSUME EventOK, NEW c, CtxOK(c), c.stack # <<>>
  PROVE  Good(EndStruct(c))
<1> DEFINE f == Last(c.stack)
<1> DEFINE st == Front(c.stack)
<1> DEFINE tok == event.meta[f.name_offset]
<1> DEFINE o == OffsetAfterStruct(f, c.next_offset, f.name_offset + 1)
<1> DEFINE d == [c EXCEPT !.stack = st, !.name_offset = f.name_offset,
                          !.array_index = f.array_index, !.array_count = f.array_count,
                          !.remaining_field_count = f.remaining_field_count,
                          !.element_size = 0, !.encoding = tok.encoding, !.array = tok.array,
                          !.format = tok.format, !.next_offset = o]
<1>1. c.stack \in Seq(Frames) /\ Len(c.stack) <= STRUCT_NEST_LIMIT
  BY DEF CtxOK, Contexts
<1>2. f \in Frames /\ st \in Seq(Frames) /\ Len(st) <= STRUCT_NEST_LIMIT
  <2>1. Len(c.stack) \in 1 .. Len(c.stack) /\ Len(c.stack) - 1 \in Nat
    BY <1>1
  <2>2. f \in Frames
    BY <1>1, <2>1 DEF Last
  <2>3. st \in Seq(Frames) /\ Len(st) = Len(c.stack) - 1
    BY <1>1, <2>1 DEF Front
  <2> QED
    BY <1>1, <2>1, <2>2, <2>3, LimitsAssumption
<1> HIDE DEF f, st
<1>3. f.name_offset \in 1 .. M /\ tok.encoding = "Struct" /\ f.array_index < f.array_count
  BY <1>2 DEF Frames
<1>4. tok.array = "none" => f.array_count = 1
  BY <1>2 DEF Frames
<1>5. tok \in Tokens
  BY <1>3 DEF EventOK, M
<1>6. tok.encoding \in Encodings /\ tok.array \in Arrays /\ tok.format \in Nat
  BY <1>5 DEF Tokens
<1>7. o \in 1 .. M + 1
  <2>1. c.next_offset \in 1 .. M + 1
    BY DEF CtxOK, Contexts
  <2>2. f.name_offset + 1 \in 1 .. M + 1
    BY <1>3, Sizes
  <2> QED
    BY <2>1, <2>2 DEF OffsetAfterStruct
<1>8. EndStruct(c) = SetEndState(d, "StructEnd")
  BY DEF EndStruct, ReadFieldType, f, st, CtxOK, Contexts
<1> HIDE DEF tok, o
<1>popped. CtxOK(d)
  <2> DEFINE n == f.name_offset
  <2> DEFINE i == f.array_index
  <2> DEFINE k == f.array_count
  <2> DEFINE r == f.remaining_field_count
  <2> DEFINE e == tok.encoding
  <2> DEFINE a == tok.array
  <2> DEFINE t == tok.format
  <2> DEFINE z == 0
  <2>1. n \in 1 .. M /\ i \in Nat /\ k \in Nat /\ r \in Nat
    BY <1>2 DEF Frames
  <2>2. n \in 0 .. M /\ z \in 0 .. 2 /\ e \in Encodings /\ a \in Arrays /\ t \in Nat
    BY <1>6, <2>1
  <2> HIDE DEF n, i, k, r, e, a, t, z
  <2> DEFINE c1 == [c EXCEPT !.stack = st, !.name_offset = n, !.array_index = i]
  <2> DEFINE c2 == [c1 EXCEPT !.array_count = k, !.remaining_field_count = r,
                              !.element_size = z]
  <2> DEFINE c3 == [c2 EXCEPT !.encoding = e, !.array = a, !.format = t, !.next_offset = o]
  <2>3. d = c3
    BY DEF n, i, k, r, e, a, t, z
  <2> HIDE DEF d
  <2>4. CtxOK(c1)
    BY <1>2, <2>1, <2>2 DEF CtxOK, Contexts
  <2> HIDE DEF c1
  <2>5. CtxOK(c2)
    BY <2>1, <2>2, <2>4 DEF CtxOK, Contexts
  <2> HIDE DEF c2
  <2>6. CtxOK(c3)
    BY <1>7, <2>2, <2>5 DEF CtxOK, Contexts
  <2> HIDE DEF c3
  <2> QED
    BY <2>3, <2>6
<1>9. /\ d.name_offset = f.name_offset /\ d.encoding = tok.encoding
      /\ d.array = tok.array /\ d.format = tok.format /\ d.array_index = f.array_index
      /\ d.array_count = f.array_count
  BY DEF CtxOK, Contexts
<1> HIDE DEF d
<1>10. TypeRead(d)
  BY <1>3, <1>9 DEF TypeRead, tok
<1>11. Good(SetEndState(d, "StructEnd"))
  BY <1>3, <1>4, <1>popped, <1>9, <1>10, StructEndGood DEF IsArray
<1> QED
  BY <1>8, <1>11

LEMMA NextPropertyGood ==
  ASSUME EventOK, NEW c, CtxOK(c)
  PROVE  Good(NextProperty(c))
<1>1. CASE c.remaining_field_count # 0 /\ c.next_offset # MetaEnd
  BY <1>1, BeginPropertyGood DEF NextProperty
<1>2. CASE (c.remaining_field_count = 0 \/ c.next_offset = MetaEnd) /\ c.stack # <<>>
  BY <1>2, EndStructGood DEF NextProperty
<1>3. CASE (c.remaining_field_count = 0 \/ c.next_offset = MetaEnd) /\ c.stack = <<>>
  <2>1. Good(SetErrorState(c, "NotSupported")) /\ Good(SetEndState(c, "AfterLastItem"))
    BY ErrorGood, AfterLastGood DEF Errors
  <2> QED
    BY <1>3, <2>1 DEF NextProperty
<1> QED
  BY <1>1, <1>2, <1>3

-----------------------------------------------------------------------------
(* move_next_impl, one substate after the other.  What is known at items.  *)
LEMMA AtItem ==
  ASSUME EventOK, NEW c, Good(c), c.substate \in Moving
  PROVE  /\ CtxOK(c) /\ TypeRead(c) /\ Asserted(c) /\ Support(c)
         /\ c.item_size \in Nat /\ c.item_size <= Remaining(c) /\ c.state = StateOf(c.substate)
  BY DEF Good, CtxOK, Contexts, Situation, ValueFits

LEMMA CtxNumbers ==
  ASSUME NEW c, CtxOK(c)
  PROVE  /\ c.array_index \in Nat /\ c.array_count \in Nat /\ c.item_size \in Nat
         /\ c.element_size \in 0 .. 2 /\ c.format \in Nat
         /\ c.remaining_field_count \in Nat /\ c.move_next_remaining \in Nat
         /\ c.next_offset \in 1 .. M + 1 /\ c.encoding \in Encodings
         /\ c.stack \in Seq(Frames) /\ Len(c.stack) <= STRUCT_NEST_LIMIT
  BY DEF CtxOK, Contexts

(* The value at data_pos is passed, whatever follows it.                   *)
LEMMA PassedOK ==
  ASSUME EventOK, NEW c, CtxOK(c), NEW n \in Nat, n <= Remaining(c)
  PROVE  CtxOK([c EXCEPT !.data_pos = c.data_pos + n])
<1>1. c.data_pos + n \in 1 .. D + 1
  BY RemainingNat, Sizes
<1> QED
  BY <1>1 DEF CtxOK, Contexts

LEMMA ArrayEndGood ==
  ASSUME EventOK, NEW c, CtxOK(c), TypeRead(c), IsArray(c), c.array_index = c.array_count
  PROVE  Good(SetEndState(c, "ArrayEnd"))
<1> DEFINE d == SetEndState(c, "ArrayEnd")
<1>1. /\ CtxOK(d) /\ d.state = "ArrayEnd" /\ d.substate = "ArrayEnd" /\ d.item_size = 0
      /\ d.encoding = c.encoding /\ d.array = c.array /\ d.format = c.format
      /\ d.name_offset = c.name_offset /\ d.array_index = c.array_index
      /\ d.array_count = c.array_count
  BY StateNames DEF CtxOK, Contexts, SetEndState, SetState
<1> HIDE DEF d
<1>2. TypeRead(d)
  BY <1>1 DEF TypeRead
<1>3. ValueFits(d)
  <2>1. Remaining(d) \in Nat
    BY <1>1, RemainingNat
  <2> QED
    BY <1>1, <2>1 DEF ValueFits
<1>4. Asserted(d) /\ Support(d)
  BY <1>1 DEF Asserted, Support, IsArray
<1>5. Good(d)
  BY <1>1, <1>2, <1>3, <1>4 DEF Good, Situation, StateOf
<1> QED
  BY <1>5 DEF d

LEMMA ScalarGood ==
  ASSUME EventOK, NEW c, Good(c), c.substate = "ValueScalar"
  PROVE  Good(NextProperty(PassValue(c)))
<1>1. CtxOK(c) /\ c.item_size \in Nat /\ c.item_size <= Remaining(c)
  BY AtItem DEF Moving
<1>2. PassValue(c) = [c EXCEPT !.data_pos = c.data_pos + c.item_size]
  BY DEF PassValue
<1>3. CtxOK(PassValue(c))
  BY <1>1, <1>2, PassedOK
<1> QED
  BY <1>3, NextPropertyGood

(* The context after a value of an array: passed, and counted.             *)
LEMMA CountedOK ==
  ASSUME EventOK, NEW c, CtxOK(c), TypeRead(c), IsArray(c), c.item_size <= Remaining(c)
  PROVE  LET c1 == [PassValue(c) EXCEPT !.array_index = @ + 1]
         IN /\ CtxOK(c1) /\ TypeRead(c1) /\ IsArray(c1)
            /\ c1.array_index = c.array_index + 1 /\ c1.array_count = c.array_count
            /\ c1.substate = c.substate /\ c1.state = c.state
            /\ c1.encoding = c.encoding /\ c1.element_size = c.element_size
            /\ c1.item_size = c.item_size
            /\ Remaining(c1) = Remaining(c) - c.item_size
<1> DEFINE i == c.array_index + 1
<1> DEFINE p == c.data_pos + c.item_size
<1> DEFINE c1 == [PassValue(c) EXCEPT !.array_index = @ + 1]
<1> DEFINE c2 == [c EXCEPT !.data_pos = p, !.array_index = i]
<1>1. c1 = c2
  BY DEF PassValue, CtxOK, Contexts
<1>2. i \in Nat
  BY CtxNumbers
<1>3. /\ c.item_size \in Nat /\ c.data_pos \in Nat /\ D \in Nat
      /\ Remaining(c) = D - c.data_pos + 1
  BY CtxNumbers, RemainingNat, Sizes
<1>4. p \in 1 .. D + 1 /\ D - p + 1 = (D - c.data_pos + 1) - c.item_size
  BY <1>3, RemainingNat
<1> HIDE DEF i, p
<1>5. CtxOK(c2)
  BY <1>2, <1>4 DEF CtxOK, Contexts
<1>6. /\ c2.array_index = i /\ c2.array_count = c.array_count /\ c2.data_pos = p
      /\ c2.substate = c.substate /\ c2.state = c.state
      /\ c2.encoding = c.encoding /\ c2.element_size = c.element_size
      /\ c2.item_size = c.item_size /\ c2.array = c.array /\ c2.format = c.format
      /\ c2.name_offset = c.name_offset
  BY DEF CtxOK, Contexts
<1> HIDE DEF c1, c2
<1>7. TypeRead(c2) /\ IsArray(c2)
  BY <1>6 DEF TypeRead, IsArray
<1>8. Remaining(c2) = Remaining(c) - c.item_size
  BY <1>3, <1>4, <1>6 DEF Remaining, D
<1> QED
  BY <1>1, <1>5, <1>6, <1>7, <1>8 DEF c1, i

LEMMA ElementPassed ==
  ASSUME NEW i \in Nat, NEW n \in Nat, NEW z \in {1, 2}, NEW r \in Int,
         i < n, i + 1 # n, (n - i) * z <= r
  PROVE  (n - (i + 1)) * z <= r - z /\ z <= r - z /\ i + 1 < n
<1>1. CASE z = 1
  BY <1>1
<1>2. CASE z = 2
  BY <1>2
<1> QED
  BY <1>1, <1>2

LEMMA SimpleElementGood ==
  ASSUME EventOK, NEW c, Good(c), c.substate = "ValueSimpleArrayElement"
  PROVE  Good(NextElement(c, LAMBDA d : d))
<1> DEFINE c1 == [PassValue(c) EXCEPT !.array_index = @ + 1]
<1>1. /\ CtxOK(c) /\ TypeRead(c) /\ Asserted(c) /\ Support(c) /\ c.item_size <= Remaining(c)
      /\ c.state = "Value"
  BY AtItem DEF Moving, StateOf
<1>2. /\ c.encoding # "Struct" /\ IsArray(c) /\ c.element_size # 0
      /\ c.array_index < c.array_count /\ c.item_size = c.element_size
  BY <1>1 DEF Asserted
<1>3. /\ CtxOK(c1) /\ TypeRead(c1) /\ IsArray(c1)
      /\ c1.array_index = c.array_index + 1 /\ c1.array_count = c.array_count
      /\ c1.substate = c.substate /\ c1.state = c.state
      /\ c1.encoding = c.encoding /\ c1.element_size = c.element_size
      /\ c1.item_size = c.item_size /\ Remaining(c1) = Remaining(c) - c.item_size
  BY <1>1, <1>2, CountedOK
<1>4. NextElement(c, LAMBDA d : d) =
        IF c1.array_index = c1.array_count THEN SetEndState(c1, "ArrayEnd") ELSE c1
  BY DEF NextElement
<1> HIDE DEF c1
<1>5. CASE c1.array_index = c1.array_count
  BY <1>3, <1>4, <1>5, ArrayEndGood
<1>6. CASE c1.array_index # c1.array_count
  <2>1. /\ c.array_index \in Nat /\ c.array_count \in Nat /\ c.element_size \in {1, 2}
        /\ Remaining(c) \in Int
    BY <1>1, <1>2, CtxNumbers, RemainingNat
  <2>2. (c.array_count - c.array_index) * c.element_size <= Remaining(c)
    BY <1>1 DEF Support
  <2>3. c.array_index + 1 # c.array_count
    BY <1>3, <1>6
  <2>4. /\ (c.array_count - (c.array_index + 1)) * c.element_size
               <= Remaining(c) - c.element_size
        /\ c.element_size <= Remaining(c) - c.element_size
        /\ c.array_index + 1 < c.array_count
    BY <1>2, <2>1, <2>2, <2>3, ElementPassed
  <2>5. ValueFits(c1)
    BY <1>2, <1>3, <2>4 DEF ValueFits
  <2>6. (c1.array_count - c1.array_index) * c1.element_size <= Remaining(c1)
    BY <1>2, <1>3, <2>4
  <2>7. c1.array_index < c1.array_count
    BY <1>3, <2>4
  <2>8. Asserted(c1) /\ Support(c1)
    BY <1>2, <1>3, <2>6, <2>7 DEF Asserted, Support
  <2>9. Good(c1)
    BY <1>1, <1>3, <2>5, <2>8 DEF Good, Situation, StateOf
  <2> QED
    BY <1>4, <1>6, <2>9
<1> QED
  BY <1>5, <1>6

LEMMA ComplexElementGood ==
  ASSUME EventOK, NEW c, Good(c), c.substate = "ValueComplexArrayElement"
  PROVE  Good(NextElement(c, StartValue))
<1> DEFINE c1 == [PassValue(c) EXCEPT !.array_index = @ + 1]
<1>1. /\ CtxOK(c) /\ TypeRead(c) /\ Asserted(c) /\ Support(c) /\ c.item_size <= Remaining(c)
      /\ c.state = "Value"
  BY AtItem DEF Moving, StateOf
<1>2. /\ c.encoding # "Struct" /\ IsArray(c) /\ c.array_index < c.array_count
      /\ ElementSize(c.encoding) = 0
  BY <1>1 DEF Asserted, Support
<1>3. /\ CtxOK(c1) /\ TypeRead(c1) /\ IsArray(c1)
      /\ c1.array_index = c.array_index + 1 /\ c1.array_count = c.array_count
      /\ c1.substate = c.substate /\ c1.state = c.state
      /\ c1.encoding = c.encoding
  BY <1>1, <1>2, CountedOK
<1>4. NextElement(c, StartValue) =
        IF c1.array_index = c1.array_count THEN SetEndState(c1, "ArrayEnd") ELSE StartValue(c1)
  BY DEF NextElement
<1> HIDE DEF c1
<1>5. CASE c1.array_index = c1.array_count
  BY <1>3, <1>4, <1>5, ArrayEndGood
<1>6. CASE c1.array_index # c1.array_count
  <2>1. c.array_index \in Nat /\ c.array_count \in Nat
    BY <1>1, CtxNumbers
  <2>2. c1.array_index < c1.array_count
    BY <1>2, <1>3, <1>6, <2>1
  <2>3. Good(StartValue(c1))
    BY <1>1, <1>2, <1>3, <2>2, StartValueGood
  <2> QED
    BY <1>4, <1>6, <2>3
<1> QED
  BY <1>5, <1>6

LEMMA FirstElementGood ==
  ASSUME EventOK, NEW c, Good(c), c.substate = "ArrayBegin"
  PROVE  Good(FirstElement(c))
<1>1. /\ CtxOK(c) /\ TypeRead(c) /\ Asserted(c) /\ Support(c) /\ c.item_size <= Remaining(c)
  BY AtItem DEF Moving
<1>2. /\ IsArray(c) /\ c.array_index = 0 /\ (c.element_size # 0 => c.encoding # "Struct")
      /\ c.element_size = ElementSize(c.encoding)
      /\ c.item_size = c.array_count * c.element_size
  BY <1>1 DEF Asserted, Support
<1>3. c.array_count \in Nat /\ c.element_size \in 0 .. 2 /\ Remaining(c) \in Int
  BY <1>1, CtxNumbers, RemainingNat
<1>4. CASE c.array_count = 0
  <2>1. Good(SetEndState(c, "ArrayEnd"))
    BY <1>1, <1>2, <1>4, ArrayEndGood
  <2> QED
    BY <1>4, <2>1 DEF FirstElement
<1>5. CASE c.array_count # 0 /\ c.element_size # 0
  <2> DEFINE d == SetState([c EXCEPT !.item_size = c.element_size], "Value",
                           "ValueSimpleArrayElement")
  <2>1. "Value" \in States /\ "ValueSimpleArrayElement" \in Substates /\ c.element_size \in Nat
    BY <1>3, StateNames DEF Moving
  <2>2. /\ CtxOK(d) /\ d.state = "Value" /\ d.substate = "ValueSimpleArrayElement"
        /\ d.item_size = c.element_size /\ d.element_size = c.element_size
        /\ d.encoding = c.encoding /\ d.array = c.array /\ d.format = c.format
        /\ d.name_offset = c.name_offset /\ d.array_index = c.array_index
        /\ d.array_count = c.array_count /\ d.data_pos = c.data_pos
    BY <1>1, <2>1 DEF CtxOK, Contexts, SetState
  <2> HIDE DEF d
  <2>3. Remaining(d) = Remaining(c)
    BY <2>2 DEF Remaining
  <2>4. (c.array_count - 0) * c.element_size <= Remaining(c) /\ c.element_size <= Remaining(c)
    <3>1. c.element_size = 1 \/ c.element_size = 2
      BY <1>3, <1>5
    <3>2. c.array_count * c.element_size <= Remaining(c)
      BY <1>1, <1>2
    <3>3. CASE c.element_size = 1
      BY <1>3, <1>5, <3>2, <3>3
    <3>4. CASE c.element_size = 2
      BY <1>3, <1>5, <3>2, <3>4
    <3> QED
      BY <3>1, <3>3, <3>4
  <2>5. ValueFits(d) /\ (d.array_count - d.array_index) * d.element_size <= Remaining(d)
    BY <1>2, <2>2, <2>3, <2>4 DEF ValueFits
  <2>6. TypeRead(d) /\ IsArray(d)
    BY <1>1, <1>2, <2>2 DEF TypeRead, IsArray
  <2>7. d.array_index < d.array_count
    BY <1>2, <1>3, <1>5, <2>2
  <2>8. Asserted(d) /\ Support(d)
    BY <1>2, <1>5, <2>2, <2>5, <2>6, <2>7 DEF Asserted, Support
  <2>9. Good(d)
    BY <2>2, <2>5, <2>6, <2>8 DEF Good, Situation, StateOf
  <2> QED
    BY <1>5, <2>9 DEF FirstElement, d
<1>6. CASE c.array_count # 0 /\ c.element_size = 0 /\ c.encoding # "Struct"
  <2> DEFINE d == SetState(c, "Value", "ValueComplexArrayElement")
  <2>1. "Value" \in States /\ "ValueComplexArrayElement" \in Substates
    BY StateNames DEF Moving
  <2>2. /\ CtxOK(d) /\ d.state = "Value" /\ d.substate = "ValueComplexArrayElement"
        /\ d.encoding = c.encoding /\ d.array = c.array /\ d.format = c.format
        /\ d.name_offset = c.name_offset /\ d.array_index = c.array_index
        /\ d.array_count = c.array_count
    BY <1>1, <2>1, SetStateOK
  <2> HIDE DEF d
  <2>3. TypeRead(d) /\ IsArray(d)
    BY <1>1, <1>2, <2>2 DEF TypeRead, IsArray
  <2>4. d.array_index < d.array_count
    BY <1>2, <1>3, <1>6, <2>2
  <2>5. Good(StartValue(d))
    BY <1>2, <1>6, <2>2, <2>3, <2>4, StartValueGood
  <2> QED
    BY <1>6, <2>5 DEF FirstElement, d
<1>7. CASE c.array_count # 0 /\ c.element_size = 0 /\ c.encoding = "Struct"
  <2>1. c.array_index < c.array_count
    BY <1>2, <1>3, <1>7
  <2>2. Good(StartStruct(c))
    BY <1>1, <1>2, <1>7, <2>1, StartStructGood
  <2> QED
    BY <1>7, <2>2 DEF FirstElement
<1> QED
  BY <1>4, <1>5, <1>6, <1>7

LEMMA EmptyStructArrayGood ==
  ASSUME EventOK, NEW c, CtxOK(c), TypeRead(c), c.encoding = "Struct"
  PROVE  Good(AfterEmptyStructArray(c))
<1> DEFINE o == SkipStruct(c)
<1>1. MetaEnd - c.next_offset \in 0 .. M
  BY CtxNumbers, Sizes
<1>2. c.format \in Counts
  <2>1. c.name_offset \in 1 .. M /\ c.format = event.meta[c.name_offset].format
    BY DEF TypeRead
  <2>2. event.meta[c.name_offset].encoding = "Struct"
    BY DEF TypeRead
  <2>3. c.format < CountModulus /\ c.format \in Nat
    BY <2>1, <2>2, CtxNumbers DEF EventOK
  <2> QED
    BY <2>3, LimitsAssumption DEF Counts
<1>3. o \in {0, -1} \cup 1 .. M + 1
  BY <1>1, <1>2, SkipFieldsRange DEF SkipStruct
<1>4. AfterEmptyStructArray(c) =
        CASE o = 0 -> SetErrorState(c, "InvalidData")
          [] o = -1 -> SetErrorState(c, "NotSupported")
          [] OTHER -> NextProperty([c EXCEPT !.next_offset = o])
  BY DEF AfterEmptyStructArray
<1> HIDE DEF o
<1>5. Good(SetErrorState(c, "InvalidData")) /\ Good(SetErrorState(c, "NotSupported"))
  BY ErrorGood DEF Errors
<1>6. ASSUME o # 0, o # -1
      PROVE  Good(NextProperty([c EXCEPT !.next_offset = o]))
  <2> DEFINE d == [c EXCEPT !.next_offset = o]
  <2>1. o \in 1 .. M + 1
    BY <1>3, <1>6
  <2>2. CtxOK(d)
    BY <2>1 DEF CtxOK, Contexts
  <2> HIDE DEF d
  <2>3. Good(NextProperty(d))
    BY <2>2, NextPropertyGood
  <2> QED
    BY <2>3 DEF d
<1>7. CASE o = 0
  BY <1>4, <1>5, <1>7
<1>8. CASE o = -1
  BY <1>4, <1>5, <1>8
<1>9. CASE o # 0 /\ o # -1
  BY <1>4, <1>6, <1>9
<1> QED
  BY <1>7, <1>8, <1>9

LEMMA PushStructGood ==
  ASSUME EventOK, NEW c, Good(c), c.substate = "StructBegin"
  PROVE  Good(PushStruct(c))
<1> DEFINE st == Append(c.stack, Frame(c))
<1> DEFINE d == [c EXCEPT !.stack = Append(@, Frame(c)), !.remaining_field_count = c.format]
<1>1. CtxOK(c) /\ TypeRead(c) /\ Asserted(c) /\ Support(c)
  BY AtItem DEF Moving
<1>2. Good(SetErrorState(c, "StackOverflow"))
  BY <1>1, ErrorGood DEF Errors
<1>3. ASSUME ~ (Len(c.stack) >= STRUCT_NEST_LIMIT)
      PROVE  Good(NextProperty(d))
  <2>1. Frame(c) \in Frames
    <3>1. /\ c.array_index \in Nat /\ c.array_count \in Nat
          /\ c.remaining_field_count \in Nat /\ c.next_offset \in 1 .. M + 1
      BY <1>1, CtxNumbers
    <3>2. c.name_offset \in 1 .. M
      BY <1>1 DEF TypeRead
    <3>3. /\ event.meta[c.name_offset].encoding = "Struct"
          /\ c.array_index < c.array_count
          /\ event.meta[c.name_offset].array = "none" => c.array_count = 1
      BY <1>1 DEF TypeRead, Asserted, Support, IsArray
    <3> QED
      BY <3>1, <3>2, <3>3 DEF Frame, Frames
  <2>2. c.stack \in Seq(Frames) /\ Len(c.stack) \in Nat /\ c.format \in Nat
    BY <1>1, CtxNumbers
  <2> DEFINE f == Frame(c)
  <2> HIDE DEF f
  <2>3. f \in Frames
    BY <2>1 DEF f
  <2>4. Append(c.stack, f) \in Seq(Frames) /\ Len(Append(c.stack, f)) = Len(c.stack) + 1
    BY <2>2, <2>3
  <2>5. st \in Seq(Frames) /\ Len(st) <= STRUCT_NEST_LIMIT
    BY <1>3, <2>2, <2>4, LimitsAssumption DEF f
  <2>6. d = [c EXCEPT !.stack = st, !.remaining_field_count = c.format]
    OBVIOUS
  <2> HIDE DEF st, d
  <2>7. CtxOK(d)
    BY <1>1, <2>2, <2>5, <2>6 DEF CtxOK, Contexts
  <2> QED
    BY <2>7, NextPropertyGood
<1> QED
  BY <1>2, <1>3 DEF PushStruct

LEMMA StructEndStepGood ==
  ASSUME EventOK, NEW c, Good(c), c.substate = "StructEnd"
  PROVE  LET c1 == [c EXCEPT !.array_index = @ + 1]
         IN Good(CASE c1.array_count # c1.array_index -> StartStruct(c1)
                   [] c1.array_count = c1.array_index /\ IsArray(c) ->
                         SetEndState(c1, "ArrayEnd")
                   [] OTHER -> NextProperty(c1))
<1> DEFINE i == c.array_index + 1
<1> DEFINE c1 == [c EXCEPT !.array_index = @ + 1]
<1>1. CtxOK(c) /\ TypeRead(c) /\ Asserted(c) /\ Support(c)
  BY AtItem DEF Moving
<1>2. /\ c.encoding = "Struct" /\ c.array_index < c.array_count
      /\ ~IsArray(c) => c.array_count = 1
  BY <1>1 DEF Asserted, Support
<1>3. c.array_index \in Nat /\ c.array_count \in Nat /\ i \in Nat
  BY <1>1, CtxNumbers
<1>4. c1 = [c EXCEPT !.array_index = i]
  BY <1>1 DEF CtxOK, Contexts
<1> HIDE DEF i
<1>5. /\ CtxOK(c1) /\ c1.array_index = i
      /\ c1.encoding = c.encoding /\ c1.array = c.array /\ c1.format = c.format
      /\ c1.name_offset = c.name_offset /\ c1.array_count = c.array_count
  BY <1>1, <1>3, <1>4 DEF CtxOK, Contexts
<1> HIDE DEF c1
<1>6. TypeRead(c1) /\ (IsArray(c1) <=> IsArray(c))
  BY <1>1, <1>5 DEF TypeRead, IsArray
<1>7. c1.array_count # c1.array_index => c1.array_index < c1.array_count
  BY <1>2, <1>3, <1>5 DEF i
<1>8. c1.array_count # c1.array_index => Good(StartStruct(c1))
  BY <1>2, <1>5, <1>6, <1>7, StartStructGood
<1>9. c1.array_count = c1.array_index /\ IsArray(c) => Good(SetEndState(c1, "ArrayEnd"))
  BY <1>5, <1>6, ArrayEndGood
<1>10. Good(NextProperty(c1))
  BY <1>5, NextPropertyGood
<1>11. Good(CASE c1.array_count # c1.array_index -> StartStruct(c1)
              [] c1.array_count = c1.array_index /\ IsArray(c) -> SetEndState(c1, "ArrayEnd")
              [] OTHER -> NextProperty(c1))
  <2>1. CASE c1.array_count # c1.array_index
    BY <1>8, <2>1
  <2>2. CASE c1.array_count = c1.array_index /\ IsArray(c)
    BY <1>9, <2>2
  <2>3. CASE c1.array_count = c1.array_index /\ ~IsArray(c)
    BY <1>10, <2>3
  <2> QED
    BY <2>1, <2>2, <2>3
<1> QED
  BY <1>11 DEF c1

(* Every arm of the match.                                                 *)
LEMMA AdvanceGood ==
  ASSUME EventOK, NEW c, Good(c), c.substate \in Moving \cup {"BeforeFirstItem"}
  PROVE  Good(Advance(c))
<1>0. CtxOK(c)
  BY DEF Good
<1>1. CASE c.substate = "BeforeFirstItem"
  <2>1. Good(NextProperty(c))
    BY <1>0, NextPropertyGood
  <2> QED
    BY <1>1, <2>1 DEF Advance
<1>2. CASE c.substate = "ValueScalar"
  <2>1. Good(NextProperty(PassValue(c)))
    BY <1>2, ScalarGood
  <2> QED
    BY <1>2, <2>1 DEF Advance
<1>3. CASE c.substate = "ValueSimpleArrayElement"
  <2>1. Good(NextElement(c, LAMBDA d : d))
    BY <1>3, SimpleElementGood
  <2> QED
    BY <1>3, <2>1 DEF Advance
<1>4. CASE c.substate = "ValueComplexArrayElement"
  <2>1. Good(NextElement(c, StartValue))
    BY <1>4, ComplexElementGood
  <2> QED
    BY <1>4, <2>1 DEF Advance
<1>5. CASE c.substate = "ArrayBegin"
  <2>1. Good(FirstElement(c))
    BY <1>5, FirstElementGood
  <2> QED
    BY <1>5, <2>1 DEF Advance
<1>6. CASE c.substate = "ArrayEnd"
  <2>1. TypeRead(c)
    BY <1>6, AtItem DEF Moving
  <2>2. c.encoding = "Struct" => Good(AfterEmptyStructArray(c))
    BY <1>0, <2>1, EmptyStructArrayGood
  <2>3. Good(NextProperty(c))
    BY <1>0, NextPropertyGood
  <2> QED
    BY <1>6, <2>2, <2>3 DEF Advance
<1>7. CASE c.substate = "StructBegin"
  <2>1. Good(PushStruct(c))
    BY <1>7, PushStructGood
  <2> QED
    BY <1>7, <2>1 DEF Advance
<1>8. CASE c.substate = "StructEnd"
  BY <1>8, StructEndStepGood DEF Advance
<1> QED
  BY <1>1, <1>2, <1>3, <1>4, <1>5, <1>6, <1>7, <1>8 DEF Moving

LEMMA MoveNextImplGood ==
  ASSUME EventOK, NEW c, Good(c), CanMoveNext(c)
  PROVE  Good(MoveNextImpl(c))
<1> DEFINE r == c.move_next_remaining - 1
<1> DEFINE d == [c EXCEPT !.move_next_remaining = r]
<1>1. CtxOK(c) /\ Situation(c) /\ c.substate # "ValueMetadata"
  BY DEF Good
<1>2. c.substate \in Moving \cup {"BeforeFirstItem"}
  <2>1. c.substate \in Substates
    BY <1>1 DEF CtxOK, Contexts
  <2> QED
    BY <1>1, <2>1 DEF Situation, Substates, CanMoveNext, ItemStates
<1>3. Good(SetErrorState(c, "ImplementationLimit"))
  BY <1>1, ErrorGood DEF Errors
<1>4. ASSUME c.move_next_remaining # 0
      PROVE  Good(Advance(d))
  <2>1. r \in Nat
    BY <1>1, <1>4, CtxNumbers
  <2> HIDE DEF r
  <2>2. CtxOK(d)
    BY <1>1, <2>1 DEF CtxOK, Contexts
  <2>3. /\ d.state = c.state /\ d.substate = c.substate /\ d.item_size = c.item_size
        /\ d.element_size = c.element_size
        /\ d.encoding = c.encoding /\ d.array = c.array /\ d.format = c.format
        /\ d.name_offset = c.name_offset /\ d.array_index = c.array_index
        /\ d.array_count = c.array_count /\ d.data_pos = c.data_pos
    BY <1>1 DEF CtxOK, Contexts
  <2> HIDE DEF d
  <2>4. Remaining(d) = Remaining(c) /\ (IsArray(d) <=> IsArray(c))
    BY <2>3 DEF Remaining, IsArray
  <2>5. TypeRead(c) => TypeRead(d)
    BY <2>3 DEF TypeRead
  <2>6. Support(c) => Support(d)
    BY <2>3, <2>4 DEF Support
  <2>7. Asserted(c) => Asserted(d)
    BY <2>3, <2>4 DEF Asserted
  <2>8. ValueFits(c) => ValueFits(d)
    BY <2>3, <2>4 DEF ValueFits
  <2>9. Good(d)
    BY <1>1, <2>2, <2>3, <2>5, <2>6, <2>7, <2>8 DEF Good, Situation
  <2> QED
    BY <1>2, <2>3, <2>9, AdvanceGood
<1> QED
  BY <1>3, <1>4 DEF MoveNextImpl

LEMMA PassSimpleArrayGood ==
  ASSUME EventOK, NEW c, Good(c), c.substate = "ArrayBegin", c.move_next_remaining # 0
  PROVE  Good(PassSimpleArray(c))
<1> DEFINE n == c.array_count * c.element_size
<1> DEFINE p == c.data_pos + n
<1> DEFINE r == c.move_next_remaining - 1
<1> DEFINE d == [c EXCEPT !.data_pos = p, !.move_next_remaining = r]
<1>1. CtxOK(c) /\ Support(c) /\ c.item_size \in Nat /\ c.item_size <= Remaining(c)
  BY AtItem DEF Moving
<1>2. c.item_size = n
  BY <1>1 DEF Support
<1>3. PassSimpleArray(c) = NextProperty(d)
  BY <1>1 DEF PassSimpleArray, CtxOK, Contexts
<1> HIDE DEF n
<1>4. p \in 1 .. D + 1
  BY <1>1, <1>2, RemainingNat, Sizes
<1>5. r \in Nat
  BY <1>1, CtxNumbers
<1> HIDE DEF p, r
<1>6. CtxOK(d)
  BY <1>1, <1>4, <1>5 DEF CtxOK, Contexts
<1> HIDE DEF d
<1> QED
  BY <1>3, <1>6, NextPropertyGood

(* reset_impl needs nothing of what was before.                            *)
AnyContexts ==
    [state : States, substate : Substates, last_error : Errors, next_offset : Nat,
     name_offset : 0 .. M, array_index : Nat, array_count : Nat,
     remaining_field_count : Nat, stack : Seq(Frames), encoding : Encodings, array : Arrays,
     format : Nat, element_size : 0 .. 2, data_pos : Nat, item_size : Nat,
     move_next_remaining : Nat]

LEMMA AnyContext ==
  ASSUME EventOK, NEW c, CtxOK(c)
  PROVE  c \in AnyContexts
<1>1. 1 .. M + 1 \subseteq Nat /\ 1 .. D + 1 \subseteq Nat
  BY Sizes
<1> QED
  BY <1>1 DEF CtxOK, Contexts, AnyContexts

LEMMA ResetOK ==
  ASSUME EventOK, NEW c \in AnyContexts
  PROVE  Good(ResetImpl(c))
<1> DEFINE d == ResetImpl(c)
<1>1. /\ 1 \in 1 .. D + 1 /\ MoveLimit \in Nat /\ 1 \in 1 .. M + 1 /\ MaxTopLevel \in Nat
      /\ <<>> \in Seq(Frames) /\ Len(<<>>) <= STRUCT_NEST_LIMIT
  BY Sizes, LimitsAssumption
<1>2. "Success" \in Errors /\ "BeforeFirstItem" \in States /\ "BeforeFirstItem" \in Substates
  BY StateNames DEF Errors
<1>3. CtxOK(d)
  BY <1>1, <1>2 DEF CtxOK, Contexts, AnyContexts, ResetImpl, SetState
<1>4. d.state = "BeforeFirstItem" /\ d.substate = "BeforeFirstItem"
  BY DEF AnyContexts, ResetImpl, SetState
<1> HIDE DEF d
<1>5. Good(d)
  BY <1>3, <1>4, OutsideGood
<1> QED
  BY <1>5 DEF d

(* move_next_metadata.                                                     *)
LEMMA ReadPlainOK ==
  ASSUME EventOK, NEW c, CtxOK(c), c.next_offset # MetaEnd
  PROVE  CtxOK(ReadField(c))
<1> DEFINE tok == event.meta[c.next_offset]
<1> DEFINE n == c.next_offset
<1> DEFINE o == c.next_offset + 1
<1> DEFINE d == [c EXCEPT !.name_offset = n, !.encoding = tok.encoding,
                          !.array = tok.array, !.format = tok.format, !.next_offset = o]
<1>1. n \in 1 .. M /\ M \in Nat
  BY CtxNumbers, Sizes
<1>2. tok \in Tokens
  BY <1>1 DEF EventOK, M
<1>3. tok.encoding \in Encodings /\ tok.array \in Arrays /\ tok.format \in Nat
  BY <1>2 DEF Tokens
<1>4. o \in 1 .. M + 1 /\ n \in 0 .. M
  BY <1>1
<1>5. ReadField(c) = d
  BY DEF ReadField, ReadFieldType, CtxOK, Contexts
<1> HIDE DEF tok, n, o
<1>6. CtxOK(d)
  BY <1>3, <1>4 DEF CtxOK, Contexts
<1> QED
  BY <1>5, <1>6

LEMMA ErrorSound ==
  ASSUME NEW c, CtxOK(c)
  PROVE  Sound(SetErrorState(c, "InvalidData"))
<1>1. Good(SetErrorState(c, "InvalidData"))
  BY ErrorGood DEF Errors
<1> QED
  BY <1>1 DEF Sound, Good

LEMMA MetadataSound ==
  ASSUME NEW c, CtxOK(c), c.substate = "ValueMetadata"
  PROVE  Sound(c)
  BY DEF Sound

LEMMA MetadataCArraySound ==
  ASSUME EventOK, NEW c, CtxOK(c)
  PROVE  Sound(MetadataCArray(c))
<1>1. CASE c.next_offset = MetaEnd
  <2>1. Sound(SetErrorState(c, "InvalidData"))
    BY ErrorSound
  <2> QED
    BY <1>1, <2>1 DEF MetadataCArray
<1>2. CASE c.next_offset # MetaEnd
  <2> DEFINE d == TakeCount(c)
  <2> DEFINE n == event.meta[c.next_offset].format
  <2> DEFINE o == c.next_offset + 1
  <2>1. c.next_offset \in 1 .. M /\ M \in Nat
    BY <1>2, CtxNumbers, Sizes
  <2>2. event.meta[c.next_offset] \in Tokens
    BY <2>1 DEF EventOK, M
  <2>3. n \in Nat /\ o \in 1 .. M + 1
    BY <2>1, <2>2 DEF Tokens
  <2>4. d = [c EXCEPT !.array_count = n, !.next_offset = o]
    BY DEF TakeCount, CtxOK, Contexts
  <2> HIDE DEF n, o, d
  <2>5. CtxOK(d)
    BY <2>3, <2>4 DEF CtxOK, Contexts
  <2> DEFINE v == SetState(d, "ArrayBegin", "ValueMetadata")
  <2>6. "ArrayBegin" \in States /\ "ValueMetadata" \in Substates
    BY StateNames
  <2>7. CtxOK(v) /\ v.substate = "ValueMetadata"
    BY <2>5, <2>6, SetStateOK
  <2> HIDE DEF v
  <2>8. Sound(v) /\ Sound(SetErrorState(d, "InvalidData"))
    BY <2>5, <2>7, MetadataSound, ErrorSound
  <2> QED
    BY <1>2, <2>8 DEF MetadataCArray, d, v
<1> QED
  BY <1>1, <1>2

LEMMA MetadataItemSound ==
  ASSUME EventOK, NEW c, CtxOK(c), c.next_offset # MetaEnd
  PROVE  Sound(MetadataItem(c))
<1> DEFINE c1 == ReadField(c)
<1> DEFINE Item(n, s) == SetState([c1 EXCEPT !.array_count = n], s, "ValueMetadata")
<1>1. CtxOK(c1)
  BY ReadPlainOK
<1>2. MetadataItem(c) =
        IF ReadFieldError(c1) \/ (c1.encoding = "Struct" /\ c1.format = 0)
        THEN SetErrorState(c1, "InvalidData")
        ELSE CASE ~IsArray(c1) -> Item(1, "Value")
               [] IsVArray(c1) -> Item(0, "ArrayBegin")
               [] OTHER -> MetadataCArray(c1)
  BY DEF MetadataItem
<1> HIDE DEF c1
<1>3. Sound(SetErrorState(c1, "InvalidData")) /\ Sound(MetadataCArray(c1))
  BY <1>1, ErrorSound, MetadataCArraySound
<1>4. ASSUME NEW n \in Nat, NEW s \in States
      PROVE  Sound(Item(n, s))
  <2> DEFINE d == [c1 EXCEPT !.array_count = n]
  <2> DEFINE v == SetState(d, s, "ValueMetadata")
  <2>1. CtxOK(d)
    BY <1>1 DEF CtxOK, Contexts
  <2> HIDE DEF d
  <2>2. "ValueMetadata" \in Substates
    BY StateNames
  <2>3. CtxOK(v) /\ v.substate = "ValueMetadata"
    BY <2>1, <2>2, SetStateOK
  <2> HIDE DEF v
  <2>4. Sound(v)
    BY <2>3, MetadataSound
  <2> QED
    BY <2>4 DEF v, d
<1>5. "Value" \in States /\ "ArrayBegin" \in States /\ 0 \in Nat /\ 1 \in Nat
  BY StateNames
<1>6. Sound(Item(1, "Value")) /\ Sound(Item(0, "ArrayBegin"))
  BY <1>4, <1>5
<1> HIDE DEF Item
<1>7. IsVArray(c1) => IsArray(c1)
  BY DEF IsVArray, IsArray
<1> QED
  BY <1>2, <1>3, <1>6, <1>7

-----------------------------------------------------------------------------
(* The invariant is about the event being decoded, which never changes.    *)
LEMMA SoundPrime ==
  ASSUME event' = event, Sound(ctx')
  PROVE  Sound(ctx)'
<1>1. M' = M /\ D' = D
  BY DEF M, D
<1>2. Frames' = Frames
  BY <1>1 DEF Frames
<1>3. Contexts' = Contexts
  BY <1>1, <1>2 DEF Contexts
<1>4. CtxOK(ctx') => CtxOK(ctx)'
  BY <1>3 DEF CtxOK
<1>5. Remaining(ctx)' = Remaining(ctx')
  BY DEF Remaining
<1>6. TypeRead(ctx') => TypeRead(ctx)'
  BY <1>1 DEF TypeRead
<1>7. ValueFits(ctx') => ValueFits(ctx)'
  BY <1>5 DEF ValueFits
<1>8. Asserted(ctx') => Asserted(ctx)'
  BY DEF Asserted, IsArray
<1>9. Support(ctx') => Support(ctx)'
  BY <1>5 DEF Support, IsArray, ElementSize
<1>10. Situation(ctx') => Situation(ctx)'
  BY <1>6, <1>7, <1>8, <1>9 DEF Situation, Moving, StateOf
<1> QED
  BY <1>4, <1>10 DEF Sound, Good

LEMMA EventOKPrime ==
  ASSUME EventOK, event' = event
  PROVE  EventOK'
  BY DEF EventOK, M

LEMMA InitGood ==
  ASSUME EventOK
  PROVE  Good(ResetImpl(NewContext))
<1> DEFINE z == 0
<1> DEFINE none == <<>>
<1>1. z \in Nat /\ z \in 0 .. M /\ z \in 0 .. 2 /\ none \in Seq(Frames)
  BY Sizes
<1>2. /\ "Success" \in Errors /\ "Error" \in States /\ "Error" \in Substates
      /\ "Invalid" \in Encodings /\ "none" \in Arrays
  BY StateNames DEF Errors, Encodings, Arrays
<1>3. NewContext =
        [state |-> "Error", substate |-> "Error", last_error |-> "Success",
         next_offset |-> z, name_offset |-> z, array_index |-> z, array_count |-> z,
         remaining_field_count |-> z, stack |-> none, encoding |-> "Invalid",
         array |-> "none", format |-> z, element_size |-> z, data_pos |-> z,
         item_size |-> z, move_next_remaining |-> z]
  BY DEF NewContext
<1> HIDE DEF z, none
<1>4. NewContext \in AnyContexts
  BY <1>1, <1>2, <1>3 DEF AnyContexts
<1> QED
  BY <1>4, ResetOK

LEMMA GoodIsSound ==
  ASSUME NEW c, Good(c)
  PROVE  Sound(c) /\ c.substate # "ValueMetadata"
  BY DEF Sound, Good

LEMMA SiblingDoneOK ==
  ASSUME NEW d \in Int, SiblingDone(d), ctx'.substate # "ValueMetadata"
  PROVE  DepthOK'
<1>1. CASE ~CanMoveNext(ctx') \/ d <= 0
  <2>1. depth' = NoSibling
    BY <1>1 DEF SiblingDone
  <2> QED
    BY <2>1 DEF DepthOK, Idle
<1>2. CASE CanMoveNext(ctx') /\ d > 0
  <2>1. depth' = d
    BY <1>2 DEF SiblingDone
  <2> QED
    BY <1>2, <2>1 DEF DepthOK, InMetadata, CanMoveNext, ItemStates
<1> QED
  BY <1>1, <1>2

(* The invariant holds of a new enumerator on any event ...                *)
LEMMA InvInit == Init => IndInv
<1> SUFFICES ASSUME Init PROVE IndInv
  OBVIOUS
<1>1. EventOK
  <2>1. event \in Events
    BY DEF Init
  <2>2. event.meta \in Seq(Tokens) /\ event.data \in Seq(Nat)
    BY <2>1, EventsAssumption
  <2>3. DOMAIN event.meta = 1 .. Len(event.meta)
    BY <2>2
  <2> QED
    BY <2>1, <2>2, <2>3, EventsAssumption DEF EventOK, M
<1>2. Sound(ctx)
  BY <1>1, InitGood, GoodIsSound DEF Init
<1> QED
  BY <1>1, <1>2 DEF Init, IndInv, DepthOK, Idle

(* ... and each call, or round of move_next_sibling's loop, keeps it.      *)
LEMMA InvNext == IndInv /\ [Next]_vars => IndInv'
<1> SUFFICES ASSUME IndInv, [Next]_vars PROVE IndInv'
  OBVIOUS
<1>0. EventOK /\ Sound(ctx) /\ DepthOK
  BY DEF IndInv
<1>1. event' = event
  BY DEF Next, MoveNext, MoveNextSibling, SiblingJump, SiblingStep, MoveNextMetadata, Reset, vars
<1>2. EventOK'
  BY <1>0, <1>1, EventOKPrime
<1>3. CtxOK(ctx)
  BY <1>0 DEF Sound, Good
<1>4. depth \in Int
  BY <1>0 DEF DepthOK, NoSibling
<1> SUFFICES Sound(ctx') /\ DepthOK'
  BY <1>1, <1>2, SoundPrime DEF IndInv
<1>5. CASE MoveNext
  <2>1. Good(ctx) /\ CanMoveNext(ctx)
    BY <1>0, <1>5 DEF MoveNext, Sound, InMetadata
  <2>2. Sound(ctx')
    BY <1>0, <1>5, <2>1, MoveNextImplGood, GoodIsSound DEF MoveNext
  <2> QED
    BY <1>5, <2>2 DEF MoveNext, DepthOK, Idle
<1>6. CASE MoveNextSibling
  BY <1>0, <1>6 DEF MoveNextSibling, DepthOK, Idle, InMetadata, CanMoveNext, ItemStates
<1>7. CASE SiblingJump
  <2>1. Good(ctx)
    BY <1>0, <1>7 DEF SiblingJump, DepthOK, Sound, InMetadata
  <2>2. ctx.substate = "ArrayBegin"
    <3>1. ctx.substate \in Substates /\ Situation(ctx) /\ ctx.substate # "ValueMetadata"
      BY <2>1 DEF Good, CtxOK, Contexts
    <3>2. ctx.state = "ArrayBegin"
      BY <1>7 DEF SiblingJump, AtSimpleArray
    <3> QED
      BY <3>1, <3>2 DEF Situation, Substates, Moving, StateOf
  <2>3. Good(ctx')
    BY <1>0, <1>7, <2>1, <2>2, PassSimpleArrayGood DEF SiblingJump
  <2> QED
    BY <1>4, <1>7, <2>3, GoodIsSound, SiblingDoneOK DEF SiblingJump
<1>8. CASE SiblingStep
  <2>1. Good(ctx) /\ CanMoveNext(ctx)
    BY <1>0, <1>8 DEF SiblingStep, DepthOK, Sound, InMetadata
  <2>2. Good(ctx')
    BY <1>0, <1>8, <2>1, MoveNextImplGood DEF SiblingStep
  <2>3. DepthAfter \in Int
    BY <1>4 DEF DepthAfter
  <2> QED
    BY <1>8, <2>2, <2>3, GoodIsSound, SiblingDoneOK DEF SiblingStep
<1>9. CASE MoveNextMetadata
  <2> DEFINE c == IF InMetadata THEN ctx
                  ELSE SetState([ctx EXCEPT !.array_index = 0, !.element_size = 0],
                                "Value", "ValueMetadata")
  <2>1. CtxOK(c)
    <3>1. "Value" \in States /\ "ValueMetadata" \in Substates
      BY StateNames
    <3> DEFINE z == 0
    <3> DEFINE d == [ctx EXCEPT !.array_index = z, !.element_size = z]
    <3>z. z \in Nat /\ z \in 0 .. 2
      OBVIOUS
    <3> HIDE DEF z
    <3>2. CtxOK(d)
      BY <1>3, <3>z DEF CtxOK, Contexts
    <3> HIDE DEF d
    <3>3. CtxOK(SetState(d, "Value", "ValueMetadata"))
      BY <3>1, <3>2, SetStateOK
    <3> QED
      BY <1>3, <3>3 DEF d, z
  <2>2. ctx' = IF c.next_offset # MetaEnd THEN MetadataItem(c)
               ELSE SetEndState(c, "AfterLastItem")
    BY <1>9 DEF MoveNextMetadata
  <2> HIDE DEF c
  <2>3. Sound(ctx')
    BY <1>0, <2>1, <2>2, MetadataItemSound, AfterLastGood, GoodIsSound
  <2> QED
    BY <1>9, <2>3 DEF MoveNextMetadata, DepthOK, Idle
<1>10. CASE Reset
  <2>1. Sound(ctx')
    BY <1>0, <1>3, <1>10, AnyContext, ResetOK, GoodIsSound DEF Reset
  <2> QED
    BY <1>10, <2>1 DEF Reset, DepthOK, Idle
<1>11. CASE UNCHANGED vars
  BY <1>0, <1>11 DEF vars, DepthOK, Idle, InMetadata, CanMoveNext, ItemStates
<1> QED
  BY <1>5, <1>6, <1>7, <1>8, <1>9, <1>10, <1>11 DEF Next

LEMMA InvPositions ==
  ASSUME IndInv
  PROVE  PositionsInRange
<1>1. EventOK /\ Sound(ctx)
  BY DEF IndInv
<1>2. CtxOK(ctx)
  BY <1>1 DEF Sound, Good
<1>3. ctx.next_offset \in 1 .. MetaEnd /\ Len(ctx.stack) <= STRUCT_NEST_LIMIT
  BY <1>1, <1>2, CtxNumbers, Sizes
<1>4. ctx.data_pos \in 1 .. Len(event.data) + 1
  BY <1>1, <1>2, RemainingNat DEF D
<1>5. ASSUME ctx.state \in ItemStates, ~InMetadata
      PROVE  ctx.item_size \in 0 .. Remaining(ctx)
  <2>1. Good(ctx)
    BY <1>1, <1>5 DEF Sound, InMetadata
  <2>2. ctx.substate \in Moving
    <3>1. ctx.substate \in Substates /\ Situation(ctx) /\ ctx.substate # "ValueMetadata"
      BY <2>1 DEF Good, CtxOK, Contexts
    <3> QED
      BY <1>5, <3>1 DEF Situation, Substates, ItemStates
  <2>3. ctx.item_size \in Nat /\ ctx.item_size <= Remaining(ctx)
    BY <1>1, <2>1, <2>2, AtItem
  <2>4. Remaining(ctx) \in Nat
    BY <1>1, <1>2, RemainingNat
  <2> QED
    BY <2>3, <2>4
<1> QED
  BY <1>3, <1>4, <1>5 DEF PositionsInRange

LEMMA InvAsserts ==
  ASSUME IndInv
  PROVE  DebugAsserts
<1>1. EventOK /\ Sound(ctx) /\ DepthOK
  BY DEF IndInv
<1>2. CASE InMetadata
  BY <1>1, <1>2 DEF DebugAsserts, Asserted, InMetadata, DepthOK, Moving
<1>3. CASE ~InMetadata
  <2>1. CtxOK(ctx) /\ Situation(ctx) /\ ctx.substate # "ValueMetadata"
    BY <1>1, <1>3 DEF Sound, Good, InMetadata
  <2>2. ctx.substate \in Substates
    BY <2>1 DEF CtxOK, Contexts
  <2>3. Asserted(ctx) /\ (ctx.substate \in Moving => ctx.state = StateOf(ctx.substate))
    BY <2>1 DEF Situation
  <2>4. CanMoveNext(ctx) => ctx.substate \in Moving \cup {"BeforeFirstItem"}
    BY <2>1, <2>2 DEF Situation, Substates, CanMoveNext, ItemStates
  <2>5. ASSUME AtSimpleArray
        PROVE  ctx.substate = "ArrayBegin" /\ ctx.encoding # "Struct" /\ ctx.array_index = 0
    <3>1. ctx.state = "ArrayBegin" /\ ctx.element_size # 0
      BY <2>5 DEF AtSimpleArray
    <3>2. ctx.substate = "ArrayBegin"
      BY <2>1, <2>2, <3>1 DEF Situation, Substates, Moving, StateOf
    <3> QED
      BY <2>3, <3>1, <3>2 DEF Asserted
  <2> QED
    BY <2>3, <2>4, <2>5 DEF DebugAsserts
<1> QED
  BY <1>2, <1>3

-----------------------------------------------------------------------------
(* The decoder never slices out of range: whatever an event's metadata and *)
(* data say, every offset that move_next, move_next_sibling,               *)
(* move_next_metadata and reset leave behind lies in its slice, the        *)
(* current value lies inside the data and the stack does not overflow.     *)
THEOREM EnumeratorInRange == Spec => []PositionsInRange
<1>1. IndInv => PositionsInRange
  BY InvPositions
<1> QED
  BY <1>1, InvInit, InvNext, PTL DEF Spec

(* None of the debug_asserts of move_next_impl, next_property, start_value *)
(* and of the jump in move_next_sibling_impl can fail, and the match has   *)
(* an arm for every substate from which the enumerator can move.           *)
THEOREM EnumeratorAsserts == Spec => []DebugAsserts
<1>1. IndInv => DebugAsserts
  BY InvAsserts
<1> QED
  BY <1>1, InvInit, InvNext, PTL DEF Spec

-----------------------------------------------------------------------------
(* Complete induction up to a bound.                                       *)
LEMMA Complete ==
  ASSUME NEW N \in Nat, NEW Q, \A m \in 0 .. N : (\A k \in 0 .. m - 1 : k \in Q) => m \in Q
  PROVE  0 .. N \subseteq Q
<1> DEFINE T == {n \in Nat : \A k \in 0 .. n : k <= N => k \in Q}
<1>1. 0 \in T
  OBVIOUS
<1>2. ASSUME NEW n \in Nat, n \in T PROVE n + 1 \in T
  <2>1. \A k \in 0 .. n + 1 : k \in 0 .. n \/ k = n + 1
    OBVIOUS
  <2>2. n + 1 <= N => n + 1 \in Q
    BY <1>2
  <2> QED
    BY <1>2, <2>1, <2>2
<1>3. N \in T
  <2> HIDE DEF T
  <2> QED BY <1>1, <1>2, NatSet
<1> QED
  BY <1>3

LEMMA MinIs ==
  ASSUME NEW S, NEW x \in S, S \subseteq Int, \A y \in S : x <= y
  PROVE  Min(S) = x
<1>1. Min(S) \in S /\ \A y \in S : Min(S) <= y
  BY DEF Min
<1>2. x \in Int /\ Min(S) \in Int
  BY <1>1
<1>3. x <= Min(S) /\ Min(S) <= x
  BY <1>1
<1> QED
  BY <1>2, <1>3

LEMMA MinOfOne ==
  ASSUME NEW x \in Int
  PROVE  Min({x}) = x
<1>1. x \in {x} /\ {x} \subseteq Int /\ \A y \in {x} : x <= y
  OBVIOUS
<1> QED
  BY <1>1, MinIs

LEMMA MaxIs ==
  ASSUME NEW S, NEW x \in S, S \subseteq Int, \A y \in S : x >= y
  PROVE  Max(S) = x
<1>1. Max(S) \in S /\ \A y \in S : Max(S) >= y
  BY DEF Max
<1>2. x \in Int /\ Max(S) \in Int
  BY <1>1
<1>3. x >= Max(S) /\ Max(S) >= x
  BY <1>1
<1> QED
  BY <1>2, <1>3

-----------------------------------------------------------------------------
(* {:x}: the digits of a number, the last one from its remainder.          *)
Digits == Range(HexDigits)
Chars == STRING \cup UpperCase \cup LowerCase \cup Digits \cup {"_"}

LEMMA ShortSeqs ==
  ASSUME NEW S, NEW a \in S, NEW b \in S
  PROVE  <<a>> \in Seq(S) /\ <<a, b>> \in Seq(S)
  OBVIOUS

HexRound(g, m) ==
    IF m < 16 THEN <<HexDigits[m + 1]>> ELSE Append(g[m \div 16], HexDigits[(m % 16) + 1])

LEMMA Smaller ==
  ASSUME NEW m \in Nat, m >= 16
  PROVE  m \div 16 \in 0 .. m - 1 /\ m % 16 \in 0 .. 15 /\ m = 16 * (m \div 16) + (m % 16)
  OBVIOUS

LEMMA HexRoundLocal ==
  ASSUME NEW m \in Nat, NEW f, NEW g, \A k \in 0 .. m - 1 : f[k] = g[k]
  PROVE  HexRound(f, m) = HexRound(g, m)
<1>1. CASE m < 16
  BY <1>1 DEF HexRound
<1>2. CASE m >= 16
  <2>1. f[m \div 16] = g[m \div 16]
    BY <1>2, Smaller
  <2> QED
    BY <1>2, <2>1 DEF HexRound
<1> QED
  BY <1>1, <1>2

(* The recursion of {:x} ends.                                             *)
LEMMA HexTable ==
  ASSUME NEW n \in Nat
  PROVE  \E g : g = [m \in 0 .. n |-> HexRound(g, m)]
<1> DEFINE Rows(g, k) == \A m \in 0 .. k : g[m] = HexRound(g, m)
<1> DEFINE T == {k \in Nat : \E g : Rows(g, k)}
<1>1. 0 \in T
  <2> DEFINE g == [m \in 0 .. 0 |-> <<HexDigits[1]>>]
  <2>1. Rows(g, 0)
    BY DEF HexRound
  <2> QED
    BY <2>1
<1>2. ASSUME NEW k \in Nat, k \in T
      PROVE  k + 1 \in T
  <2>1. PICK g : Rows(g, k)
    BY <1>2
  <2> DEFINE h == [m \in 0 .. k + 1 |-> IF m <= k THEN g[m] ELSE HexRound(g, m)]
  <2>2. \A m \in 0 .. k : h[m] = g[m]
    OBVIOUS
  <2>3. h[k + 1] = HexRound(g, k + 1)
    OBVIOUS
  <2> HIDE DEF h
  <2>4. ASSUME NEW m \in 0 .. k + 1
        PROVE  h[m] = HexRound(h, m)
    <3>1. HexRound(h, m) = HexRound(g, m)
      BY <2>2, HexRoundLocal
    <3>2. CASE m = k + 1
      BY <3>1, <3>2, <2>3
    <3>3. CASE m # k + 1
      <4>1. m \in 0 .. k
        BY <3>3
      <4> QED
        BY <4>1, <3>1, <2>2, <2>1
    <3> QED
      BY <3>2, <3>3
  <2> QED
    BY <2>4
<1> HIDE DEF T
<1>3. n \in T
  BY <1>1, <1>2, NatSet
<1>4. PICK g : Rows(g, n)
  BY <1>3 DEF T
<1> DEFINE h == [m \in 0 .. n |-> g[m]]
<1>5. \A m \in 0 .. n : h[m] = g[m]
  OBVIOUS
<1>6. ASSUME NEW m \in 0 .. n
      PROVE  g[m] = HexRound(h, m)
  <2>1. HexRound(h, m) = HexRound(g, m)
    BY <1>5, HexRoundLocal
  <2> QED
    BY <2>1, <1>4
<1>7. h = [m \in 0 .. n |-> HexRound(h, m)]
  BY <1>6
<1> QED
  BY <1>7

LEMMA HexUnfold ==
  ASSUME NEW n \in Nat
  PROVE  \E g : Hex(n) = g[n] /\ \A m \in 0 .. n : g[m] = HexRound(g, m)
<1> DEFINE Table(g) == [m \in 0 .. n |-> HexRound(g, m)]
<1> DEFINE hex == CHOOSE g : g = Table(g)
<1>1. Hex(n) = hex[n]
  BY DEF Hex, HexRound
<1>2. hex = Table(hex)
  BY HexTable, Zenon
<1>3. \A m \in 0 .. n : Table(hex)[m] = HexRound(hex, m)
  OBVIOUS
<1> HIDE DEF Table, hex
<1> QED
  BY <1>1, <1>2, <1>3

LEMMA DigitFacts ==
  /\ Len(HexDigits) = 16
  /\ \A d \in 0 .. 15 : HexDigits[d + 1] \in Digits
  /\ \A i, j \in 1 .. 16 : HexDigits[i] = HexDigits[j] => i = j
<1>1. Len(HexDigits) = 16 /\ DOMAIN HexDigits = 1 .. 16
  BY DEF HexDigits
<1>2. \A i, j \in 1 .. 16 : HexDigits[i] = HexDigits[j] => i = j
  BY DEF HexDigits
<1> QED
  BY <1>1, <1>2 DEF Digits, Range

LEMMA NibbleOf ==
  ASSUME NEW d \in 0 .. 15
  PROVE  Nibble(HexDigits[d + 1]) = d
<1> DEFINE I == {i \in 1 .. Len(HexDigits) : HexDigits[i] = HexDigits[d + 1]}
<1>1. Nibble(HexDigits[d + 1]) = (IF I # {} THEN Min(I) ELSE 0) - 1
  BY DEF Nibble, SelectInSeq
<1>2. I = {d + 1}
  BY DigitFacts
<1>3. Min(I) = d + 1
  BY <1>2, MinIs
<1> QED
  BY <1>1, <1>2, <1>3

LEMMA HexSeq ==
  ASSUME NEW n \in Nat
  PROVE  Hex(n) \in Seq(Digits) /\ Len(Hex(n)) \in Nat \ {0}
<1>1. PICK g : Hex(n) = g[n] /\ \A m \in 0 .. n : g[m] = HexRound(g, m)
  BY HexUnfold
<1> DEFINE Q == {m \in Nat : g[m] \in Seq(Digits) /\ Len(g[m]) \in Nat \ {0}}
<1>2. ASSUME NEW m \in 0 .. n, \A k \in 0 .. m - 1 : k \in Q
      PROVE  m \in Q
  <2>0. m \in Nat
    OBVIOUS
  <2>1. CASE m < 16
    <3>1. HexDigits[m + 1] \in Digits
      BY <2>0, <2>1, DigitFacts
    <3>2. g[m] = <<HexDigits[m + 1]>>
      BY <1>1, <2>1 DEF HexRound
    <3> DEFINE d == HexDigits[m + 1]
    <3>a. d \in Digits /\ g[m] = <<d>>
      BY <3>1, <3>2
    <3> HIDE DEF d
    <3>3. g[m] \in Seq(Digits) /\ Len(g[m]) = 1
      BY <3>a, ShortSeqs
    <3> QED
      BY <2>0, <3>3, SMTT(40)
  <2>2. CASE m >= 16
    <3> DEFINE q == m \div 16
               d == HexDigits[(m % 16) + 1]
    <3>1. q \in 0 .. m - 1 /\ d \in Digits
      BY <2>0, <2>2, Smaller, DigitFacts
    <3>2. g[m] = Append(g[q], d)
      <4>1. g[m] = HexRound(g, m)
        BY <1>1
      <4>2. ~(m < 16)
        BY <2>0, <2>2
      <4> QED BY <4>1, <4>2 DEF HexRound
    <3>3. g[q] \in Seq(Digits)
      BY <3>1, <1>2
    <3> HIDE DEF q, d
    <3>4. g[m] \in Seq(Digits) /\ Len(g[m]) = Len(g[q]) + 1 /\ Len(g[q]) \in Nat
      BY <3>1, <3>2, <3>3, AppendProperties
    <3> QED
      BY <3>4
  <2> QED
    BY <2>1, <2>2
<1> HIDE DEF Q
<1>3. n \in Q
  BY <1>2, Complete
<1> QED
  BY <1>1, <1>3 DEF Q

-----------------------------------------------------------------------------
(* lowercase_hex_to_int.                                                   *)
ValRound(g, name, pos, i) == IF i < pos THEN 0 ELSE g[i - 1] * 16 + Nibble(name[i])

ValTable(g, name, pos, e) == g = [i \in pos - 1 .. e |-> ValRound(g, name, pos, i)]

LEMMA ValTableExists ==
  ASSUME NEW name, NEW pos \in Nat \ {0}, NEW e \in Nat, e >= pos - 1
  PROVE  \E g : ValTable(g, name, pos, e)
<1> DEFINE Rows(g, k) == \A i \in pos - 1 .. pos - 1 + k : g[i] = ValRound(g, name, pos, i)
<1> DEFINE T == {k \in Nat : \E g : Rows(g, k)}
<1>1. 0 \in T
  <2> DEFINE g == [i \in pos - 1 .. pos - 1 |-> 0]
  <2>1. Rows(g, 0)
    BY DEF ValRound
  <2> QED
    BY <2>1
<1>2. ASSUME NEW k \in Nat, k \in T
      PROVE  k + 1 \in T
  <2>1. PICK g : Rows(g, k)
    BY <1>2
  <2> DEFINE h == [i \in pos - 1 .. pos + k |->
                      IF i <= pos - 1 + k THEN g[i] ELSE ValRound(g, name, pos, i)]
  <2>2. \A i \in pos - 1 .. pos - 1 + k : h[i] = g[i]
    OBVIOUS
  <2>3. h[pos + k] = ValRound(g, name, pos, pos + k)
    OBVIOUS
  <2> HIDE DEF h
  <2>4. ASSUME NEW i \in pos - 1 .. pos - 1 + (k + 1)
        PROVE  h[i] = ValRound(h, name, pos, i)
    <3>1. ValRound(h, name, pos, i) = ValRound(g, name, pos, i)
      BY <2>2 DEF ValRound
    <3>2. CASE i = pos + k
      BY <3>1, <3>2, <2>3
    <3>3. CASE i # pos + k
      <4>1. i \in pos - 1 .. pos - 1 + k
        BY <3>3
      <4> QED
        BY <4>1, <3>1, <2>2, <2>1
    <3> QED
      BY <3>2, <3>3
  <2> QED
    BY <2>4
<1> HIDE DEF T
<1>3. e - (pos - 1) \in T
  BY <1>1, <1>2, NatSet
<1>4. PICK g : Rows(g, e - (pos - 1))
  BY <1>3 DEF T
<1>4a. \A i \in pos - 1 .. e : g[i] = ValRound(g, name, pos, i)
  BY <1>4
<1> DEFINE h == [i \in pos - 1 .. e |-> g[i]]
<1>5. \A i \in pos - 1 .. e : h[i] = g[i]
  OBVIOUS
<1>6. ASSUME NEW i \in pos - 1 .. e
      PROVE  g[i] = ValRound(h, name, pos, i)
  <2>1. ValRound(h, name, pos, i) = ValRound(g, name, pos, i)
    BY <1>5 DEF ValRound
  <2> QED
    BY <2>1, <1>4a
<1>7. ValTable(h, name, pos, e)
  BY <1>6 DEF ValTable
<1> QED
  BY <1>7

(* A number stands in a name, and no digit follows it.                     *)
Stands(n, name, pos, len) ==
    /\ len = Len(Hex(n)) /\ pos - 1 + len <= Len(name)
    /\ \A i \in 1 .. len : name[pos - 1 + i] = Hex(n)[i]
    /\ pos + len = Len(name) + 1 \/ name[pos + len] \notin Digits

(* h is written from pos on, and read up to its end the value is m.        *)
Written(h, name, pos, len) == Len(h) <= len /\ \A i \in 1 .. Len(h) : name[pos - 1 + i] = h[i]

ReadAs(h, m, val, name, pos, len) ==
    /\ h \in Seq(Digits) /\ Len(h) \in Nat \ {0}
    /\ Written(h, name, pos, len) => val[pos - 1 + Len(h)] = m

LEMMA HexValue ==
  ASSUME NEW n \in Nat, NEW name, NEW pos \in Nat \ {0}, NEW len \in Nat \ {0}, NEW val, NEW g,
         \A m \in 0 .. n : g[m] = HexRound(g, m),
         val[pos - 1] = 0,
         \A i \in pos .. pos + len - 1 : val[i] = val[i - 1] * 16 + Nibble(name[i])
  PROVE  ReadAs(g[n], n, val, name, pos, len)
<1> DEFINE Q == {m \in Nat : ReadAs(g[m], m, val, name, pos, len)}
<1>1. ASSUME NEW m \in 0 .. n, \A k \in 0 .. m - 1 : k \in Q
      PROVE  m \in Q
  <2>0. m \in Nat /\ g[m] = HexRound(g, m)
    OBVIOUS
  <2>1. CASE m < 16
    <3>1. HexDigits[m + 1] \in Digits /\ Nibble(HexDigits[m + 1]) = m
      <4>1. m \in 0 .. 15
        BY <2>0, <2>1
      <4> QED BY <4>1, DigitFacts, NibbleOf
    <3>2. g[m] = <<HexDigits[m + 1]>>
      BY <2>0, <2>1 DEF HexRound
    <3>3. g[m] \in Seq(Digits) /\ Len(g[m]) = 1 /\ g[m][1] = HexDigits[m + 1]
      BY <3>1, <3>2
    <3>4. val[pos] = val[pos - 1] * 16 + Nibble(name[pos])
      OBVIOUS
    <3>5. ASSUME Written(g[m], name, pos, len)
          PROVE  val[pos - 1 + Len(g[m])] = m
      <4>1. name[pos - 1 + 1] = HexDigits[m + 1]
        BY <3>3, <3>5 DEF Written
      <4>2. pos - 1 + 1 = pos
        OBVIOUS
      <4>3. val[pos] = m
        BY <4>1, <4>2, <3>1, <3>4, <2>0
      <4> QED
        BY <4>3, <4>2, <3>3
    <3>6. ReadAs(g[m], m, val, name, pos, len)
      BY <3>3, <3>5 DEF ReadAs
    <3> QED
      BY <2>0, <3>6
  <2>2. CASE m >= 16
    <3> DEFINE q == m \div 16
               r == m % 16
               d == HexDigits[r + 1]
               l == Len(g[q])
    <3>1. q \in 0 .. m - 1 /\ r \in 0 .. 15 /\ m = 16 * q + r
      BY <2>0, <2>2, Smaller
    <3>2. g[m] = Append(g[q], d)
      <4>1. ~(m < 16)
        BY <2>0, <2>2
      <4> QED BY <2>0, <4>1 DEF HexRound
    <3>3. d \in Digits /\ Nibble(d) = r
      <4> HIDE DEF r
      <4> QED BY <3>1, DigitFacts, NibbleOf
    <3>4. ReadAs(g[q], q, val, name, pos, len)
      BY <3>1, <1>1
    <3> HIDE DEF q, r, d
    <3>5. g[q] \in Seq(Digits) /\ l \in Nat \ {0}
      BY <3>4 DEF ReadAs
    <3>6. /\ g[m] \in Seq(Digits) /\ Len(g[m]) = l + 1
          /\ \A i \in 1 .. l : g[m][i] = g[q][i]
          /\ g[m][l + 1] = d
      BY <3>2, <3>3, <3>5, AppendProperties
    <3> HIDE DEF l
    <3>7. ASSUME Written(g[m], name, pos, len)
          PROVE  val[pos - 1 + Len(g[m])] = m
      <4>1. l + 1 <= len /\ l <= len
        BY <3>5, <3>6, <3>7 DEF Written
      <4>2. \A i \in 1 .. l + 1 : name[pos - 1 + i] = g[m][i]
        BY <3>6, <3>7 DEF Written
      <4>3. \A i \in 1 .. l : i \in 1 .. l + 1
        BY <3>5
      <4>4. Written(g[q], name, pos, len)
        BY <4>1, <4>2, <4>3, <3>6 DEF Written, l
      <4>5. val[pos - 1 + l] = q
        BY <4>4, <3>4 DEF ReadAs, l
      <4> DEFINE k == pos + l
      <4>6. /\ l + 1 \in 1 .. l + 1 /\ pos - 1 + (l + 1) = k
            /\ k \in pos .. pos + len - 1 /\ k - 1 = pos - 1 + l
        BY <3>5, <4>1
      <4> HIDE DEF k
      <4>7. name[k] = d
        BY <4>2, <4>6, <3>6
      <4>8. val[k] = val[k - 1] * 16 + Nibble(name[k])
        BY <4>6
      <4>9. val[k] = q * 16 + r
        BY <4>5, <4>6, <4>7, <4>8, <3>3
      <4>10. q * 16 + r = m
        BY <3>1
      <4> QED
        BY <4>6, <4>9, <4>10, <3>6
    <3>8. Len(g[m]) \in Nat \ {0}
      BY <3>5, <3>6
    <3>9. ReadAs(g[m], m, val, name, pos, len)
      BY <3>6, <3>7, <3>8 DEF ReadAs
    <3> QED
      BY <2>0, <3>9
  <2> QED
    BY <2>0, <2>1, <2>2
<1> HIDE DEF Q
<1>2. 0 .. n \subseteq Q
  BY <1>1, Complete
<1>3. n \in Q
  BY <1>2
<1> QED
  BY <1>3 DEF Q

(* Its digits are read back to the number, and to no further than its end. *)
LEMMA HexReadsBack ==
  ASSUME NEW n \in Nat, NEW name \in Seq(Chars), NEW pos \in Nat \ {0},
         NEW len \in Nat \ {0}, Stands(n, name, pos, len)
  PROVE  HexToInt(name, pos).val = n /\ HexToInt(name, pos).end = pos + len
<1>0. Hex(n) \in Seq(Digits) /\ len = Len(Hex(n)) /\ Len(name) \in Nat
  BY HexSeq DEF Stands
<1> DEFINE stops == {i \in pos .. Len(name) : name[i] \notin Range(HexDigits)} \cup {Len(name) + 1}
<1>1. Min(stops) = pos + len
  <2>1. pos + len \in stops
    <3>1. CASE pos + len = Len(name) + 1
      BY <3>1
    <3>2. CASE pos + len # Len(name) + 1
      <4>1. name[pos + len] \notin Range(HexDigits) /\ pos - 1 + len <= Len(name)
        BY <3>2 DEF Stands, Digits
      <4>2. pos + len \in pos .. Len(name)
        BY <3>2, <4>1, <1>0
      <4> QED BY <4>1, <4>2
    <3> QED BY <3>1, <3>2
  <2>2. stops \subseteq Int
    BY <1>0
  <2>3. ASSUME NEW y \in stops PROVE pos + len <= y
    <3>a. pos + len <= Len(name) + 1
      BY <1>0 DEF Stands
    <3> SUFFICES ASSUME y < pos + len, y \in pos .. Len(name), name[y] \notin Digits PROVE FALSE
      BY <1>0, <3>a DEF Digits
    <3> DEFINE i == y - pos + 1
    <3>1. i \in 1 .. len /\ pos - 1 + i = y
      BY <1>0
    <3>2. Hex(n)[i] \in Digits
      BY <3>1, <1>0, ElementOfSeq
    <3>3. name[pos - 1 + i] = Hex(n)[i]
      BY <3>1 DEF Stands
    <3> QED
      BY <3>1, <3>2, <3>3
  <2> HIDE DEF stops
  <2> QED
    BY <2>1, <2>2, <2>3, MinIs
<1> DEFINE Table(g, w) == [i \in pos - 1 .. w |-> ValRound(g, name, pos, i)]
<1> DEFINE end == Min(stops)
<1>2. HexToInt(name, pos) = [val |-> (CHOOSE g : g = Table(g, end - 1))[end - 1], end |-> end]
  BY DEF HexToInt, ValRound
<1> DEFINE e == pos + len - 1
<1> DEFINE val == CHOOSE g : g = Table(g, e)
<1>3. e \in Nat /\ e >= pos - 1 /\ end = pos + len /\ end - 1 = e
  BY <1>0, <1>1
<1>4. HexToInt(name, pos) = [val |-> val[e], end |-> pos + len]
  <2> HIDE DEF e, end, stops, Table
  <2> QED BY <1>2, <1>3
<1> HIDE DEF end, stops
<1>5. \E g : g = Table(g, e)
  <2> HIDE DEF e
  <2>1. \E g : ValTable(g, name, pos, e)
    BY <1>3, ValTableExists
  <2> QED BY <2>1 DEF ValTable
<1>6. val = Table(val, e)
  BY <1>5, Zenon
<1>7. \A i \in pos - 1 .. e : val[i] = ValRound(val, name, pos, i)
  <2>1. \A i \in pos - 1 .. e : Table(val, e)[i] = ValRound(val, name, pos, i)
    OBVIOUS
  <2> HIDE DEF Table, val, e
  <2> QED BY <1>6, <2>1
<1> HIDE DEF Table, val
<1>8. val[pos - 1] = 0
  BY <1>7, <1>3 DEF ValRound
<1>9. \A i \in pos .. pos + len - 1 : val[i] = val[i - 1] * 16 + Nibble(name[i])
  <2>1. \A i \in pos .. e : i \in pos - 1 .. e /\ ~(i < pos)
    BY <1>3
  <2> QED
    BY <2>1, <1>7 DEF ValRound
<1>10. PICK g : Hex(n) = g[n] /\ \A m \in 0 .. n : g[m] = HexRound(g, m)
  BY HexUnfold
<1>11. ReadAs(Hex(n), n, val, name, pos, len)
  BY <1>8, <1>9, <1>10, HexValue
<1>12. Written(Hex(n), name, pos, len)
  BY <1>0 DEF Stands, Written
<1>13. val[e] = n
  <2>1. pos - 1 + Len(Hex(n)) = e
    BY <1>0
  <2> QED BY <1>11, <1>12, <2>1 DEF ReadAs
<1> QED
  BY <1>4, <1>13

-----------------------------------------------------------------------------
(* The tracepoint's name.                                                  *)
Joined2(u, s, t) ==
    /\ Len(u) = Len(s) + Len(t) /\ Len(s) \in Nat /\ Len(t) \in Nat
    /\ \A i \in 1 .. Len(s) : u[i] = s[i]
    /\ \A i \in 1 .. Len(t) : u[Len(s) + i] = t[i]

LEMMA Joining ==
  ASSUME NEW S, NEW s \in Seq(S), NEW t \in Seq(S)
  PROVE  s \o t \in Seq(S) /\ Joined2(s \o t, s, t)
  BY DEF Joined2

LEMMA Alphabet ==
  /\ Digits \cap UpperCase = {} /\ "_" \notin Digits \cup UpperCase \cup LowerCase
  /\ "K" \notin Digits /\ {"_", "L", "K"} \cup Digits \subseteq Chars
<1>1. Digits = {"0", "1", "2", "3", "4", "5", "6", "7", "8", "9", "a", "b", "c", "d", "e", "f"}
  BY DEF Digits, Range, HexDigits
<1> QED
  BY <1>1 DEF UpperCase, LowerCase, Chars

(* The name is the provider's, "_L", the level, "K", the keyword and the   *)
(* options, one after the other.                                           *)
Laid(n, provider, options, level, keyword) ==
    LET p == Len(provider)
        x == Len(Hex(level))
        y == Len(Hex(keyword))
    IN /\ n \in Seq(Chars) /\ Len(n) = p + 3 + x + y + Len(options)
       /\ \A i \in 1 .. p : n[i] = provider[i]
       /\ n[p + 1] = "_" /\ n[p + 2] = "L"
       /\ \A i \in 1 .. x : n[p + 2 + i] = Hex(level)[i]
       /\ n[p + 3 + x] = "K"
       /\ \A i \in 1 .. y : n[p + 3 + x + i] = Hex(keyword)[i]
       /\ \A i \in 1 .. Len(options) : n[p + 3 + x + y + i] = options[i]

LEMMA NameLaid ==
  ASSUME NEW provider \in Seq(Chars), NEW options \in Seq(Chars),
         NEW level \in Nat, NEW keyword \in Nat
  PROVE  Laid(FormatName(provider, options, level, keyword), provider, options, level, keyword)
<1> DEFINE h1 == Hex(level)
           h2 == Hex(keyword)
           ul == <<"_", "L">>
           k == <<"K">>
           s1 == provider \o ul
           s2 == s1 \o h1
           s3 == s2 \o k
           s4 == s3 \o h2
           s5 == s4 \o options
           p == Len(provider)
           x == Len(h1)
           y == Len(h2)
<1>0. FormatName(provider, options, level, keyword) = s5
  BY DEF FormatName
<1>1. h1 \in Seq(Chars) /\ h2 \in Seq(Chars)
  <2>1. h1 \in Seq(Digits) /\ h2 \in Seq(Digits) /\ Digits \subseteq Chars
    BY HexSeq, Alphabet
  <2> HIDE DEF h1, h2
  <2> QED BY <2>1, SeqMonotonic
<1>2. ul \in Seq(Chars) /\ k \in Seq(Chars)
  <2>1. "_" \in Chars /\ "L" \in Chars /\ "K" \in Chars
    BY Alphabet
  <2> QED BY <2>1, ShortSeqs
<1>2a. Len(ul) = 2 /\ ul[1] = "_" /\ ul[2] = "L" /\ Len(k) = 1 /\ k[1] = "K"
  OBVIOUS
<1> HIDE DEF h1, h2, ul, k, s1, s2, s3, s4, s5
<1>3. p \in Nat /\ x \in Nat /\ y \in Nat /\ Len(options) \in Nat
  BY <1>1, LenProperties
<1> HIDE DEF p, x, y
<1>4a. s1 \in Seq(Chars) /\ Joined2(s1, provider, ul)
  BY <1>2, Joining DEF s1
<1>5a. s2 \in Seq(Chars) /\ Joined2(s2, s1, h1)
  BY <1>1, <1>4a, Joining DEF s2
<1>6a. s3 \in Seq(Chars) /\ Joined2(s3, s2, k)
  BY <1>2, <1>5a, Joining DEF s3
<1>7a. s4 \in Seq(Chars) /\ Joined2(s4, s3, h2)
  BY <1>1, <1>6a, Joining DEF s4
<1>8a. s5 \in Seq(Chars) /\ Joined2(s5, s4, options)
  BY <1>7a, Joining DEF s5
<1>4. /\ Len(s1) = p + 2
      /\ \A i \in 1 .. p : s1[i] = provider[i]
      /\ s1[p + 1] = "_" /\ s1[p + 2] = "L"
  <2>1. Len(s1) = p + 2 /\ \A i \in 1 .. p : s1[i] = provider[i]
    BY <1>2a, <1>4a DEF Joined2, p
  <2>2. \A i \in 1 .. 2 : s1[p + i] = ul[i]
    BY <1>2a, <1>4a DEF Joined2, p
  <2>3. 1 \in 1 .. 2 /\ 2 \in 1 .. 2
    OBVIOUS
  <2> QED BY <2>1, <2>2, <2>3, <1>2a
<1>5. /\ Len(s2) = p + 2 + x
      /\ \A i \in 1 .. p + 2 : s2[i] = s1[i]
      /\ \A i \in 1 .. x : s2[p + 2 + i] = h1[i]
  BY <1>4, <1>5a DEF Joined2, x
<1>6. /\ Len(s3) = p + 3 + x
      /\ \A i \in 1 .. p + 2 + x : s3[i] = s2[i]
      /\ s3[p + 3 + x] = "K"
  <2>1. p + 2 + x + 1 = p + 3 + x /\ 1 \in 1 .. 1
    BY <1>3
  <2>2. Len(s3) = p + 2 + x + 1 /\ s3[p + 2 + x + 1] = k[1]
    BY <1>5, <1>6a, <1>2a, <2>1 DEF Joined2
  <2>3. \A i \in 1 .. p + 2 + x : s3[i] = s2[i]
    BY <1>5, <1>6a DEF Joined2
  <2> QED BY <2>1, <2>2, <2>3, <1>2a
<1>7. /\ Len(s4) = p + 3 + x + y
      /\ \A i \in 1 .. p + 3 + x : s4[i] = s3[i]
      /\ \A i \in 1 .. y : s4[p + 3 + x + i] = h2[i]
  BY <1>6, <1>7a DEF Joined2, y
<1>8. /\ s5 \in Seq(Chars) /\ Len(s5) = p + 3 + x + y + Len(options)
      /\ \A i \in 1 .. p + 3 + x + y : s5[i] = s4[i]
      /\ \A i \in 1 .. Len(options) : s5[p + 3 + x + y + i] = options[i]
  BY <1>7, <1>8a DEF Joined2
<1>9a. \A i \in 1 .. p + 2 : s5[i] = s1[i]
  <2> SUFFICES ASSUME NEW i \in 1 .. p + 2 PROVE s5[i] = s1[i]
    OBVIOUS
  <2>1. i \in 1 .. p + 2 + x /\ i \in 1 .. p + 3 + x /\ i \in 1 .. p + 3 + x + y
    BY <1>3
  <2>2. s2[i] = s1[i] /\ s3[i] = s2[i]
    BY <2>1, <1>5, <1>6
  <2>3. s4[i] = s3[i] /\ s5[i] = s4[i]
    BY <2>1, <1>7, <1>8
  <2> QED BY <2>2, <2>3
<1>9. \A i \in 1 .. p : s5[i] = provider[i]
  <2>1. \A i \in 1 .. p : i \in 1 .. p + 2
    BY <1>3
  <2> QED BY <2>1, <1>9a, <1>4
<1>10. s5[p + 1] = "_" /\ s5[p + 2] = "L"
  <2>1. p + 1 \in 1 .. p + 2 /\ p + 2 \in 1 .. p + 2
    BY <1>3
  <2> QED BY <2>1, <1>9a, <1>4
<1>11. \A i \in 1 .. x : s5[p + 2 + i] = h1[i]
  <2>1. \A i \in 1 .. x : p + 2 + i \in 1 .. p + 2 + x /\ p + 2 + i \in 1 .. p + 3 + x
                          /\ p + 2 + i \in 1 .. p + 3 + x + y
    BY <1>3
  <2> QED BY <2>1, <1>5, <1>6, <1>7, <1>8
<1>12. s5[p + 3 + x] = "K"
  <2>1. p + 3 + x \in 1 .. p + 3 + x /\ p + 3 + x \in 1 .. p + 3 + x + y
    BY <1>3
  <2> QED BY <2>1, <1>6, <1>7, <1>8
<1>13. \A i \in 1 .. y : s5[p + 3 + x + i] = h2[i]
  <2>1. \A i \in 1 .. y : p + 3 + x + i \in 1 .. p + 3 + x + y
    BY <1>3
  <2> QED BY <2>1, <1>7, <1>8
<1> QED
  BY <1>0, <1>8, <1>9, <1>10, <1>11, <1>12, <1>13 DEF Laid, p, x, y, h1, h2

(* What ProviderOptions allows.                                            *)
OptionsOK(o) ==
    /\ o \in Seq(Chars)
    /\ \A i \in 1 .. Len(o) : o[i] \in UpperCase \cup LowerCase \cup Digits
    /\ o # <<>> => o[1] \in UpperCase \ {"L", "K"}

Spread(n, provider, options, level, keyword, p, x, y, o, z) ==
    /\ p = Len(provider) /\ x = Len(Hex(level)) /\ y = Len(Hex(keyword))
    /\ o = Len(options) /\ z = p + 3 + x + y
    /\ n \in Seq(Chars) /\ Len(n) = z + o
    /\ \A i \in 1 .. p : n[i] = provider[i]
    /\ n[p + 1] = "_" /\ n[p + 2] = "L" /\ n[p + 3 + x] = "K"
    /\ \A i \in 1 .. x : n[p + 2 + i] = Hex(level)[i]
    /\ \A i \in 1 .. y : n[p + 3 + x + i] = Hex(keyword)[i]
    /\ \A i \in 1 .. o : n[z + i] = options[i]

LEMMA NameSorts ==
  ASSUME NEW provider \in Seq(Chars), NEW options, OptionsOK(options),
         NEW level \in Nat, NEW keyword \in Nat, NEW n,
         Laid(n, provider, options, level, keyword)
  PROVE  \E p \in Nat, x \in Nat \ {0}, y \in Nat \ {0}, o \in Nat, z \in Nat :
            Spread(n, provider, options, level, keyword, p, x, y, o, z)
<1> DEFINE p == Len(provider)
           x == Len(Hex(level))
           y == Len(Hex(keyword))
           o == Len(options)
           z == p + 3 + x + y
<1>1. p \in Nat /\ o \in Nat /\ x \in Nat \ {0} /\ y \in Nat \ {0}
  BY HexSeq, LenProperties DEF OptionsOK
<1>2. /\ n \in Seq(Chars) /\ Len(n) = z + o
      /\ \A i \in 1 .. p : n[i] = provider[i]
      /\ n[p + 1] = "_" /\ n[p + 2] = "L" /\ n[p + 3 + x] = "K"
      /\ \A i \in 1 .. x : n[p + 2 + i] = Hex(level)[i]
      /\ \A i \in 1 .. y : n[p + 3 + x + i] = Hex(keyword)[i]
      /\ \A i \in 1 .. o : n[z + i] = options[i]
  BY DEF Laid
<1> HIDE DEF p, x, y, o
<1>3. z \in Nat
  BY <1>1
<1>4. p = Len(provider) /\ x = Len(Hex(level)) /\ y = Len(Hex(keyword)) /\ o = Len(options)
  BY DEF p, x, y, o
<1>5. Spread(n, provider, options, level, keyword, p, x, y, o, z)
  BY <1>2, <1>4 DEF Spread
<1> HIDE DEF z
<1> QED
  BY <1>1, <1>3, <1>5

LEMMA NameParsed ==
  ASSUME NEW provider \in Seq(Chars), NEW options, OptionsOK(options),
         NEW level \in Nat, NEW keyword \in Nat, NEW n,
         Laid(n, provider, options, level, keyword)
  PROVE  /\ ParseName(n, level) = keyword
         /\ ProviderName(n) = provider
         /\ OptionsOf(n) = options
<1>0. PICK p \in Nat, x \in Nat \ {0}, y \in Nat \ {0}, o \in Nat, z \in Nat :
            Spread(n, provider, options, level, keyword, p, x, y, o, z)
  BY NameSorts
<1>1. /\ p = Len(provider) /\ n \in Seq(Chars)
      /\ \A i \in 1 .. p : n[i] = provider[i]
      /\ n[p + 1] = "_" /\ n[p + 2] = "L" /\ n[p + 3 + x] = "K"
      /\ \A i \in 1 .. x : n[p + 2 + i] = Hex(level)[i]
      /\ \A i \in 1 .. y : n[p + 3 + x + i] = Hex(keyword)[i]
      /\ \A i \in 1 .. o : n[z + i] = options[i]
  BY <1>0 DEF Spread
<1>2. z = p + 3 + x + y /\ Len(n) = z + o
  BY <1>0 DEF Spread
<1>3. z >= p + 5 /\ z = (p + 4 + x) - 1 + y /\ Len(n) \in Nat
  BY <1>2
<1>a. Hex(level) \in Seq(Digits) /\ Hex(keyword) \in Seq(Digits)
      /\ x = Len(Hex(level)) /\ y = Len(Hex(keyword)) /\ o = Len(options)
  BY <1>0, HexSeq DEF Spread
<1>b. ASSUME NEW j \in p + 2 .. z PROVE n[j] \in Digits \cup {"L", "K"}
  <2>1. CASE j = p + 2 \/ j = p + 3 + x
    BY <2>1, <1>1
  <2>2. CASE j > p + 2 /\ j < p + 3 + x
    <3>1. PICK i \in 1 .. x : j = p + 2 + i
      <4>1. j - (p + 2) \in 1 .. x /\ j = p + 2 + (j - (p + 2))
        BY <2>2
      <4> QED BY <4>1
    <3>2. n[j] = Hex(level)[i] /\ Hex(level)[i] \in Digits
      BY <3>1, <1>1, <1>a, ElementOfSeq
    <3> QED BY <3>2
  <2>3. CASE j > p + 3 + x
    <3>1. PICK i \in 1 .. y : j = p + 3 + x + i
      <4>1. j - (p + 3 + x) \in 1 .. y /\ j = p + 3 + x + (j - (p + 3 + x))
        BY <2>3, <1>2
      <4> QED BY <4>1
    <3>2. n[j] = Hex(keyword)[i] /\ Hex(keyword)[i] \in Digits
      BY <3>1, <1>1, <1>a, ElementOfSeq
    <3> QED BY <3>2
  <2> QED
    BY <2>1, <2>2, <2>3
<1>4. \A j \in z + 1 .. Len(n) : n[j] \in UpperCase \cup LowerCase \cup Digits
  <2> SUFFICES ASSUME NEW j \in z + 1 .. Len(n)
               PROVE  n[j] \in UpperCase \cup LowerCase \cup Digits
    OBVIOUS
  <2>1. PICK i \in 1 .. o : j = z + i
    <3>1. j - z \in 1 .. o /\ j = z + (j - z)
      BY <1>2
    <3> QED BY <3>1
  <2>2. n[j] = options[i] /\ i \in 1 .. Len(options)
    BY <2>1, <1>1, <1>a
  <2> QED BY <2>2 DEF OptionsOK
<1>5. options # <<>> => n[z + 1] \in UpperCase \ {"L", "K"} /\ z + 1 <= Len(n)
  <2> SUFFICES ASSUME options # <<>>
               PROVE  n[z + 1] \in UpperCase \ {"L", "K"} /\ z + 1 <= Len(n)
    OBVIOUS
  <2>1. o >= 1
    <3>1. Len(options) \in Nat \ {0}
      BY EmptySeq DEF OptionsOK
    <3> QED BY <3>1, <1>a
  <2>2. 1 \in 1 .. o
    BY <2>1
  <2>3. n[z + 1] = options[1]
    BY <2>2, <1>1
  <2>4. z + 1 <= Len(n)
    BY <2>1, <1>2
  <2> QED BY <2>4, <2>3 DEF OptionsOK
<1>c. options = <<>> => Len(n) = z
  <2>1. Len(<<>>) = 0
    OBVIOUS
  <2> QED BY <2>1, <1>a, <1>2
<1>d. \A i \in 1 .. Len(n) : i \in Int /\ i <= Len(n)
  <2> DEFINE w == Len(n)
  <2>1. w \in Nat
    BY <1>3
  <2> HIDE DEF w
  <2>2. \A i \in 1 .. w : i \in Int /\ i <= w
    BY <2>1
  <2> QED BY <2>2 DEF w
<1>6. LastUnderscore(n) = p + 1
  <2> DEFINE I == {i \in 1 .. Len(n) : n[i] = "_"}
  <2>1. LastUnderscore(n) = IF I # {} THEN Max(I) ELSE 0
    BY DEF LastUnderscore, SelectLastInSeq
  <2>2. p + 1 \in I
    <3>1. p + 1 \in 1 .. Len(n)
      BY <1>2, <1>3
    <3> QED BY <3>1, <1>1
  <2>3. ASSUME NEW i \in I PROVE p + 1 >= i
    <3>0. i \in 1 .. Len(n) /\ n[i] = "_"
      OBVIOUS
    <3> HIDE DEF I
    <3>a. i \in Int /\ i <= Len(n)
      BY <3>0, <1>d
    <3> SUFFICES ASSUME i > p + 1 PROVE FALSE
      BY <3>a
    <3>1. i \in p + 2 .. z \/ i \in z + 1 .. Len(n)
      BY <1>3, <3>a
    <3>2. n[i] # "_"
      BY <3>1, <1>b, <1>4, Alphabet
    <3> QED BY <3>0, <3>2
  <2>4. I \subseteq Int
    BY <1>3, <1>d
  <2> HIDE DEF I
  <2>5. Max(I) = p + 1
    BY <2>2, <2>3, <2>4, MaxIs
  <2> QED BY <2>1, <2>2, <2>5
<1>7. HexToInt(n, p + 3).val = level /\ HexToInt(n, p + 3).end = p + 3 + x
  <2>1. Stands(level, n, p + 3, x)
    <3>1. p + 3 - 1 + x <= Len(n)
      BY <1>2
    <3>2. \A i \in 1 .. x : p + 3 - 1 + i = p + 2 + i
      OBVIOUS
    <3>3. \A i \in 1 .. x : n[p + 3 - 1 + i] = Hex(level)[i]
      BY <3>2, <1>1
    <3>4. n[p + 3 + x] \notin Digits
      BY <1>1, Alphabet
    <3> QED BY <3>1, <3>3, <3>4, <1>a DEF Stands
  <2>2. p + 3 \in Nat \ {0}
    OBVIOUS
  <2>3. n \in Seq(Chars)
    BY <1>1
  <2> QED BY <2>1, <2>2, <2>3, HexReadsBack
<1>8. HexToInt(n, p + 4 + x).val = keyword /\ HexToInt(n, p + 4 + x).end = z + 1
  <2> DEFINE q == p + 4 + x
  <2>0. q \in Nat \ {0} /\ q + y = z + 1 /\ q - 1 + y = z
    BY <1>2
  <2>1. Stands(keyword, n, q, y)
    <3>1. q - 1 + y <= Len(n)
      BY <1>2
    <3>2. \A i \in 1 .. y : q - 1 + i = p + 3 + x + i
      OBVIOUS
    <3>3. \A i \in 1 .. y : n[q - 1 + i] = Hex(keyword)[i]
      BY <3>2, <1>1
    <3>4. q + y = Len(n) + 1 \/ n[q + y] \notin Digits
      <4>1. CASE options = <<>>
        BY <4>1, <2>0, <1>c
      <4>2. CASE options # <<>>
        BY <4>2, <2>0, <1>5, Alphabet
      <4> QED BY <4>1, <4>2
    <3> QED BY <3>1, <3>3, <3>4, <1>a DEF Stands
  <2> HIDE DEF q
  <2>2. HexToInt(n, q).val = keyword /\ HexToInt(n, q).end = q + y
    <3>1. n \in Seq(Chars)
      BY <1>1
    <3> QED BY <2>0, <2>1, <3>1, HexReadsBack
  <2> QED BY <2>0, <2>2 DEF q
<1>9. ParseName(n, level) = keyword
  <2>1. IsChar(n, p + 2, "L") /\ IsChar(n, p + 3 + x, "K")
    <3>1. p + 2 <= Len(n) /\ p + 3 + x <= Len(n)
      BY <1>2
    <3> QED BY <3>1, <1>1 DEF IsChar
  <2>2. AttributesOK(n, z + 1)
    <3>1. z + 1 <= Len(n) => n[z + 1] \in UpperCase
      <4>1. z + 1 <= Len(n) => options # <<>>
        BY <1>c
      <4> QED BY <4>1, <1>5
    <3> QED BY <3>1, <1>4 DEF AttributesOK, Digits
  <2> DEFINE l == LastUnderscore(n) + 1
             lev == HexToInt(n, l + 1)
             key == HexToInt(n, lev.end + 1)
  <2>3. ParseName(n, level) =
            IF /\ l > 1 /\ IsChar(n, l, "L") /\ lev.val = level
               /\ IsChar(n, lev.end, "K") /\ AttributesOK(n, key.end)
            THEN key.val ELSE -1
    BY DEF ParseName
  <2>4. l = p + 2 /\ l > 1 /\ l + 1 = p + 3
    BY <1>6
  <2> HIDE DEF l
  <2>5. lev.val = level /\ lev.end = p + 3 + x
    BY <2>4, <1>7
  <2> HIDE DEF lev
  <2>6. lev.end + 1 = p + 4 + x
    BY <2>5
  <2>7. key.val = keyword /\ key.end = z + 1
    BY <2>6, <1>8
  <2> HIDE DEF key
  <2> QED BY <2>1, <2>2, <2>3, <2>4, <2>5, <2>7
<1>10. ProviderName(n) = provider
  <2>1. ProviderName(n) = SubSeq(n, 1, p)
    <3>1. p + 1 # 0 /\ p + 1 - 1 = p
      OBVIOUS
    <3> QED BY <3>1, <1>6 DEF ProviderName
  <2>2. \A i \in 1 .. p : n[i] \in Chars
    BY <1>1, ElementOfSeq
  <2>3. /\ SubSeq(n, 1, p) \in Seq(Chars) /\ Len(SubSeq(n, 1, p)) = p
        /\ \A i \in 1 .. p : SubSeq(n, 1, p)[i] = n[i]
    <3>1. 1 \in Int /\ p \in Int
      OBVIOUS
    <3>2. /\ SubSeq(n, 1, p) \in Seq(Chars)
          /\ Len(SubSeq(n, 1, p)) = IF 1 <= p THEN p - 1 + 1 ELSE 0
          /\ \A i \in 1 .. p - 1 + 1 : SubSeq(n, 1, p)[i] = n[1 + i - 1]
      BY <2>2, <3>1, SubSeqProperties
    <3>3. p - 1 + 1 = p /\ (p = 0 \/ 1 <= p) /\ \A i \in 1 .. p : 1 + i - 1 = i
      OBVIOUS
    <3> QED BY <3>2, <3>3
  <2> DEFINE t == SubSeq(n, 1, p)
  <2> HIDE DEF t
  <2>4. t \in Seq(Chars) /\ Len(t) = Len(provider) /\ \A i \in 1 .. Len(t) : t[i] = provider[i]
    <3>1. /\ t \in Seq(Chars) /\ Len(t) = p
          /\ \A i \in 1 .. p : t[i] = n[i]
      BY <2>3 DEF t
    <3>2. p = Len(provider) /\ \A i \in 1 .. p : n[i] = provider[i]
      BY <1>1
    <3> QED BY <3>1, <3>2
  <2>5. t = provider
    BY <2>4, SeqEqual
  <2> QED BY <2>1, <2>5 DEF t
<1>11. OptionsOf(n) = options
  <2> DEFINE starts == {i \in LastUnderscore(n) + 1 .. Len(n) : n[i] \in UpperCase \ {"L", "K"}}
  <2>1. OptionsOf(n) = IF LastUnderscore(n) = 0 \/ starts = {} THEN <<>>
                       ELSE SubSeq(n, Min(starts), Len(n))
    BY DEF OptionsOf
  <2>2. LastUnderscore(n) # 0 /\ LastUnderscore(n) + 1 = p + 2
    BY <1>6
  <2>3. \A i \in starts : i >= z + 1 /\ i \in Int /\ i <= Len(n)
    <3> SUFFICES ASSUME NEW i \in starts PROVE i >= z + 1 /\ i \in Int /\ i <= Len(n)
      OBVIOUS
    <3>1. i \in p + 2 .. Len(n) /\ n[i] \in UpperCase \ {"L", "K"}
      BY <2>2
    <3> HIDE DEF starts
    <3>2. i \notin p + 2 .. z
      BY <3>1, <1>b, Alphabet
    <3> QED BY <3>1, <3>2, <1>3
  <2>4. CASE options = <<>>
    <3>2. Len(n) = z
      BY <2>4, <1>c
    <3>3. starts = {}
      <4> SUFFICES ASSUME NEW i \in starts PROVE FALSE
        OBVIOUS
      <4>1. i >= z + 1 /\ i \in Int /\ i <= z
        BY <2>3, <3>2
      <4> QED BY <4>1
    <3> QED BY <2>1, <3>3, <2>4
  <2>5. CASE options # <<>>
    <3>1. z + 1 \in starts
      <4>1. z + 1 \in p + 2 .. Len(n)
        BY <2>5, <1>3, <1>5
      <4> QED BY <4>1, <2>2, <2>5, <1>5
    <3>2. Min(starts) = z + 1
      <4>1. starts \subseteq Int /\ \A i \in starts : z + 1 <= i
        BY <2>3, <1>3
      <4> HIDE DEF starts
      <4> QED BY <4>1, <3>1, MinIs
    <3>3. OptionsOf(n) = SubSeq(n, z + 1, Len(n))
      BY <2>1, <2>2, <3>1, <3>2
    <3> DEFINE t == SubSeq(n, z + 1, Len(n))
    <3>4. \A i \in z + 1 .. Len(n) : n[i] \in Chars
      <4>1. \A i \in z + 1 .. Len(n) : i \in 1 .. Len(n)
        BY <1>3
      <4> QED BY <4>1, <1>1, ElementOfSeq
    <3>5. /\ t \in Seq(Chars)
          /\ Len(t) = IF z + 1 <= Len(n) THEN Len(n) - (z + 1) + 1 ELSE 0
          /\ \A i \in 1 .. Len(n) - (z + 1) + 1 : t[i] = n[z + 1 + i - 1]
      <4>1. z + 1 \in Int /\ Len(n) \in Int
        BY <1>3
      <4> QED BY <3>4, <4>1, SubSeqProperties
    <3> HIDE DEF t
    <3>6. Len(n) - (z + 1) + 1 = o /\ z + 1 <= Len(n)
      BY <2>5, <1>2, <1>5
    <3>7. \A i \in 1 .. o : z + 1 + i - 1 = z + i
      OBVIOUS
    <3>8. Len(t) = o /\ \A i \in 1 .. o : t[i] = options[i]
      <4>1. Len(t) = o /\ \A i \in 1 .. o : t[i] = n[z + 1 + i - 1]
        BY <3>5, <3>6
      <4>2. \A i \in 1 .. o : n[z + i] = options[i]
        BY <1>1
      <4>3. \A i \in 1 .. o : n[z + 1 + i - 1] = n[z + i]
        BY <3>7
      <4> QED BY <4>1, <4>2, <4>3
    <3>9. t = options
      <4>1. options \in Seq(Chars)
        BY DEF OptionsOK
      <4> QED BY <4>1, <3>5, <3>8, <1>a, SeqEqual
    <3> QED BY <3>3, <3>9 DEF t
  <2> QED BY <2>4, <2>5
<1> QED
  BY <1>9, <1>10, <1>11

-----------------------------------------------------------------------------
(* The builder's buffers stay sequences of numbers.                        *)
LEMMA MinOfTwo ==
  ASSUME NEW a \in Nat, NEW b \in Nat
  PROVE  Min({a, b}) \in 0 .. a
<1>1. CASE a <= b
  <2>1. Min({a, b}) = a
    BY <1>1, MinIs
  <2> QED BY <2>1
<1>2. CASE b <= a
  <2>1. Min({a, b}) = b
    BY <1>2, MinIs
  <2> QED BY <2>1, <1>2
<1> QED
  BY <1>1, <1>2

LEMMA Beginning ==
  ASSUME NEW S, NEW s \in Seq(S), NEW n \in 0 .. Len(s)
  PROVE  SubSeq(s, 1, n) \in Seq(S) /\ Len(SubSeq(s, 1, n)) = n
         /\ \A i \in 1 .. n : SubSeq(s, 1, n)[i] = s[i]
  OBVIOUS

LEMMA CStrSeq ==
  ASSUME NEW value \in Seq(Nat)
  PROVE  CStrUnits(value) \in Seq(Nat)
<1> DEFINE I == {i \in 1 .. Len(value) : value[i] = 0}
<1>1. CASE 0 \in Range(value)
  <2>1. SelectInSeq(value, LAMBDA u : u = 0) = IF I # {} THEN Min(I) ELSE 0
    BY DEF SelectInSeq
  <2>2. SelectInSeq(value, LAMBDA u : u = 0) \in 0 .. Len(value)
    <3>1. CASE I = {}
      BY <3>1, <2>1
    <3>2. CASE I # {}
      <4>1. I \subseteq 1 .. Len(value) /\ I \subseteq Nat
        OBVIOUS
      <4> HIDE DEF I
      <4>2. Min(I) \in I
        BY <3>2, <4>1, MinMember
      <4> QED BY <2>1, <3>2, <4>1, <4>2
    <3> QED BY <3>1, <3>2
  <2> QED
    BY <1>1, <2>2, Beginning DEF CStrUnits
<1>2. CASE 0 \notin Range(value)
  BY <1>2, AppendProperties DEF CStrUnits
<1> QED
  BY <1>1, <1>2

LEMMA CountedSeq ==
  ASSUME NEW value \in Seq(Nat)
  PROVE  CountedUnits(value) \in Seq(Nat)
<1> DEFINE n == Min({Len(value), U16Max})
           kept == SubSeq(value, 1, n)
<1>1. n \in 0 .. Len(value)
  BY BuilderAssumption, LenProperties, MinOfTwo
<1>2. CountedUnits(value) = <<Len(kept)>> \o kept
  BY DEF CountedUnits
<1> HIDE DEF n
<1>3. kept \in Seq(Nat) /\ Len(kept) \in Nat
  BY <1>1, Beginning
<1> HIDE DEF kept
<1>4. <<Len(kept)>> \in Seq(Nat)
  BY <1>3, ShortSeqs
<1> QED
  BY <1>2, <1>3, <1>4, Joining

LEMMA ValueSeq ==
  ASSUME NEW value \in Seq(Nat), NEW encoding
  PROVE  ValueUnits(encoding, value) \in Seq(Nat)
  BY CStrSeq, CountedSeq DEF ValueUnits, ZStringChar8Code, StringLength16Char8Code,
                            BinaryLength16Char8Code

FlattenRound(f, seqs, i) == IF i = 1 THEN seqs[i] ELSE f[i - 1] \o seqs[i]
FlattenTable(f, seqs) == f = [i \in 1 .. Len(seqs) |-> FlattenRound(f, seqs, i)]

LEMMA FlattenTableExists ==
  ASSUME NEW seqs \in Seq(Seq(Nat)), Len(seqs) # 0
  PROVE  \E g : FlattenTable(g, seqs)
<1> DEFINE Rows(g, k) == \A i \in 1 .. k + 1 : g[i] = FlattenRound(g, seqs, i)
<1> DEFINE T == {k \in Nat : \E g : Rows(g, k)}
<1>1. 0 \in T
  <2> DEFINE g == [i \in 1 .. 1 |-> seqs[i]]
  <2>1. Rows(g, 0)
    BY DEF FlattenRound
  <2> QED
    BY <2>1
<1>2. ASSUME NEW k \in Nat, k \in T
      PROVE  k + 1 \in T
  <2>1. PICK g : Rows(g, k)
    BY <1>2
  <2> DEFINE h == [i \in 1 .. k + 2 |-> IF i <= k + 1 THEN g[i] ELSE FlattenRound(g, seqs, i)]
  <2>2. \A i \in 1 .. k + 1 : h[i] = g[i]
    OBVIOUS
  <2>3. h[k + 2] = FlattenRound(g, seqs, k + 2)
    OBVIOUS
  <2> HIDE DEF h
  <2>4. ASSUME NEW i \in 1 .. (k + 1) + 1
        PROVE  h[i] = FlattenRound(h, seqs, i)
    <3>1. FlattenRound(h, seqs, i) = FlattenRound(g, seqs, i)
      <4>1. i = 1 \/ i - 1 \in 1 .. k + 1
        OBVIOUS
      <4> QED BY <4>1, <2>2 DEF FlattenRound
    <3>2. CASE i = k + 2
      BY <3>1, <3>2, <2>3
    <3>3. CASE i # k + 2
      <4>1. i \in 1 .. k + 1
        BY <3>3
      <4> QED
        BY <4>1, <3>1, <2>2, <2>1
    <3> QED
      BY <3>2, <3>3
  <2> QED
    BY <2>4
<1> HIDE DEF T
<1>3. Len(seqs) - 1 \in T
  <2>1. Len(seqs) - 1 \in Nat
    OBVIOUS
  <2>2. Nat \subseteq T
    BY <1>1, <1>2, NatSet
  <2> QED BY <2>1, <2>2
<1>4. PICK g : Rows(g, Len(seqs) - 1)
  BY <1>3 DEF T
<1>5. \A i \in 1 .. Len(seqs) : g[i] = FlattenRound(g, seqs, i)
  <2>1. Len(seqs) - 1 + 1 = Len(seqs)
    OBVIOUS
  <2> QED BY <1>4, <2>1
<1> DEFINE h == [i \in 1 .. Len(seqs) |-> g[i]]
<1>6. \A i \in 1 .. Len(seqs) : h[i] = g[i]
  OBVIOUS
<1>7. ASSUME NEW i \in 1 .. Len(seqs)
      PROVE  g[i] = FlattenRound(h, seqs, i)
  <2>1. i = 1 \/ i - 1 \in 1 .. Len(seqs)
    OBVIOUS
  <2>2. FlattenRound(h, seqs, i) = FlattenRound(g, seqs, i)
    BY <2>1, <1>6 DEF FlattenRound
  <2> QED
    BY <2>2, <1>5
<1>8. FlattenTable(h, seqs)
  BY <1>7 DEF FlattenTable
<1> QED
  BY <1>8

LEMMA FlattenSeqType ==
  ASSUME NEW seqs \in Seq(Seq(Nat))
  PROVE  FlattenSeq(seqs) \in Seq(Nat)
<1>0. CASE Len(seqs) = 0
  <2>1. seqs = <<>>
    BY <1>0
  <2> QED BY <1>0, <2>1 DEF FlattenSeq
<1>1. CASE Len(seqs) # 0
  <2> DEFINE n == Len(seqs)
             flat == CHOOSE g : FlattenTable(g, seqs)
  <2>1. FlattenSeq(seqs) = flat[n]
    BY <1>1 DEF FlattenSeq, FlattenTable, FlattenRound
  <2>2. FlattenTable(flat, seqs)
    BY <1>1, FlattenTableExists, Zenon
  <2>3. \A i \in 1 .. n : flat[i] = FlattenRound(flat, seqs, i)
    <3> HIDE DEF flat
    <3>1. flat = [i \in 1 .. n |-> FlattenRound(flat, seqs, i)]
      BY <2>2 DEF FlattenTable
    <3> QED BY <3>1
  <2> HIDE DEF flat
  <2>4. n \in Nat /\ n # 0 /\ \A i \in 1 .. n : seqs[i] \in Seq(Nat)
    BY <1>1
  <2> HIDE DEF n
  <2> DEFINE T == {k \in Nat : k + 1 <= n => flat[k + 1] \in Seq(Nat)}
  <2>5. 0 \in T
    <3>1. 1 \in 1 .. n
      BY <2>4
    <3> QED BY <3>1, <2>3, <2>4 DEF FlattenRound
  <2>6. ASSUME NEW k \in Nat, k \in T PROVE k + 1 \in T
    <3> SUFFICES ASSUME k + 2 <= n PROVE flat[k + 2] \in Seq(Nat)
      OBVIOUS
    <3>1. k + 2 \in 1 .. n /\ k + 2 # 1 /\ (k + 2) - 1 = k + 1 /\ k + 1 <= n
      BY <2>4
    <3>2. flat[k + 2] = flat[k + 1] \o seqs[k + 2]
      BY <3>1, <2>3 DEF FlattenRound
    <3>3. flat[k + 1] \in Seq(Nat)
      BY <3>1, <2>6
    <3> QED BY <3>1, <3>2, <3>3, <2>4, Joining
  <2> HIDE DEF T
  <2>7. n - 1 \in T
    <3>1. n - 1 \in Nat
      BY <2>4
    <3>2. Nat \subseteq T
      BY <2>5, <2>6, NatSet
    <3> QED BY <3>1, <3>2
  <2>8. (n - 1) + 1 = n
    BY <2>4
  <2> QED BY <2>1, <2>4, <2>7, <2>8 DEF T
<1> QED
  BY <1>0, <1>1

LEMMA RangeSeq ==
  ASSUME NEW values \in Seq(Seq(Nat)), NEW encoding
  PROVE  RangeUnits(encoding, values) \in Seq(Nat)
<1> DEFINE n == Min({Len(values), U16Max})
           kept == SubSeq(values, 1, n)
           parts == [i \in DOMAIN kept |-> ValueUnits(encoding, kept[i])]
<1>1. n \in 0 .. Len(values)
  BY BuilderAssumption, LenProperties, MinOfTwo
<1>2. RangeUnits(encoding, values) = <<Len(kept)>> \o FlattenSeq(parts)
  BY DEF RangeUnits
<1> HIDE DEF n
<1>3. kept \in Seq(Seq(Nat)) /\ Len(kept) \in Nat /\ DOMAIN kept = 1 .. Len(kept)
  BY <1>1, Beginning
<1>4. <<Len(kept)>> \in Seq(Nat)
  BY <1>3, ShortSeqs
<1>5. parts \in Seq(Seq(Nat))
  <2> HIDE DEF kept
  <2>1. \A i \in 1 .. Len(kept) : ValueUnits(encoding, kept[i]) \in Seq(Nat)
    BY <1>3, ElementOfSeq, ValueSeq
  <2>2. parts = [i \in 1 .. Len(kept) |-> ValueUnits(encoding, kept[i])]
    BY <1>3
  <2> QED BY <1>3, <2>1, <2>2
<1>6. FlattenSeq(parts) \in Seq(Nat)
  <2> HIDE DEF parts
  <2> QED BY <1>5, FlattenSeqType
<1> HIDE DEF kept, parts
<1> QED
  BY <1>2, <1>4, <1>6, Joining

-----------------------------------------------------------------------------
(* The inductive invariant.  The metadata begins with the event's name and *)
(* its NUL, which no later call touches: a bookmark lies behind them.      *)
HeaderOf(b, level) ==
    [id |-> b.id, version |-> b.version, tag |-> b.tag, opcode |-> b.opcode, level |-> level]

Message(b, send) ==
    [name |-> FormatName(send.provider, send.options, send.level, send.keyword),
     units |-> WriteEventheader(HeaderOf(b, send.level), send.activity, send.related,
                                b.meta, b.data)]

NameOK(name) == name \in Seq(Nat) /\ \A i \in 1 .. Len(name) : name[i] # 0

MetaOK(meta, name) ==
    /\ meta \in Seq(Nat) /\ Len(name) + 1 <= Len(meta)
    /\ \A i \in 1 .. Len(name) : meta[i] = name[i]
    /\ meta[Len(name) + 1] = 0

BuilderOK(b, name) ==
    /\ b = [meta |-> b.meta, data |-> b.data, id |-> b.id, version |-> b.version,
            tag |-> b.tag, opcode |-> b.opcode]
    /\ b.data \in Seq(Nat)
    /\ MetaOK(b.meta, name)

AskedOK ==
    /\ asked = [name |-> asked.name, tag |-> asked.tag, id |-> asked.id,
                version |-> asked.version, opcode |-> asked.opcode, fields |-> asked.fields,
                sent |-> asked.sent]
    /\ NameOK(asked.name)
    /\ asked.id = builder.id /\ asked.version = builder.version
    /\ asked.tag = builder.tag /\ asked.opcode = builder.opcode

BookmarkOK ==
    bookmark # NoBookmark => bookmark.index \in Len(asked.name) + 2 .. Len(builder.meta)

SentOK ==
    /\ Building => wire = NoWire /\ info = NoInfo
    /\ ~Building => /\ ~TooLarge(builder) /\ asked.sent \in Sends
                    /\ wire = Message(builder, asked.sent)
    /\ info # NoInfo => info = EventInfo(wire.name, wire.units)

RTInv ==
    /\ BuilderOK(builder, asked.name)
    /\ AskedOK
    /\ BookmarkOK
    /\ SentOK

(* What is added at the end leaves the beginning alone.                    *)
LEMMA MetaGrows ==
  ASSUME NEW name, NameOK(name), NEW meta, MetaOK(meta, name), NEW more \in Seq(Nat)
  PROVE  MetaOK(meta \o more, name) /\ Len(meta \o more) = Len(meta) + Len(more)
         /\ Len(meta) \in Nat /\ Len(more) \in Nat /\ Len(name) \in Nat
<1> DEFINE u == meta \o more
<1>1. u \in Seq(Nat) /\ Joined2(u, meta, more) /\ Len(name) \in Nat
  BY Joining, LenProperties DEF MetaOK, NameOK
<1> HIDE DEF u
<1>2. Len(u) = Len(meta) + Len(more) /\ Len(meta) \in Nat /\ Len(more) \in Nat
  BY <1>1 DEF Joined2
<1>3. \A i \in 1 .. Len(name) + 1 : u[i] = meta[i]
  <2>1. \A i \in 1 .. Len(name) + 1 : i \in 1 .. Len(meta)
    BY <1>1, <1>2 DEF MetaOK
  <2> QED BY <2>1, <1>1 DEF Joined2
<1>4. MetaOK(u, name)
  <2>1. \A i \in 1 .. Len(name) : i \in 1 .. Len(name) + 1
    BY <1>1
  <2>2. Len(name) + 1 \in 1 .. Len(name) + 1
    BY <1>1
  <2>3. Len(name) + 1 <= Len(u)
    BY <1>1, <1>2 DEF MetaOK
  <2>4. \A i \in 1 .. Len(name) : u[i] = name[i]
    BY <2>1, <1>3 DEF MetaOK
  <2>5. u[Len(name) + 1] = 0
    BY <2>2, <1>3 DEF MetaOK
  <2> QED BY <1>1, <2>3, <2>4, <2>5 DEF MetaOK
<1> QED
  BY <1>1, <1>2, <1>4 DEF u

LEMMA FreshMeta ==
  ASSUME NEW name, NameOK(name)
  PROVE  MetaOK(Append(name, 0), name)
  BY AppendProperties DEF NameOK, MetaOK

LEMMA TypeSeq ==
  ASSUME NEW encoding \in Nat, NEW format \in Nat, NEW tag \in Nat
  PROVE  /\ TypeBytes(encoding, format, tag) \in Seq(Nat)
         /\ Len(TypeBytes(encoding, format, tag)) >= 1
         /\ tag # 0 => Len(TypeBytes(encoding, format, tag)) = 4
<1> USE DEF ChainFlag
<1>1. CASE tag # 0
  <2>1. tag % 256 \in Nat /\ tag \div 256 \in Nat
    OBVIOUS
  <2> DEFINE a == ChainFlag + encoding
             b == ChainFlag + format
             c == tag % 256
             d == tag \div 256
  <2>2. a \in Nat /\ b \in Nat /\ c \in Nat /\ d \in Nat
    BY <2>1
  <2>3. TypeBytes(encoding, format, tag) = <<a, b>> \o <<c, d>>
    BY <1>1 DEF TypeBytes, U16Bytes
  <2> HIDE DEF a, b, c, d
  <2>4. <<a, b>> \in Seq(Nat) /\ <<c, d>> \in Seq(Nat) /\ Len(<<a, b>>) = 2 /\ Len(<<c, d>>) = 2
    BY <2>2
  <2>5. <<a, b>> \o <<c, d>> \in Seq(Nat) /\ Len(<<a, b>> \o <<c, d>>) = 4
    BY <2>4, Joining DEF Joined2
  <2> QED
    BY <2>3, <2>5
<1>2. CASE tag = 0 /\ format # 0
  <2> DEFINE a == ChainFlag + encoding
             t == <<a, format>>
  <2>1. a \in Nat
    OBVIOUS
  <2>2. TypeBytes(encoding, format, tag) = t
    BY <1>2 DEF TypeBytes
  <2> HIDE DEF a
  <2>3. t \in Seq(Nat) /\ Len(t) = 2
    BY <2>1, ShortSeqs
  <2> HIDE DEF t
  <2>4. Len(t) >= 1
    BY <2>3
  <2> QED BY <1>2, <2>2, <2>3, <2>4
<1>3. CASE tag = 0 /\ format = 0
  <2> DEFINE t == <<encoding>>
  <2>1. TypeBytes(encoding, format, tag) = t
    BY <1>3 DEF TypeBytes
  <2>2. t \in Seq(Nat) /\ Len(t) = 1
    BY ShortSeqs
  <2> HIDE DEF t
  <2>3. Len(t) >= 1
    BY <2>2
  <2> QED BY <1>3, <2>1, <2>2, <2>3
<1> QED
  BY <1>1, <1>2, <1>3

(* raw_add_meta.                                                           *)
LEMMA RawAddMetaOK ==
  ASSUME NEW b, NEW name, NameOK(name), BuilderOK(b, name), NEW field \in Seq(Nat),
         NEW encoding \in Nat, NEW format \in Nat, NEW tag \in Nat
  PROVE  LET b2 == RawAddMeta(b, field, encoding, format, tag)
         IN /\ BuilderOK(b2, name)
            /\ b2.id = b.id /\ b2.version = b.version /\ b2.tag = b.tag /\ b2.opcode = b.opcode
            /\ Len(b.meta) \in Nat /\ Len(name) \in Nat /\ Len(b2.meta) \in Nat
            /\ Len(b2.meta) >= Len(b.meta) + 2
            /\ tag # 0 => Len(b2.meta) >= Len(b.meta) + 5
<1> DEFINE t == TypeBytes(encoding, format, tag)
           f == Append(field, 0)
           m1 == b.meta \o f
           m2 == m1 \o t
           b2 == RawAddMeta(b, field, encoding, format, tag)
<1>1. b2 = [b EXCEPT !.meta = m2]
  BY DEF RawAddMeta
<1>2. t \in Seq(Nat) /\ Len(t) >= 1 /\ Len(t) \in Nat /\ (tag # 0 => Len(t) = 4)
  <2>1. t \in Seq(Nat) /\ Len(t) >= 1 /\ (tag # 0 => Len(t) = 4)
    BY TypeSeq
  <2> HIDE DEF t
  <2> QED BY <2>1
<1>3. f \in Seq(Nat) /\ Len(f) = Len(field) + 1 /\ Len(field) \in Nat
  BY AppendProperties, LenProperties
<1> HIDE DEF f, t
<1>4. MetaOK(m1, name) /\ Len(m1) = Len(b.meta) + Len(f) /\ Len(b.meta) \in Nat /\ Len(name) \in Nat
  BY <1>3, MetaGrows DEF BuilderOK
<1> HIDE DEF m1
<1>5. MetaOK(m2, name) /\ Len(m2) = Len(m1) + Len(t)
  BY <1>2, <1>4, MetaGrows
<1> HIDE DEF m2, b2
<1>6. /\ b2.meta = m2 /\ b2.data = b.data /\ b2.id = b.id /\ b2.version = b.version
      /\ b2.tag = b.tag /\ b2.opcode = b.opcode
      /\ b2 = [meta |-> b2.meta, data |-> b2.data, id |-> b2.id, version |-> b2.version,
               tag |-> b2.tag, opcode |-> b2.opcode]
  BY <1>1 DEF BuilderOK
<1>7. BuilderOK(b2, name)
  BY <1>5, <1>6 DEF BuilderOK
<1>8. /\ Len(m2) \in Nat /\ Len(m2) >= Len(b.meta) + 2
      /\ tag # 0 => Len(m2) >= Len(b.meta) + 5
  <2> DEFINE l0 == Len(b.meta)
             lf == Len(f)
             lt == Len(t)
             l2 == Len(m2)
             lg == Len(field)
  <2>1. /\ l0 \in Nat /\ lg \in Nat /\ lf = lg + 1 /\ lt \in Nat /\ lt >= 1
        /\ tag # 0 => lt = 4
        /\ l2 = (l0 + lf) + lt
    BY <1>2, <1>3, <1>4, <1>5
  <2> HIDE DEF l0, lf, lt, l2, lg
  <2>2. l2 \in Nat /\ l2 >= l0 + 2 /\ (tag # 0 => l2 >= l0 + 5)
    BY <2>1
  <2> QED BY <2>2 DEF l0, l2
<1> QED
  BY <1>4, <1>6, <1>7, <1>8 DEF b2

LEMMA RawAddDataOK ==
  ASSUME NEW b, NEW name, BuilderOK(b, name), NEW units \in Seq(Nat)
  PROVE  LET b2 == RawAddData(b, units)
         IN /\ BuilderOK(b2, name) /\ b2.meta = b.meta
            /\ b2.id = b.id /\ b2.version = b.version /\ b2.tag = b.tag /\ b2.opcode = b.opcode
<1> DEFINE d == b.data \o units
           b2 == RawAddData(b, units)
<1>1. b2 = [b EXCEPT !.data = d]
  BY DEF RawAddData
<1>2. d \in Seq(Nat)
  BY Joining DEF BuilderOK
<1> HIDE DEF d, b2
<1>3. /\ b2.meta = b.meta /\ b2.data = d /\ b2.id = b.id /\ b2.version = b.version
      /\ b2.tag = b.tag /\ b2.opcode = b.opcode
      /\ b2 = [meta |-> b2.meta, data |-> b2.data, id |-> b2.id, version |-> b2.version,
               tag |-> b2.tag, opcode |-> b2.opcode]
  BY <1>1 DEF BuilderOK
<1>4. BuilderOK(b2, name)
  BY <1>2, <1>3 DEF BuilderOK
<1> QED
  BY <1>3, <1>4 DEF b2

(* A builder with something added: its header fields are as they were.     *)
Extended(b2, b, name, tag) ==
    /\ BuilderOK(b2, name)
    /\ b2.id = b.id /\ b2.version = b.version /\ b2.tag = b.tag /\ b2.opcode = b.opcode
    /\ Len(b.meta) \in Nat /\ Len(name) \in Nat /\ Len(b2.meta) \in Nat
    /\ Len(b2.meta) >= Len(b.meta) + 2
    /\ tag # 0 => Len(b2.meta) >= Len(b.meta) + 5

LEMMA AddedOK ==
  ASSUME NEW b, NEW name, NameOK(name), BuilderOK(b, name), NEW c \in Calls
  PROVE  Extended(AddedBy(b, c), b, name, c.tag)
<1>0. /\ c.name \in Seq(Nat) /\ c.encoding \in Nat /\ c.format \in Nat /\ c.tag \in Nat
      /\ c.op = "field" => c.value \in Seq(Nat)
      /\ c.op = "sequence" => c.value \in Seq(Seq(Nat))
  BY CallsAssumption
<1>m. ASSUME NEW e \in Nat
      PROVE  Extended(RawAddMeta(b, c.name, e, c.format, c.tag), b, name, c.tag)
  BY <1>0, RawAddMetaOK DEF Extended
<1>d. ASSUME NEW b1, Extended(b1, b, name, c.tag), NEW units \in Seq(Nat)
      PROVE  Extended(RawAddData(b1, units), b, name, c.tag)
  <2> DEFINE b2 == RawAddData(b1, units)
  <2>1. /\ BuilderOK(b2, name) /\ b2.meta = b1.meta
        /\ b2.id = b1.id /\ b2.version = b1.version /\ b2.tag = b1.tag /\ b2.opcode = b1.opcode
    BY <1>d, RawAddDataOK DEF Extended
  <2> HIDE DEF b2
  <2>2. Extended(b2, b, name, c.tag)
    BY <2>1, <1>d DEF Extended
  <2> QED BY <2>2 DEF b2
<1>1. CASE c.op = "field"
  <2> DEFINE b1 == RawAddMeta(b, c.name, c.encoding, c.format, c.tag)
             units == ValueUnits(c.encoding, c.value)
  <2>1. AddedBy(b, c) = RawAddData(b1, units)
    BY <1>1 DEF AddedBy, AddField
  <2>2. Extended(b1, b, name, c.tag) /\ units \in Seq(Nat)
    BY <1>0, <1>1, <1>m, ValueSeq
  <2> HIDE DEF b1, units
  <2> QED BY <2>1, <2>2, <1>d
<1>2. CASE c.op = "sequence"
  <2> DEFINE e == c.encoding + VArrayFlag
             b1 == RawAddMeta(b, c.name, e, c.format, c.tag)
             units == RangeUnits(c.encoding, c.value)
  <2>1. AddedBy(b, c) = RawAddData(b1, units)
    BY <1>2 DEF AddedBy, AddSequence, RawAddMetaVcount
  <2>2. e \in Nat
    BY <1>0 DEF VArrayFlag
  <2> HIDE DEF e
  <2>3. Extended(b1, b, name, c.tag) /\ units \in Seq(Nat)
    BY <2>2, <1>0, <1>2, <1>m, RangeSeq
  <2> HIDE DEF b1, units
  <2> QED BY <2>1, <2>3, <1>d
<1>3. CASE c.op # "field" /\ c.op # "sequence"
  <2>1. AddedBy(b, c) = RawAddMeta(b, c.name, StructCode, c.format, c.tag)
    BY <1>3 DEF AddedBy, AddStruct
  <2>2. StructCode \in Nat
    BY DEF StructCode
  <2> QED BY <2>1, <2>2, <1>m
<1> QED
  BY <1>1, <1>2, <1>3

LEMMA FieldCountOK ==
  ASSUME NEW b, NEW name, NameOK(name), BuilderOK(b, name), NEW count \in Nat,
         NEW index \in Len(name) + 2 .. Len(b.meta)
  PROVE  LET b2 == SetStructFieldCount(b, index, count)
         IN /\ BuilderOK(b2, name) /\ Len(b2.meta) = Len(b.meta)
            /\ b2.id = b.id /\ b2.version = b.version /\ b2.tag = b.tag /\ b2.opcode = b.opcode
<1> DEFINE v == IF b.meta[index] >= ChainFlag THEN ChainFlag + count ELSE count
           m2 == [b.meta EXCEPT ![index] = v]
           b2 == SetStructFieldCount(b, index, count)
<1>1. b2 = [b EXCEPT !.meta = m2]
  BY DEF SetStructFieldCount
<1>2. v \in Nat
  BY DEF ChainFlag
<1>3. Len(name) \in Nat /\ Len(b.meta) \in Nat /\ b.meta \in Seq(Nat)
  BY LenProperties DEF NameOK, BuilderOK, MetaOK
<1> HIDE DEF v
<1>4. index \in 1 .. Len(b.meta)
  BY <1>3
<1>5. /\ m2 \in Seq(Nat) /\ Len(m2) = Len(b.meta)
      /\ \A j \in 1 .. Len(b.meta) : m2[j] = IF j = index THEN v ELSE b.meta[j]
  BY <1>2, <1>3, <1>4, ExceptSeq
<1> HIDE DEF m2, b2
<1>6. MetaOK(m2, name)
  <2> DEFINE k == Len(name)
             w == Len(b.meta)
  <2>1. k \in Nat /\ w \in Nat /\ index \in k + 2 .. w
    BY <1>3
  <2> HIDE DEF k, w
  <2>2. \A j \in 1 .. k + 1 : j \in 1 .. w /\ j # index
    BY <2>1
  <2>3. \A j \in 1 .. k + 1 : m2[j] = b.meta[j]
    BY <2>2, <1>5 DEF w
  <2>4. k + 1 \in 1 .. k + 1 /\ \A j \in 1 .. k : j \in 1 .. k + 1
    BY <2>1
  <2>5. m2[k + 1] = b.meta[k + 1] /\ \A j \in 1 .. k : m2[j] = b.meta[j]
    BY <2>3, <2>4
  <2> QED BY <2>5, <1>5 DEF MetaOK, BuilderOK, k
<1>7. /\ b2.meta = m2 /\ b2.data = b.data /\ b2.id = b.id /\ b2.version = b.version
      /\ b2.tag = b.tag /\ b2.opcode = b.opcode
      /\ b2 = [meta |-> b2.meta, data |-> b2.data, id |-> b2.id, version |-> b2.version,
               tag |-> b2.tag, opcode |-> b2.opcode]
  BY <1>1 DEF BuilderOK
<1>8. BuilderOK(b2, name)
  BY <1>6, <1>7 DEF BuilderOK
<1> QED
  BY <1>5, <1>7, <1>8 DEF b2

LEMMA EmptyName == NameOK(<<>>)
  BY DEF NameOK

LEMMA RTInitInv == RTInit => RTInv
<1> SUFFICES ASSUME RTInit PROVE RTInv
  OBVIOUS
<1>1. builder = NewBuilder /\ asked = Asked(<<>>, 0) /\ bookmark = NoBookmark
      /\ wire = NoWire /\ info = NoInfo /\ phase = "building"
  BY DEF RTInit
<1>2. asked.name = <<>>
  BY <1>1 DEF Asked
<1>3. MetaOK(<<0>>, <<>>)
  BY DEF MetaOK
<1>4. BuilderOK(builder, <<>>)
  <2>1. builder.meta = <<0>> /\ builder.data = <<>>
    BY <1>1 DEF NewBuilder
  <2>2. builder = [meta |-> builder.meta, data |-> builder.data, id |-> builder.id,
                   version |-> builder.version, tag |-> builder.tag, opcode |-> builder.opcode]
    BY <1>1 DEF NewBuilder
  <2>3. builder.data \in Seq(Nat)
    BY <2>1
  <2> QED BY <2>1, <2>2, <2>3, <1>3 DEF BuilderOK
<1>5. AskedOK
  BY <1>1, EmptyName DEF Asked, AskedOK, NewBuilder
<1>6. BookmarkOK /\ SentOK
  BY <1>1 DEF BookmarkOK, SentOK, Building
<1> QED
  BY <1>2, <1>4, <1>5, <1>6 DEF RTInv

LEMMA RTNextInv == RTInv /\ [RTNext]_rtvars => RTInv'
<1> SUFFICES ASSUME RTInv, [RTNext]_rtvars PROVE RTInv'
  OBVIOUS
<1>0. BuilderOK(builder, asked.name) /\ AskedOK /\ BookmarkOK /\ SentOK
  BY DEF RTInv
<1>1. ASSUME NEW name \in Names, NEW tag \in Tags, BeginEvent(name, tag)
      PROVE  RTInv'
  <2>1. /\ builder' = ResetBuilder(builder, name, tag) /\ asked' = Asked(name, tag)
        /\ bookmark' = NoBookmark /\ wire' = NoWire /\ info' = NoInfo /\ phase' = "building"
    BY <1>1 DEF BeginEvent
  <2>2. asked'.name = name /\ NameOK(name)
    BY <2>1, NamesAssumption DEF Asked, NameOK
  <2>3. BuilderOK(builder', name)
    <3>1. builder'.meta = Append(name, 0) /\ builder'.data = <<>>
      BY <2>1 DEF ResetBuilder
    <3>2. builder' = [meta |-> builder'.meta, data |-> builder'.data, id |-> builder'.id,
                      version |-> builder'.version, tag |-> builder'.tag,
                      opcode |-> builder'.opcode]
      BY <2>1 DEF ResetBuilder
    <3>3. builder'.data \in Seq(Nat) /\ MetaOK(Append(name, 0), name)
      BY <3>1, <2>2, FreshMeta
    <3> QED BY <3>1, <3>2, <3>3 DEF BuilderOK
  <2>4. AskedOK'
    BY <2>1, <2>2 DEF AskedOK, Asked, ResetBuilder
  <2>5. BookmarkOK' /\ SentOK'
    BY <2>1 DEF BookmarkOK, SentOK, Building
  <2> QED BY <2>2, <2>3, <2>4, <2>5 DEF RTInv
<1>2. ASSUME NEW iv \in IdVersions, SetIdVersion(iv[1], iv[2])
      PROVE  RTInv'
  <2> DEFINE id == iv[1]
             version == iv[2]
  <2>1. /\ Building /\ builder' = IdVersion(builder, id, version)
        /\ asked' = [asked EXCEPT !.id = id, !.version = version]
        /\ UNCHANGED <<bookmark, wire, info, phase>>
    BY <1>2 DEF SetIdVersion
  <2> HIDE DEF id, version
  <2>2. /\ builder'.meta = builder.meta /\ builder'.data = builder.data
        /\ builder'.id = id /\ builder'.version = version
        /\ builder'.tag = builder.tag /\ builder'.opcode = builder.opcode
        /\ builder' = [meta |-> builder'.meta, data |-> builder'.data, id |-> builder'.id,
                       version |-> builder'.version, tag |-> builder'.tag,
                       opcode |-> builder'.opcode]
    BY <2>1, <1>0 DEF IdVersion, BuilderOK
  <2>3. asked'.name = asked.name /\ BuilderOK(builder', asked.name)
    BY <2>1, <2>2, <1>0 DEF BuilderOK
  <2>4. AskedOK'
    BY <2>1, <2>2, <1>0 DEF AskedOK
  <2>5. BookmarkOK' /\ SentOK'
    BY <2>1, <2>2, <2>3, <1>0 DEF BookmarkOK, SentOK, Building
  <2> QED BY <2>3, <2>4, <2>5 DEF RTInv
<1>3. ASSUME NEW opcode \in Opcodes, ChooseOpcode(opcode)
      PROVE  RTInv'
  <2>1. /\ Building /\ builder' = SetOpcode(builder, opcode)
        /\ asked' = [asked EXCEPT !.opcode = opcode]
        /\ UNCHANGED <<bookmark, wire, info, phase>>
    BY <1>3 DEF ChooseOpcode
  <2>2. /\ builder'.meta = builder.meta /\ builder'.data = builder.data
        /\ builder'.id = builder.id /\ builder'.version = builder.version
        /\ builder'.tag = builder.tag /\ builder'.opcode = opcode
        /\ builder' = [meta |-> builder'.meta, data |-> builder'.data, id |-> builder'.id,
                       version |-> builder'.version, tag |-> builder'.tag,
                       opcode |-> builder'.opcode]
    BY <2>1, <1>0 DEF SetOpcode, BuilderOK
  <2>3. asked'.name = asked.name /\ BuilderOK(builder', asked.name)
    BY <2>1, <2>2, <1>0 DEF BuilderOK
  <2>4. AskedOK'
    BY <2>1, <2>2, <1>0 DEF AskedOK
  <2>5. BookmarkOK' /\ SentOK'
    BY <2>1, <2>2, <2>3, <1>0 DEF BookmarkOK, SentOK, Building
  <2> QED BY <2>3, <2>4, <2>5 DEF RTInv
<1>4. ASSUME NEW c \in Calls, Add(c)
      PROVE  RTInv'
  <2>1. /\ Building /\ builder' = AddedBy(builder, c)
        /\ asked' = [asked EXCEPT !.fields = Append(@, c)]
        /\ bookmark' = IF c.op # "bookmarked" THEN bookmark
                       ELSE [index |-> Bookmark(builder', c.tag), field |-> Len(asked'.fields)]
        /\ UNCHANGED <<wire, info, phase>>
    BY <1>4 DEF Add
  <2>2. Extended(builder', builder, asked.name, c.tag)
    BY <2>1, <1>0, AddedOK DEF AskedOK
  <2>3. asked'.name = asked.name /\ BuilderOK(builder', asked.name)
    BY <2>1, <2>2 DEF Extended
  <2>4. AskedOK'
    BY <2>1, <2>2, <1>0 DEF AskedOK, Extended
  <2>5. BookmarkOK'
    <3> DEFINE k == Len(asked.name)
               w == Len(builder.meta)
               w2 == Len(builder'.meta)
    <3>1. /\ k \in Nat /\ w \in Nat /\ w2 \in Nat /\ w2 >= w + 2
          /\ c.tag # 0 => w2 >= w + 5
      BY <2>2 DEF Extended
    <3>2. k + 1 <= w
      BY <1>0 DEF BuilderOK, MetaOK
    <3>3. bookmark # NoBookmark => bookmark.index \in k + 2 .. w
      BY <1>0 DEF BookmarkOK
    <3>4. Bookmark(builder', c.tag) = IF c.tag = 0 THEN w2 ELSE w2 - 2
      BY DEF Bookmark
    <3> HIDE DEF k, w, w2
    <3>5. CASE c.op # "bookmarked"
      <4>1. bookmark' = bookmark
        BY <2>1, <3>5
      <4>2. \A i \in k + 2 .. w : i \in k + 2 .. w2
        BY <3>1
      <4> QED BY <4>1, <4>2, <3>3, <2>3 DEF BookmarkOK, k, w2
    <3>6. CASE c.op = "bookmarked"
      <4>1. bookmark'.index = Bookmark(builder', c.tag)
        BY <2>1, <3>6
      <4>2. (IF c.tag = 0 THEN w2 ELSE w2 - 2) \in k + 2 .. w2
        BY <3>1, <3>2
      <4> QED BY <4>1, <4>2, <3>4, <2>3 DEF BookmarkOK, k, w2
    <3> QED BY <3>5, <3>6
  <2>6. SentOK'
    BY <2>1, <1>0 DEF SentOK, Building
  <2> QED BY <2>3, <2>4, <2>5, <2>6 DEF RTInv
<1>5. ASSUME NEW count \in FieldCounts, ChangeFieldCount(count)
      PROVE  RTInv'
  <2>1. /\ Building /\ bookmark # NoBookmark
        /\ builder' = SetStructFieldCount(builder, bookmark.index, count)
        /\ asked' = [asked EXCEPT !.fields[bookmark.field].format = count]
        /\ UNCHANGED <<bookmark, wire, info, phase>>
    BY <1>5 DEF ChangeFieldCount
  <2>2. /\ BuilderOK(builder', asked.name) /\ Len(builder'.meta) = Len(builder.meta)
        /\ builder'.id = builder.id /\ builder'.version = builder.version
        /\ builder'.tag = builder.tag /\ builder'.opcode = builder.opcode
    <3>1. bookmark.index \in Len(asked.name) + 2 .. Len(builder.meta) /\ count \in Nat
      BY <2>1, <1>0, CallsAssumption DEF BookmarkOK
    <3> QED BY <3>1, <2>1, <1>0, FieldCountOK DEF AskedOK
  <2>3. /\ asked'.name = asked.name /\ asked'.id = asked.id /\ asked'.version = asked.version
        /\ asked'.tag = asked.tag /\ asked'.opcode = asked.opcode
        /\ asked' = [name |-> asked'.name, tag |-> asked'.tag, id |-> asked'.id,
                     version |-> asked'.version, opcode |-> asked'.opcode,
                     fields |-> asked'.fields, sent |-> asked'.sent]
    BY <2>1, <1>0 DEF AskedOK
  <2>4. AskedOK'
    BY <2>2, <2>3, <1>0 DEF AskedOK
  <2>5. BookmarkOK' /\ SentOK'
    BY <2>1, <2>2, <2>3, <1>0 DEF BookmarkOK, SentOK, Building
  <2> QED BY <2>2, <2>3, <2>4, <2>5 DEF RTInv
<1>6. ASSUME NEW send \in Sends, WriteEvent(send)
      PROVE  RTInv'
  <2>1. /\ Building /\ ~TooLarge(builder) /\ wire' = Message(builder, send)
        /\ asked' = [asked EXCEPT !.sent = send] /\ phase' = "sent"
        /\ UNCHANGED <<builder, bookmark, info>>
    BY <1>6 DEF WriteEvent, Message, HeaderOf
  <2>2. asked'.name = asked.name /\ asked'.sent = send /\ AskedOK'
    BY <2>1, <1>0 DEF AskedOK
  <2>3. info' = NoInfo
    BY <2>1, <1>0 DEF SentOK
  <2>4. SentOK'
    BY <2>1, <2>2, <2>3 DEF SentOK, Building
  <2>5. BookmarkOK'
    BY <2>1, <2>2, <1>0 DEF BookmarkOK
  <2> QED BY <2>1, <2>2, <2>4, <2>5, <1>0 DEF RTInv
<1>7. ASSUME NEW root \in BOOLEAN, NEW tags \in BOOLEAN, Open(root, tags)
      PROVE  RTInv'
  <2>1. /\ phase = "sent" /\ info' = EventInfo(wire.name, wire.units)
        /\ phase' # "building" /\ UNCHANGED <<builder, asked, bookmark, wire>>
    BY <1>7 DEF Open
  <2>2. AskedOK' /\ BookmarkOK' /\ BuilderOK(builder', asked'.name)
    BY <2>1, <1>0 DEF AskedOK, BookmarkOK
  <2>3. SentOK'
    BY <2>1, <1>0 DEF SentOK, Building
  <2> QED BY <2>2, <2>3 DEF RTInv
<1>8. ASSUME UNCHANGED <<builder, asked, bookmark, wire, info>>,
             (~Building /\ ~Building') \/ phase' = phase
      PROVE  RTInv'
  <2>1. Building' <=> Building
    BY <1>8 DEF Building
  <2>2. AskedOK' /\ BookmarkOK' /\ BuilderOK(builder', asked'.name)
    BY <1>8, <1>0 DEF AskedOK, BookmarkOK
  <2>3. SentOK'
    BY <2>1, <1>8, <1>0 DEF SentOK
  <2> QED BY <2>2, <2>3 DEF RTInv
<1>9. CASE FirstItem \/ WriteJson \/ JsonStep
  <2>1. UNCHANGED <<builder, asked, bookmark, wire, info>> /\ ~Building /\ ~Building'
    BY <1>9 DEF FirstItem, WriteJson, JsonStep, Building
  <2> QED BY <2>1, <1>8
<1>10. CASE UNCHANGED rtvars
  BY <1>10, <1>8 DEF rtvars
<1> QED
  BY <1>1, <1>2, <1>3, <1>4, <1>5, <1>6, <1>7, <1>9, <1>10 DEF RTNext

-----------------------------------------------------------------------------
(* Where write_eventheader puts things: k ids, if any, behind the header   *)
(* of their extension, and the header of the metadata at q.                *)
IdCount(activity, related) == IF activity = 0 THEN 0 ELSE IF related = 0 THEN 1 ELSE 2
MetaPlace(activity, related) == IF activity = 0 THEN 2 ELSE 3 + IdCount(activity, related)

IdsOK(activity, related) ==
    activity \in Nat /\ related \in Nat /\ (activity = 0 => related = 0)

Framed(w, header, activity, related, meta, data) ==
    LET k == IdCount(activity, related)
        q == MetaPlace(activity, related)
    IN /\ Len(w) = q + Len(meta) + Len(data)
       /\ w[1] = header
       /\ activity # 0 => w[2] = Extension(k, "ActivityId", TRUE) /\ w[3] = activity
       /\ related # 0 => w[4] = related
       /\ w[q] = Extension(Len(meta), "Metadata", FALSE)
       /\ \A i \in 1 .. Len(meta) : w[q + i] = meta[i]

LEMMA IdsLaid ==
  ASSUME NEW activity, NEW related, IdsOK(activity, related), activity # 0
  PROVE  /\ Ids(activity, related) \in Seq(Nat)
         /\ Len(Ids(activity, related)) = IdCount(activity, related)
         /\ Ids(activity, related)[1] = activity
         /\ related # 0 => Ids(activity, related)[2] = related
<1> DEFINE a == <<activity>>
           r == IF related = 0 THEN <<>> ELSE <<related>>
           ids == a \o r
           n == Len(r)
<1>1. a \in Seq(Nat) /\ Len(a) = 1 /\ a[1] = activity
  BY ShortSeqs DEF IdsOK
<1>2. r \in Seq(Nat) /\ Len(r) = (IF related = 0 THEN 0 ELSE 1) /\ (related # 0 => r[1] = related)
  <2>1. CASE related = 0
    <3>1. r = <<>>
      BY <2>1
    <3> HIDE DEF r
    <3>2. <<>> \in Seq(Nat) /\ Len(<<>>) = 0
      BY EmptySeq
    <3> QED BY <2>1, <3>1, <3>2
  <2>2. CASE related # 0
    <3>1. r = <<related>>
      BY <2>2
    <3> HIDE DEF r
    <3>2. <<related>> \in Seq(Nat) /\ Len(<<related>>) = 1 /\ <<related>>[1] = related
      BY ShortSeqs DEF IdsOK
    <3> QED BY <2>2, <3>1, <3>2
  <2> QED BY <2>1, <2>2
<1>3. Ids(activity, related) = ids
  BY DEF Ids
<1> HIDE DEF a, r
<1>4. ids \in Seq(Nat) /\ Joined2(ids, a, r)
  BY <1>1, <1>2, Joining
<1> HIDE DEF ids
<1>5. Len(ids) = 1 + n /\ \A i \in 1 .. n : ids[1 + i] = r[i]
  BY <1>1, <1>4 DEF Joined2
<1>6. ids[1] = activity
  <2>1. 1 \in 1 .. 1
    OBVIOUS
  <2> QED BY <2>1, <1>1, <1>4 DEF Joined2
<1>7. n = (IF related = 0 THEN 0 ELSE 1)
  BY <1>2
<1> HIDE DEF n
<1>8. Len(ids) = IdCount(activity, related)
  BY <1>5, <1>7 DEF IdCount
<1>9. related # 0 => ids[2] = related
  <2> SUFFICES ASSUME related # 0 PROVE ids[2] = related
    OBVIOUS
  <2>1. 1 \in 1 .. n /\ 1 + 1 = 2
    BY <1>7
  <2> QED BY <2>1, <1>5, <1>2
<1> QED
  BY <1>3, <1>4, <1>6, <1>8, <1>9

LEMMA WireFramed ==
  ASSUME NEW header, NEW activity, NEW related, IdsOK(activity, related),
         NEW meta \in Seq(Nat), meta # <<>>, NEW data \in Seq(Nat)
  PROVE  Framed(WriteEventheader(header, activity, related, meta, data),
                header, activity, related, meta, data)
<1> DEFINE k == IdCount(activity, related)
           q == MetaPlace(activity, related)
           e1 == Extension(k, "ActivityId", TRUE)
           e2 == Extension(Len(meta), "Metadata", FALSE)
           S == Nat \cup {header, e1, e2}
           a == ActivityExtension(activity, related, TRUE)
           h == <<header>>
           m == <<e2>> \o meta
           s1 == h \o a
           s2 == s1 \o m
           w == s2 \o data
<1>0. WriteEventheader(header, activity, related, meta, data) = w
  BY DEF WriteEventheader, MetadataExtension
<1>1. k \in 0 .. 2 /\ q \in Nat /\ Len(meta) \in Nat /\ Len(data) \in Nat
  BY LenProperties DEF IdCount, MetaPlace
<1>2. header \in S /\ e1 \in S /\ e2 \in S /\ Nat \subseteq S
  OBVIOUS
<1> HIDE DEF S, e1, e2
<1>3. h \in Seq(S) /\ Len(h) = 1 /\ h[1] = header /\ meta \in Seq(S) /\ data \in Seq(S)
      /\ <<e2>> \in Seq(S) /\ Len(<<e2>>) = 1 /\ <<e2>>[1] = e2
  BY <1>2, ShortSeqs, SeqMonotonic
<1>4. /\ a \in Seq(S) /\ Len(a) = q - 2
      /\ activity # 0 => a[1] = e1 /\ a[2] = activity
      /\ related # 0 => a[3] = related
  <2>1. CASE activity = 0
    <3>1. a = <<>> /\ q = 2 /\ related = 0
      BY <2>1 DEF ActivityExtension, MetaPlace, IdsOK
    <3> HIDE DEF a, q
    <3>2. <<>> \in Seq(S) /\ Len(<<>>) = 0
      BY EmptySeq
    <3>3. Len(a) = q - 2
      BY <3>1, <3>2
    <3> QED BY <2>1, <3>1, <3>2, <3>3
  <2>2. CASE activity # 0
    <3> DEFINE ids == Ids(activity, related)
    <3>1. ids \in Seq(Nat) /\ Len(ids) = k /\ ids[1] = activity /\ (related # 0 => ids[2] = related)
      BY <2>2, IdsLaid
    <3>2. a = <<e1>> \o ids
      BY <2>2, <3>1 DEF ActivityExtension, e1
    <3> HIDE DEF a, ids
    <3>3. ids \in Seq(S) /\ <<e1>> \in Seq(S) /\ Len(<<e1>>) = 1 /\ <<e1>>[1] = e1
      BY <3>1, <1>2, ShortSeqs, SeqMonotonic
    <3>4. a \in Seq(S) /\ Joined2(a, <<e1>>, ids)
      BY <3>2, <3>3, Joining
    <3>5. q = 3 + k /\ k \in {1, 2} /\ (related # 0 => k = 2)
      BY <2>2 DEF MetaPlace, IdCount
    <3> HIDE DEF k, q
    <3>6. Len(a) = 1 + k /\ \A i \in 1 .. k : a[1 + i] = ids[i]
      BY <3>1, <3>3, <3>4 DEF Joined2
    <3>7. a[1] = e1
      <4>1. 1 \in 1 .. 1
        OBVIOUS
      <4> QED BY <4>1, <3>3, <3>4 DEF Joined2
    <3>8. a[2] = activity
      <4>1. 1 \in 1 .. k /\ 1 + 1 = 2
        BY <3>5
      <4> QED BY <4>1, <3>6, <3>1
    <3>9. related # 0 => a[3] = related
      <4> SUFFICES ASSUME related # 0 PROVE a[3] = related
        OBVIOUS
      <4>1. 2 \in 1 .. k /\ 1 + 2 = 3
        BY <3>5
      <4> QED BY <4>1, <3>6, <3>1
    <3>10. Len(a) = q - 2
      BY <3>5, <3>6
    <3> QED BY <3>4, <3>7, <3>8, <3>9, <3>10
  <2> QED BY <2>1, <2>2
<1>5. q >= 2 /\ (activity # 0 => q >= 4) /\ (related # 0 => q = 5)
  BY DEF MetaPlace, IdCount, IdsOK
<1> HIDE DEF a, k, q, h
<1>6. m \in Seq(S) /\ Joined2(m, <<e2>>, meta)
  BY <1>3, Joining
<1> HIDE DEF m
<1>7. Len(m) = 1 + Len(meta) /\ m[1] = e2 /\ \A i \in 1 .. Len(meta) : m[1 + i] = meta[i]
  <2>1. 1 \in 1 .. 1
    OBVIOUS
  <2> QED BY <2>1, <1>3, <1>6 DEF Joined2
<1>8. s1 \in Seq(S) /\ Joined2(s1, h, a)
  BY <1>3, <1>4, Joining
<1> HIDE DEF s1
<1>9. s2 \in Seq(S) /\ Joined2(s2, s1, m)
  BY <1>6, <1>8, Joining
<1> HIDE DEF s2
<1>10. w \in Seq(S) /\ Joined2(w, s2, data)
  BY <1>3, <1>9, Joining
<1> HIDE DEF w
<1> DEFINE lm == Len(meta)
           ld == Len(data)
<1>11. Len(s1) = q - 1 /\ s1[1] = header /\ \A i \in 1 .. q - 2 : s1[1 + i] = a[i]
  <2>1. Len(h) = 1 /\ Len(a) = q - 2 /\ Len(s1) = Len(h) + Len(a) /\ 1 \in 1 .. 1
    BY <1>3, <1>4, <1>8 DEF Joined2
  <2>2. Len(s1) = q - 1
    BY <2>1, <1>1
  <2> QED BY <2>1, <2>2, <1>3, <1>8 DEF Joined2
<1>12. /\ Len(s2) = (q - 1) + (1 + lm)
       /\ \A i \in 1 .. q - 1 : s2[i] = s1[i]
       /\ \A i \in 1 .. 1 + lm : s2[(q - 1) + i] = m[i]
  BY <1>7, <1>9, <1>11 DEF Joined2
<1>13. Len(w) = ((q - 1) + (1 + lm)) + ld /\ \A i \in 1 .. (q - 1) + (1 + lm) : w[i] = s2[i]
  BY <1>10, <1>12 DEF Joined2
<1>14. lm \in Nat /\ ld \in Nat
  BY <1>1
<1> HIDE DEF lm, ld
<1>15. Len(w) = q + lm + ld
  BY <1>1, <1>13, <1>14
<1>16. \A i \in 1 .. q - 1 : w[i] = s1[i]
  <2>1. \A i \in 1 .. q - 1 : i \in 1 .. (q - 1) + (1 + lm)
    BY <1>1, <1>14
  <2> QED BY <2>1, <1>12, <1>13
<1>17. w[1] = header
  <2>1. 1 \in 1 .. q - 1
    BY <1>1, <1>5
  <2> QED BY <2>1, <1>11, <1>16
<1>18. \A i \in 1 .. q - 2 : w[1 + i] = a[i]
  <2>1. \A i \in 1 .. q - 2 : 1 + i \in 1 .. q - 1
    BY <1>1
  <2> QED BY <2>1, <1>11, <1>16
<1>19. activity # 0 => w[2] = e1 /\ w[3] = activity
  <2> SUFFICES ASSUME activity # 0 PROVE w[2] = e1 /\ w[3] = activity
    OBVIOUS
  <2>1. 1 \in 1 .. q - 2 /\ 2 \in 1 .. q - 2 /\ 1 + 1 = 2 /\ 1 + 2 = 3
    BY <1>1, <1>5
  <2> QED BY <2>1, <1>4, <1>18
<1>20. related # 0 => w[4] = related
  <2> SUFFICES ASSUME related # 0 PROVE w[4] = related
    OBVIOUS
  <2>1. 3 \in 1 .. q - 2 /\ 1 + 3 = 4
    BY <1>1, <1>5
  <2> QED BY <2>1, <1>4, <1>18
<1>21. \A i \in 1 .. 1 + lm : w[(q - 1) + i] = m[i]
  <2>1. \A i \in 1 .. 1 + lm : (q - 1) + i \in 1 .. (q - 1) + (1 + lm)
    BY <1>1, <1>5, <1>14
  <2> QED BY <2>1, <1>12, <1>13
<1>22. w[q] = e2
  <2>1. 1 \in 1 .. 1 + lm /\ (q - 1) + 1 = q
    BY <1>1, <1>14
  <2> QED BY <2>1, <1>7, <1>21
<1>23. \A i \in 1 .. lm : w[q + i] = meta[i]
  <2> SUFFICES ASSUME NEW i \in 1 .. lm PROVE w[q + i] = meta[i]
    OBVIOUS
  <2>1. 1 + i \in 1 .. 1 + lm /\ (q - 1) + (1 + i) = q + i
    BY <1>1, <1>14
  <2>2. w[q + i] = m[1 + i]
    BY <2>1, <1>21
  <2> QED BY <2>2, <1>7 DEF lm
<1> QED
  BY <1>0, <1>15, <1>17, <1>19, <1>20, <1>22, <1>23 DEF Framed, k, q, lm, ld, e1, e2
(* What SendsAssumption says of one write.                                 *)
SendOK(s) ==
    /\ s.provider \in Seq(Chars) /\ OptionsOK(s.options)
    /\ s.level \in Nat /\ s.keyword \in Nat
    /\ IdsOK(s.activity, s.related)

LEMMA SendsAreOK ==
  ASSUME NEW s \in Sends
  PROVE  SendOK(s)
<1>1. STRING \subseteq Chars
  BY DEF Chars
<1>2. s.provider \in Seq(Chars) /\ s.options \in Seq(Chars)
  BY <1>1, SendsAssumption, SeqMonotonic
<1> QED
  BY <1>2, SendsAssumption DEF SendOK, OptionsOK, IdsOK, Digits

(* What is on the wire once the event is written.                          *)
LEMMA SentFramed ==
  ASSUME RTInv, ~Building
  PROVE  Framed(wire.units, HeaderOf(builder, asked.sent.level), asked.sent.activity,
                asked.sent.related, builder.meta, builder.data)
<1>1. IdsOK(asked.sent.activity, asked.sent.related)
  BY SendsAreOK DEF RTInv, SentOK, SendOK
<1>2. /\ builder.meta \in Seq(Nat) /\ builder.data \in Seq(Nat) /\ builder.meta # <<>>
      /\ wire.units = WriteEventheader(HeaderOf(builder, asked.sent.level),
                         asked.sent.activity, asked.sent.related, builder.meta, builder.data)
  <2>1. wire = Message(builder, asked.sent)
    BY DEF RTInv, SentOK
  <2>2. builder.meta \in Seq(Nat) /\ builder.data \in Seq(Nat)
    BY DEF RTInv, BuilderOK, MetaOK
  <2>3. Len(asked.name) + 1 <= Len(builder.meta) /\ Len(asked.name) \in Nat
    BY LenProperties DEF RTInv, BuilderOK, MetaOK, AskedOK, NameOK
  <2>4. builder.meta # <<>>
    BY <2>3, EmptySeq
  <2> QED BY <2>1, <2>2, <2>4 DEF Message
<1> QED
  BY <1>1, <1>2, WireFramed

LEMMA InvFits == RTInv => WrittenFits
<1> SUFFICES ASSUME RTInv PROVE WrittenFits
  OBVIOUS
<1>1. CASE Building
  <2>1. wire = NoWire
    BY <1>1 DEF RTInv, SentOK
  <2>2. wire.units = <<>>
    BY <2>1 DEF NoWire
  <2>3. Len(wire.units) = 0
    BY <2>2, EmptySeq
  <2> QED BY <2>3, BuilderAssumption DEF WrittenFits
<1>2. CASE ~Building
  <2> DEFINE q == MetaPlace(asked.sent.activity, asked.sent.related)
             lm == Len(builder.meta)
             ld == Len(builder.data)
  <2>1. Len(wire.units) = q + lm + ld
    BY <1>2, SentFramed DEF Framed
  <2>2. q \in 2 .. 5
    BY DEF MetaPlace, IdCount
  <2>3. lm \in Nat /\ ld \in Nat
    BY LenProperties DEF RTInv, BuilderOK, MetaOK
  <2>4. ~(lm + ld > EventMax - HeadersMax)
    BY <1>2 DEF RTInv, SentOK, TooLarge
  <2> HIDE DEF q, lm, ld
  <2>5. q + lm + ld + 1 <= EventMax
    BY <2>2, <2>3, <2>4, BuilderAssumption
  <2> QED BY <2>1, <2>5 DEF WrittenFits
<1> QED
  BY <1>1, <1>2

(* Every event that write accepts fits the kernel's limit together with    *)
(* the headers put in front of it: the check of EventBuilder::write keeps  *)
(* room enough, whichever ids are sent.                                    *)
THEOREM RoundTripFits == RTSpec => []WrittenFits
<1>1. RTInv => WrittenFits
  BY InvFits
<1> QED
  BY <1>1, RTInitInv, RTNextInv, PTL DEF RTSpec

-----------------------------------------------------------------------------
(* The loop over the extensions: one round, from the results further on.   *)
ExtRound(g, w, p) ==
    LET e == w[p]
        one == [kind |-> e.kind, start |-> p + 1, size |-> e.size]
        rest == g[p + 1 + e.size]
    IN CASE p > Len(w) -> [list |-> <<>>, pos |-> p, err |-> "InvalidData"]
         [] p <= Len(w) /\ (e.size \notin 0 .. Len(w) - p \/ e.kind = "Invalid") ->
               [list |-> <<>>, pos |-> p, err |-> "InvalidData"]
         [] p <= Len(w) /\ e.size \in 0 .. Len(w) - p /\ e.kind # "Invalid" /\ ~e.chain ->
               [list |-> <<one>>, pos |-> p + 1 + e.size, err |-> ""]
         [] OTHER -> [rest EXCEPT !.list = <<one>> \o @]

LEMMA ExtRoundLocal ==
  ASSUME NEW w, Len(w) \in Nat, NEW p \in Nat, NEW f, NEW g,
         \A r \in p + 1 .. Len(w) + 1 : f[r] = g[r]
  PROVE  ExtRound(f, w, p) = ExtRound(g, w, p)
<1> DEFINE z == w[p].size
<1>1. CASE p <= Len(w) /\ z \in 0 .. Len(w) - p
  <2>1. p + 1 + z \in p + 1 .. Len(w) + 1
    BY <1>1
  <2>2. f[p + 1 + z] = g[p + 1 + z]
    BY <2>1
  <2> QED BY <2>2 DEF ExtRound
<1>2. CASE p > Len(w)
  <2>1. ~(p <= Len(w))
    BY <1>2
  <2> DEFINE fail == [list |-> <<>>, pos |-> p, err |-> "InvalidData"]
  <2>2. ExtRound(f, w, p) = fail
    BY <1>2, <2>1 DEF ExtRound
  <2>3. ExtRound(g, w, p) = fail
    BY <1>2, <2>1 DEF ExtRound
  <2> QED BY <2>2, <2>3
<1>3. CASE p <= Len(w) /\ z \notin 0 .. Len(w) - p
  BY <1>3 DEF ExtRound
<1> QED
  BY <1>1, <1>2, <1>3

ExtTable(g, w, pos) == g = [p \in pos .. Len(w) + 1 |-> ExtRound(g, w, p)]

(* The loop ends: every round goes forward.                                *)
LEMMA ExtTableExists ==
  ASSUME NEW w, Len(w) \in Nat, NEW pos \in Nat
  PROVE  \E g : ExtTable(g, w, pos)
<1> DEFINE N == Len(w) + 1
           Rows(g, k) == \A p \in Nat : p >= N - k /\ p <= N => g[p] = ExtRound(g, w, p)
           T == {k \in Nat : \E g : Rows(g, k)}
<1>0. N \in Nat
  OBVIOUS
<1>1. 0 \in T
  <2> DEFINE v == ExtRound(<<>>, w, N)
             g == [p \in {N} |-> v]
  <2>1. \A h : ExtRound(h, w, N) = v
    <3>1. \A h : \A r \in N + 1 .. Len(w) + 1 : h[r] = <<>>[r]
      OBVIOUS
    <3> HIDE DEF N
    <3> QED BY <3>1, <1>0, ExtRoundLocal
  <2>2. g[N] = v
    OBVIOUS
  <2> HIDE DEF g, v, N
  <2>3. Rows(g, 0)
    BY <2>1, <2>2, <1>0
  <2> QED BY <2>3
<1>2. ASSUME NEW k \in Nat, k \in T
      PROVE  k + 1 \in T
  <2>1. PICK g : Rows(g, k)
    BY <1>2
  <2> HIDE DEF N
  <2> DEFINE h == [p \in Nat |-> IF p >= N - k THEN g[p] ELSE ExtRound(g, w, p)]
  <2>2. \A p \in Nat : p >= N - k => h[p] = g[p]
    OBVIOUS
  <2>3. \A p \in Nat : ~(p >= N - k) => h[p] = ExtRound(g, w, p)
    OBVIOUS
  <2> HIDE DEF h
  <2>4. ASSUME NEW p \in Nat, p >= N - (k + 1), p <= N
        PROVE  h[p] = ExtRound(h, w, p)
    <3>0. \A r \in p + 1 .. Len(w) + 1 : h[r] = g[r]
      <4>1. \A r \in p + 1 .. Len(w) + 1 : r \in Nat /\ r >= N - k
        BY <1>0, <2>4
      <4> QED BY <4>1, <2>2
    <3>1. ExtRound(h, w, p) = ExtRound(g, w, p)
      BY <3>0, ExtRoundLocal
    <3>2. CASE p >= N - k
      BY <3>1, <3>2, <2>2, <2>1, <2>4
    <3>3. CASE ~(p >= N - k)
      BY <3>1, <3>3, <2>3
    <3> QED BY <3>2, <3>3
  <2>5. Rows(h, k + 1)
    BY <2>4
  <2> QED BY <2>5
<1> HIDE DEF T
<1>3. N \in T
  BY <1>0, <1>1, <1>2, NatSet
<1>4. PICK g : Rows(g, N)
  BY <1>3 DEF T
<1> DEFINE h == [p \in pos .. N |-> g[p]]
<1>5. \A p \in pos .. N : h[p] = g[p]
  OBVIOUS
<1> HIDE DEF h, N
<1>6. ASSUME NEW p \in pos .. N
      PROVE  g[p] = ExtRound(h, w, p)
  <2>0. p \in Nat /\ p <= N /\ p >= N - N
    BY <1>0
  <2>1. \A r \in p + 1 .. Len(w) + 1 : h[r] = g[r]
    <3>1. \A r \in p + 1 .. Len(w) + 1 : r \in pos .. N
      BY DEF N
    <3> QED BY <3>1, <1>5
  <2>2. ExtRound(h, w, p) = ExtRound(g, w, p)
    BY <2>0, <2>1, ExtRoundLocal
  <2> QED
    BY <2>0, <2>2, <1>4
<1>7. h = [p \in pos .. N |-> ExtRound(h, w, p)]
  BY <1>6 DEF h
<1> QED
  BY <1>7 DEF ExtTable, N

LEMMA ExtUnfold ==
  ASSUME NEW w, Len(w) \in Nat, NEW pos \in Nat
  PROVE  \E g : /\ ExtensionsFrom(w, pos) = g[pos]
                /\ \A p \in pos .. Len(w) + 1 : g[p] = ExtRound(g, w, p)
<1> DEFINE Table(g) == [p \in pos .. Len(w) + 1 |-> ExtRound(g, w, p)]
           exts == CHOOSE g : g = Table(g)
<1>1. ExtensionsFrom(w, pos) = exts[pos]
  BY DEF ExtensionsFrom, ExtRound
<1>2. exts = Table(exts)
  <2>1. \E g : g = Table(g)
    BY ExtTableExists DEF ExtTable
  <2> QED BY <2>1, Zenon
<1>3. \A p \in pos .. Len(w) + 1 : Table(exts)[p] = ExtRound(exts, w, p)
  OBVIOUS
<1> HIDE DEF Table, exts
<1> QED
  BY <1>1, <1>2, <1>3
(* What the loop finds on the wire: the place n of the metadata among the  *)
(* extensions, and the ids before it, if there are any.                    *)
MetaExt(activity, related, meta) ==
    [kind |-> "Metadata", start |-> MetaPlace(activity, related) + 1, size |-> Len(meta)]
IdsExt(activity, related) ==
    [kind |-> "ActivityId", start |-> 3, size |-> IdCount(activity, related)]

Found(x, activity, related, meta) ==
    LET n == IF activity = 0 THEN 1 ELSE 2
    IN /\ x.err = ""
       /\ OfKind(x.list, "Metadata") = {n}
       /\ x.list[n] = MetaExt(activity, related, meta)
       /\ OfKind(x.list, "ActivityId") = IF activity = 0 THEN {} ELSE {1}
       /\ activity # 0 => x.list[1] = IdsExt(activity, related)

(* An extension put before the last one.                                   *)
LastExt(e, pos) == [list |-> <<e>>, pos |-> pos, err |-> ""]
PutFirst(one, r) == [r EXCEPT !.list = <<one>> \o @]
Two(x, one, e) ==
    x.err = "" /\ x.list[1] = one /\ x.list[2] = e /\ DOMAIN x.list = {1, 2}

LEMMA Prepended ==
  ASSUME NEW one, NEW e, NEW pos, NEW r, r = LastExt(e, pos), NEW x, x = PutFirst(one, r)
  PROVE  Two(x, one, e)
<1> DEFINE a == <<one>>
           b == <<e>>
           l == a \o b
           E == {one, e}
           ok == ""
           lit == [list |-> b, pos |-> pos, err |-> ok]
<1>1. r = lit
  BY DEF LastExt
<1> HIDE DEF ok
<1>2. [lit EXCEPT !.list = l] = [list |-> l, pos |-> pos, err |-> ok]
  <2> HIDE DEF l, b
  <2> QED OBVIOUS
<1>3. lit.list = b
  OBVIOUS
<1> HIDE DEF lit
<1>4. [lit EXCEPT !.list = a \o @] = [lit EXCEPT !.list = a \o lit.list]
  OBVIOUS
<1>5. [r EXCEPT !.list = a \o @] = [lit EXCEPT !.list = a \o @]
  BY <1>1, Zenon
<1>6. [lit EXCEPT !.list = a \o lit.list] = [lit EXCEPT !.list = l]
  BY <1>3, Zenon
<1> HIDE DEF l
<1>7. x = [r EXCEPT !.list = a \o @]
  BY DEF PutFirst
<1>8. x = [list |-> l, pos |-> pos, err |-> ok]
  BY <1>2, <1>4, <1>5, <1>6, <1>7
<1>9. x.err = ok /\ x.list = l
  BY <1>8
<1>10. a \in Seq(E) /\ b \in Seq(E)
  BY ShortSeqs
<1>11. Len(a) = 1 /\ Len(b) = 1 /\ a[1] = one /\ b[1] = e
  OBVIOUS
<1> HIDE DEF a, b, E
<1>12. l \in Seq(E) /\ Joined2(l, a, b)
  BY <1>10, Joining DEF l
<1>13. Len(l) = 2 /\ l[1] = one /\ l[2] = e
  <2>1. 1 \in 1 .. 1 /\ 1 + 1 = 2
    OBVIOUS
  <2> QED BY <2>1, <1>11, <1>12 DEF Joined2
<1>14. DOMAIN l = {1, 2}
  <2>1. DOMAIN l = 1 .. 2
    BY <1>12, <1>13, LenProperties
  <2> QED BY <2>1
<1> QED
  BY <1>9, <1>13, <1>14 DEF Two, ok

LEMMA ExtsFound ==
  ASSUME NEW w, NEW header, NEW activity, NEW related, IdsOK(activity, related),
         NEW meta \in Seq(Nat), NEW data \in Seq(Nat),
         Framed(w, header, activity, related, meta, data)
  PROVE  Found(ExtensionsFrom(w, 2), activity, related, meta)
<1> DEFINE q == MetaPlace(activity, related)
           k == IdCount(activity, related)
           lm == Len(meta)
           ld == Len(data)
           mext == MetaExt(activity, related, meta)
           last == [list |-> <<mext>>, pos |-> q + 1 + lm, err |-> ""]
           x == ExtensionsFrom(w, 2)
<1>1. /\ Len(w) = q + lm + ld /\ w[q] = Extension(lm, "Metadata", FALSE)
      /\ activity # 0 => w[2] = Extension(k, "ActivityId", TRUE)
  BY DEF Framed
<1>2. lm \in Nat /\ ld \in Nat
  BY LenProperties
<1>3. q \in 2 .. 5 /\ k \in 0 .. 2
  BY DEF MetaPlace, IdCount
<1>4. activity = 0 => q = 2
  BY DEF MetaPlace
<1>5. activity # 0 => q = 3 + k /\ k \in {1, 2}
  BY DEF MetaPlace, IdCount
<1>6. mext = [kind |-> "Metadata", start |-> q + 1, size |-> lm]
  BY DEF MetaExt
<1>7. mext.kind = "Metadata"
  BY <1>6
<1> HIDE DEF q, k, lm, ld, mext
<1>8. Len(w) \in Nat /\ q <= Len(w) /\ lm \in 0 .. Len(w) - q /\ q \in 2 .. Len(w) + 1
      /\ 2 \in 2 .. Len(w) + 1 /\ 2 <= Len(w)
  BY <1>1, <1>2, <1>3
<1>9. PICK g : x = g[2] /\ \A p \in 2 .. Len(w) + 1 : g[p] = ExtRound(g, w, p)
  BY <1>8, ExtUnfold
<1> HIDE DEF x
<1>10. g[q] = last
  <2>1. g[q] = ExtRound(g, w, q)
    BY <1>8, <1>9
  <2>2. w[q].size = lm /\ w[q].kind = "Metadata" /\ w[q].chain = FALSE
    BY <1>1 DEF Extension
  <2>3. ~(q > Len(w))
    BY <1>8, <1>3
  <2>4. ExtRound(g, w, q) = last
    BY <2>2, <2>3, <1>6, <1>8 DEF ExtRound
  <2> QED BY <2>1, <2>4
<1>11. CASE activity = 0
  <2>1. x = last
    BY <1>11, <1>4, <1>9, <1>10
  <2>2. x.err = "" /\ x.list = <<mext>>
    BY <2>1
  <2> DEFINE l == x.list
  <2>3. l[1] = mext /\ DOMAIN l = {1}
    <3>1. \A e : <<e>>[1] = e /\ DOMAIN <<e>> = 1 .. 1 /\ 1 .. 1 = {1}
      OBVIOUS
    <3> QED BY <2>2, <3>1
  <2> HIDE DEF l
  <2>4. OfKind(l, "Metadata") = {1} /\ OfKind(l, "ActivityId") = {}
    BY <2>3, <1>7 DEF OfKind
  <2> QED BY <1>11, <2>2, <2>3, <2>4 DEF Found, l, x, mext
<1>12. CASE activity # 0
  <2> DEFINE one == [kind |-> "ActivityId", start |-> 3, size |-> k]
             e == q + 1 + lm
             l == x.list
  <2>1. x = ExtRound(g, w, 2)
    BY <1>8, <1>9
  <2>2. w[2].size = k /\ w[2].kind = "ActivityId" /\ w[2].chain = TRUE
    BY <1>12, <1>1 DEF Extension
  <2>3. ~(2 > Len(w)) /\ 2 + 1 = 3 /\ 2 + 1 + k = q /\ k \in 0 .. Len(w) - 2
    BY <1>12, <1>1, <1>2, <1>3, <1>5, <1>8
  <2>4. x = PutFirst(one, g[q])
    BY <2>1, <2>2, <2>3, <1>8 DEF ExtRound, PutFirst
  <2>5. g[q] = LastExt(mext, e)
    BY <1>10 DEF LastExt
  <2>6. one.kind = "ActivityId"
    OBVIOUS
  <2>7. one = IdsExt(activity, related)
    BY DEF IdsExt, k
  <2> HIDE DEF one, e
  <2>8. Two(x, one, mext)
    BY <2>4, <2>5, Prepended
  <2>9. x.err = "" /\ l[1] = one /\ l[2] = mext /\ DOMAIN l = {1, 2}
    BY <2>8 DEF Two
  <2> HIDE DEF l
  <2>10. OfKind(l, "Metadata") = {2} /\ OfKind(l, "ActivityId") = {1}
    BY <2>6, <2>9, <1>7 DEF OfKind
  <2> QED BY <1>12, <2>7, <2>9, <2>10 DEF Found, x, mext, l
<1> QED
  BY <1>11, <1>12

LEMMA Part ==
  ASSUME NEW s, NEW m \in Nat, NEW t \in Seq(Nat), \A i \in 1 .. Len(t) : s[m + i] = t[i]
  PROVE  SubSeq(s, m + 1, m + Len(t)) = t
<1> DEFINE n == Len(t)
           a == m + 1
           b == m + n
           u == SubSeq(s, a, b)
<1>1. n \in Nat
  BY LenProperties
<1>2. \A i \in a .. b : s[i] \in Nat
  <2> SUFFICES ASSUME NEW i \in a .. b PROVE s[i] \in Nat
    OBVIOUS
  <2>1. i - m \in 1 .. n /\ m + (i - m) = i
    BY <1>1
  <2>2. s[i] = t[i - m]
    BY <2>1
  <2> QED BY <2>1, <2>2, ElementOfSeq
<1>3. a \in Int /\ b \in Int /\ b - a + 1 = n /\ (n = 0 \/ a <= b) /\ (n = 0 => ~(a <= b))
  BY <1>1
<1>4. \A i \in 1 .. n : a + i - 1 = m + i
  BY <1>1
<1> HIDE DEF a, b
<1>5. /\ u \in Seq(Nat) /\ Len(u) = (IF a <= b THEN b - a + 1 ELSE 0)
      /\ \A i \in 1 .. b - a + 1 : u[i] = s[a + i - 1]
  BY <1>2, <1>3, SubSeqProperties
<1> HIDE DEF u
<1>6. Len(u) = n
  BY <1>3, <1>5
<1>7. \A i \in 1 .. n : u[i] = t[i]
  BY <1>3, <1>4, <1>5
<1>8. u = t
  BY <1>5, <1>6, <1>7, SeqEqual
<1> QED
  BY <1>8 DEF u, a, b, n

(* The event's name: what stands before the first NUL of the metadata.     *)
LEMMA NameFound ==
  ASSUME NEW meta, NEW name, MetaOK(meta, name), NameOK(name)
  PROVE  LET nul == SelectInSeq(meta, LAMBDA u : u = 0)
         IN nul # 0 /\ SubSeq(meta, 1, nul - 1) = name
<1> DEFINE I == {i \in 1 .. Len(meta) : meta[i] = 0}
           n == Len(name)
           nul == SelectInSeq(meta, LAMBDA u : u = 0)
<1>1. n \in Nat /\ Len(meta) \in Nat
  BY LenProperties DEF MetaOK, NameOK
<1>2. n + 1 \in I
  BY <1>1 DEF MetaOK
<1>3. ASSUME NEW i \in I PROVE n + 1 <= i
  <2> SUFFICES ASSUME i < n + 1 PROVE FALSE
    BY <1>1
  <2>1. i \in 1 .. n
    BY <1>1
  <2>2. meta[i] = name[i] /\ name[i] # 0 /\ meta[i] = 0
    BY <2>1 DEF MetaOK, NameOK
  <2> QED BY <2>2
<1>4. nul = IF I # {} THEN Min(I) ELSE 0
  BY DEF SelectInSeq
<1>5. I \subseteq Int
  BY <1>1
<1> HIDE DEF I, nul
<1>6. nul = n + 1
  BY <1>2, <1>3, <1>4, <1>5, MinIs
<1>7. nul # 0 /\ nul - 1 = 0 + n /\ 0 + 1 = 1
  BY <1>1, <1>6
<1>8. \A i \in 1 .. Len(name) : meta[0 + i] = name[i]
  <2>1. \A i \in 1 .. Len(name) : 0 + i = i
    OBVIOUS
  <2> QED BY <2>1 DEF MetaOK
<1>9. SubSeq(meta, 0 + 1, 0 + n) = name
  BY <1>8, Part DEF NameOK
<1> QED
  BY <1>7, <1>9 DEF nul
(* What the consumer learns of the event.                                  *)
Learned(i, header, keyword, n, name, activity, related) ==
    /\ i.err = "" /\ i.header = header /\ i.keyword = keyword
    /\ i.provider = ProviderName(n) /\ i.options = OptionsOf(n)
    /\ i.name = name /\ i.activity = activity /\ i.related = related

LEMMA InfoOf ==
  ASSUME NEW w, NEW header, NEW activity, NEW related, IdsOK(activity, related),
         NEW meta \in Seq(Nat), NEW data \in Seq(Nat),
         Framed(w, header, activity, related, meta, data),
         NEW name, MetaOK(meta, name), NameOK(name),
         NEW n, NEW keyword \in Nat, ParseName(n, header.level) = keyword
  PROVE  Learned(EventInfo(n, w), header, keyword, n, name, activity, related)
<1> DEFINE exts == ExtensionsFrom(w, 2)
           metas == OfKind(exts.list, "Metadata")
           ids == OfKind(exts.list, "ActivityId")
           m == exts.list[Min(metas)]
           a == exts.list[Min(ids)]
           body == SubSeq(w, m.start, m.start + m.size - 1)
           nul == SelectInSeq(body, LAMBDA u : u = 0)
           word == ParseName(n, w[1].level)
           provider == ProviderName(n)
           options == OptionsOf(n)
           title == SubSeq(body, 1, nul - 1)
           act == IF ids = {} THEN 0 ELSE w[a.start]
           rel == IF ids = {} \/ a.size < 2 THEN 0 ELSE w[a.start + 1]
           fields == SubSeq(body, nul + 1, Len(body))
           values == SubSeq(w, exts.pos, Len(w))
           first == w[1]
           none == ""
           result == [err |-> none, header |-> first, keyword |-> word,
                      provider |-> provider, options |-> options, name |-> title,
                      activity |-> act, related |-> rel, meta |-> fields, data |-> values]
           g1 == w = <<>>
           g2 == w # <<>> /\ word = -1
           g3 == w # <<>> /\ word # -1 /\
                   (exts.err # "" \/ Repeated(metas) \/ Repeated(ids)
                      \/ \E i \in ids : exts.list[i].size \notin {1, 2})
           g4 == w # <<>> /\ word # -1 /\ exts.err = "" /\ metas = {}
           g5 == w # <<>> /\ word # -1 /\ exts.err = "" /\ metas # {} /\ nul = 0
           q == MetaPlace(activity, related)
           k == IdCount(activity, related)
           lm == Len(meta)
           p == IF activity = 0 THEN 1 ELSE 2
<1>1. EventInfo(n, w) =
        CASE g1 -> [err |-> "InvalidParameter"]
          [] g2 -> [err |-> "NotSupported"]
          [] g3 -> [err |-> "InvalidData"]
          [] g4 -> [err |-> "NotSupported"]
          [] g5 -> [err |-> "InvalidData"]
          [] OTHER -> result
  BY DEF EventInfo
<1>2. Found(exts, activity, related, meta)
  BY ExtsFound
<1>3. /\ exts.err = "" /\ metas = {p} /\ exts.list[p] = MetaExt(activity, related, meta)
      /\ ids = (IF activity = 0 THEN {} ELSE {1})
      /\ activity # 0 => exts.list[1] = IdsExt(activity, related)
  BY <1>2 DEF Found
<1>4. /\ Len(w) = q + lm + Len(data) /\ w[1] = header
      /\ activity # 0 => w[3] = activity
      /\ related # 0 => w[4] = related
      /\ \A i \in 1 .. lm : w[q + i] = meta[i]
  BY DEF Framed
<1>5. q \in 2 .. 5 /\ lm \in Nat /\ Len(data) \in Nat
  BY LenProperties DEF MetaPlace, IdCount
<1>6. w # <<>>
  <2> HIDE DEF q, lm
  <2>1. Len(w) # 0
    BY <1>4, <1>5
  <2> QED BY <2>1, EmptySeq
<1>7. word = keyword /\ word # -1
  BY <1>4
<1> HIDE DEF exts, metas, ids, first, word
<1>8. m = MetaExt(activity, related, meta)
  <2>1. p \in Int
    OBVIOUS
  <2> HIDE DEF p
  <2>2. metas = {p}
    BY <1>3
  <2>3. Min(metas) = p
    BY <2>1, <2>2, MinOfOne
  <2> QED BY <2>3, <1>3
<1>9. body = meta
  <2>1. m.start = q + 1 /\ m.size = lm
    BY <1>8 DEF MetaExt
  <2> HIDE DEF m
  <2>2. m.start + m.size - 1 = q + lm
    <3> HIDE DEF q, lm
    <3> QED BY <2>1, <1>5
  <2>3. q \in Nat
    BY <1>5
  <2>4. body = SubSeq(w, q + 1, q + Len(meta))
    BY <2>1, <2>2
  <2> HIDE DEF body, q
  <2>5. SubSeq(w, q + 1, q + Len(meta)) = meta
    BY <2>3, <1>4, Part
  <2> QED BY <2>4, <2>5
<1>10. nul # 0 /\ title = name
  <2> HIDE DEF body
  <2> QED BY <1>9, NameFound
<1>11. ~Repeated(metas) /\ ~Repeated(ids)
  BY <1>3 DEF Repeated
<1>12. \A i \in ids : exts.list[i].size \in {1, 2}
  <2> SUFFICES ASSUME NEW i \in ids PROVE exts.list[i].size \in {1, 2}
    OBVIOUS
  <2>1. activity # 0 /\ i = 1
    BY <1>3
  <2>2. exts.list[i] = IdsExt(activity, related)
    BY <2>1, <1>3
  <2>3. exts.list[i].size = k
    BY <2>2 DEF IdsExt
  <2>4. k \in {1, 2}
    BY <2>1 DEF IdCount
  <2> QED BY <2>3, <2>4
<1>13. act = activity /\ rel = related
  <2>1. CASE activity = 0
    BY <2>1, <1>3 DEF IdsOK
  <2>2. CASE activity # 0
    <3>1. ids # {} /\ Min(ids) = 1
      <4>1. ids = {1}
        BY <2>2, <1>3
      <4>2. Min({1}) = 1
        BY MinOfOne
      <4> QED BY <4>1, <4>2
    <3>2. a = IdsExt(activity, related)
      BY <2>2, <3>1, <1>3
    <3>3. a.start = 3 /\ a.size = k
      BY <3>2 DEF IdsExt
    <3> HIDE DEF a
    <3>4. act = activity
      BY <2>2, <3>1, <3>3, <1>4
    <3>5. CASE related = 0
      <4>1. k = 1
        BY <2>2, <3>5 DEF IdCount
      <4> QED BY <3>3, <3>4, <3>5, <4>1
    <3>6. CASE related # 0
      <4>1. k = 2 /\ 3 + 1 = 4
        BY <2>2, <3>6 DEF IdCount
      <4> QED BY <3>1, <3>3, <3>4, <3>6, <4>1, <1>4
    <3> QED BY <3>5, <3>6
  <2> QED BY <2>1, <2>2
<1>14. ~g1 /\ ~g2 /\ ~g3 /\ ~g4 /\ ~g5
  <2>1. ~(\E i \in ids : exts.list[i].size \notin {1, 2})
    BY <1>12
  <2>2. metas # {}
    BY <1>3
  <2>3. exts.err = ""
    BY <1>3
  <2> HIDE DEF nul
  <2> QED BY <1>6, <1>7, <1>10, <1>11, <2>1, <2>2, <2>3
<1> HIDE DEF g1, g2, g3, g4, g5, result
<1>15. EventInfo(n, w) = result
  BY <1>1, <1>14
<1> HIDE DEF none, provider, options, title, act, rel, fields, values
<1>16. /\ result.err = none /\ result.header = first /\ result.keyword = word
       /\ result.provider = provider /\ result.options = options
       /\ result.name = title /\ result.activity = act /\ result.related = rel
  BY DEF result
<1>17. none = "" /\ first = header /\ provider = ProviderName(n) /\ options = OptionsOf(n)
  BY <1>4 DEF none, first, provider, options
<1> QED
  BY <1>7, <1>10, <1>13, <1>15, <1>16, <1>17 DEF Learned

LEMMA InvReadsBack == RTInv => HeaderReadsBack
<1> SUFFICES ASSUME RTInv, info # NoInfo PROVE HeaderReadsBack
  BY DEF HeaderReadsBack
<1> DEFINE s == asked.sent
           h == HeaderOf(builder, s.level)
           n == FormatName(s.provider, s.options, s.level, s.keyword)
           w == wire.units
<1>1. ~Building /\ s \in Sends /\ wire = Message(builder, s) /\ info = EventInfo(wire.name, w)
  BY DEF RTInv, SentOK
<1>2. SendOK(s)
  BY <1>1, SendsAreOK
<1>3. s.provider \in Seq(Chars) /\ OptionsOK(s.options) /\ s.options \in Seq(Chars)
      /\ s.level \in Nat /\ s.keyword \in Nat /\ IdsOK(s.activity, s.related)
  BY <1>2 DEF SendOK, OptionsOK
<1>4. wire.name = n
  BY <1>1 DEF Message
<1>5. Laid(n, s.provider, s.options, s.level, s.keyword)
  BY <1>3, NameLaid
<1> HIDE DEF n
<1>6. ParseName(n, s.level) = s.keyword /\ ProviderName(n) = s.provider /\ OptionsOf(n) = s.options
  BY <1>3, <1>5, NameParsed
<1>7. h.level = s.level
  BY DEF HeaderOf
<1>8. Framed(w, h, s.activity, s.related, builder.meta, builder.data)
  BY <1>1, SentFramed
<1>9. /\ builder.meta \in Seq(Nat) /\ builder.data \in Seq(Nat)
      /\ MetaOK(builder.meta, asked.name) /\ NameOK(asked.name)
  BY DEF RTInv, BuilderOK, MetaOK, AskedOK
<1>10. h = [id |-> asked.id, version |-> asked.version, tag |-> asked.tag,
            opcode |-> asked.opcode, level |-> asked.sent.level]
  BY DEF RTInv, AskedOK, HeaderOf
<1> HIDE DEF h, w, s
<1>11. Learned(EventInfo(n, w), h, s.keyword, n, asked.name, s.activity, s.related)
  BY <1>3, <1>6, <1>7, <1>8, <1>9, InfoOf
<1>12. /\ info.err = "" /\ info.header = h /\ info.keyword = s.keyword
       /\ info.provider = s.provider /\ info.options = s.options
       /\ info.name = asked.name /\ info.activity = s.activity /\ info.related = s.related
  BY <1>1, <1>4, <1>6, <1>11 DEF Learned
<1> QED
  BY <1>10, <1>12 DEF HeaderReadsBack, s

(* The decoder accepts every event that EventBuilder::write sends, and     *)
(* learns from the tracepoint's name and the event's headers what the      *)
(* provider wrote: for every provider, options, level, keyword, name and   *)
(* pair of ids, after any calls of the builder for this event and the ones *)
(* before.                                                                 *)
THEOREM RoundTripHeader == RTSpec => []HeaderReadsBack
<1>1. RTInv => HeaderReadsBack
  BY InvReadsBack
<1> QED
  BY <1>1, RTInitInv, RTNextInv, PTL DEF RTSpec
=============================================================================
