---------------------- MODULE EventHeaderProviderProofs ----------------------
(***************************************************************************)
(* Proofs about module EventHeaderProvider: for any number of threads, any *)
(* list of tracepoints and whatever the callers do, misuse included.       *)
(***************************************************************************)
EXTENDS EventHeaderProvider, FiniteSetTheorems, TLAPS

(* What the fix-up loops keep true of the list.  Every element is one the  *)
(* linker put there, and none of those is ever lost from the list.         *)
FromLinker == \A i \in DOMAIN events : events[i] = NULL \/ events[i] \in linked

FoundIn(I) == \A p \in linked : \E i \in I : events[i] = p

(* The first n elements are in order, without duplicates.                  *)
StrictTo(n) == \A i, j \in 1 .. n : i < j => events[i] > events[j]

ScanInv ==
    /\ good_pos \in 1 .. Len(events)
    /\ Descending(events) /\ StrictTo(good_pos)

(* Between good_pos and next_pos are only copies of what is before them.   *)
Rest == next_pos .. Len(events)
CompactInv ==
    /\ good_pos \in 1 .. Len(events) /\ next_pos \in good_pos + 1 .. Len(events) + 1
    /\ StrictTo(good_pos)
    /\ \A i, j \in Rest : i < j => events[i] >= events[j]
    /\ \A j \in Rest : events[good_pos] >= events[j]
    /\ FoundIn({i \in DOMAIN events : i <= good_pos \/ i >= next_pos})

FillInv ==
    /\ good_pos \in 1 .. Len(events) /\ next_pos \in good_pos + 1 .. Len(events) + 1
    /\ StrictTo(good_pos)
    /\ FoundIn(1 .. good_pos)
    /\ \A i \in good_pos + 1 .. next_pos - 1 : events[i] = NULL

FixedUp ==
    \E n \in 0 .. Len(events) :
        /\ StrictTo(n)
        /\ linked = {events[i] : i \in 1 .. n}
        /\ \A i \in n + 1 .. Len(events) : events[i] = NULL

LoopInv ==
    /\ FromLinker /\ FoundIn(DOMAIN events)
    /\ \A t \in Threads :
        /\ pc[t] = "sort" => events # <<>>
        /\ pc[t] = "scan" => ScanInv
        /\ pc[t] = "compact" => CompactInv
        /\ pc[t] = "fill" => FillInv
        /\ pc[t] = "reg_each" => FixedUp

(* What the walks have done so far, and what they start from: the kernel   *)
(* only has registrations made from a list that was fixed up.              *)
WalkInv ==
    /\ kernel \subseteq linked
    /\ kernel # {} => FixedUp \/ \E t \in Threads : pc[t] \in FixUpSteps
    /\ \A t \in Threads :
        /\ pos[t] <= Len(events) + 1
        /\ pc[t] \notin {"reg_each", "unreg_each"} => pos[t] = 1 /\ result[t] = 0
        /\ pc[t] = "reg_each" /\ result[t] = 0 =>
               \A i \in 1 .. pos[t] - 1 : events[i] \in kernel
        /\ pc[t] = "unreg_each" /\ result[t] = 0 =>
               \A i \in 1 .. pos[t] - 1 : events[i] \notin kernel

IndInv == TypeOK /\ ListIsPrivate /\ LoopInv /\ WalkInv

-----------------------------------------------------------------------------
(* A list of the type invariant is a function on the positions 1 .. Len.   *)
LEMMA ListShape ==
    ASSUME NEW e
    PROVE  e \in BoundedSeq(Pointers \cup {NULL}, MaxEvents) <=>
             /\ Len(e) \in 0 .. MaxEvents
             /\ e \in [1 .. Len(e) -> Pointers \cup {NULL}]
<1>1. ASSUME NEW m \in Nat, e \in [1 .. m -> Pointers \cup {NULL}] PROVE Len(e) = m
  BY <1>1
<1> QED
  BY <1>1, MaxEventsAssumption DEF BoundedSeq, SeqOf

(* ... so its elements are numbers, and its domain is what Len says.       *)
LEMMA ListFacts ==
    ASSUME TypeOK
    PROVE  /\ Len(events) \in Nat /\ Len(events) <= MaxEvents
           /\ DOMAIN events = 1 .. Len(events)
           /\ events \in [1 .. Len(events) -> Pointers \cup {NULL}]
           /\ \A i \in 1 .. Len(events) : events[i] \in Nat
<1>1. events \in BoundedSeq(Pointers \cup {NULL}, MaxEvents)
  BY DEF TypeOK
<1>2. Len(events) \in 0 .. MaxEvents /\ events \in [1 .. Len(events) -> Pointers \cup {NULL}]
  BY <1>1, ListShape
<1>3. Len(events) \in Nat /\ Len(events) <= MaxEvents
  BY <1>2, MaxEventsAssumption
<1>4. DOMAIN events = 1 .. Len(events)
  BY <1>2
<1>5. Pointers \cup {NULL} \subseteq Nat
  BY PointersAssumption DEF NULL
<1>6. \A i \in 1 .. Len(events) : events[i] \in Nat
  BY <1>2, <1>5
<1> QED
  BY <1>2, <1>3, <1>4, <1>6

(* One element of the list is replaced: the length and the others stay.    *)
LEMMA ListUpdate ==
    ASSUME TypeOK, NEW k \in 1 .. Len(events), NEW v \in Pointers \cup {NULL},
           events' = [events EXCEPT ![k] = v]
    PROVE  /\ events' \in BoundedSeq(Pointers \cup {NULL}, MaxEvents)
           /\ Len(events') = Len(events) /\ DOMAIN events' = DOMAIN events
           /\ events'[k] = v
           /\ \A i \in DOMAIN events : i # k => events'[i] = events[i]
<1>1. events' \in [1 .. Len(events) -> Pointers \cup {NULL}]
  BY ListFacts
<1>2. Len(events') = Len(events)
  BY <1>1, ListFacts
<1>3. events' \in BoundedSeq(Pointers \cup {NULL}, MaxEvents)
  <2>1. Len(events') \in 0 .. MaxEvents /\ events' \in [1 .. Len(events') -> Pointers \cup {NULL}]
    BY <1>1, <1>2, ListFacts, MaxEventsAssumption
  <2> QED
    BY <2>1, ListShape
<1>4. DOMAIN events' = DOMAIN events
  BY <1>1, ListFacts
<1> QED
  BY <1>2, <1>3, <1>4, ListFacts

(* Steps that leave the list and the loop variables alone leave everything *)
(* said about them as it was.                                              *)
LEMMA SameList ==
    ASSUME UNCHANGED <<events, linked, loopVars>>
    PROVE  /\ FromLinker' = FromLinker /\ FoundIn(DOMAIN events)' = FoundIn(DOMAIN events)
           /\ ScanInv' = ScanInv /\ CompactInv' = CompactInv /\ FillInv' = FillInv
           /\ FixedUp' = FixedUp
BY DEF FromLinker, FoundIn, ScanInv, CompactInv, FillInv, FixedUp, StrictTo, Rest, Descending, loopVars

(* A thread that works on the list is the only one.                        *)
LEMMA Alone ==
    ASSUME ListIsPrivate, NEW t \in Threads, pc[t] \in ListSteps
    PROVE  busy /\ \A u \in Threads : u # t => pc[u] \notin ListSteps
BY DEF ListIsPrivate

(* The invariant holds at the start.                                       *)
LEMMA IndInit == Init => IndInv
<1> SUFFICES ASSUME Init PROVE IndInv
  OBVIOUS
<1>1. TypeOK
  <2>1. Len(events) \in 0 .. MaxEvents /\ events \in [1 .. Len(events) -> Pointers \cup {NULL}]
    BY ListShape DEF Init
  <2>2. ToSet(events) \subseteq Pointers \cup {NULL}
    BY <2>1 DEF ToSet
  <2>3. linked \subseteq Pointers
    BY <2>2 DEF Init
  <2>4. 1 \in 1 .. MaxEvents + 1
    BY MaxEventsAssumption
  <2> QED
    BY <2>3, <2>4 DEF Init, TypeOK
<1>2. ListIsPrivate
  BY DEF Init, ListIsPrivate, ListSteps, FixUpSteps
<1>3. LoopInv
  <2>1. DOMAIN events = 1 .. Len(events)
    BY <1>1, ListFacts
  <2>2. linked = ToSet(events) \ {NULL}
    BY DEF Init
  <2>3. FromLinker /\ FoundIn(DOMAIN events)
    BY <2>1, <2>2 DEF ToSet, FromLinker, FoundIn
  <2>4. \A t \in Threads : pc[t] = "idle"
    BY DEF Init
  <2> QED
    BY <2>3, <2>4 DEF LoopInv
<1>4. WalkInv
  <2>1. 1 <= Len(events) + 1
    BY <1>1, ListFacts
  <2>2. kernel = {} /\ \A t \in Threads : pc[t] = "idle" /\ pos[t] = 1 /\ result[t] = 0
    BY DEF Init
  <2> QED
    BY <2>1, <2>2 DEF WalkInv
<1> QED
  BY <1>1, <1>2, <1>3, <1>4 DEF IndInv

(* The steps that only take the flag or return without it.                 *)
LEMMA CallsPreserve ==
    ASSUME IndInv, NEW t \in Threads, Register(t) \/ Unregister(t) \/ ReturnSkipped(t)
    PROVE  IndInv'
<1> USE DEF IndInv
<1>1. UNCHANGED <<events, linked, state, kernel, loopVars, pos, result>>
  BY DEF Register, Unregister, ReturnSkipped, tracepointVars
<1>2. pc[t] \in {"idle", "skipped"} /\ pc' \in [Threads -> ListSteps \cup {"idle", "skipped"}]
  BY DEF TypeOK, Register, Unregister, ReturnSkipped, Goto, ListSteps, FixUpSteps
<1>3. \A u \in Threads : u # t => pc'[u] = pc[u]
  BY DEF TypeOK, Register, Unregister, ReturnSkipped, Goto
<1>4. pc'[t] \in ListSteps => ~busy /\ busy' /\ pc'[t] \in {"sort", "reg_each", "unreg_each"}
  BY <1>2 DEF TypeOK, Register, Unregister, ReturnSkipped, Goto, ListSteps, FixUpSteps
<1>5. pc'[t] = "sort" => events # <<>>
  BY <1>2, <1>4 DEF TypeOK, Register, Unregister, ReturnSkipped, Goto, ListSteps, FixUpSteps
<1>6. pc'[t] = "reg_each" => events = <<>>
  BY <1>2, <1>4 DEF TypeOK, Register, Unregister, ReturnSkipped, Goto, ListSteps, FixUpSteps
<1>7. TypeOK'
  BY <1>1, <1>2 DEF TypeOK, Register, Unregister, ReturnSkipped, loopVars, tracepointVars
<1>8. ListIsPrivate'
  <2>1. CASE pc'[t] \in ListSteps
    BY <1>3, <1>4, <2>1 DEF ListIsPrivate
  <2>2. CASE pc'[t] \notin ListSteps
    <3>1. busy => busy'
      BY DEF Register, Unregister, ReturnSkipped
    <3> QED
      BY <1>3, <2>2, <3>1 DEF ListIsPrivate
  <2> QED
    BY <2>1, <2>2
<1>9. LoopInv'
  <2>1. events = <<>> => FixedUp
    <3> SUFFICES ASSUME events = <<>> PROVE FixedUp
      OBVIOUS
    <3>1. Len(events) = 0 /\ DOMAIN events = 1 .. 0
      BY ListFacts
    <3>2. linked = {}
      BY <3>1 DEF LoopInv, FoundIn
    <3>3. 0 \in 0 .. Len(events) /\ 1 .. 0 = {} /\ \A i \in 0 + 1 .. Len(events) : FALSE
      BY <3>1
    <3>4. StrictTo(0) /\ {events[i] : i \in 1 .. 0} = {}
      BY <3>3 DEF StrictTo
    <3> QED
      BY <3>2, <3>3, <3>4 DEF FixedUp
  <2>2. LoopInv
    OBVIOUS
  <2> QED
    BY <1>1, <1>2, <1>3, <1>4, <1>5, <1>6, <2>1, <2>2, SameList DEF LoopInv, ListSteps, FixUpSteps
<1>10. WalkInv'
  <2>1. \A u \in Threads : pc[u] \in FixUpSteps => pc'[u] \in FixUpSteps
    BY <1>2, <1>3 DEF FixUpSteps
  <2>2. pos[t] = 1 /\ result[t] = 0
    BY <1>2 DEF WalkInv
  <2>3. FixedUp' = FixedUp
    BY <1>1, SameList
  <2>4. \A i \in 1 .. 0 : FALSE
    OBVIOUS
  <2> QED
    BY <1>1, <1>3, <2>1, <2>2, <2>3, <2>4 DEF WalkInv
<1> QED
  BY <1>7, <1>8, <1>9, <1>10

(* What the fix-up steps have in common: the thread in them is alone with  *)
(* the list, so only its own assertion about the list is left to show.     *)
LEMMA FixUpFrame ==
    ASSUME IndInv, NEW t \in Threads, Sort(t) \/ Scan(t) \/ Compact(t) \/ Fill(t),
           TypeOK', Len(events') = Len(events), FromLinker', FoundIn(DOMAIN events)',
           pc'[t] = "scan" => ScanInv', pc'[t] = "compact" => CompactInv',
           pc'[t] = "fill" => FillInv', pc'[t] = "reg_each" => FixedUp'
    PROVE  IndInv'
<1> USE DEF IndInv
<1>1. pc[t] \in FixUpSteps /\ UNCHANGED <<busy, tracepointVars, pos, result>>
  BY DEF Sort, Scan, Compact, Fill, FixUpSteps
<1>2. pc'[t] \in {"scan", "compact", "fill", "reg_each"} /\ \A u \in Threads : u # t => pc'[u] = pc[u]
  BY DEF Sort, Scan, Compact, Fill, Goto, TypeOK
<1>3. busy /\ \A u \in Threads : u # t => pc'[u] \notin ListSteps
  BY <1>1, <1>2, Alone DEF ListSteps
<1>4. ListIsPrivate'
  BY <1>1, <1>3 DEF ListIsPrivate
<1>5. LoopInv'
  BY <1>2, <1>3 DEF LoopInv, ListSteps, FixUpSteps
<1>6. WalkInv'
  <2>1. FixedUp' \/ pc'[t] \in FixUpSteps
    BY <1>2 DEF FixUpSteps
  <2>2. pos[t] = 1 /\ result[t] = 0
    BY <1>1 DEF WalkInv, FixUpSteps
  <2>3. \A u \in Threads : u # t => pc'[u] \notin {"reg_each", "unreg_each"}
    BY <1>3 DEF ListSteps
  <2>4. kernel' = kernel /\ linked' = linked /\ pos' = pos /\ result' = result
    BY <1>1 DEF tracepointVars
  <2>5. \A i \in 1 .. 0 : FALSE
    OBVIOUS
  <2>6. kernel' \subseteq linked' /\ (kernel' # {} => FixedUp' \/ \E u \in Threads : pc'[u] \in FixUpSteps)
    BY <2>1, <2>4 DEF WalkInv
  <2>7. ASSUME NEW u \in Threads
        PROVE  /\ pos'[u] <= Len(events') + 1
               /\ pc'[u] \notin {"reg_each", "unreg_each"} => pos'[u] = 1 /\ result'[u] = 0
    BY <1>2, <2>2, <2>4 DEF WalkInv
  <2>8. ASSUME NEW u \in Threads, pc'[u] \in {"reg_each", "unreg_each"}
        PROVE  pos'[u] = 1
    BY <2>2, <2>3, <2>4, <2>8
  <2> QED
    BY <2>5, <2>6, <2>7, <2>8 DEF WalkInv
<1> QED
  BY <1>4, <1>5, <1>6

(* The sort puts the same elements in descending order.                    *)
LEMMA SortPreserves ==
    ASSUME IndInv, NEW t \in Threads, Sort(t)
    PROVE  IndInv'
<1> USE DEF IndInv
<1>1. PICK f \in Bijection(DOMAIN events, DOMAIN events) :
        events' = [i \in DOMAIN events |-> events[f[i]]]
  BY DEF Sort, Reordered
<1>2. f \in [1 .. Len(events) -> 1 .. Len(events)] /\ \A j \in 1 .. Len(events) : \E i \in 1 .. Len(events) : f[i] = j
  BY ListFacts DEF Bijection, Surjection
<1>3. events' \in [1 .. Len(events) -> Pointers \cup {NULL}]
  BY <1>1, <1>2, ListFacts
<1>4. Len(events') = Len(events) /\ DOMAIN events' = 1 .. Len(events)
  BY <1>3, ListFacts
<1>5. UNCHANGED <<busy, tracepointVars, next_pos, pos, result>> /\ good_pos' = 1
      /\ pc[t] = "sort" /\ pc' = [pc EXCEPT ![t] = "scan"] /\ Descending(events)'
  BY DEF Sort, Goto
<1>6. TypeOK'
  <2>1. events' \in BoundedSeq(Pointers \cup {NULL}, MaxEvents)
    <3>1. Len(events') \in 0 .. MaxEvents /\ events' \in [1 .. Len(events') -> Pointers \cup {NULL}]
      BY <1>3, <1>4, ListFacts, MaxEventsAssumption
    <3> QED
      BY <3>1, ListShape
  <2>2. 1 \in 1 .. MaxEvents + 1
    BY MaxEventsAssumption
  <2> QED
    BY <1>5, <2>1, <2>2 DEF TypeOK, tracepointVars, ListSteps, FixUpSteps
<1>7. linked' = linked
  BY <1>5 DEF tracepointVars
<1>8. FromLinker'
  BY <1>1, <1>2, <1>4, <1>7, ListFacts DEF LoopInv, FromLinker
<1>9. FoundIn(DOMAIN events)'
  <2> SUFFICES ASSUME NEW p \in linked PROVE \E i \in DOMAIN events' : events'[i] = p
    BY <1>7 DEF FoundIn
  <2>1. PICK j \in DOMAIN events : events[j] = p
    BY DEF LoopInv, FoundIn
  <2>2. PICK i \in 1 .. Len(events) : f[i] = j
    BY <1>2, <2>1, ListFacts
  <2> QED
    BY <1>1, <1>4, <2>1, <2>2, ListFacts
<1>10. ScanInv'
  <2>1. Len(events) > 0
    <3>1. events # <<>>
      BY <1>5 DEF LoopInv
    <3>2. Len(events) = 0 => events = <<>>
      BY ListFacts
    <3> QED
      BY <3>1, <3>2, ListFacts
  <2>2. good_pos' \in 1 .. Len(events')
    BY <1>4, <1>5, <2>1, ListFacts
  <2>3. StrictTo(good_pos)'
    BY <1>5 DEF StrictTo
  <2> QED
    BY <1>5, <2>2, <2>3 DEF ScanInv
<1>11. pc'[t] = "scan"
  BY <1>5 DEF TypeOK
<1> QED
  BY <1>4, <1>6, <1>8, <1>9, <1>10, <1>11, FixUpFrame

(* The scan for the first pair of equal neighbours.                        *)
LEMMA ScanPreserves ==
    ASSUME IndInv, NEW t \in Threads, Scan(t)
    PROVE  IndInv'
<1> USE DEF IndInv
<1> DEFINE N == Len(events)
<1>1. pc[t] = "scan" /\ UNCHANGED <<busy, events, tracepointVars, pos, result>> /\ linked' = linked
  BY DEF Scan, tracepointVars
<1>2. ScanInv /\ N \in Nat /\ N <= MaxEvents /\ DOMAIN events = 1 .. N
      /\ good_pos \in Nat /\ 1 <= good_pos /\ good_pos <= N
  BY <1>1, ListFacts DEF LoopInv, ScanInv
<1>3. FromLinker' /\ FoundIn(DOMAIN events)' /\ Len(events') = Len(events)
  BY <1>1 DEF LoopInv, FromLinker, FoundIn
<1>4. \A i \in 1 .. N : events[i] \in Nat
  BY ListFacts
<1>5. CASE good_pos = N /\ next_pos' = good_pos + 1 /\ Goto(t, "fill") /\ UNCHANGED good_pos
  <2>1. TypeOK' /\ pc'[t] = "fill"
    BY <1>1, <1>2, <1>5, MaxEventsAssumption DEF TypeOK, tracepointVars, Goto, ListSteps, FixUpSteps, ScanInv
  <2>2. FillInv'
    <3>1. good_pos' \in 1 .. Len(events') /\ next_pos' \in good_pos' + 1 .. Len(events') + 1
      BY <1>1, <1>2, <1>5 DEF ScanInv
    <3>2. StrictTo(good_pos)'
      BY <1>1, <1>2, <1>5 DEF ScanInv, StrictTo
    <3>3. FoundIn(1 .. good_pos)'
      BY <1>1, <1>2, <1>3, <1>5 DEF FoundIn
    <3>4. \A i \in good_pos' + 1 .. next_pos' - 1 : FALSE
      BY <3>1, <1>5, <1>2
    <3> QED
      BY <3>1, <3>2, <3>3, <3>4 DEF FillInv
  <2> QED
    BY <1>3, <2>1, <2>2, FixUpFrame
<1>6. CASE good_pos # N /\ events[good_pos] = events[good_pos + 1] /\ next_pos' = good_pos + 2
           /\ Goto(t, "compact") /\ UNCHANGED good_pos
  <2>1. good_pos < N
    <3>1. good_pos # N
      BY <1>6
    <3>2. good_pos \in Nat /\ N \in Nat /\ good_pos <= N
      BY <1>2
    <3> QED
      BY <3>1, <3>2
  <2>2. next_pos' = good_pos + 2 /\ good_pos' = good_pos
    BY <1>6
  <2>3. next_pos' \in 1 .. MaxEvents + 1 /\ next_pos' \in good_pos + 1 .. N + 1
    BY <1>2, <2>1, <2>2, MaxEventsAssumption
  <2>4. TypeOK' /\ pc'[t] = "compact"
    BY <1>1, <1>6, <2>3 DEF TypeOK, tracepointVars, Goto, ListSteps, FixUpSteps
  <2>5. CompactInv'
    <3>1. good_pos' \in 1 .. Len(events') /\ next_pos' \in good_pos' + 1 .. Len(events') + 1
      BY <1>1, <1>2, <2>2, <2>3
    <3>2. StrictTo(good_pos)'
      BY <1>1, <1>2, <2>2 DEF ScanInv, StrictTo
    <3>3. \A i, j \in 1 .. N : i < j => events[i] >= events[j]
      BY <1>2 DEF ScanInv, Descending
    <3>4. Rest' = good_pos + 2 .. N
      BY <1>1, <2>2 DEF Rest
    <3>5. good_pos + 2 .. N \subseteq 1 .. N /\ good_pos \in 1 .. N /\ \A j \in good_pos + 2 .. N : good_pos < j
      BY <1>2
    <3>6. FoundIn({i \in DOMAIN events : i <= good_pos \/ i >= next_pos})'
      <4> SUFFICES ASSUME NEW p \in linked
                   PROVE  \E i \in 1 .. N : (i <= good_pos \/ i >= good_pos + 2) /\ events[i] = p
        BY <1>1, <1>2, <2>2 DEF FoundIn
      <4>1. PICK i \in 1 .. N : events[i] = p
        BY <1>2 DEF LoopInv, FoundIn
      <4>2. CASE i = good_pos + 1
        <5>1. events[good_pos] = p
          BY <4>1, <4>2, <1>6
        <5> QED
          BY <5>1, <3>5, <1>2
      <4>3. CASE i # good_pos + 1
        <5>1. i <= good_pos \/ i >= good_pos + 2
          BY <4>3, <1>2
        <5> QED
          BY <4>1, <5>1
      <4> QED
        BY <4>2, <4>3
    <3> QED
      BY <3>1, <3>2, <3>3, <3>4, <3>5, <3>6, <1>1, <2>2 DEF CompactInv
  <2> QED
    BY <1>3, <2>4, <2>5, FixUpFrame
<1>7. CASE good_pos # N /\ events[good_pos] # events[good_pos + 1] /\ good_pos' = good_pos + 1
           /\ UNCHANGED <<next_pos, pc>>
  <2>1. good_pos < N
    <3>1. good_pos # N
      BY <1>7
    <3>2. good_pos \in Nat /\ N \in Nat /\ good_pos <= N
      BY <1>2
    <3> QED
      BY <3>1, <3>2
  <2>2. good_pos' = good_pos + 1 /\ next_pos' = next_pos /\ pc' = pc
    BY <1>7
  <2>3. good_pos' \in 1 .. MaxEvents + 1 /\ good_pos' \in 1 .. N
    BY <1>2, <2>1, <2>2, MaxEventsAssumption
  <2>4. TypeOK' /\ pc'[t] = "scan"
    BY <1>1, <2>2, <2>3 DEF TypeOK, tracepointVars
  <2>5. StrictTo(good_pos)'
    <3> SUFFICES ASSUME NEW i \in 1 .. good_pos + 1, NEW j \in 1 .. good_pos + 1, i < j
                 PROVE  events[i] > events[j]
      BY <1>1, <2>2 DEF StrictTo
    <3>1. i \in 1 .. good_pos /\ i \in 1 .. N /\ j \in 1 .. N /\ good_pos \in 1 .. N
          /\ good_pos + 1 \in 1 .. N /\ good_pos < good_pos + 1
      BY <1>2, <2>1
    <3>2. events[i] \in Nat /\ events[j] \in Nat /\ events[good_pos] \in Nat
          /\ events[good_pos + 1] \in Nat
      BY <3>1, <1>4
    <3>3. \A k, l \in 1 .. N : k < l => events[k] >= events[l]
      BY <1>2 DEF ScanInv, Descending
    <3>4. events[good_pos] > events[good_pos + 1]
      <4>1. events[good_pos] # events[good_pos + 1]
        BY <1>7
      <4>2. events[good_pos] >= events[good_pos + 1]
        BY <3>1, <3>3
      <4> QED
        BY <3>2, <4>1, <4>2
    <3>5. CASE j = good_pos + 1
      <4>1. i < good_pos => events[i] >= events[good_pos]
        BY <3>1, <3>3
      <4>2. i = good_pos => events[i] = events[good_pos]
        OBVIOUS
      <4>3. i < good_pos \/ i = good_pos
        BY <3>1
      <4>4. events[j] = events[good_pos + 1]
        BY <3>5
      <4> QED
        BY <3>2, <3>4, <4>1, <4>2, <4>3, <4>4
    <3>6. CASE j # good_pos + 1
      <4>1. j \in 1 .. good_pos
        BY <3>1, <3>6, <1>2
      <4> QED
        BY <3>1, <4>1, <1>2 DEF ScanInv, StrictTo
    <3> QED
      BY <3>5, <3>6
  <2>6. ScanInv'
    BY <1>1, <1>2, <2>3, <2>5 DEF ScanInv, Descending
  <2> QED
    BY <1>3, <2>4, <2>6, FixUpFrame
<1> QED
  BY <1>5, <1>6, <1>7 DEF Scan

(* The inner loop: what is dropped is a copy of an element that is kept.   *)
LEMMA CompactPreserves ==
    ASSUME IndInv, NEW t \in Threads, Compact(t)
    PROVE  IndInv'
<1> USE DEF IndInv
<1> DEFINE N == Len(events)
<1>1. pc[t] = "compact" /\ UNCHANGED <<busy, tracepointVars, pos, result>> /\ linked' = linked
  BY DEF Compact, tracepointVars
<1>2. CompactInv /\ DOMAIN events = 1 .. N
  BY <1>1, ListFacts DEF LoopInv
<1>3. /\ N \in Nat /\ N <= MaxEvents /\ good_pos \in Nat /\ next_pos \in Nat
      /\ 1 <= good_pos /\ good_pos < next_pos /\ next_pos <= N + 1
  BY <1>2, ListFacts DEF CompactInv
<1>4. \A i \in 1 .. N : events[i] \in Nat /\ events[i] \in Pointers \cup {NULL}
  BY ListFacts
<1>5. FromLinker /\ FoundIn(DOMAIN events)
  BY DEF LoopInv
<1>6. StrictTo(good_pos) /\ FoundIn({i \in DOMAIN events : i <= good_pos \/ i >= next_pos})
  BY <1>2 DEF CompactInv
<1>7. CASE next_pos = N + 1 /\ next_pos' = good_pos + 1 /\ Goto(t, "fill") /\ UNCHANGED <<events, good_pos>>
  <2>1. next_pos' \in 1 .. MaxEvents + 1 /\ good_pos' \in 1 .. Len(events')
        /\ next_pos' \in good_pos' + 1 .. Len(events') + 1
    BY <1>3, <1>7, MaxEventsAssumption
  <2>2. TypeOK' /\ pc'[t] = "fill"
    BY <1>1, <1>7, <2>1 DEF TypeOK, tracepointVars, Goto, ListSteps, FixUpSteps
  <2>3. FillInv'
    <3>1. {i \in DOMAIN events : i <= good_pos \/ i >= next_pos} = 1 .. good_pos
      BY <1>2, <1>3, <1>7
    <3>2. FoundIn(1 .. good_pos)' /\ StrictTo(good_pos)'
      BY <1>1, <1>6, <1>7, <3>1 DEF FoundIn, StrictTo
    <3>3. \A i \in good_pos' + 1 .. next_pos' - 1 : FALSE
      BY <1>3, <1>7
    <3> QED
      BY <2>1, <3>2, <3>3 DEF FillInv
  <2>4. FromLinker' /\ FoundIn(DOMAIN events)' /\ Len(events') = Len(events)
    BY <1>1, <1>5, <1>7 DEF FromLinker, FoundIn
  <2> QED
    BY <2>2, <2>3, <2>4, FixUpFrame
<1>8. CASE /\ next_pos # N + 1 /\ events[good_pos] = events[next_pos]
           /\ UNCHANGED <<good_pos, events>> /\ next_pos' = next_pos + 1 /\ UNCHANGED pc
  <2>1. next_pos <= N
    <3>1. next_pos # N + 1
      BY <1>8
    <3> QED
      BY <1>3, <3>1
  <2>2. next_pos' = next_pos + 1 /\ good_pos' = good_pos /\ events' = events /\ pc' = pc
    BY <1>8
  <2>3. next_pos' \in 1 .. MaxEvents + 1 /\ good_pos' \in 1 .. Len(events')
        /\ next_pos' \in good_pos' + 1 .. Len(events') + 1
    BY <1>3, <2>1, <2>2, MaxEventsAssumption
  <2>4. TypeOK' /\ pc'[t] = "compact"
    BY <1>1, <2>2, <2>3 DEF TypeOK, tracepointVars
  <2>5. FoundIn({i \in DOMAIN events : i <= good_pos \/ i >= next_pos})'
    <3> SUFFICES ASSUME NEW p \in linked
                 PROVE  \E i \in 1 .. N : (i <= good_pos \/ i >= next_pos + 1) /\ events[i] = p
      BY <1>1, <1>2, <2>2 DEF FoundIn
    <3>1. PICK i \in 1 .. N : (i <= good_pos \/ i >= next_pos) /\ events[i] = p
      BY <1>2, <1>6 DEF FoundIn
    <3>2. CASE i = next_pos
      <4>1. events[good_pos] = p
        BY <1>8, <3>1, <3>2
      <4>2. good_pos \in 1 .. N
        BY <1>3, <2>1
      <4> QED
        BY <4>1, <4>2, <1>3
    <3>3. CASE i # next_pos
      <4>1. i <= good_pos \/ i >= next_pos + 1
        BY <1>3, <3>1, <3>3
      <4> QED
        BY <3>1, <4>1
    <3> QED
      BY <3>2, <3>3
  <2>6. Rest' \subseteq Rest
    BY <1>3, <2>1, <2>2 DEF Rest
  <2>7. CompactInv'
    BY <1>2, <2>2, <2>3, <2>5, <2>6 DEF CompactInv, StrictTo
  <2>8. FromLinker' /\ FoundIn(DOMAIN events)' /\ Len(events') = Len(events)
    BY <1>1, <1>5, <2>2 DEF FromLinker, FoundIn
  <2> QED
    BY <2>4, <2>7, <2>8, FixUpFrame
<1>9. CASE /\ next_pos # N + 1 /\ events[good_pos] # events[next_pos] /\ good_pos' = good_pos + 1
           /\ events' = [events EXCEPT ![good_pos + 1] = events[next_pos]]
           /\ next_pos' = next_pos + 1 /\ UNCHANGED pc
  <2>1. next_pos <= N
    <3>1. next_pos # N + 1
      BY <1>9
    <3> QED
      BY <1>3, <3>1
  <2>2. next_pos' = next_pos + 1 /\ good_pos' = good_pos + 1 /\ pc' = pc
    BY <1>9
  <2>3. good_pos \in 1 .. N /\ next_pos \in 1 .. N /\ good_pos + 1 \in 1 .. N
    BY <1>3, <2>1
  <2>4. /\ events' \in BoundedSeq(Pointers \cup {NULL}, MaxEvents)
        /\ Len(events') = N /\ DOMAIN events' = 1 .. N
        /\ events'[good_pos + 1] = events[next_pos]
        /\ \A i \in 1 .. N : i # good_pos + 1 => events'[i] = events[i]
    <3>1. events[next_pos] \in Pointers \cup {NULL}
      BY <1>4, <2>3
    <3>2. events' = [events EXCEPT ![good_pos + 1] = events[next_pos]]
      BY <1>9
    <3> QED
      BY <1>2, <2>3, <3>1, <3>2, ListUpdate
  <2>5. good_pos' \in 1 .. Len(events') /\ next_pos' \in good_pos' + 1 .. Len(events') + 1
        /\ next_pos' \in 1 .. MaxEvents + 1 /\ good_pos' \in 1 .. MaxEvents + 1
    BY <1>3, <2>1, <2>2, <2>4, MaxEventsAssumption
  <2>6. TypeOK' /\ pc'[t] = "compact"
    BY <1>1, <2>2, <2>4, <2>5 DEF TypeOK, tracepointVars
  <2>7. \A i \in 1 .. good_pos : events'[i] = events[i]
    BY <1>3, <2>1, <2>4
  <2>8. \A i \in next_pos .. N : events'[i] = events[i]
    <3> SUFFICES ASSUME NEW i \in next_pos .. N PROVE events'[i] = events[i]
      OBVIOUS
    <3>1. i \in 1 .. N
      BY <1>3
    <3>2. CASE i = good_pos + 1
      <4>1. i = next_pos
        BY <1>3, <3>2
      <4> QED
        BY <2>4, <3>2, <4>1
    <3>3. CASE i # good_pos + 1
      BY <2>4, <3>1, <3>3
    <3> QED
      BY <3>2, <3>3
  <2>9. events[good_pos] > events[next_pos]
    <3>1. events[good_pos] \in Nat /\ events[next_pos] \in Nat
      BY <1>4, <2>3
    <3>2. events[good_pos] # events[next_pos]
      BY <1>9
    <3>3. next_pos \in Rest
      BY <1>3, <2>1 DEF Rest
    <3>4. events[good_pos] >= events[next_pos]
      BY <1>2, <3>3 DEF CompactInv
    <3> QED
      BY <3>1, <3>2, <3>4
  <2>10. StrictTo(good_pos)'
    <3> SUFFICES ASSUME NEW i \in 1 .. good_pos + 1, NEW j \in 1 .. good_pos + 1, i < j
                 PROVE  events'[i] > events'[j]
      BY <2>2 DEF StrictTo
    <3>1. i \in 1 .. good_pos /\ events'[i] = events[i] /\ events[i] \in Nat
      BY <1>3, <1>4, <2>1, <2>7
    <3>2. CASE j = good_pos + 1
      <4>1. events'[j] = events[next_pos] /\ events[next_pos] \in Nat /\ events[good_pos] \in Nat
        BY <1>4, <2>3, <2>4, <3>2
      <4>2. i # good_pos => events[i] > events[good_pos]
        <5> SUFFICES ASSUME i # good_pos PROVE events[i] > events[good_pos]
          OBVIOUS
        <5>1. i < good_pos /\ good_pos \in 1 .. good_pos
          BY <1>3, <3>1
        <5> QED
          BY <1>6, <3>1, <5>1 DEF StrictTo
      <4>3. i = good_pos => events[i] = events[good_pos]
        OBVIOUS
      <4> QED
        BY <2>9, <3>1, <4>1, <4>2, <4>3
    <3>3. CASE j # good_pos + 1
      <4>1. j \in 1 .. good_pos
        BY <1>3, <3>3
      <4>2. events'[j] = events[j]
        BY <2>7, <4>1
      <4> QED
        BY <1>6, <3>1, <4>1, <4>2 DEF StrictTo
    <3> QED
      BY <3>2, <3>3
  <2>11. Rest' \subseteq Rest /\ Rest \subseteq 1 .. N /\ next_pos \in Rest /\ \A j \in Rest' : next_pos < j
    BY <1>3, <2>1, <2>2, <2>4 DEF Rest
  <2>12. \A j \in Rest : events'[j] = events[j]
    BY <2>8 DEF Rest
  <2>13. \A i, j \in Rest' : i < j => events'[i] >= events'[j]
    BY <1>2, <2>11, <2>12 DEF CompactInv
  <2>14. \A j \in Rest' : events'[good_pos'] >= events'[j]
    <3>1. \A i, j \in Rest : i < j => events[i] >= events[j]
      BY <1>2 DEF CompactInv
    <3>2. \A j \in Rest' : events[next_pos] >= events[j]
      BY <2>11, <3>1
    <3> QED
      BY <2>2, <2>4, <2>11, <2>12, <3>2
  <2>15. FoundIn({i \in DOMAIN events : i <= good_pos \/ i >= next_pos})'
    <3> SUFFICES ASSUME NEW p \in linked
                 PROVE  \E i \in 1 .. N : (i <= good_pos + 1 \/ i >= next_pos + 1) /\ events'[i] = p
      BY <1>1, <2>2, <2>4 DEF FoundIn
    <3>1. PICK i \in 1 .. N : (i <= good_pos \/ i >= next_pos) /\ events[i] = p
      BY <1>2, <1>6 DEF FoundIn
    <3>2. CASE i = next_pos
      <4>1. events'[good_pos + 1] = p
        BY <2>4, <3>1, <3>2
      <4> QED
        BY <1>3, <2>3, <4>1
    <3>3. CASE i # next_pos
      <4>1. i <= good_pos + 1 \/ i >= next_pos + 1
        BY <1>3, <3>1, <3>3
      <4>2. i \in 1 .. good_pos \/ i \in next_pos .. N
        BY <1>3, <3>1
      <4>3. events'[i] = p
        BY <2>7, <2>8, <3>1, <4>2
      <4> QED
        BY <4>1, <4>3
    <3> QED
      BY <3>2, <3>3
  <2>16. CompactInv'
    BY <2>5, <2>10, <2>13, <2>14, <2>15 DEF CompactInv
  <2>17. FromLinker'
    <3> SUFFICES ASSUME NEW i \in 1 .. N PROVE events'[i] = NULL \/ events'[i] \in linked
      BY <1>1, <2>4 DEF FromLinker
    <3>1. \A j \in 1 .. N : events[j] = NULL \/ events[j] \in linked
      BY <1>2, <1>5 DEF FromLinker
    <3> QED
      BY <2>3, <2>4, <3>1
  <2>18. FoundIn(DOMAIN events)'
    BY <2>15 DEF FoundIn
  <2> QED
    BY <2>4, <2>6, <2>16, <2>17, <2>18, FixUpFrame
<1> QED
  BY <1>7, <1>8, <1>9 DEF Compact

(* The filling with NULL; at its end the list is fixed up.                 *)
LEMMA FillPreserves ==
    ASSUME IndInv, NEW t \in Threads, Fill(t)
    PROVE  IndInv'
<1> USE DEF IndInv
<1> DEFINE N == Len(events)
<1>1. pc[t] = "fill" /\ UNCHANGED <<busy, tracepointVars, good_pos, pos, result>>
      /\ linked' = linked /\ good_pos' = good_pos
  BY DEF Fill, tracepointVars
<1>2. FillInv /\ DOMAIN events = 1 .. N
  BY <1>1, ListFacts DEF LoopInv
<1>3. /\ N \in Nat /\ N <= MaxEvents /\ good_pos \in Nat /\ next_pos \in Nat
      /\ 1 <= good_pos /\ good_pos < next_pos /\ next_pos <= N + 1
  BY <1>2, ListFacts DEF FillInv
<1>4. FromLinker /\ FoundIn(DOMAIN events)
  BY DEF LoopInv
<1>5. CASE next_pos = N + 1 /\ Goto(t, "reg_each") /\ UNCHANGED <<events, next_pos>>
  <2>1. TypeOK' /\ pc'[t] = "reg_each"
    BY <1>1, <1>5 DEF TypeOK, tracepointVars, Goto, ListSteps, FixUpSteps
  <2>2. FixedUp
    <3>1. good_pos <= N /\ good_pos \in 1 .. N
      BY <1>2 DEF FillInv
    <3>2. \A i \in good_pos + 1 .. N : events[i] = NULL
      BY <1>2, <1>3, <1>5 DEF FillInv
    <3>3. \A p \in linked : \E i \in 1 .. good_pos : events[i] = p
      BY <1>2 DEF FillInv, FoundIn
    <3>4. \A i \in 1 .. N : events[i] = NULL \/ events[i] \in linked
      BY <1>2, <1>4 DEF FromLinker
    <3>5. \A p \in linked : p # NULL
      BY PointersAssumption DEF TypeOK
    <3>6. \A i, j \in 1 .. good_pos : i < j => events[i] > events[j]
      BY <1>2 DEF FillInv, StrictTo
    <3>7. CASE events[good_pos] = NULL
      <4>1. good_pos - 1 \in 0 .. N /\ 1 .. good_pos - 1 \subseteq 1 .. good_pos /\ 1 .. good_pos \subseteq 1 .. N
        BY <1>3, <3>1
      <4>2. StrictTo(good_pos - 1)
        BY <3>6, <4>1 DEF StrictTo
      <4>3. \A i \in 1 .. good_pos - 1 : events[i] \in linked
        <5> SUFFICES ASSUME NEW i \in 1 .. good_pos - 1 PROVE events[i] # NULL
          BY <3>4, <4>1
        <5>1. i \in 1 .. good_pos /\ i < good_pos /\ good_pos \in 1 .. good_pos
          BY <1>3
        <5>2. events[i] > events[good_pos]
          BY <3>6, <5>1
        <5> QED
          BY <3>7, <5>2 DEF NULL
      <4>4. \A p \in linked : \E i \in 1 .. good_pos - 1 : events[i] = p
        <5> SUFFICES ASSUME NEW p \in linked PROVE \E i \in 1 .. good_pos - 1 : events[i] = p
          OBVIOUS
        <5>1. PICK i \in 1 .. good_pos : events[i] = p
          BY <3>3
        <5>2. i # good_pos
          BY <3>5, <3>7, <5>1
        <5>3. i \in 1 .. good_pos - 1
          BY <1>3, <5>2
        <5> QED
          BY <5>1, <5>3
      <4>5. linked = {events[i] : i \in 1 .. good_pos - 1}
        BY <4>3, <4>4
      <4>6. \A i \in (good_pos - 1) + 1 .. N : events[i] = NULL
        <5> SUFFICES ASSUME NEW i \in (good_pos - 1) + 1 .. N PROVE events[i] = NULL
          OBVIOUS
        <5>1. i = good_pos \/ i \in good_pos + 1 .. N
          BY <1>3
        <5> QED
          BY <3>2, <3>7, <5>1
      <4> QED
        BY <4>1, <4>2, <4>5, <4>6 DEF FixedUp
    <3>8. CASE events[good_pos] # NULL
      <4>1. good_pos \in 0 .. N /\ 1 .. good_pos \subseteq 1 .. N
        BY <1>3, <3>1
      <4>2. events[good_pos] \in Nat /\ \A i \in 1 .. good_pos : events[i] \in Nat
        BY <3>1, <4>1, ListFacts
      <4>3. \A i \in 1 .. good_pos : events[i] \in linked
        <5> SUFFICES ASSUME NEW i \in 1 .. good_pos PROVE events[i] # NULL
          BY <3>4, <4>1
        <5>1. i = good_pos \/ i < good_pos
          BY <1>3
        <5>2. good_pos \in 1 .. good_pos
          BY <1>3
        <5>3. i < good_pos => events[i] > events[good_pos]
          BY <3>6, <5>2
        <5> QED
          BY <3>8, <4>2, <5>1, <5>3 DEF NULL
      <4>4. linked = {events[i] : i \in 1 .. good_pos}
        BY <3>3, <4>3
      <4> QED
        BY <3>2, <3>6, <4>1, <4>4 DEF FixedUp, StrictTo
    <3> QED
      BY <3>7, <3>8
  <2>3. FixedUp' /\ FromLinker' /\ FoundIn(DOMAIN events)' /\ Len(events') = Len(events)
    BY <1>1, <1>4, <1>5, <2>2 DEF FixedUp, StrictTo, FromLinker, FoundIn
  <2> QED
    BY <2>1, <2>3, FixUpFrame
<1>6. CASE /\ next_pos # N + 1 /\ events' = [events EXCEPT ![next_pos] = NULL]
           /\ next_pos' = next_pos + 1 /\ UNCHANGED pc
  <2>1. next_pos <= N
    <3>1. next_pos # N + 1
      BY <1>6
    <3> QED
      BY <1>3, <3>1
  <2>2. next_pos' = next_pos + 1 /\ pc' = pc
    BY <1>6
  <2>3. next_pos \in 1 .. N
    BY <1>3, <2>1
  <2>4. /\ events' \in BoundedSeq(Pointers \cup {NULL}, MaxEvents)
        /\ Len(events') = N /\ DOMAIN events' = 1 .. N
        /\ events'[next_pos] = NULL
        /\ \A i \in 1 .. N : i # next_pos => events'[i] = events[i]
    <3>1. events' = [events EXCEPT ![next_pos] = NULL]
      BY <1>6
    <3> QED
      BY <1>2, <2>3, <3>1, ListUpdate
  <2>5. good_pos' \in 1 .. Len(events') /\ next_pos' \in good_pos' + 1 .. Len(events') + 1
        /\ next_pos' \in 1 .. MaxEvents + 1
    BY <1>1, <1>3, <2>1, <2>2, <2>4, MaxEventsAssumption
  <2>6. TypeOK' /\ pc'[t] = "fill"
    BY <1>1, <2>2, <2>4, <2>5 DEF TypeOK, tracepointVars
  <2>7. \A i \in 1 .. next_pos - 1 : i \in 1 .. N /\ events'[i] = events[i]
    BY <1>3, <2>1, <2>4
  <2>8. 1 .. good_pos \subseteq 1 .. next_pos - 1
    BY <1>3
  <2>9. StrictTo(good_pos)' /\ FoundIn(1 .. good_pos)'
    <3>1. StrictTo(good_pos)'
      BY <1>1, <1>2, <2>7, <2>8 DEF FillInv, StrictTo
    <3>2. FoundIn(1 .. good_pos)'
      BY <1>1, <1>2, <2>7, <2>8 DEF FillInv, FoundIn
    <3> QED
      BY <3>1, <3>2
  <2>10. \A i \in good_pos' + 1 .. next_pos' - 1 : events'[i] = NULL
    <3> SUFFICES ASSUME NEW i \in good_pos + 1 .. (next_pos + 1) - 1 PROVE events'[i] = NULL
      BY <1>1, <2>2
    <3>1. i = next_pos \/ (i \in good_pos + 1 .. next_pos - 1 /\ i \in 1 .. next_pos - 1)
      BY <1>3
    <3> QED
      BY <1>2, <2>4, <2>7, <3>1 DEF FillInv
  <2>11. FillInv'
    BY <2>5, <2>9, <2>10 DEF FillInv
  <2>12. FromLinker'
    BY <1>1, <1>2, <1>4, <2>4 DEF FromLinker
  <2>13. FoundIn(DOMAIN events)'
    <3>1. 1 .. good_pos \subseteq 1 .. N
      BY <1>3, <2>1
    <3> QED
      BY <1>1, <2>4, <2>9, <3>1 DEF FoundIn
  <2> QED
    BY <2>4, <2>6, <2>11, <2>12, <2>13, FixUpFrame
<1> QED
  BY <1>5, <1>6 DEF Fill

(* The two walks have the list to themselves and leave it as it is; what   *)
(* is left to show of a step of theirs is about the position, the result   *)
(* and the kernel.                                                         *)
LEMMA WalkFrame ==
    ASSUME IndInv, NEW t \in Threads, pc[t] \in {"reg_each", "unreg_each"},
           TypeOK', UNCHANGED <<events, linked, loopVars>>,
           pc' = [pc EXCEPT ![t] = pc'[t]], pc'[t] \in {pc[t], "idle"},
           pc'[t] = pc[t] => busy' = busy,
           \A u \in Threads : u # t => pos'[u] = pos[u] /\ result'[u] = result[u],
           kernel' \subseteq linked, kernel' # {} => FixedUp,
           pos'[t] <= Len(events) + 1,
           pc'[t] = "idle" => pos'[t] = 1 /\ result'[t] = 0,
           pc'[t] = "reg_each" /\ result'[t] = 0 =>
               \A i \in 1 .. pos'[t] - 1 : events[i] \in kernel',
           pc'[t] = "unreg_each" /\ result'[t] = 0 =>
               \A i \in 1 .. pos'[t] - 1 : events[i] \notin kernel'
    PROVE  IndInv'
<1> USE DEF IndInv
<1>1. busy /\ \A u \in Threads : u # t => pc'[u] = pc[u] /\ pc'[u] \notin ListSteps
  BY Alone DEF TypeOK, ListSteps
<1>2. ListIsPrivate'
  BY <1>1 DEF ListIsPrivate, ListSteps, FixUpSteps
<1>3. LoopInv'
  BY <1>1, SameList DEF LoopInv, ListSteps, FixUpSteps
<1>4. WalkInv'
  <2>1. FixedUp' = FixedUp /\ events' = events /\ linked' = linked
    BY SameList
  <2>2. ASSUME NEW u \in Threads, u # t
        PROVE  pos'[u] <= Len(events') + 1 /\ pc'[u] \notin {"reg_each", "unreg_each"}
               /\ pos'[u] = 1 /\ result'[u] = 0
    BY <1>1, <2>1, <2>2 DEF WalkInv, ListSteps
  <2> QED
    BY <2>1, <2>2 DEF WalkInv
<1> QED
  BY <1>2, <1>3, <1>4

(* The end of a walk, of either kind.                                      *)
LEMMA FinishPreserves ==
    ASSUME IndInv, NEW t \in Threads, pc[t] \in {"reg_each", "unreg_each"},
           Finish(t), UNCHANGED tracepointVars, UNCHANGED <<events, loopVars>>
    PROVE  IndInv'
<1> USE DEF IndInv
<1>1. 1 \in 1 .. MaxEvents + 1 /\ 1 <= Len(events) + 1
  BY MaxEventsAssumption, ListFacts
<1>2. TypeOK'
  BY <1>1 DEF TypeOK, Finish, Goto, tracepointVars, loopVars
<1>3. kernel # {} => FixedUp
  BY Alone DEF WalkInv, ListSteps, FixUpSteps
<1>4. pc'[t] = "idle" /\ pc' = [pc EXCEPT ![t] = "idle"] /\ pos'[t] = 1 /\ result'[t] = 0
      /\ \A u \in Threads : u # t => pos'[u] = pos[u] /\ result'[u] = result[u]
  BY DEF Finish, Goto, TypeOK
<1>5. kernel' = kernel /\ linked' = linked /\ kernel \subseteq linked
  BY DEF tracepointVars, WalkInv
<1> QED
  BY <1>1, <1>2, <1>3, <1>4, <1>5, WalkFrame

(* A walk that is not at its end stands on a tracepoint of the linker's.   *)
LEMMA AtTracepoint ==
    ASSUME IndInv, NEW t \in Threads, ~AtEnd(t)
    PROVE  /\ pos[t] \in 1 .. Len(events) /\ pos[t] + 1 \in 1 .. MaxEvents + 1
           /\ pos[t] + 1 <= Len(events) + 1
           /\ events[pos[t]] \in linked /\ events[pos[t]] \in Pointers
<1> USE DEF IndInv
<1>1. pos[t] <= Len(events) /\ events[pos[t]] # NULL
  BY DEF AtEnd
<1>2. pos[t] \in Nat /\ 1 <= pos[t] /\ Len(events) \in Nat /\ Len(events) <= MaxEvents
  BY ListFacts DEF TypeOK
<1>3. pos[t] \in 1 .. Len(events) /\ pos[t] + 1 \in 1 .. MaxEvents + 1
      /\ pos[t] + 1 <= Len(events) + 1
  BY <1>1, <1>2, MaxEventsAssumption
<1>4. events[pos[t]] \in linked
  BY <1>1, <1>3, ListFacts DEF LoopInv, FromLinker
<1> QED
  BY <1>3, <1>4 DEF TypeOK

(* One iteration of register's walk.                                       *)
LEMMA RegisterEachPreserves ==
    ASSUME IndInv, NEW t \in Threads, RegisterEach(t)
    PROVE  IndInv'
<1> USE DEF IndInv
<1>1. pc[t] = "reg_each" /\ UNCHANGED <<events, loopVars>>
  BY DEF RegisterEach
<1>2. CASE AtEnd(t) /\ Finish(t) /\ UNCHANGED tracepointVars
  BY <1>1, <1>2, FinishPreserves
<1>3. CASE ~AtEnd(t) /\ RegisterOne(t, events[pos[t]]) /\ UNCHANGED <<busy, linked, misused>>
  <2> DEFINE p == events[pos[t]]
  <2>1. /\ pos[t] \in 1 .. Len(events) /\ pos[t] + 1 \in 1 .. MaxEvents + 1
        /\ pos[t] + 1 <= Len(events) + 1 /\ p \in linked /\ p \in Pointers
    BY <1>3, AtTracepoint
  <2>2. FixedUp /\ kernel \subseteq linked
    BY <1>1 DEF LoopInv, WalkInv
  <2>3. linked' = linked /\ busy' = busy /\ misused' = misused
    BY <1>3
  <2>4. CASE /\ state' = [state EXCEPT ![p] = "registered"] /\ kernel' = kernel \cup {p}
             /\ pos' = [pos EXCEPT ![t] = @ + 1] /\ UNCHANGED <<panicked, pc, result>>
    <3>1. TypeOK'
      BY <1>1, <2>1, <2>3, <2>4 DEF TypeOK, loopVars
    <3>2. pos'[t] = pos[t] + 1 /\ \A u \in Threads : u # t => pos'[u] = pos[u]
      BY <2>4 DEF TypeOK
    <3>3. ASSUME result[t] = 0, NEW i \in 1 .. (pos[t] + 1) - 1 PROVE events[i] \in kernel'
      <4>1. i \in 1 .. pos[t] - 1 \/ i = pos[t]
        BY <2>1
      <4> QED
        BY <1>1, <2>4, <3>3, <4>1 DEF WalkInv
    <3>4. pc' = pc /\ result' = result /\ kernel' \subseteq linked /\ pc' = [pc EXCEPT ![t] = pc'[t]]
      BY <2>1, <2>2, <2>4 DEF TypeOK
    <3> QED
      BY <1>1, <2>1, <2>2, <2>3, <3>1, <3>2, <3>3, <3>4, WalkFrame
  <2>5. CASE /\ \E e \in Errnos : KeepFirst(t, e)
             /\ pos' = [pos EXCEPT ![t] = @ + 1] /\ UNCHANGED <<state, kernel, panicked, pc>>
    <3>1. PICK e \in Errnos : KeepFirst(t, e)
      BY <2>5
    <3>2. e \in Nat /\ e # 0
      BY ErrnosAssumption
    <3>3. result' \in [Threads -> Nat] /\ result'[t] # 0 /\ \A u \in Threads : u # t => result'[u] = result[u]
      BY <3>1, <3>2 DEF KeepFirst, TypeOK
    <3>4. TypeOK'
      BY <1>1, <2>1, <2>3, <2>5, <3>3 DEF TypeOK, loopVars
    <3>5. pos'[t] = pos[t] + 1 /\ \A u \in Threads : u # t => pos'[u] = pos[u]
      BY <2>5 DEF TypeOK
    <3>6. pc' = pc /\ kernel' = kernel /\ pc' = [pc EXCEPT ![t] = pc'[t]]
      BY <2>5 DEF TypeOK
    <3> QED
      BY <1>1, <2>1, <2>2, <2>3, <3>3, <3>4, <3>5, <3>6, WalkFrame
  <2>6. CASE /\ state' = [state EXCEPT ![p] = "busy"] /\ panicked' = TRUE /\ Goto(t, "idle")
             /\ pos' = [pos EXCEPT ![t] = 1] /\ result' = [result EXCEPT ![t] = 0] /\ UNCHANGED kernel
    <3>1. 1 \in 1 .. MaxEvents + 1 /\ 1 <= Len(events) + 1
      BY MaxEventsAssumption, ListFacts
    <3>2. TypeOK'
      BY <1>1, <2>1, <2>3, <2>6, <3>1 DEF TypeOK, loopVars, Goto
    <3>3. pc'[t] = "idle" /\ pc' = [pc EXCEPT ![t] = "idle"] /\ pos'[t] = 1 /\ result'[t] = 0
          /\ \A u \in Threads : u # t => pos'[u] = pos[u] /\ result'[u] = result[u]
      BY <2>6 DEF TypeOK, Goto
    <3>4. kernel' = kernel
      BY <2>6
    <3> QED
      BY <1>1, <2>2, <2>3, <3>1, <3>2, <3>3, <3>4, WalkFrame
  <2> QED
    BY <1>3, <2>4, <2>5, <2>6 DEF RegisterOne
<1> QED
  BY <1>2, <1>3 DEF RegisterEach

(* One iteration of unregister's walk.                                     *)
LEMMA UnregisterEachPreserves ==
    ASSUME IndInv, NEW t \in Threads, UnregisterEach(t)
    PROVE  IndInv'
<1> USE DEF IndInv
<1>1. pc[t] = "unreg_each" /\ UNCHANGED <<events, loopVars>>
  BY DEF UnregisterEach
<1>2. CASE AtEnd(t) /\ Finish(t) /\ UNCHANGED tracepointVars
  BY <1>1, <1>2, FinishPreserves
<1>3. CASE /\ ~AtEnd(t) /\ UnregisterOne(t, events[pos[t]]) /\ pos' = [pos EXCEPT ![t] = @ + 1]
           /\ UNCHANGED <<busy, linked, panicked, misused, pc>>
  <2> DEFINE p == events[pos[t]]
  <2>1. /\ pos[t] \in 1 .. Len(events) /\ pos[t] + 1 \in 1 .. MaxEvents + 1
        /\ pos[t] + 1 <= Len(events) + 1 /\ p \in Pointers
    BY <1>3, AtTracepoint
  <2>2. kernel \subseteq linked /\ (kernel # {} => FixedUp)
    BY <1>1, Alone DEF WalkInv, ListSteps, FixUpSteps
  <2>3. pos'[t] = pos[t] + 1 /\ (\A u \in Threads : u # t => pos'[u] = pos[u])
        /\ pc' = pc /\ pc' = [pc EXCEPT ![t] = pc'[t]] /\ linked' = linked /\ busy' = busy
    BY <1>3 DEF TypeOK
  <2>4. ASSUME NEW e \in Nat \ {0}, KeepFirst(t, e)
        PROVE  result' \in [Threads -> Nat] /\ result'[t] # 0 /\ \A u \in Threads : u # t => result'[u] = result[u]
    BY <2>4 DEF KeepFirst, TypeOK
  <2>5. Errnos \subseteq Nat \ {0} /\ AlreadyUnregistered \in Nat \ {0}
    BY ErrnosAssumption DEF AlreadyUnregistered
  <2>6. /\ result' \in [Threads -> Nat] /\ \A u \in Threads : u # t => result'[u] = result[u]
        /\ kernel' \subseteq kernel
        /\ result'[t] = 0 => result[t] = 0 /\ p \notin kernel'
    BY <1>3, <2>4, <2>5 DEF UnregisterOne, TypeOK
  <2>7. state' \in [Pointers -> {"unregistered", "registered", "busy"}]
    BY <1>3, <2>1 DEF UnregisterOne, TypeOK
  <2>8. TypeOK'
    BY <1>1, <1>3, <2>1, <2>6, <2>7 DEF TypeOK, loopVars
  <2>9. ASSUME result'[t] = 0, NEW i \in 1 .. (pos[t] + 1) - 1 PROVE events[i] \notin kernel'
    <3>1. i \in 1 .. pos[t] - 1 \/ i = pos[t]
      BY <2>1
    <3> QED
      BY <1>1, <2>6, <2>9, <3>1 DEF WalkInv
  <2> QED
    BY <1>1, <2>1, <2>2, <2>3, <2>6, <2>8, <2>9, WalkFrame
<1> QED
  BY <1>2, <1>3 DEF UnregisterEach

-----------------------------------------------------------------------------
(* Every step of every thread keeps the inductive invariant.               *)
LEMMA IndNext == IndInv /\ [Next]_vars => IndInv'
<1> SUFFICES ASSUME IndInv, [Next]_vars PROVE IndInv'
  OBVIOUS
<1>1. ASSUME NEW t \in Threads, Register(t) \/ Unregister(t) \/ Continue(t) PROVE IndInv'
  BY <1>1, CallsPreserve, SortPreserves, ScanPreserves, CompactPreserves, FillPreserves,
     RegisterEachPreserves, UnregisterEachPreserves DEF Continue
<1>2. CASE UNCHANGED vars
  <2>1. TypeOK' /\ ListIsPrivate'
    BY <1>2 DEF vars, IndInv, TypeOK, ListIsPrivate
  <2>2. LoopInv' /\ WalkInv'
    BY <1>2, SameList DEF vars, IndInv, LoopInv, WalkInv, loopVars
  <2> QED
    BY <2>1, <2>2 DEF IndInv
<1> QED
  BY <1>1, <1>2 DEF Next

(* The fixed-up list has exactly one element for each linked tracepoint.   *)
LEMMA FixedUpCounts ==
    ASSUME TypeOK, NEW n \in 0 .. Len(events), StrictTo(n),
           linked = {events[i] : i \in 1 .. n}
    PROVE  n = Cardinality(linked)
<1> DEFINE f == [i \in 1 .. n |-> events[i]]
<1>1. n \in Nat /\ 1 .. n \subseteq 1 .. Len(events)
  BY ListFacts
<1>2. \A i \in 1 .. n : events[i] \in Nat
  BY <1>1, ListFacts
<1>3. ASSUME NEW i \in 1 .. n, NEW j \in 1 .. n, events[i] = events[j] PROVE i = j
  <2>1. ~(i < j) /\ ~(j < i)
    BY <1>2, <1>3 DEF StrictTo
  <2> QED
    BY <2>1
<1>4. f \in Bijection(1 .. n, linked)
  BY <1>3 DEF Bijection, Injection, Surjection, IsInjective
<1>5. IsFiniteSet(1 .. n) /\ Cardinality(1 .. n) = n
  BY <1>1, FS_Interval
<1>6. Cardinality(linked) = Cardinality(1 .. n)
  BY <1>4, <1>5, FS_Bijection DEF ExistsBijection
<1> QED
  BY <1>5, <1>6

(* The inductive invariant says what the four invariants say.              *)
LEMMA IndImplies ==
    IndInv => TypeOK /\ ListIsPrivate /\ ListIsFixedUp /\ RegisterZeroMeansAll
              /\ UnregisterWalkLeavesNone
<1> SUFFICES ASSUME IndInv
             PROVE  ListIsFixedUp /\ RegisterZeroMeansAll /\ UnregisterWalkLeavesNone
  BY DEF IndInv
<1> USE DEF IndInv
<1>1. ListIsFixedUp
  <2> SUFFICES ASSUME NEW t \in Threads, pc[t] = "reg_each"
               PROVE  \E n \in 0 .. Len(events) :
                        /\ n = Cardinality(linked)
                        /\ linked = {events[i] : i \in 1 .. n}
                        /\ \A i \in 1 .. n - 1 : events[i] > events[i + 1]
                        /\ \A i \in n + 1 .. Len(events) : events[i] = NULL
    BY DEF ListIsFixedUp
  <2>1. PICK n \in 0 .. Len(events) :
          /\ StrictTo(n)
          /\ linked = {events[i] : i \in 1 .. n}
          /\ \A i \in n + 1 .. Len(events) : events[i] = NULL
    BY DEF LoopInv, FixedUp
  <2>2. n = Cardinality(linked)
    BY <2>1, FixedUpCounts
  <2>3. \A i \in 1 .. n - 1 : i \in 1 .. n /\ i + 1 \in 1 .. n /\ i < i + 1
    BY ListFacts
  <2>4. \A i \in 1 .. n - 1 : events[i] > events[i + 1]
    BY <2>1, <2>3 DEF StrictTo
  <2> QED
    BY <2>1, <2>2, <2>4
<1>2. ASSUME NEW t \in Threads, FixedUp, AtEnd(t), NEW p \in linked
      PROVE  \E i \in 1 .. pos[t] - 1 : events[i] = p
  <2>1. PICK n \in 0 .. Len(events) :
          /\ StrictTo(n)
          /\ linked = {events[i] : i \in 1 .. n}
          /\ \A i \in n + 1 .. Len(events) : events[i] = NULL
    BY <1>2 DEF FixedUp
  <2>2. PICK i \in 1 .. n : events[i] = p
    BY <2>1
  <2>3. pos[t] \in Nat /\ 1 <= pos[t] /\ n \in Nat /\ n <= Len(events) /\ Len(events) \in Nat
    BY ListFacts DEF TypeOK
  <2>4. ~(pos[t] \in 1 .. n)
    <3> SUFFICES ASSUME pos[t] \in 1 .. n PROVE FALSE
      OBVIOUS
    <3>1. events[pos[t]] \in linked
      BY <2>1
    <3>2. events[pos[t]] # NULL
      BY <3>1, PointersAssumption DEF TypeOK
    <3>3. pos[t] <= Len(events)
      BY <2>3
    <3> QED
      BY <1>2, <3>2, <3>3 DEF AtEnd
  <2>5. i \in 1 .. pos[t] - 1
    BY <2>3, <2>4
  <2> QED
    BY <2>2, <2>5
<1>3. RegisterZeroMeansAll
  <2> SUFFICES ASSUME NEW t \in Threads, pc[t] = "reg_each", AtEnd(t), result[t] = 0
               PROVE  kernel = linked
    BY DEF RegisterZeroMeansAll
  <2>1. FixedUp /\ kernel \subseteq linked /\ \A i \in 1 .. pos[t] - 1 : events[i] \in kernel
    BY DEF LoopInv, WalkInv
  <2>2. ASSUME NEW p \in linked PROVE p \in kernel
    <3>1. PICK i \in 1 .. pos[t] - 1 : events[i] = p
      BY <1>2, <2>1
    <3> QED
      BY <2>1, <3>1
  <2> QED
    BY <2>1, <2>2
<1>4. UnregisterWalkLeavesNone
  <2> SUFFICES ASSUME NEW t \in Threads, pc[t] = "unreg_each", AtEnd(t), result[t] = 0, kernel # {}
               PROVE  FALSE
    BY DEF UnregisterWalkLeavesNone
  <2>1. FixedUp
    BY Alone DEF WalkInv, ListSteps, FixUpSteps
  <2>2. PICK p \in kernel : p \in linked
    BY DEF WalkInv
  <2>3. PICK i \in 1 .. pos[t] - 1 : events[i] = p
    BY <1>2, <2>1, <2>2
  <2> QED
    BY <2>2, <2>3 DEF WalkInv
<1> QED
  BY <1>1, <1>3, <1>4

(* The provider's state keeps its type.                                    *)
THEOREM ProviderTypeCorrect == Spec => []TypeOK
BY IndInit, IndNext, IndImplies, PTL DEF Spec

(* Whatever register and unregister calls overlap, allowed or not, at most *)
(* one thread is inside the list at a time.                                *)
THEOREM ProviderListPrivate == Spec => []ListIsPrivate
BY IndInit, IndNext, IndImplies, PTL DEF Spec

(* For every list the linker can hand over, of any length, with any NULLs  *)
(* and duplicates, the sort and the two compaction loops leave each        *)
(* tracepoint once, in order, and NULL after them.                         *)
THEOREM ProviderListFixedUp == Spec => []ListIsFixedUp
BY IndInit, IndNext, IndImplies, PTL DEF Spec

(* register returns 0 only if the kernel has every tracepoint of the list. *)
THEOREM ProviderRegisterComplete == Spec => []RegisterZeroMeansAll
BY IndInit, IndNext, IndImplies, PTL DEF Spec

(* unregister returns 0 from a walk only if the kernel has none of them.   *)
THEOREM ProviderUnregisterComplete == Spec => []UnregisterWalkLeavesNone
BY IndInit, IndNext, IndImplies, PTL DEF Spec

=============================================================================
