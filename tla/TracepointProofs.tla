--------------------------- MODULE TracepointProofs ---------------------------
(***************************************************************************)
(* Proofs about module Tracepoint and the module UserEventsDataFile under  *)
(* it, for any number of threads, tracepoints, descriptors, errors and     *)
(* indexes.  First the cell on its own (FileSpec): its safety properties,  *)
(* and that it implements the atomic cell of module AtomicDataFile.  Then  *)
(* the tracepoints (Spec).                                                 *)
(*                                                                         *)
(* The lemmas about GetStep let pc range over any set of labels that has   *)
(* the steps of get(), so that they can be cited for the calls of get()    *)
(* that register makes.                                                    *)
(***************************************************************************)
EXTENDS Tracepoint, TLAPS

(* A descriptor is never mistaken for an error: the two kinds of value     *)
(* that the cell holds are told apart by their sign.                       *)
LEMMA CellValues ==
    /\ EAGAIN_ERROR \in Int /\ EAGAIN_ERROR < 0
    /\ EAGAIN_ERROR \in Values /\ EAGAIN_ERROR \notin Fds
    /\ Fds \subseteq Values /\ OpenErrors \subseteq Values
    /\ Values \subseteq Int
    /\ \A v \in Values : v >= 0 <=> v \in Fds
    /\ \A v \in OpenErrors \cup {EAGAIN_ERROR} : v \in Values /\ v < 0 /\ v \notin Fds
    /\ \A v \in Values : v \in Fds \/ v \in OpenErrors \/ v = EAGAIN_ERROR
<1>1. \A e \in Errnos : -e \in Int /\ -e < 0
  BY ErrnosArePositive
<1>2. \A v \in OpenErrors : v \in Int /\ v < 0
  BY <1>1 DEF OpenErrors
<1>3. \A v \in Fds : v \in Int /\ v >= 0
  BY FdsAreDescriptors
<1> QED
  BY <1>2, <1>3 DEF Values, EAGAIN_ERROR

(* Every step of get() keeps the cell and the thread's locals well typed,  *)
(* whatever other labels the caller's code has.                            *)
LEMMA GetStepType ==
    ASSUME NEW Labels, GetSteps \subseteq Labels, pc \in [Threads -> Labels],
           CellTypeOK, NEW t \in Threads, GetStep(t)
    PROVE  CellTypeOK' /\ pc' \in [Threads -> Labels]
<1> USE CellValues DEF CellTypeOK, Goto, Return, fileVars, GetSteps
<1>1. CASE GetLoad(t)
  BY <1>1 DEF GetLoad
<1>2. CASE UpdateOpen(t)
  BY <1>2 DEF UpdateOpen
<1>3. CASE CasStores(t)
  BY <1>3 DEF CasStores
<1>4. CASE CasYields(t)
  BY <1>4 DEF CasYields
<1>5. CASE CasRetries(t)
  <2>1. file_or_error \in OpenErrors \cup {EAGAIN_ERROR}
    BY <1>5 DEF CasRetries
  <2> QED
    BY <1>5, <2>1 DEF CasRetries
<1>6. CASE UpdateClose(t)
  BY <1>6 DEF UpdateClose
<1> QED
  BY <1>1, <1>2, <1>3, <1>4, <1>5, <1>6 DEF GetStep, UpdateCas

(* Leaving get() keeps the cell well typed.                                *)
LEMMA LeaveGetType ==
    ASSUME CellTypeOK, NEW t \in Threads, LeaveGet(t) PROVE CellTypeOK'
BY CellValues DEF CellTypeOK, LeaveGet

(* Every state of the cell's protocol is well typed.                       *)
THEOREM FileTypeCorrect == FileSpec => []FileTypeOK
<1>1. FileInit => FileTypeOK
  BY CellValues DEF FileInit, FileTypeOK, CellTypeOK
<1>2. FileTypeOK /\ [FileNext]_dataFileVars => FileTypeOK'
  <2> SUFFICES ASSUME FileTypeOK, [FileNext]_dataFileVars PROVE FileTypeOK'
    OBVIOUS
  <2>1. ASSUME NEW t \in Threads, CallGet(t) PROVE FileTypeOK'
    BY <2>1 DEF CallGet, FileTypeOK, CellTypeOK, Goto, fileVars, GetSteps
  <2>2. ASSUME NEW t \in Threads, GetStep(t) PROVE FileTypeOK'
    BY <2>2, GetStepType, GetSteps \subseteq GetSteps \cup {"idle"} DEF FileTypeOK
  <2>3. ASSUME NEW t \in Threads, GetReturn(t) PROVE FileTypeOK'
    BY <2>3, LeaveGetType DEF GetReturn, FileTypeOK, Goto
  <2>4. CASE UNCHANGED dataFileVars
    BY <2>4 DEF dataFileVars, FileTypeOK, CellTypeOK
  <2> QED
    BY <2>1, <2>2, <2>3, <2>4 DEF FileNext
<1> QED
  BY <1>1, <1>2, PTL DEF FileSpec

-----------------------------------------------------------------------------
(* Ownership of the descriptors, one descriptor at a time.                 *)
OwnedEach ==
    /\ \A fd : fd \in openFds <=> fd \in Published \/ \E t \in Threads : fd \in Held(t)
    /\ \A t \in Threads : \A fd \in Held(t) : fd \notin Published
    /\ \A t, u \in Threads : \A fd \in Held(t) : fd \in Held(u) => t = u

(* DescriptorsOwned says nothing else than OwnedEach.                      *)
LEMMA OwnedPointwise == DescriptorsOwned <=> OwnedEach
BY DEF DescriptorsOwned, OwnedEach

(* Every step of get() keeps the inductive invariant of the cell.          *)
LEMMA GetStepInv ==
    ASSUME NEW Labels, pc \in [Threads -> Labels],
           CellTypeOK, CellInv, NEW t \in Threads, GetStep(t)
    PROVE  CellInv'
<1>0. OwnedEach
  BY OwnedPointwise DEF CellInv
<1> USE CellValues DEF CellTypeOK, CellInv, Goto, Return, fileVars
<1> SUFFICES OwnedEach' /\ ReturnsPublished' /\ LocalsClean' /\ LoserHolds'
  BY DEF OwnedEach, DescriptorsOwned
<1>1. CASE GetLoad(t)
  <2>1. \A u \in Threads : Held(u)' = Held(u)
    BY <1>1 DEF GetLoad, Held
  <2>2. OwnedEach'
    BY <1>0, <1>1, <2>1 DEF GetLoad, OwnedEach, Published
  <2> QED
    BY <1>1, <2>2 DEF GetLoad, ReturnsPublished, LocalsClean, LoserHolds
<1>2. CASE UpdateOpen(t)
  <2>1. Held(t) = {} /\ \A u \in Threads \ {t} : Held(u)' = Held(u)
    BY <1>2 DEF UpdateOpen, Held
  <2>2. OwnedEach'
    <3>1. CASE \E fd \in Fds \ openFds : openFds' = openFds \cup {fd} /\ new' = [new EXCEPT ![t] = fd]
      <4>1. PICK fd \in Fds \ openFds : openFds' = openFds \cup {fd} /\ new' = [new EXCEPT ![t] = fd]
        BY <3>1
      <4>2. Held(t)' = {fd}
        BY <1>2, <4>1 DEF UpdateOpen, Held
      <4> QED
        BY <1>0, <1>2, <2>1, <4>1, <4>2 DEF UpdateOpen, OwnedEach, Published
    <3>2. CASE \E e \in OpenErrors : new' = [new EXCEPT ![t] = e] /\ UNCHANGED openFds
      <4>1. Held(t)' = {}
        BY <1>2, <3>2 DEF UpdateOpen, Held
      <4> QED
        BY <1>0, <1>2, <2>1, <3>2, <4>1 DEF UpdateOpen, OwnedEach, Published
    <3> QED
      BY <1>2, <3>1, <3>2 DEF UpdateOpen
  <2> QED
    BY <1>2, <2>2 DEF UpdateOpen, ReturnsPublished, LocalsClean, LoserHolds
<1>3. CASE pc[t] = "cas" /\ CasStores(t)
  <2>1. Published = {} /\ Published' = Held(t) /\ Held(t)' = {}
    BY <1>3 DEF CasStores, Held, Published
  <2>2. \A u \in Threads \ {t} : Held(u)' = Held(u)
    BY <1>3 DEF CasStores, Held
  <2>3. OwnedEach'
    BY <1>0, <1>3, <2>1, <2>2 DEF CasStores, OwnedEach
  <2>4. ReturnsPublished'
    BY <1>3 DEF CasStores, ReturnsPublished
  <2>5. LocalsClean' /\ LoserHolds'
    BY <1>3 DEF CasStores, LocalsClean, LoserHolds
  <2> QED
    BY <2>3, <2>4, <2>5
<1>4. CASE pc[t] = "cas" /\ CasYields(t)
  <2>1. \A u \in Threads : Held(u)' = Held(u)
    BY <1>4 DEF CasYields, Held
  <2>2. OwnedEach'
    BY <1>0, <1>4, <2>1 DEF CasYields, OwnedEach, Published
  <2>3. pc'[t] = IF new[t] >= 0 THEN "close" ELSE "got"
    BY <1>4 DEF CasYields
  <2>4. \A u \in Threads \ {t} : pc'[u] = pc[u] /\ got'[u] = got[u]
    BY <1>4 DEF CasYields
  <2>5. got'[t] = file_or_error /\ UNCHANGED <<file_or_error, new>>
    BY <1>4 DEF CasYields
  <2>6. new[t] >= 0 => file_or_error >= 0
    <3>1. new[t] \in Int /\ file_or_error \in Int
      OBVIOUS
    <3>2. file_or_error >= 0 \/ new[t] < 0
      BY <1>4 DEF CasYields
    <3> HIDE CellValues DEF CellTypeOK, CellInv
    <3> QED
      BY <3>1, <3>2
  <2>7. ReturnsPublished'
    BY <2>3, <2>4, <2>5, <2>6 DEF ReturnsPublished
  <2>8. LocalsClean' /\ LoserHolds'
    BY <2>3, <2>4, <2>5, <2>6 DEF LocalsClean, LoserHolds
  <2> QED
    BY <2>2, <2>7, <2>8
<1>5. CASE pc[t] = "cas" /\ CasRetries(t)
  <2>1. \A u \in Threads : Held(u)' = Held(u)
    BY <1>5 DEF CasRetries, Held
  <2>2. OwnedEach'
    BY <1>0, <1>5, <2>1 DEF CasRetries, OwnedEach, Published
  <2> QED
    BY <1>5, <2>2 DEF CasRetries, ReturnsPublished, LocalsClean, LoserHolds
<1>6. CASE UpdateClose(t)
  <2>1. Held(t) = {new[t]} /\ Held(t)' = {}
    BY <1>6 DEF UpdateClose, Held, LoserHolds
  <2>2. \A u \in Threads \ {t} : Held(u)' = Held(u)
    BY <1>6 DEF UpdateClose, Held
  <2>3. OwnedEach'
    BY <1>0, <1>6, <2>1, <2>2 DEF UpdateClose, OwnedEach, Published
  <2> QED
    BY <1>6, <2>3 DEF UpdateClose, ReturnsPublished, LocalsClean, LoserHolds
<1> QED
  BY <1>1, <1>2, <1>3, <1>4, <1>5, <1>6 DEF GetStep, UpdateCas

(* The inductive invariant holds in every state of the protocol.           *)
THEOREM CellInvariant == FileSpec => [](FileTypeOK /\ CellInv)
<1>1. FileInit => FileTypeOK /\ CellInv
  <2> SUFFICES ASSUME FileInit PROVE FileTypeOK /\ CellInv
    OBVIOUS
  <2>1. Published = {} /\ \A t \in Threads : Held(t) = {}
    BY CellValues DEF FileInit, Published, Held
  <2>2. DescriptorsOwned
    BY <2>1 DEF DescriptorsOwned, FileInit
  <2> QED
    BY <2>2, CellValues DEF FileInit, FileTypeOK, CellTypeOK, CellInv, ReturnsPublished,
       LocalsClean, LoserHolds
<1>2. FileTypeOK /\ CellInv /\ [FileNext]_dataFileVars => CellInv'
  <2> SUFFICES ASSUME FileTypeOK, CellInv, [FileNext]_dataFileVars PROVE CellInv'
    OBVIOUS
  <2> USE CellValues DEF FileTypeOK, CellTypeOK, CellInv
  <2>1. ASSUME NEW t \in Threads, CallGet(t) PROVE CellInv'
    <3>1. \A u \in Threads : Held(u)' = Held(u)
      BY <2>1 DEF CallGet, Goto, Held, fileVars
    <3>2. OwnedEach'
      BY OwnedPointwise, <2>1, <3>1 DEF CallGet, OwnedEach, Published, fileVars
    <3>3. DescriptorsOwned'
      BY <3>2 DEF OwnedEach, DescriptorsOwned
    <3> QED
      BY <2>1, <3>3 DEF CallGet, Goto, fileVars, ReturnsPublished, LocalsClean, LoserHolds
  <2>2. ASSUME NEW t \in Threads, GetStep(t) PROVE CellInv'
    BY <2>2, GetStepInv
  <2>3. ASSUME NEW t \in Threads, GetReturn(t) PROVE CellInv'
    <3>1. \A u \in Threads : Held(u)' = Held(u)
      BY <2>3 DEF GetReturn, LeaveGet, Goto, Held
    <3>2. OwnedEach'
      BY OwnedPointwise, <2>3, <3>1 DEF GetReturn, LeaveGet, OwnedEach, Published
    <3>3. DescriptorsOwned'
      BY <3>2 DEF OwnedEach, DescriptorsOwned
    <3> QED
      BY <2>3, <3>3 DEF GetReturn, LeaveGet, Goto, ReturnsPublished, LocalsClean, LoserHolds
  <2>4. CASE UNCHANGED dataFileVars
    <3>1. DescriptorsOwned'
      BY <2>4 DEF dataFileVars, DescriptorsOwned, Published, Held
    <3> QED
      BY <2>4, <3>1 DEF dataFileVars, ReturnsPublished, LocalsClean, LoserHolds
  <2> QED
    BY <2>1, <2>2, <2>3, <2>4 DEF FileNext
<1> QED
  BY <1>1, <1>2, FileTypeCorrect, PTL DEF FileSpec

(* update() neither leaks nor closes twice, however its threads interleave. *)
THEOREM NoDescriptorLeak == FileSpec => []DescriptorsOwned
BY CellInvariant, PTL DEF CellInv

(* A descriptor that get() hands back is the published one.                *)
THEOREM GetReturnsPublished == FileSpec => []ReturnsPublished
BY CellInvariant, PTL DEF CellInv

-----------------------------------------------------------------------------
(* A step of any thread leaves the cell alone or stores the descriptor or  *)
(* the error that the thread got, over the value that it last saw there.   *)
LEMMA CellStep ==
    ASSUME FileTypeOK, [FileNext]_dataFileVars
    PROVE  \/ file_or_error' = file_or_error
           \/ \E t \in Threads : pc[t] = "cas" /\ CasStores(t)
<1>1. ASSUME NEW t \in Threads, CallGet(t) PROVE file_or_error' = file_or_error
  BY <1>1 DEF CallGet, fileVars
<1>2. ASSUME NEW t \in Threads, GetStep(t), ~(pc[t] = "cas" /\ CasStores(t))
      PROVE  file_or_error' = file_or_error
  BY <1>2 DEF GetStep, GetLoad, UpdateOpen, UpdateCas, CasYields, CasRetries, UpdateClose,
              fileVars
<1>3. ASSUME NEW t \in Threads, GetReturn(t) PROVE file_or_error' = file_or_error
  BY <1>3 DEF GetReturn, LeaveGet
<1>4. CASE UNCHANGED dataFileVars
  BY <1>4 DEF dataFileVars
<1> QED
  BY <1>1, <1>2, <1>3, <1>4 DEF FileNext

(* A thread in the loop has the outcome of an open to store and, if it has *)
(* seen an error in the cell, only goes on because that is a descriptor.   *)
RetryStoresDescriptor ==
    \A t \in Threads : pc[t] = "cas" =>
        /\ new[t] \in Fds \cup OpenErrors
        /\ old[t] # EAGAIN_ERROR => new[t] >= 0 /\ file_or_error # EAGAIN_ERROR

(* Errors are only ever stored over the initial value.                     *)
LEMMA RetryInvariant == FileSpec => []RetryStoresDescriptor
<1> USE CellValues DEF FileTypeOK, CellTypeOK, RetryStoresDescriptor, Goto, Return, fileVars
<1>1. FileInit => RetryStoresDescriptor
  BY DEF FileInit
<1>2. FileTypeOK /\ RetryStoresDescriptor /\ [FileNext]_dataFileVars => RetryStoresDescriptor'
  <2> SUFFICES ASSUME FileTypeOK, RetryStoresDescriptor, [FileNext]_dataFileVars
               PROVE  RetryStoresDescriptor'
    OBVIOUS
  <2>1. ASSUME NEW t \in Threads, CallGet(t) PROVE RetryStoresDescriptor'
    BY <2>1 DEF CallGet
  <2>2. ASSUME NEW t \in Threads, GetLoad(t) PROVE RetryStoresDescriptor'
    BY <2>2 DEF GetLoad
  <2>3. ASSUME NEW t \in Threads, UpdateOpen(t) PROVE RetryStoresDescriptor'
    BY <2>3 DEF UpdateOpen
  <2>4. ASSUME NEW t \in Threads, pc[t] = "cas", CasStores(t) PROVE RetryStoresDescriptor'
    BY <2>4 DEF CasStores
  <2>5. ASSUME NEW t \in Threads, CasYields(t) PROVE RetryStoresDescriptor'
    <3>1. pc'[t] # "cas" /\ \A u \in Threads \ {t} : pc'[u] = pc[u]
      BY <2>5 DEF CasYields
    <3> QED
      BY <2>5, <3>1 DEF CasYields
  <2>6. ASSUME NEW t \in Threads, CasRetries(t) PROVE RetryStoresDescriptor'
    BY <2>6 DEF CasRetries
  <2>7. ASSUME NEW t \in Threads, UpdateClose(t) PROVE RetryStoresDescriptor'
    BY <2>7 DEF UpdateClose
  <2>8. ASSUME NEW t \in Threads, GetReturn(t) PROVE RetryStoresDescriptor'
    BY <2>8 DEF GetReturn, LeaveGet
  <2>9. CASE UNCHANGED dataFileVars
    BY <2>9 DEF dataFileVars
  <2> QED
    BY <2>1, <2>2, <2>3, <2>4, <2>5, <2>6, <2>7, <2>8, <2>9 DEF FileNext, GetStep, UpdateCas
<1> QED
  BY <1>1, <1>2, FileTypeCorrect, PTL DEF FileSpec

(* Once the cell holds a descriptor it holds it for ever, and an error     *)
(* only gives way to a descriptor.                                         *)
THEOREM PublishedForEver == FileSpec => DescriptorIsFinal
<1> DEFINE Final ==
      /\ file_or_error >= 0 => file_or_error' = file_or_error
      /\ file_or_error # EAGAIN_ERROR /\ file_or_error' # file_or_error => file_or_error' >= 0
<1>1. FileTypeOK /\ RetryStoresDescriptor /\ [FileNext]_dataFileVars => [Final]_file_or_error
  BY CellStep, CellValues DEF CasStores, FileTypeOK, CellTypeOK, RetryStoresDescriptor
<1> QED
  BY <1>1, FileTypeCorrect, RetryInvariant, PTL DEF FileSpec, DescriptorIsFinal

-----------------------------------------------------------------------------
(* get() is linearizable: the protocol implements the atomic cell.         *)
THEOREM Linearizable == FileSpec => ImplementsAtomic
<1> DEFINE callers == {t \in Threads : pc[t] \in {"get", "open", "cas"}}
<1> USE CellValues DEF FileTypeOK, CellTypeOK, Goto, Return, fileVars
<1>1. FileInit => Atomic!AInit
  BY DEF FileInit, Atomic!AInit
<1>2. FileTypeOK /\ RetryStoresDescriptor /\ [FileNext]_dataFileVars
        => [Atomic!ANext]_(Atomic!atomicVars)
  <2> SUFFICES ASSUME FileTypeOK, RetryStoresDescriptor, [FileNext]_dataFileVars
               PROVE  Atomic!ANext \/ UNCHANGED Atomic!atomicVars
    OBVIOUS
  <2>1. ASSUME NEW t \in Threads, CallGet(t) PROVE Atomic!ANext
    <3>1. t \notin callers /\ callers' = callers \cup {t}
      BY <2>1 DEF CallGet
    <3>2. Atomic!ACall(t)
      BY <2>1, <3>1 DEF CallGet, Atomic!ACall
    <3> QED
      BY <3>2 DEF Atomic!ANext
  <2>2. ASSUME NEW t \in Threads, GetLoad(t) PROVE Atomic!ANext \/ UNCHANGED Atomic!atomicVars
    <3>1. CASE file_or_error = EAGAIN_ERROR
      <4>1. callers' = callers
        BY <2>2, <3>1 DEF GetLoad
      <4> QED
        BY <2>2, <3>1, <4>1 DEF GetLoad, Atomic!atomicVars
    <3>2. CASE file_or_error # EAGAIN_ERROR
      <4>1. t \in callers /\ callers' = callers \ {t}
        BY <2>2, <3>2 DEF GetLoad
      <4>2. Atomic!AGet(t)
        BY <2>2, <3>2, <4>1 DEF GetLoad, Atomic!AGet, Atomic!ATake
      <4> QED
        BY <4>2 DEF Atomic!ANext
    <3> QED
      BY <3>1, <3>2
  <2>3. ASSUME NEW t \in Threads, UpdateOpen(t) PROVE UNCHANGED Atomic!atomicVars
    <3>1. callers' = callers
      BY <2>3 DEF UpdateOpen
    <3> QED
      BY <2>3, <3>1 DEF UpdateOpen, Atomic!atomicVars
  <2>4. ASSUME NEW t \in Threads, pc[t] = "cas", CasStores(t) PROVE Atomic!ANext
    <3>1. t \in callers /\ callers' = callers \ {t}
      BY <2>4 DEF CasStores
    <3>2. new[t] \in Fds \cup OpenErrors /\ Atomic!MayStore(new[t])
      BY <2>4 DEF CasStores, Atomic!MayStore, RetryStoresDescriptor
    <3>3. Atomic!AStore(t, new[t])
      BY <2>4, <3>1, <3>2 DEF CasStores, Atomic!AStore
    <3>4. Atomic!AGet(t)
      BY <2>4, <3>1, <3>2, <3>3 DEF CasStores, Atomic!AGet
    <3> QED
      BY <3>4 DEF Atomic!ANext
  <2>5. ASSUME NEW t \in Threads, pc[t] = "cas", CasYields(t) PROVE Atomic!ANext
    <3>1. t \in callers /\ callers' = callers \ {t}
      BY <2>5 DEF CasYields
    <3>2. file_or_error # EAGAIN_ERROR
      BY <2>5 DEF CasYields, RetryStoresDescriptor
    <3>3. Atomic!AGet(t)
      BY <2>5, <3>1, <3>2 DEF CasYields, Atomic!AGet, Atomic!ATake
    <3> QED
      BY <3>3 DEF Atomic!ANext
  <2>6. ASSUME NEW t \in Threads, CasRetries(t) PROVE UNCHANGED Atomic!atomicVars
    BY <2>6 DEF CasRetries, Atomic!atomicVars
  <2>7. ASSUME NEW t \in Threads, UpdateClose(t) PROVE UNCHANGED Atomic!atomicVars
    <3>1. callers' = callers
      BY <2>7 DEF UpdateClose
    <3> QED
      BY <2>7, <3>1 DEF UpdateClose, Atomic!atomicVars
  <2>8. ASSUME NEW t \in Threads, GetReturn(t) PROVE Atomic!ANext
    <3>1. t \notin callers /\ callers' = callers
      BY <2>8 DEF GetReturn
    <3>2. Atomic!AReturn(t)
      BY <2>8, <3>1 DEF GetReturn, LeaveGet, Atomic!AReturn
    <3> QED
      BY <3>2 DEF Atomic!ANext
  <2>9. CASE UNCHANGED dataFileVars
    BY <2>9 DEF dataFileVars, Atomic!atomicVars
  <2> QED
    BY <2>1, <2>2, <2>3, <2>4, <2>5, <2>6, <2>7, <2>8, <2>9 DEF FileNext, GetStep, UpdateCas
<1> QED
  BY <1>1, <1>2, FileTypeCorrect, RetryInvariant, PTL
     DEF FileSpec, ImplementsAtomic, Atomic!ASpec

-----------------------------------------------------------------------------
(* The words of a tracepoint: an index, UNREGISTERED and BUSY are distinct. *)
LEMMA WordValues ==
    /\ U32_MAX \in Nat /\ UNREGISTERED_WRITE_INDEX \in Nat /\ BUSY_WRITE_INDEX \in Nat
    /\ UNREGISTERED_WRITE_INDEX # BUSY_WRITE_INDEX
    /\ ~(UNREGISTERED_WRITE_INDEX <= HIGHEST_VALID_WRITE_INDEX)
    /\ ~(BUSY_WRITE_INDEX <= HIGHEST_VALID_WRITE_INDEX)
    /\ HIGHEST_VALID_WRITE_INDEX \in Nat
    /\ \A i \in Indexes : /\ i \in Nat /\ i <= HIGHEST_VALID_WRITE_INDEX
                          /\ i # UNREGISTERED_WRITE_INDEX /\ i # BUSY_WRITE_INDEX
                          /\ i # NoIndex
BY U32MaxAssumption, IndexesAssumption
   DEF UNREGISTERED_WRITE_INDEX, BUSY_WRITE_INDEX, HIGHEST_VALID_WRITE_INDEX, NoIndex

Labels == {"idle"} \cup RegSteps \cup UnregSteps \cup WriteSteps

(* Every state of the tracepoint crate is well typed at the start.         *)
LEMMA TypeInit == Init => TypeOK
BY CellValues, WordValues
   DEF Init, FileInit, TypeOK, CellTypeOK, RegSteps, GetSteps, UnregSteps, WriteSteps

(* ... and every step keeps it so.                                         *)
LEMMA TypeNext == TypeOK /\ [Next]_vars => TypeOK'
<1> USE WordValues DEF TypeOK, RegSteps, GetSteps, UnregSteps, WriteSteps, Goto, Swap, Leave,
      Enter, fileVars
<1> SUFFICES ASSUME TypeOK, [Next]_vars PROVE TypeOK'
  OBVIOUS
<1>1. ASSUME NEW t \in Threads, NEW tp \in Tracepoints, Register(t, tp) PROVE TypeOK'
  BY <1>1 DEF Register, CellTypeOK
<1>2. ASSUME NEW t \in Threads, NEW tp \in Tracepoints, Unregister(t, tp) PROVE TypeOK'
  BY <1>2 DEF Unregister, UnregisterSwap, AlreadyUnregistered, CellTypeOK
<1>3. ASSUME NEW t \in Threads, NEW tp \in Tracepoints, Drop(t, tp) PROVE TypeOK'
  BY <1>3 DEF Drop, UnregisterSwap, AlreadyUnregistered, CellTypeOK
<1>4. ASSUME NEW t \in Threads, NEW tp \in Tracepoints, WriteLoadEnable(t, tp) PROVE TypeOK'
  BY <1>4 DEF WriteLoadEnable, CellTypeOK
<1>5. ASSUME NEW t \in Threads, RegisterGet(t) PROVE TypeOK'
  <2>1. pc \in [Threads -> Labels] /\ GetSteps \subseteq Labels
    BY DEF Labels
  <2>2. CellTypeOK' /\ pc' \in [Threads -> Labels]
    BY <1>5, <2>1, GetStepType DEF RegisterGet
  <2> QED
    BY <1>5, <2>2 DEF RegisterGet, tpVars, Labels
<1>6. ASSUME NEW t \in Threads, RegisterIoctl(t) PROVE TypeOK'
  <2>1. CellTypeOK'
    BY <1>6, LeaveGetType DEF RegisterIoctl, RegisterNoFile, RegisterRefused, RegisterAccepted
  <2>2. got[t] \in Int /\ (got[t] < 0 => -got[t] \in Nat) /\ (got[t] >= 0 => got[t] \in Fds)
    <3>1. got[t] \in Values
      BY DEF CellTypeOK
    <3>2. got[t] \in Int /\ (got[t] >= 0 => got[t] \in Fds)
      BY <3>1, CellValues
    <3>3. \A n \in Int : n < 0 => -n \in Nat
      OBVIOUS
    <3> QED
      BY <3>2, <3>3
  <2>3. Errnos \subseteq Nat
    BY ErrnosArePositive
  <2>4. /\ idx' \in [Threads -> Indexes \cup {UNREGISTERED_WRITE_INDEX}]
        /\ err' \in [Threads -> Nat]
    BY <1>6, <2>2, <2>3 DEF RegisterIoctl, RegisterNoFile, RegisterRefused, RegisterAccepted
  <2>5. /\ kernelIndex' \in [Tracepoints -> Indexes \cup {NoIndex}]
        /\ issued' \in [Tracepoints -> SUBSET (Fds \X Indexes)]
        /\ enable_status' \in [Tracepoints -> {0, 1}]
    BY <1>6, <2>2 DEF RegisterIoctl, RegisterNoFile, RegisterRefused, RegisterAccepted, KernelRegister
  <2> QED
    BY <1>6, <2>1, <2>4, <2>5 DEF RegisterIoctl, RegisterNoFile, RegisterRefused, RegisterAccepted
<1>7. ASSUME NEW t \in Threads, RegisterFinal(t) PROVE TypeOK'
  BY <1>7 DEF RegisterFinal, CellTypeOK
<1>8. ASSUME NEW t \in Threads, UnregisterIoctl(t) PROVE TypeOK'
  <2>1. Errnos \subseteq Nat
    BY ErrnosArePositive
  <2>2. err' \in [Threads -> Nat]
    BY <1>8, <2>1 DEF UnregisterIoctl, UnregisterDone, UnregisterRefused,
           KernelUnregister
  <2>3. /\ kernelIndex' \in [Tracepoints -> Indexes \cup {NoIndex}]
        /\ enable_status' \in [Tracepoints -> {0, 1}]
        /\ unregFailed' \in [Tracepoints -> BOOLEAN]
    BY <1>8 DEF UnregisterIoctl, UnregisterDone, UnregisterRefused,
           KernelUnregister
  <2> QED
    BY <1>8, <2>2, <2>3 DEF UnregisterIoctl, UnregisterDone, UnregisterRefused,
           KernelUnregister, CellTypeOK
<1>9. ASSUME NEW t \in Threads, UnregisterFinal(t) PROVE TypeOK'
  BY <1>9 DEF UnregisterFinal, CellTypeOK
<1>10. ASSUME NEW t \in Threads, WriteLoadIndex(t) PROVE TypeOK'
  BY <1>10 DEF WriteLoadIndex, CellTypeOK
<1>11. ASSUME NEW t \in Threads, Writev(t) PROVE TypeOK'
  BY <1>11 DEF Writev, CellTypeOK
<1>12. ASSUME NEW tp \in Tracepoints, KernelUpdate(tp) PROVE TypeOK'
  BY <1>12 DEF KernelUpdate, CellTypeOK, dataFileVars
<1>13. CASE UNCHANGED vars
  BY <1>13 DEF vars, dataFileVars, tpVars, CellTypeOK
<1> QED
  BY <1>1, <1>2, <1>3, <1>4, <1>5, <1>6, <1>7, <1>8, <1>9, <1>10, <1>11, <1>12, <1>13
     DEF Next, StartCall, ContinueCall

(* Type correctness of the tracepoint crate's shared state.                *)
THEOREM TypeCorrect == Spec => []TypeOK
BY TypeInit, TypeNext, PTL DEF Spec

-----------------------------------------------------------------------------
(* A call of get() moves one thread through the steps of get() and never   *)
(* replaces a descriptor.                                                  *)
LEMMA GetStepFrame ==
    ASSUME TypeOK, NEW t \in Threads, GetStep(t)
    PROVE  /\ pc[t] \in GetSteps /\ pc'[t] \in GetSteps
           /\ \A u \in Threads \ {t} : pc'[u] = pc[u]
           /\ file_or_error >= 0 => file_or_error' = file_or_error
<1> USE CellValues DEF TypeOK, CellTypeOK, Goto, Return, fileVars, GetSteps
<1>1. CASE GetLoad(t)
  BY <1>1 DEF GetLoad
<1>2. CASE UpdateOpen(t)
  BY <1>2 DEF UpdateOpen
<1>3. CASE pc[t] = "cas" /\ CasStores(t)
  BY <1>3 DEF CasStores
<1>4. CASE pc[t] = "cas" /\ CasYields(t)
  BY <1>4 DEF CasYields
<1>5. CASE pc[t] = "cas" /\ CasRetries(t)
  BY <1>5 DEF CasRetries
<1>6. CASE UpdateClose(t)
  BY <1>6 DEF UpdateClose
<1> QED
  BY <1>1, <1>2, <1>3, <1>4, <1>5, <1>6 DEF GetStep, UpdateCas

(* A step outside get() that leaves the cell and get()'s locals alone      *)
(* keeps the cell's invariant.                                             *)
LEMMA CellFrame ==
    ASSUME CellInv, UNCHANGED fileVars,
           \A u \in Threads : \/ pc'[u] = pc[u]
                              \/ {pc[u], pc'[u]} \cap {"cas", "close", "got"} = {}
    PROVE  CellInv'
<1> USE DEF fileVars, CellInv
<1>1. \A u \in Threads : Held(u)' = Held(u)
  BY DEF Held
<1>2. Published' = Published
  BY DEF Published
<1>3. OwnedEach'
  BY OwnedPointwise, <1>1, <1>2 DEF OwnedEach
<1>4. DescriptorsOwned'
  BY <1>3 DEF OwnedEach, DescriptorsOwned
<1> QED
  BY <1>4 DEF ReturnsPublished, LocalsClean, LoserHolds

(* The same for the step that leaves get().                                *)
LEMMA CellLeave ==
    ASSUME CellInv, CellTypeOK, NEW t \in Threads, pc[t] = "got", LeaveGet(t),
           pc'[t] \notin {"cas", "close", "got"},
           \A u \in Threads \ {t} : pc'[u] = pc[u]
    PROVE  CellInv'
<1> USE CellValues DEF LeaveGet, CellInv, CellTypeOK
<1>1. \A u \in Threads : Held(u)' = Held(u)
  BY DEF Held
<1>2. Published' = Published
  BY DEF Published
<1>3. OwnedEach'
  BY OwnedPointwise, <1>1, <1>2 DEF OwnedEach
<1>4. DescriptorsOwned'
  BY <1>3 DEF OwnedEach, DescriptorsOwned
<1> QED
  BY <1>4 DEF ReturnsPublished, LocalsClean, LoserHolds

(* The invariant of the cell also holds when its callers are the calls of  *)
(* register, among all the other calls of the crate.                       *)
LEMMA CellNext == TypeOK /\ CellInv /\ [Next]_vars => CellInv'
<1> SUFFICES ASSUME TypeOK, CellInv, [Next]_vars PROVE CellInv'
  OBVIOUS
<1> USE DEF TypeOK, Goto, Leave, Enter
<1>1. ASSUME NEW t \in Threads, NEW tp \in Tracepoints, StartCall(t, tp) PROVE CellInv'
  <2>1. UNCHANGED fileVars
    BY <1>1 DEF StartCall, Register, Unregister, Drop, UnregisterSwap, WriteLoadEnable
  <2>2. /\ pc[t] = "idle" /\ pc'[t] \notin {"cas", "close", "got"}
        /\ \A u \in Threads \ {t} : pc'[u] = pc[u]
    BY <1>1 DEF StartCall, Register, Unregister, Drop, UnregisterSwap, WriteLoadEnable
  <2> QED
    BY <2>1, <2>2, CellFrame
<1>2. ASSUME NEW t \in Threads, RegisterGet(t) PROVE CellInv'
  BY <1>2, GetStepInv DEF RegisterGet
<1>3. ASSUME NEW t \in Threads, RegisterIoctl(t) PROVE CellInv'
  <2>1. /\ pc'[t] = "reg_final"
        /\ \A u \in Threads \ {t} : pc'[u] = pc[u]
    BY <1>3 DEF RegisterIoctl, RegisterNoFile, RegisterRefused, RegisterAccepted
  <2> QED
    BY <1>3, <2>1, CellLeave DEF RegisterIoctl, RegisterNoFile, RegisterRefused, RegisterAccepted
<1>4. ASSUME NEW t \in Threads,
             \/ RegisterFinal(t) \/ UnregisterIoctl(t) \/ UnregisterFinal(t)
             \/ WriteLoadIndex(t) \/ Writev(t)
      PROVE  CellInv'
  <2>1. UNCHANGED fileVars
    BY <1>4 DEF RegisterFinal, UnregisterIoctl, UnregisterFinal, WriteLoadIndex, Writev
  <2>2. /\ {pc[t], pc'[t]} \cap {"cas", "close", "got"} = {}
        /\ \A u \in Threads \ {t} : pc'[u] = pc[u]
    BY <1>4 DEF RegisterFinal, UnregisterIoctl, UnregisterFinal, WriteLoadIndex, Writev
  <2> QED
    BY <2>1, <2>2, CellFrame
<1>5. ASSUME NEW tp \in Tracepoints, KernelUpdate(tp) PROVE CellInv'
  BY <1>5, CellFrame DEF KernelUpdate, dataFileVars, fileVars
<1>6. CASE UNCHANGED vars
  BY <1>6, CellFrame DEF vars, dataFileVars, fileVars
<1> QED
  BY <1>1, <1>2, <1>3, <1>4, <1>5, <1>6 DEF Next, ContinueCall

-----------------------------------------------------------------------------
(* The swap with which unregister and drop begin takes BUSY for at most    *)
(* one thread and touches no other index.                                  *)
LEMMA UnregisterSwapIndex ==
    ASSUME TypeOK, IndexInv, NEW t \in Threads, NEW tp \in Tracepoints,
           Enter(t, tp), UnregisterSwap(t, tp)
    PROVE  IndexInv'
<1> USE WordValues DEF TypeOK, IndexInv, BusyIsExclusive, StoredIndexInv, NewIndexInv,
      LoadedIndexInv, Owns, IssuedOn, RegSteps, GetSteps, UnregSteps
<1>1. /\ pc[t] = "idle" /\ on'[t] = tp
      /\ \A u \in Threads \ {t} : pc'[u] = pc[u] /\ on'[u] = on[u]
      /\ write_index'[tp] = BUSY_WRITE_INDEX
      /\ \A p \in Tracepoints \ {tp} : write_index'[p] = write_index[p]
      /\ UNCHANGED <<file_or_error, kernelIndex, issued, idx>>
  BY DEF Enter, UnregisterSwap, Swap, Goto, fileVars
<1>2. /\ pc'[t] \in {"idle", "unreg_final", "unreg_ioctl"}
      /\ pc'[t] # "idle" => write_index[tp] # BUSY_WRITE_INDEX
  BY DEF Enter, UnregisterSwap, Goto
<1>3. BusyIsExclusive'
  BY <1>1, <1>2
<1>4. StoredIndexInv'
  BY <1>1
<1>5. NewIndexInv' /\ LoadedIndexInv'
  BY <1>1, <1>2, SMTT(40)
<1> QED
  BY <1>3, <1>4, <1>5

(* Whatever the callers do: BUSY has one holder and every index in use was *)
(* issued by the published file.                                           *)
LEMMA IndexNext == TypeOK /\ CellInv /\ IndexInv /\ [Next]_vars => IndexInv'
<1> SUFFICES ASSUME TypeOK, CellInv, IndexInv, [Next]_vars PROVE IndexInv'
  OBVIOUS
<1> USE WordValues DEF TypeOK, IndexInv, Goto, Leave, Enter, Swap, fileVars
<1> USE DEF BusyIsExclusive, StoredIndexInv, NewIndexInv, LoadedIndexInv, Owns, IssuedOn,
      RegSteps, GetSteps, UnregSteps
<1>1. ASSUME NEW t \in Threads, NEW tp \in Tracepoints, Register(t, tp) PROVE IndexInv'
  <2>1. CASE write_index[tp] = UNREGISTERED_WRITE_INDEX
    <3>1. \A u \in Threads : ~Owns(u, tp)
      BY <2>1
    <3>2. BusyIsExclusive'
      BY <1>1, <2>1, <3>1 DEF Register
    <3>3. /\ pc[t] = "idle" /\ pc'[t] = "get"
          /\ \A u \in Threads \ {t} : pc'[u] = pc[u] /\ on'[u] = on[u]
          /\ write_index'[tp] = BUSY_WRITE_INDEX
          /\ \A p \in Tracepoints \ {tp} : write_index'[p] = write_index[p]
          /\ UNCHANGED <<file_or_error, kernelIndex, issued, idx>>
      BY <1>1, <2>1 DEF Register
    <3>4. StoredIndexInv'
      BY <3>3
    <3>5. NewIndexInv' /\ LoadedIndexInv'
      BY <3>3
    <3> QED
      BY <3>2, <3>4, <3>5
  <2>2. CASE write_index[tp] # UNREGISTERED_WRITE_INDEX
    <3>1. BusyIsExclusive'
      BY <1>1, <2>2 DEF Register
    <3>2. StoredIndexInv' /\ NewIndexInv' /\ LoadedIndexInv'
      BY <1>1, <2>2 DEF Register
    <3> QED
      BY <3>1, <3>2
  <2> QED
    BY <2>1, <2>2
<1>2. ASSUME NEW t \in Threads, NEW tp \in Tracepoints, Unregister(t, tp) PROVE IndexInv'
  BY <1>2, UnregisterSwapIndex DEF Unregister
<1>3. ASSUME NEW t \in Threads, NEW tp \in Tracepoints, Drop(t, tp) PROVE IndexInv'
  BY <1>3, UnregisterSwapIndex DEF Drop
<1>4. ASSUME NEW t \in Threads, NEW tp \in Tracepoints, WriteLoadEnable(t, tp) PROVE IndexInv'
  BY <1>4 DEF WriteLoadEnable
<1>5. ASSUME NEW t \in Threads, RegisterGet(t) PROVE IndexInv'
  <2>1. /\ pc[t] \in GetSteps /\ pc'[t] \in GetSteps
        /\ \A u \in Threads \ {t} : pc'[u] = pc[u]
        /\ file_or_error >= 0 => file_or_error' = file_or_error
    BY <1>5, GetStepFrame DEF RegisterGet
  <2>2. UNCHANGED tpVars
    BY <1>5 DEF RegisterGet
  <2>3. BusyIsExclusive'
    BY <2>1, <2>2 DEF tpVars
  <2>4. StoredIndexInv' /\ NewIndexInv' /\ LoadedIndexInv'
    BY <2>1, <2>2 DEF tpVars
  <2> QED
    BY <2>3, <2>4
<1>6. ASSUME NEW t \in Threads, RegisterIoctl(t) PROVE IndexInv'
  <2>1. /\ pc[t] = "got" /\ pc'[t] = "reg_final"
        /\ \A u \in Threads \ {t} : pc'[u] = pc[u] /\ idx'[u] = idx[u]
        /\ UNCHANGED <<on, write_index, file_or_error>>
    BY <1>6 DEF RegisterIoctl, RegisterNoFile, RegisterRefused, RegisterAccepted, LeaveGet
  <2>2. BusyIsExclusive'
    BY <2>1
  <2>3. CASE idx'[t] = UNREGISTERED_WRITE_INDEX /\ UNCHANGED <<kernelIndex, issued>>
    BY <2>1, <2>2, <2>3
  <2>4. ASSUME NEW i \in Indexes, got[t] >= 0, KernelRegister(on[t], got[t], i), idx'[t] = i
        PROVE  IndexInv'
    <3>1. got[t] = file_or_error
      BY <2>1, <2>4 DEF CellInv, ReturnsPublished
    <3>2. /\ kernelIndex'[on[t]] = i
          /\ \A tp \in Tracepoints \ {on[t]} : kernelIndex'[tp] = kernelIndex[tp]
          /\ \A tp \in Tracepoints : issued[tp] \subseteq issued'[tp]
          /\ <<file_or_error, i>> \in issued'[on[t]]
      BY <2>4, <3>1 DEF KernelRegister
    <3>3. StoredIndexInv'
      BY <2>1, <3>2
    <3>4. NewIndexInv'
      <4>1. \A u \in Threads \ {t} : pc[u] = "reg_final" => on[u] # on[t]
        BY <2>1
      <4> QED
        BY <2>1, <2>4, <3>1, <3>2, <4>1
    <3>5. LoadedIndexInv'
      BY <2>1, <3>2
    <3> QED
      BY <2>2, <3>3, <3>4, <3>5
  <2> QED
    BY <1>6, <2>3, <2>4 DEF RegisterIoctl, RegisterNoFile, RegisterRefused, RegisterAccepted
<1>7. ASSUME NEW t \in Threads, RegisterFinal(t) PROVE IndexInv'
  <2>1. BusyIsExclusive'
    BY <1>7 DEF RegisterFinal
  <2>2. StoredIndexInv'
    BY <1>7 DEF RegisterFinal
  <2>3. NewIndexInv' /\ LoadedIndexInv'
    BY <1>7 DEF RegisterFinal
  <2> QED
    BY <2>1, <2>2, <2>3
<1>8. ASSUME NEW t \in Threads, UnregisterIoctl(t) PROVE IndexInv'
  <2>1. BusyIsExclusive'
    BY <1>8 DEF UnregisterIoctl, UnregisterDone, UnregisterRefused,
           KernelUnregister
  <2>2. StoredIndexInv'
    BY <1>8 DEF UnregisterIoctl, UnregisterDone, UnregisterRefused,
           KernelUnregister
  <2>3. NewIndexInv' /\ LoadedIndexInv'
    BY <1>8 DEF UnregisterIoctl, UnregisterDone, UnregisterRefused,
           KernelUnregister
  <2> QED
    BY <2>1, <2>2, <2>3
<1>9. ASSUME NEW t \in Threads, UnregisterFinal(t) PROVE IndexInv'
  <2>1. BusyIsExclusive'
    BY <1>9 DEF UnregisterFinal
  <2>2. StoredIndexInv'
    BY <1>9 DEF UnregisterFinal
  <2>3. NewIndexInv' /\ LoadedIndexInv'
    BY <1>9 DEF UnregisterFinal
  <2> QED
    BY <2>1, <2>2, <2>3
<1>10. ASSUME NEW t \in Threads, WriteLoadIndex(t) PROVE IndexInv'
  <2>1. BusyIsExclusive'
    BY <1>10 DEF WriteLoadIndex
  <2>2. StoredIndexInv'
    BY <1>10 DEF WriteLoadIndex
  <2>4. NewIndexInv'
    BY <1>10 DEF WriteLoadIndex
  <2>3. LoadedIndexInv'
    <3>1. pc'[t] = "writev" => /\ write_index[on[t]] <= HIGHEST_VALID_WRITE_INDEX
                               /\ idx'[t] = write_index[on[t]]
      BY <1>10 DEF WriteLoadIndex
    <3>2. /\ UNCHANGED <<file_or_error, issued, on>>
          /\ \A u \in Threads \ {t} : pc'[u] = pc[u] /\ idx'[u] = idx[u]
      BY <1>10 DEF WriteLoadIndex
    <3> QED
      BY <3>1, <3>2
  <2> QED
    BY <2>1, <2>2, <2>3, <2>4
<1>11. ASSUME NEW t \in Threads, Writev(t) PROVE IndexInv'
  BY <1>11 DEF Writev
<1>12. ASSUME NEW tp \in Tracepoints, KernelUpdate(tp) PROVE IndexInv'
  BY <1>12 DEF KernelUpdate, dataFileVars
<1>13. CASE UNCHANGED vars
  BY <1>13 DEF vars, dataFileVars, tpVars
<1> QED
  BY <1>1, <1>2, <1>3, <1>4, <1>5, <1>6, <1>7, <1>8, <1>9, <1>10, <1>11, <1>12, <1>13
     DEF Next, StartCall, ContinueCall

(* The initial states satisfy both invariants.                             *)
LEMMA InvInit == Init => CellInv /\ IndexInv
<1> SUFFICES ASSUME Init PROVE CellInv /\ IndexInv
  OBVIOUS
<1>1. Published = {} /\ \A t \in Threads : Held(t) = {}
  BY CellValues DEF Init, FileInit, Published, Held
<1>2. DescriptorsOwned
  BY <1>1 DEF DescriptorsOwned, Init, FileInit
<1>3. CellInv
  BY <1>2 DEF Init, FileInit, CellInv, ReturnsPublished, LocalsClean, LoserHolds
<1>4. IndexInv
  BY WordValues DEF Init, FileInit, IndexInv, BusyIsExclusive, StoredIndexInv, NewIndexInv,
     LoadedIndexInv, Owns, RegSteps, GetSteps, UnregSteps
<1> QED
  BY <1>3, <1>4

(* The inductive invariant of the crate for callers that do as they like.  *)
THEOREM Invariant == Spec => [](TypeOK /\ CellInv /\ IndexInv)
BY TypeInit, TypeNext, InvInit, CellNext, IndexNext, PTL DEF Spec

(* BUSY is a lock: the debug_asserts of register and unregister never      *)
(* fail, even after a register that panicked.                              *)
THEOREM BusyIsALock == Spec => []BusyIsExclusive
BY Invariant, PTL DEF IndexInv

(* A write never sends an index that the kernel did not issue for this     *)
(* tracepoint on the file that it writes to.                               *)
THEOREM WritesAreAddressed == Spec => []WriteUsesIssuedIndex
<1>1. IndexInv => WriteUsesIssuedIndex
  BY DEF IndexInv, LoadedIndexInv, IssuedOn, WriteUsesIssuedIndex
<1> QED
  BY <1>1, Invariant, PTL

(* A valid write_index is the index the kernel has on record.              *)
THEOREM StoredIndexIsRegistered == Spec => []IndexIsRegistered
<1>1. IndexInv => IndexIsRegistered
  BY DEF IndexInv, StoredIndexInv, IndexIsRegistered
<1> QED
  BY <1>1, Invariant, PTL

-----------------------------------------------------------------------------
(* Callers that keep register's contract: the invariant SerialInv.         *)
LEMMA SerialInit == Init => SerialInv
BY WordValues
   DEF Init, FileInit, SerialInv, BusyHasOwner, IndexKept, OwnerForgotten, DropIsExclusive,
       UnregisterTellsTruth, DropUnregisters, Forgotten, InCall, GetSteps

(* Every step keeps SerialInv.                                             *)
LEMMA SerialNext ==
    ASSUME SerializedCallers
    PROVE  TypeOK /\ IndexInv /\ SerialInv /\ [Next]_vars => SerialInv'
<1> SUFFICES ASSUME TypeOK, IndexInv, SerialInv, [Next]_vars PROVE SerialInv'
  OBVIOUS
<1> USE WordValues DEF TypeOK, SerialInv, Goto, Leave, Enter, Swap, fileVars
<1> USE DEF BusyHasOwner, IndexKept, OwnerForgotten, DropIsExclusive,
      UnregisterTellsTruth, DropUnregisters, Forgotten, InCall, Owns,
      RegSteps, GetSteps, UnregSteps
<1>0. BusyIsExclusive
  BY DEF IndexInv
<1>1. ASSUME NEW t \in Threads, NEW tp \in Tracepoints, Register(t, tp) PROVE SerialInv'
  BY <1>0, <1>1 DEF Register, RegisterAllowed, BusyIsExclusive
<1>2. ASSUME NEW t \in Threads, NEW tp \in Tracepoints, Unregister(t, tp) PROVE SerialInv'
  <2>1. /\ pc[t] = "idle" /\ mem[tp] = "live" /\ on'[t] = tp
        /\ \A u \in Threads \ {t} : pc'[u] = pc[u] /\ on'[u] = on[u] /\ err'[u] = err[u]
        /\ write_index' = [write_index EXCEPT ![tp] = BUSY_WRITE_INDEX]
        /\ UNCHANGED <<kernelIndex, unregFailed, idx, mem>>
    BY <1>2 DEF Unregister, UnregisterSwap
  <2>2. \/ write_index[tp] = BUSY_WRITE_INDEX /\ UNCHANGED <<pc, err>>
        \/ /\ write_index[tp] = UNREGISTERED_WRITE_INDEX
           /\ pc'[t] = "unreg_final" /\ err'[t] = AlreadyUnregistered
        \/ /\ write_index[tp] <= HIGHEST_VALID_WRITE_INDEX
           /\ pc'[t] = "unreg_ioctl"
    BY <1>2 DEF Unregister, UnregisterSwap
  <2>3. write_index[tp] = UNREGISTERED_WRITE_INDEX => Forgotten(tp)
    OBVIOUS
  <2>4. BusyHasOwner'
    BY <2>1, <2>2
  <2>5. IndexKept' /\ DropUnregisters' /\ DropIsExclusive'
    BY <2>1, <2>2
  <2>6. OwnerForgotten' /\ UnregisterTellsTruth'
    BY <2>1, <2>2, <2>3 DEF AlreadyUnregistered
  <2> QED
    BY <2>4, <2>5, <2>6
<1>3. ASSUME NEW t \in Threads, NEW tp \in Tracepoints, Drop(t, tp) PROVE SerialInv'
  <2>1. /\ pc[t] = "idle" /\ mem[tp] = "live" /\ on'[t] = tp
        /\ \A u \in Threads \ {t} : pc'[u] = pc[u] /\ on'[u] = on[u] /\ err'[u] = err[u]
        /\ write_index' = [write_index EXCEPT ![tp] = BUSY_WRITE_INDEX]
        /\ UNCHANGED <<kernelIndex, unregFailed, idx>>
    BY <1>3 DEF Drop, UnregisterSwap
  <2>2. \/ write_index[tp] = BUSY_WRITE_INDEX /\ UNCHANGED <<pc, err>>
        \/ /\ write_index[tp] = UNREGISTERED_WRITE_INDEX
           /\ pc'[t] = "unreg_final" /\ err'[t] = AlreadyUnregistered
        \/ /\ write_index[tp] <= HIGHEST_VALID_WRITE_INDEX
           /\ pc'[t] = "unreg_ioctl"
    BY <1>3 DEF Drop, UnregisterSwap
  <2>3. write_index[tp] = UNREGISTERED_WRITE_INDEX => Forgotten(tp)
    OBVIOUS
  <2>4. \A u \in Threads : ~InCall(u, tp)
    BY <1>3 DEF Drop
  <2>5. write_index[tp] # BUSY_WRITE_INDEX
    BY <2>4
  <2>6. mem' = [mem EXCEPT ![tp] = "dropping"]
    BY <1>3, <2>5 DEF Drop
  <2>7. BusyHasOwner'
    BY <2>1, <2>2, <2>5
  <2>8. IndexKept' /\ DropUnregisters'
    BY <2>1, <2>2, <2>6
  <2>9. DropIsExclusive'
    BY <2>1, <2>2, <2>4, <2>5, <2>6
  <2>10. OwnerForgotten' /\ UnregisterTellsTruth'
    BY <2>1, <2>2, <2>3, <2>5 DEF AlreadyUnregistered
  <2> QED
    BY <2>7, <2>8, <2>9, <2>10
<1>4. ASSUME NEW t \in Threads, NEW tp \in Tracepoints, WriteLoadEnable(t, tp) PROVE SerialInv'
  BY <1>4 DEF WriteLoadEnable, WriteSteps
<1>5. ASSUME NEW t \in Threads, RegisterGet(t) PROVE SerialInv'
  <2>1. /\ pc[t] \in GetSteps /\ pc'[t] \in GetSteps
        /\ \A u \in Threads \ {t} : pc'[u] = pc[u]
    BY <1>5, GetStepFrame DEF RegisterGet
  <2>2. UNCHANGED tpVars
    BY <1>5 DEF RegisterGet
  <2>3. BusyHasOwner' /\ IndexKept' /\ OwnerForgotten'
    BY <2>1, <2>2 DEF tpVars
  <2>4. DropIsExclusive' /\ UnregisterTellsTruth' /\ DropUnregisters'
    BY <2>1, <2>2 DEF tpVars
  <2> QED
    BY <2>3, <2>4
<1>6. ASSUME NEW t \in Threads, RegisterIoctl(t) PROVE SerialInv'
  <2>1. /\ pc[t] = "got" /\ pc'[t] = "reg_final"
        /\ \A u \in Threads \ {t} : pc'[u] = pc[u] /\ idx'[u] = idx[u] /\ err'[u] = err[u]
        /\ UNCHANGED <<on, write_index, mem, unregFailed>>
    BY <1>6 DEF RegisterIoctl, RegisterNoFile, RegisterRefused, RegisterAccepted
  <2>2. BusyHasOwner' /\ DropIsExclusive'
    BY <2>1
  <2>3. \A tp \in Tracepoints \ {on[t]} : kernelIndex'[tp] = kernelIndex[tp]
    BY <1>6 DEF RegisterIoctl, RegisterNoFile, RegisterRefused, RegisterAccepted, KernelRegister
  <2>4. /\ mem[on[t]] = "live" /\ write_index[on[t]] = BUSY_WRITE_INDEX
        /\ \A u \in Threads \ {t} : Owns(u, on[t]) => FALSE
    BY <1>0, <2>1 DEF BusyIsExclusive
  <2>5. IndexKept' /\ DropUnregisters' /\ UnregisterTellsTruth'
    BY <2>1, <2>3, <2>4
  <2>6. idx'[t] = UNREGISTERED_WRITE_INDEX => UNCHANGED kernelIndex
    BY <1>6 DEF RegisterIoctl, RegisterNoFile, RegisterRefused, RegisterAccepted
  <2>7. OwnerForgotten'
    BY <2>1, <2>3, <2>4, <2>6
  <2> QED
    BY <2>2, <2>5, <2>7
<1>7. ASSUME NEW t \in Threads, RegisterFinal(t) PROVE SerialInv'
  BY <1>0, <1>7 DEF RegisterFinal, BusyIsExclusive, IndexInv, NewIndexInv
<1>8. ASSUME NEW t \in Threads, UnregisterIoctl(t) PROVE SerialInv'
  BY <1>0, <1>8, ErrnosArePositive DEF UnregisterIoctl, UnregisterDone, UnregisterRefused,
           KernelUnregister, BusyIsExclusive
<1>9. ASSUME NEW t \in Threads, UnregisterFinal(t) PROVE SerialInv'
  BY <1>0, <1>9 DEF UnregisterFinal, BusyIsExclusive
<1>10. ASSUME NEW t \in Threads, WriteLoadIndex(t) PROVE SerialInv'
  BY <1>10 DEF WriteLoadIndex, WriteSteps
<1>11. ASSUME NEW t \in Threads, Writev(t) PROVE SerialInv'
  BY <1>11 DEF Writev
<1>12. ASSUME NEW tp \in Tracepoints, KernelUpdate(tp) PROVE SerialInv'
  BY <1>12 DEF KernelUpdate, dataFileVars
<1>13. CASE UNCHANGED vars
  BY <1>13 DEF vars, dataFileVars, tpVars
<1> QED
  BY <1>1, <1>2, <1>3, <1>4, <1>5, <1>6, <1>7, <1>8, <1>9, <1>10, <1>11, <1>12, <1>13
     DEF Next, StartCall, ContinueCall

(* The inductive invariant for callers that keep register's contract.      *)
THEOREM SerialInvariant == ASSUME SerializedCallers PROVE Spec => []SerialInv
BY SerialInit, SerialNext, Invariant, PTL DEF Spec

(* The kernel's registration is never forgotten.                           *)
THEOREM RegistrationKept ==
    ASSUME SerializedCallers PROVE Spec => []NoLostRegistration
<1>1. TypeOK /\ SerialInv => NoLostRegistration
  BY DEF TypeOK, SerialInv, IndexKept, BusyHasOwner, Forgotten, NoLostRegistration
<1> QED
  BY <1>1, SerialInvariant, TypeCorrect, PTL

(* A tracepoint that has been dropped is not written to by the kernel.     *)
THEOREM DroppedMeansUnregistered ==
    ASSUME SerializedCallers PROVE Spec => []DropUnregisters
BY SerialInvariant, PTL DEF SerialInv

(* What unregister reports is what the kernel did.                         *)
THEOREM UnregisterIsTruthful ==
    ASSUME SerializedCallers PROVE Spec => []UnregisterTellsTruth
BY SerialInvariant, PTL DEF SerialInv
=============================================================================
