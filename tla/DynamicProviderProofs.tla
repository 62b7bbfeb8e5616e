------------------------ MODULE DynamicProviderProofs ------------------------
(***************************************************************************)
(* Proofs about module DynamicProvider: for any number of event sets, keys *)
(* and threads.                                                            *)
(***************************************************************************)
EXTENDS DynamicProvider, TLAPS

(* A reference is to memory in use: what the provider lists, what is about *)
(* to be listed and what the threads hold is not free.                     *)
NoDangling ==
    /\ \A s \in sets \cup pending : mem[s] # Free
    /\ \A t \in Threads : held[t] # NoSet => mem[held[t]] # Free

(* The addresses the kernel has and was not asked in vain to unregister.   *)
Live == kernel \ refused

(* A set has a write index exactly while its address is one of these.      *)
IndexIsKernels == \A s \in Sets : mem[s].index <=> s \in Live

(* Where the registered sets are.  unregister starts when none is pending, *)
(* and what its loop has left behind is not registered.                    *)
Tracked ==
    /\ Live \subseteq sets \cup pending
    /\ \A a, b \in pending : a = b
    /\ provider # "live" => pending = {}
    /\ provider = "unregistering" => Live \subseteq left
    /\ provider = "dropped" => Live = {}

(* A write that began late is on a set the kernel still does not have: an  *)
(* address in use is not registered a second time.                         *)
LateIsUnregistered ==
    \A t \in Threads :
        /\ pc[t] # "idle" => held[t] # NoSet
        /\ pc[t] = "enabled" /\ late[t] => held[t] \notin Live
        /\ pc[t] = "indexed" => ~late[t]

IndInv == TypeOK /\ NoDangling /\ IndexIsKernels /\ Tracked /\ LateIsUnregistered

-----------------------------------------------------------------------------
Entries == [key : Keys, index : BOOLEAN, enabled : BOOLEAN, errno : {0, EIO}]

(* An event set is told from free memory by its key.                       *)
LEMMA EntryFacts ==
    /\ ~Free.index /\ Free.key = "none"
    /\ \A e \in Entries : e # Free
    /\ \A k \in Keys, b \in BOOLEAN : NewEventSet(k, b) \in Entries /\ ~NewEventSet(k, b).index
    /\ \A k \in Keys, err \in {0, EIO} :
           /\ Registered(k, err) \in Entries
           /\ Registered(k, err).index <=> err = 0
    /\ \A e \in Entries, b \in BOOLEAN :
           /\ Unregistered(e, b) \in Entries /\ ~Unregistered(e, b).index
    /\ \A e \in Entries : BitsAfter(e) \subseteq BOOLEAN
<1>1. Free.key = "none" /\ Free.index = FALSE
  BY DEF Free
<1>2. ASSUME NEW e \in Entries PROVE e # Free
  <2>1. e.key \in Keys
    BY DEF Entries
  <2> QED
    BY <1>1, <2>1, KeysAssumption
<1>3. ASSUME NEW k \in Keys, NEW b \in BOOLEAN
      PROVE  NewEventSet(k, b) \in Entries /\ NewEventSet(k, b).index = FALSE
  BY DEF NewEventSet, Entries
<1>4. ASSUME NEW k \in Keys, NEW err \in {0, EIO}
      PROVE  Registered(k, err) \in Entries /\ (Registered(k, err).index <=> err = 0)
  BY DEF Registered, NewEventSet, Entries
<1>5. ASSUME NEW e \in Entries, NEW b \in BOOLEAN
      PROVE  Unregistered(e, b) \in Entries /\ Unregistered(e, b).index = FALSE
  BY DEF Unregistered, Entries
<1>6. ASSUME NEW e \in Entries PROVE BitsAfter(e) \subseteq BOOLEAN
  BY DEF BitsAfter, Entries
<1> QED
  BY <1>1, <1>2, <1>3, <1>4, <1>5, <1>6

(* The ioctl is only made for addresses that are live, and afterwards they *)
(* are not, whatever the kernel answered.                                  *)
LEMMA IoctlFacts ==
    ASSUME TypeOK, IndexIsKernels, NEW ss \in SUBSET Sets, UnregisterIoctl(ss)
    PROVE  /\ kernel' \subseteq kernel /\ refused' \subseteq kernel'
           /\ Live' = Live \ ss
<1> DEFINE asked == {s \in ss : mem[s].index}
<1>2. \A s \in Sets : s \in asked <=> s \in ss /\ s \in kernel /\ s \notin refused
  BY DEF IndexIsKernels, Live
<1>3. PICK no \in SUBSET asked : /\ kernel' = kernel \ (asked \ no)
                               /\ refused' = (refused \ asked) \cup (no \cap kernel)
  BY DEF UnregisterIoctl
<1>4. asked \subseteq Sets /\ kernel \subseteq Sets /\ refused \subseteq kernel /\ no \subseteq asked
  BY DEF TypeOK
<1> HIDE DEF asked
<1>5. kernel' \subseteq kernel /\ refused' \subseteq kernel'
  BY <1>2, <1>3, <1>4
<1>6. Live' = Live \ ss
  BY <1>2, <1>3, <1>4 DEF Live
<1> QED
  BY <1>5, <1>6

(* Release frees what is not referenced, which is not live from then on;   *)
(* all else is as before.                                                  *)
LEMMA ReleaseFacts ==
    ASSUME TypeOK, IndexIsKernels, NEW ss, NEW h, Release(ss, h)
    PROVE  /\ mem' \in [Sets -> Entries \cup {Free}]
           /\ kernel' \subseteq Sets /\ refused' \subseteq kernel' /\ Live' \subseteq Live
           /\ \A s \in Sets : s \in pending \/ Referenced(s, ss, h) =>
                  mem'[s] = mem[s] /\ (s \in Live' <=> s \in Live)
           /\ IndexIsKernels'
<1> DEFINE gone == Unreferenced(ss, h)
<1>1. /\ mem' = [s \in Sets |-> IF s \in gone THEN Free ELSE mem[s]]
      /\ kernel' \subseteq kernel /\ refused' \subseteq kernel' /\ Live' = Live \ gone
  <2>1. gone \in SUBSET Sets /\ UnregisterIoctl(gone)
    BY DEF Release, Unreferenced
  <2> QED
    BY <2>1, IoctlFacts DEF Release
<1>2. mem \in [Sets -> Entries \cup {Free}] /\ kernel \subseteq Sets
  BY DEF TypeOK, Entries
<1>5. \A s \in Sets : s \in pending \/ Referenced(s, ss, h) => s \notin gone
  BY DEF Unreferenced
<1> HIDE DEF gone
<1>3. mem' \in [Sets -> Entries \cup {Free}] /\ kernel' \subseteq Sets /\ Live' \subseteq Live
  BY <1>1, <1>2
<1>4. /\ \A s \in Sets : s \in gone => mem'[s] = Free /\ s \notin Live'
      /\ \A s \in Sets : s \notin gone => mem'[s] = mem[s] /\ (s \in Live' <=> s \in Live)
  BY <1>1
<1>6. IndexIsKernels'
  <2> SUFFICES ASSUME NEW s \in Sets
               PROVE  mem'[s].index <=> s \in Live'
    BY DEF IndexIsKernels
  <2>1. CASE s \in gone
    <3>1. mem'[s] = Free /\ s \notin Live'
      BY <1>4, <2>1
    <3>2. ~mem'[s].index
      BY <3>1, EntryFacts
    <3> QED
      BY <3>1, <3>2
  <2>2. CASE s \notin gone
    <3>1. mem'[s] = mem[s] /\ (s \in Live' <=> s \in Live)
      BY <1>4, <2>2
    <3> QED
      BY <3>1 DEF IndexIsKernels
  <2> QED
    BY <2>1, <2>2
<1>7. ASSUME NEW s \in Sets, s \in pending \/ Referenced(s, ss, h)
      PROVE  mem'[s] = mem[s] /\ (s \in Live' <=> s \in Live)
  BY <1>4, <1>5, <1>7
<1> QED
  BY <1>1, <1>3, <1>6, <1>7

(* At the start nothing is in use.                                         *)
LEMMA IndInit == Init => IndInv
<1> SUFFICES ASSUME Init PROVE IndInv
  OBVIOUS
<1>1. TypeOK
  BY DEF Init, TypeOK
<1>2. NoDangling /\ Tracked /\ LateIsUnregistered
  BY DEF Init, NoDangling, Tracked, LateIsUnregistered, Live
<1>3. IndexIsKernels
  <2>1. ~Free.index
    BY EntryFacts
  <2> QED
    BY <2>1 DEF Init, IndexIsKernels, Live
<1> QED
  BY <1>1, <1>2, <1>3 DEF IndInv

(* The calls that give a thread another handle, or none, and free what is  *)
(* not referenced any more.                                                *)
LEMMA TakePreserves ==
    ASSUME IndInv, NEW t \in Threads, NEW s, s = NoSet \/ s \in sets, pc[t] = "idle", Take(t, s),
           UNCHANGED <<sets, provider, dropping, left, pending, writers>>
    PROVE  IndInv'
<1> USE DEF IndInv
<1>1. held' = [held EXCEPT ![t] = s] /\ held' \in [Threads -> Sets \cup {NoSet}]
  BY DEF Take, TypeOK
<1>2. /\ mem' \in [Sets -> Entries \cup {Free}] /\ kernel' \subseteq Sets /\ refused' \subseteq kernel' /\ Live' \subseteq Live /\ IndexIsKernels'
      /\ \A m \in Sets : m \in pending \/ Referenced(m, sets, held') =>
             mem'[m] = mem[m] /\ (m \in Live' <=> m \in Live)
  BY ReleaseFacts DEF Take
<1>3. sets' = sets /\ pending' = pending /\ provider' = provider /\ left' = left /\ pc' = pc /\ late' = late
  BY DEF writers
<1>4. TypeOK'
  BY <1>1, <1>2, <1>3 DEF TypeOK, Entries
<1>5. NoDangling'
  <2>1. \A m \in sets \cup pending : mem'[m] # Free
    BY <1>2 DEF NoDangling, TypeOK, Referenced
  <2>2. ASSUME NEW u \in Threads, held'[u] # NoSet PROVE mem'[held'[u]] # Free
    <3>1. held'[u] \in Sets /\ Referenced(held'[u], sets, held')
      BY <1>1, <2>2 DEF Referenced
    <3>2. mem[held'[u]] # Free
      BY <1>1, <2>2 DEF NoDangling, TypeOK
    <3> QED
      BY <1>2, <3>1, <3>2
  <2> QED
    BY <1>3, <2>1, <2>2 DEF NoDangling
<1>6. Tracked'
  BY <1>2, <1>3 DEF Tracked
<1>7. LateIsUnregistered'
  <2>1. \A u \in Threads : pc[u] # "idle" => held'[u] = held[u]
    BY <1>1 DEF TypeOK
  <2> QED
    BY <1>2, <1>3, <2>1 DEF LateIsUnregistered
<1> QED
  BY <1>2, <1>4, <1>5, <1>6, <1>7

(* A new set is registered at a free address, which nobody refers to.      *)
LEMMA RegisterNewPreserves ==
    ASSUME IndInv, NEW t \in Threads, NEW k \in Keys, RegisterNew(t, k)
    PROVE  IndInv'
<1> USE DEF IndInv
<1>1. PICK s \in Sets, err \in {0, EIO} :
        /\ mem[s] = Free
        /\ mem' = [mem EXCEPT ![s] = Registered(k, err)]
        /\ kernel' = IF err = 0 THEN kernel \cup {s} ELSE kernel
        /\ refused' = IF err = 0 THEN refused \ {s} ELSE refused
        /\ pending' = {s}
  BY DEF RegisterNew
<1>a. Live' = IF err = 0 THEN Live \cup {s} ELSE Live
  BY <1>1 DEF Live
<1>2. /\ sets' = sets /\ provider' = provider /\ left' = left /\ held' = held /\ pc' = pc
      /\ late' = late /\ dropping' = dropping /\ provider = "live" /\ pending = {}
  BY DEF RegisterNew, CanCall, writers
<1>3. Registered(k, err) \in Entries /\ Registered(k, err) # Free /\ (Registered(k, err).index <=> err = 0)
  BY EntryFacts
<1>4. mem'[s] = Registered(k, err) /\ \A m \in Sets : m # s => mem'[m] = mem[m]
  BY <1>1 DEF TypeOK
<1>5. s \notin sets /\ (\A u \in Threads : held[u] # NoSet => held[u] # s) /\ s \notin Live
  <2>1. ~mem[s].index
    BY <1>1, EntryFacts
  <2> QED
    BY <1>1, <2>1 DEF NoDangling, IndexIsKernels
<1>6. TypeOK'
  <2>1. mem' \in [Sets -> Entries \cup {Free}]
    BY <1>1, <1>3 DEF TypeOK, Entries
  <2>2. kernel' \subseteq Sets /\ refused' \subseteq kernel' /\ pending' \subseteq Sets
    BY <1>1 DEF TypeOK
  <2> QED
    BY <1>2, <2>1, <2>2 DEF TypeOK, Entries
<1>7. NoDangling'
  BY <1>1, <1>2, <1>3, <1>4, <1>5 DEF NoDangling, TypeOK
<1>8. IndexIsKernels'
  <2> SUFFICES ASSUME NEW m \in Sets PROVE mem'[m].index <=> m \in Live'
    BY DEF IndexIsKernels
  <2>1. CASE m = s
    BY <1>a, <1>3, <1>4, <1>5, <2>1
  <2>2. CASE m # s
    <3>1. m \in Live' <=> m \in Live
      BY <1>a, <2>2
    <3> QED
      BY <1>4, <2>2, <3>1 DEF IndexIsKernels
  <2> QED
    BY <2>1, <2>2
<1>9. Tracked'
  BY <1>1, <1>a, <1>2 DEF Tracked
<1>10. LateIsUnregistered'
  BY <1>a, <1>2, <1>5 DEF LateIsUnregistered
<1> QED
  BY <1>6, <1>7, <1>8, <1>9, <1>10

(* The pending set gets its references: the provider's and the caller's.   *)
LEMMA InsertSetPreserves ==
    ASSUME IndInv, NEW t \in Threads, InsertSet(t)
    PROVE  IndInv'
<1> USE DEF IndInv
<1>1. PICK s \in pending :
        /\ sets' = sets \cup {s}
        /\ held' = [held EXCEPT ![t] = s]
        /\ Release(sets', held')
  BY DEF InsertSet
<1>2. /\ pending' = {} /\ provider' = provider /\ left' = left /\ pc' = pc /\ pc[t] = "idle"
      /\ late' = late /\ dropping' = dropping /\ pending = {s} /\ s \in Sets
  BY DEF InsertSet, writers, Tracked, TypeOK
<1>3. /\ mem' \in [Sets -> Entries \cup {Free}] /\ kernel' \subseteq Sets /\ refused' \subseteq kernel' /\ Live' \subseteq Live /\ IndexIsKernels'
      /\ \A m \in Sets : m \in pending \/ Referenced(m, sets', held') =>
             mem'[m] = mem[m] /\ (m \in Live' <=> m \in Live)
  BY <1>1, ReleaseFacts
<1>4. held' \in [Threads -> Sets \cup {NoSet}] /\ \A u \in Threads : u # t => held'[u] = held[u]
  BY <1>1, <1>2 DEF TypeOK
<1>5. TypeOK'
  BY <1>1, <1>2, <1>3, <1>4 DEF TypeOK, Entries
<1>6. NoDangling'
  <2>1. \A m \in sets' : m \in Sets /\ mem[m] # Free
    BY <1>1 DEF NoDangling, TypeOK
  <2>2. \A m \in sets' : mem'[m] # Free
    BY <1>3, <2>1 DEF Referenced
  <2>3. ASSUME NEW u \in Threads, held'[u] # NoSet PROVE mem'[held'[u]] # Free
    <3>1. held'[u] \in Sets /\ Referenced(held'[u], sets', held')
      BY <1>4, <2>3 DEF Referenced
    <3>2. mem[held'[u]] # Free
      BY <1>1, <1>4, <2>3 DEF NoDangling, TypeOK
    <3> QED
      BY <1>3, <3>1, <3>2
  <2> QED
    BY <1>2, <2>2, <2>3 DEF NoDangling
<1>7. Tracked'
  BY <1>1, <1>2, <1>3 DEF Tracked
<1>8. LateIsUnregistered'
  BY <1>2, <1>3, <1>4 DEF LateIsUnregistered
<1> QED
  BY <1>3, <1>5, <1>6, <1>7, <1>8

(* A new set that is not registered, at a free address.                    *)
LEMMA CreateUnregisteredPreserves ==
    ASSUME IndInv, NEW t \in Threads, NEW k \in Keys, CreateUnregistered(t, k)
    PROVE  IndInv'
<1> USE DEF IndInv
<1>1. PICK s \in Sets, status \in BOOLEAN :
        /\ mem[s] = Free
        /\ sets' = sets \cup {s}
        /\ held' = [held EXCEPT ![t] = s]
        /\ mem' = [m \in Sets |->
                     CASE m = s -> NewEventSet(k, status)
                       [] m # s /\ m \in Unreferenced(sets', held') -> Free
                       [] OTHER -> mem[m]]
        /\ UnregisterIoctl(Unreferenced(sets', held'))
  BY DEF CreateUnregistered
<1> DEFINE gone == Unreferenced(sets', held')
<1>a. /\ kernel' \subseteq kernel /\ refused' \subseteq kernel' /\ Live' = Live \ gone
      /\ gone \subseteq Sets
  <2>1. gone \in SUBSET Sets
    BY DEF Unreferenced
  <2> QED
    BY <1>1, <2>1, IoctlFacts
<1>b. \A m \in Sets : Referenced(m, sets', held') => m \notin gone
  BY DEF Unreferenced
<1> HIDE DEF gone
<1>2. /\ pending' = {} /\ pending = {} /\ provider' = provider /\ left' = left /\ pc' = pc
      /\ pc[t] = "idle" /\ late' = late /\ dropping' = dropping /\ provider = "live"
  BY DEF CreateUnregistered, CanCall, writers
<1>3. NewEventSet(k, status) \in Entries /\ NewEventSet(k, status) # Free /\ ~NewEventSet(k, status).index
  BY EntryFacts
<1>4. /\ mem'[s] = NewEventSet(k, status)
      /\ \A m \in Sets : m # s /\ m \notin gone => mem'[m] = mem[m]
      /\ \A m \in Sets : m # s /\ m \in gone => mem'[m] = Free
  BY <1>1 DEF gone
<1>5. s \notin Live /\ (\A u \in Threads : held[u] # NoSet => held[u] # s)
  <2>1. ~mem[s].index
    BY <1>1, EntryFacts
  <2> QED
    BY <1>1, <2>1 DEF NoDangling, IndexIsKernels
<1>6. held' \in [Threads -> Sets \cup {NoSet}] /\ held'[t] = s /\ \A u \in Threads : u # t => held'[u] = held[u]
  BY <1>1 DEF TypeOK
<1>7. TypeOK'
  <2>1. \A m \in Sets : mem'[m] \in Entries \cup {Free}
    BY <1>3, <1>4 DEF TypeOK, Entries
  <2>2. mem' \in [Sets -> Entries \cup {Free}]
    BY <1>1, <2>1
  <2>3. kernel' \subseteq Sets /\ refused' \subseteq kernel' /\ sets' \subseteq Sets /\ left' \subseteq sets'
    BY <1>1, <1>a, <1>2 DEF TypeOK
  <2> QED
    BY <1>2, <1>6, <2>2, <2>3 DEF TypeOK, Entries
<1>8. NoDangling'
  <2>1. ASSUME NEW m \in sets' PROVE mem'[m] # Free
    <3>1. Referenced(m, sets', held')
      BY DEF Referenced
    <3>2. CASE m = s
      BY <1>3, <1>4, <3>2
    <3>3. CASE m # s
      BY <1>1, <1>b, <1>4, <3>1, <3>3 DEF NoDangling, TypeOK
    <3> QED
      BY <3>2, <3>3
  <2>2. ASSUME NEW u \in Threads, held'[u] # NoSet PROVE mem'[held'[u]] # Free
    <3>1. CASE held'[u] = s
      BY <1>3, <1>4, <3>1
    <3>2. CASE held'[u] # s
      <4>1. held'[u] = held[u] /\ held[u] \in Sets /\ mem[held[u]] # Free
        BY <1>6, <2>2, <3>2 DEF NoDangling, TypeOK
      <4>2. Referenced(held'[u], sets', held')
        BY DEF Referenced
      <4> QED
        BY <1>b, <1>4, <3>2, <4>1, <4>2
    <3> QED
      BY <3>1, <3>2
  <2> QED
    BY <1>2, <2>1, <2>2 DEF NoDangling
<1>9. IndexIsKernels'
  <2> SUFFICES ASSUME NEW m \in Sets PROVE mem'[m].index <=> m \in Live'
    BY DEF IndexIsKernels
  <2>1. CASE m = s
    BY <1>a, <1>3, <1>4, <1>5, <2>1
  <2>2. CASE m # s /\ m \notin gone
    <3>1. mem'[m] = mem[m] /\ (m \in Live' <=> m \in Live)
      BY <1>a, <1>4, <2>2
    <3> QED
      BY <3>1 DEF IndexIsKernels
  <2>3. CASE m # s /\ m \in gone
    <3>1. mem'[m] = Free /\ m \notin Live'
      BY <1>a, <1>4, <2>3
    <3>2. ~mem'[m].index
      BY <3>1, EntryFacts
    <3> QED
      BY <3>1, <3>2
  <2> QED
    BY <2>1, <2>2, <2>3
<1>10. Tracked'
  BY <1>1, <1>a, <1>2 DEF Tracked
<1>11. LateIsUnregistered'
  BY <1>a, <1>2, <1>6 DEF LateIsUnregistered
<1> QED
  BY <1>7, <1>8, <1>9, <1>10, <1>11

(* One iteration of unregister, and a listener that comes or goes: a set   *)
(* in use changes in place.                                                *)
LEMMA UnregisterEachPreserves ==
    ASSUME IndInv, UnregisterEach
    PROVE  IndInv'
<1> USE DEF IndInv
<1>1. PICK s \in left : /\ provider = "unregistering" /\ left' = left \ {s}
                        /\ \E bit \in BitsAfter(mem[s]) : mem' = [mem EXCEPT ![s] = Unregistered(@, bit)]
                        /\ UnregisterIoctl({s})
                        /\ UNCHANGED <<sets, provider, dropping, pending, held, writers>>
  BY DEF UnregisterEach
<1>2. /\ sets' = sets /\ provider' = provider /\ held' = held /\ pc' = pc /\ late' = late
      /\ dropping' = dropping /\ pending' = pending /\ s \in Sets /\ s \in sets
  BY <1>1 DEF writers, TypeOK
<1>a. kernel' \subseteq kernel /\ refused' \subseteq kernel' /\ Live' = Live \ {s}
  BY <1>1, <1>2, IoctlFacts
<1>3. mem[s] \in Entries
  BY <1>2 DEF NoDangling, TypeOK, Entries
<1>4. PICK bit \in BOOLEAN : mem' = [mem EXCEPT ![s] = Unregistered(mem[s], bit)]
  <2>1. BitsAfter(mem[s]) \subseteq BOOLEAN
    BY <1>3, EntryFacts
  <2> QED
    BY <1>1, <2>1
<1>5. mem'[s] \in Entries /\ mem'[s] # Free /\ ~mem'[s].index
  <2>1. mem'[s] = Unregistered(mem[s], bit)
    BY <1>2, <1>4 DEF TypeOK
  <2> QED
    BY <1>3, <2>1, EntryFacts
<1>6. \A m \in Sets : m # s => mem'[m] = mem[m]
  BY <1>4 DEF TypeOK
<1>7. TypeOK'
  <2>1. mem' \in [Sets -> Entries \cup {Free}]
    BY <1>4, <1>5, <1>6, <1>2 DEF TypeOK, Entries
  <2> QED
    BY <1>1, <1>a, <1>2, <2>1 DEF TypeOK, Entries
<1>8. NoDangling'
  <2>1. \A m \in Sets : mem[m] # Free => mem'[m] # Free
    BY <1>5, <1>6
  <2> QED
    BY <1>2, <2>1 DEF NoDangling, TypeOK
<1>9. IndexIsKernels'
  <2> SUFFICES ASSUME NEW m \in Sets PROVE mem'[m].index <=> m \in Live'
    BY DEF IndexIsKernels
  <2>1. CASE m = s
    BY <1>a, <1>5, <2>1
  <2>2. CASE m # s
    <3>1. mem'[m] = mem[m] /\ (m \in Live' <=> m \in Live)
      BY <1>a, <1>6, <2>2
    <3> QED
      BY <3>1 DEF IndexIsKernels
  <2> QED
    BY <2>1, <2>2
<1>10. Tracked'
  BY <1>1, <1>a, <1>2 DEF Tracked
<1>11. LateIsUnregistered'
  BY <1>a, <1>2 DEF LateIsUnregistered
<1> QED
  BY <1>7, <1>8, <1>9, <1>10, <1>11

(* The end of unregister: the list is cleared, and by then no set on it is *)
(* registered.                                                             *)
LEMMA UnregisterClearPreserves ==
    ASSUME IndInv, UnregisterClear
    PROVE  IndInv'
<1> USE DEF IndInv
<1>1. /\ provider = "unregistering" /\ left = {} /\ sets' = {} /\ dropping' = FALSE
      /\ provider' \in {"live", "dropped"} /\ Release({}, held)
      /\ left' = left /\ pending' = pending /\ held' = held /\ pc' = pc /\ late' = late
  BY DEF UnregisterClear, writers
<1>2. Live = {} /\ pending = {}
  BY <1>1 DEF Tracked
<1>3. /\ mem' \in [Sets -> Entries \cup {Free}] /\ kernel' \subseteq Sets /\ refused' \subseteq kernel' /\ Live' \subseteq Live /\ IndexIsKernels'
      /\ \A m \in Sets : m \in pending \/ Referenced(m, {}, held) => mem'[m] = mem[m]
  BY <1>1, ReleaseFacts
<1>4. TypeOK'
  BY <1>1, <1>2, <1>3 DEF TypeOK, Entries
<1>5. NoDangling'
  <2>1. ASSUME NEW u \in Threads, held[u] # NoSet PROVE mem'[held[u]] # Free
    <3>1. held[u] \in Sets /\ Referenced(held[u], {}, held)
      BY <2>1 DEF Referenced, TypeOK
    <3> QED
      BY <1>3, <2>1, <3>1 DEF NoDangling
  <2> QED
    BY <1>1, <1>2, <2>1 DEF NoDangling
<1>6. Tracked' /\ LateIsUnregistered'
  BY <1>1, <1>2, <1>3 DEF Tracked, LateIsUnregistered
<1> QED
  BY <1>3, <1>4, <1>5, <1>6

(* The kernel's toggle only changes the enable status of a set in use.     *)
LEMMA KernelTogglePreserves ==
    ASSUME IndInv, KernelToggle
    PROVE  IndInv'
<1> USE DEF IndInv
<1>1. PICK s \in kernel : mem[s] # Free /\ mem' = [mem EXCEPT ![s].enabled = ~@]
  BY DEF KernelToggle
<1>2. /\ sets' = sets /\ provider' = provider /\ held' = held /\ pc' = pc /\ late' = late
      /\ dropping' = dropping /\ pending' = pending /\ left' = left /\ kernel' = kernel
      /\ refused' = refused /\ Live' = Live /\ s \in Sets
  BY DEF KernelToggle, writers, registry, TypeOK, Live
<1>3. mem[s] \in Entries
  BY <1>1, <1>2 DEF NoDangling, TypeOK, Entries
<1>4. mem' = [mem EXCEPT ![s] = [mem[s] EXCEPT !.enabled = ~mem[s].enabled]]
  BY <1>1
<1>5. [mem[s] EXCEPT !.enabled = ~mem[s].enabled] \in Entries
      /\ ([mem[s] EXCEPT !.enabled = ~mem[s].enabled].index <=> mem[s].index)
  BY <1>3 DEF Entries
<1>6. /\ mem'[s] \in Entries /\ (mem'[s].index <=> mem[s].index)
      /\ \A m \in Sets : m # s => mem'[m] = mem[m]
  BY <1>2, <1>4, <1>5 DEF TypeOK
<1>7. TypeOK'
  <2>1. mem' \in [Sets -> Entries \cup {Free}]
    BY <1>2, <1>4, <1>6 DEF TypeOK, Entries
  <2> QED
    BY <1>2, <2>1 DEF TypeOK, Entries
<1>8. NoDangling'
  <2>1. \A m \in Sets : mem[m] # Free => mem'[m] # Free
    BY <1>6, EntryFacts
  <2> QED
    BY <1>2, <2>1 DEF NoDangling, TypeOK
<1>9. IndexIsKernels'
  BY <1>2, <1>6 DEF IndexIsKernels
<1>10. Tracked' /\ LateIsUnregistered'
  BY <1>2 DEF Tracked, LateIsUnregistered
<1> QED
  BY <1>7, <1>8, <1>9, <1>10

(* The steps of a write, and the start of unregister: nothing is freed,    *)
(* registered or unregistered.                                             *)
LEMMA WriteStepsPreserve ==
    ASSUME IndInv,
           UnregisterBegin \/ \E t \in Threads : WriteBegin(t) \/ WriteIndex(t) \/ WriteEvent(t)
    PROVE  IndInv'
<1> USE DEF IndInv
<1>1. /\ mem' = mem /\ sets' = sets /\ pending' = pending /\ held' = held
      /\ kernel' = kernel /\ refused' = refused /\ Live' = Live
  BY DEF UnregisterBegin, WriteBegin, WriteIndex, WriteEvent, registry, Live
<1>2. NoDangling' /\ IndexIsKernels'
  BY <1>1 DEF NoDangling, IndexIsKernels
<1>3. CASE UnregisterBegin
  BY <1>1, <1>2, <1>3 DEF UnregisterBegin, TypeOK, Tracked, LateIsUnregistered, writers
<1>4. ASSUME NEW t \in Threads, WriteBegin(t) PROVE IndInv'
  <2>1. TypeOK' /\ Tracked'
    BY <1>1, <1>4 DEF WriteBegin, TypeOK, Tracked
  <2>2. LateIsUnregistered'
    BY <1>1, <1>4 DEF WriteBegin, TypeOK, LateIsUnregistered, Live
  <2> QED
    BY <1>2, <2>1, <2>2
<1>5. ASSUME NEW t \in Threads, WriteIndex(t) PROVE IndInv'
  <2>1. TypeOK' /\ Tracked'
    BY <1>1, <1>5 DEF WriteIndex, TypeOK, Tracked
  <2>2. pc[t] = "enabled" /\ held[t] \in Sets /\ (late[t] => held[t] \notin Live)
    BY <1>5 DEF WriteIndex, LateIsUnregistered, TypeOK
  <2>3. late[t] => ~mem[held[t]].index
    BY <2>2 DEF IndexIsKernels
  <2>4. pc'[t] = IF mem[held[t]].index THEN "indexed" ELSE "idle"
    BY <1>5 DEF WriteIndex, TypeOK
  <2>5. ~late'[t] /\ \A u \in Threads : u # t => pc'[u] = pc[u] /\ late'[u] = late[u]
    BY <1>5, <2>3, <2>4 DEF WriteIndex, TypeOK
  <2>6. LateIsUnregistered'
    <3> SUFFICES ASSUME NEW u \in Threads
                 PROVE  /\ pc'[u] # "idle" => held'[u] # NoSet
                        /\ pc'[u] = "enabled" /\ late'[u] => held'[u] \notin Live'
                        /\ pc'[u] = "indexed" => ~late'[u]
      BY DEF LateIsUnregistered
    <3>1. CASE u = t
      BY <1>1, <2>2, <2>5, <3>1 DEF LateIsUnregistered
    <3>2. CASE u # t
      BY <1>1, <2>5, <3>2 DEF LateIsUnregistered
    <3> QED
      BY <3>1, <3>2
  <2> QED
    BY <1>2, <2>1, <2>6
<1>6. ASSUME NEW t \in Threads, WriteEvent(t) PROVE IndInv'
  <2>1. TypeOK' /\ Tracked'
    BY <1>1, <1>6 DEF WriteEvent, TypeOK, Tracked
  <2>2. LateIsUnregistered'
    BY <1>1, <1>6 DEF WriteEvent, TypeOK, LateIsUnregistered
  <2> QED
    BY <1>2, <2>1, <2>2
<1> QED
  BY <1>3, <1>4, <1>5, <1>6

-----------------------------------------------------------------------------
(* Every step of the provider, the threads and the kernel keeps it.        *)
LEMMA IndNext == IndInv /\ [Next]_vars => IndInv'
<1> SUFFICES ASSUME IndInv, [Next]_vars PROVE IndInv'
  OBVIOUS
<1>1. ASSUME NEW t \in Threads, NEW k \in Keys, FindSet(t, k) PROVE IndInv'
  BY <1>1, TakePreserves DEF FindSet, CanCall
<1>2. ASSUME NEW t \in Threads, DropHandle(t) PROVE IndInv'
  BY <1>2, TakePreserves DEF DropHandle
<1>3. CASE UNCHANGED vars
  BY <1>3 DEF vars, writers, IndInv, TypeOK, NoDangling, IndexIsKernels, Tracked, LateIsUnregistered, Live
<1> QED
  BY <1>1, <1>2, <1>3, RegisterNewPreserves, InsertSetPreserves, CreateUnregisteredPreserves,
     UnregisterEachPreserves, UnregisterClearPreserves, KernelTogglePreserves, WriteStepsPreserve
     DEF Next, ThreadStep

(* The inductive invariant implies the invariants of the runs.             *)
LEMMA IndImplies == IndInv => TypeOK /\ PinnedUntilUnregistered /\ NoLateEvent
<1> SUFFICES ASSUME IndInv PROVE TypeOK /\ PinnedUntilUnregistered /\ NoLateEvent
  OBVIOUS
<1>1. ASSUME NEW s \in kernel \ refused PROVE s \in sets \cup pending /\ mem[s].index
  BY DEF IndInv, Tracked, IndexIsKernels, TypeOK, Live
<1> QED
  BY <1>1 DEF IndInv, PinnedUntilUnregistered, NoLateEvent, LateIsUnregistered

(* The state of the dynamic provider keeps its type.                       *)
THEOREM DynamicTypeCorrect == Spec => []TypeOK
BY IndInit, IndNext, IndImplies, PTL DEF Spec

(* An address the kernel has is one the provider keeps alive, until        *)
(* unregister has asked for it back; with a kernel that grants what it is  *)
(* asked, this is the guarantee of the SAFETY comments of register_set.    *)
THEOREM DynamicPinned == Spec => []PinnedUntilUnregistered
BY IndInit, IndNext, IndImplies, PTL DEF Spec

(* While the kernel refuses no unregistration, memory it has registered is *)
(* not freed: the refusal that unregister ignores is the only way to       *)
(* violate RegisteredIsNotFreed.                                           *)
THEOREM DynamicNotFreed == Spec => [](refused = {} => RegisteredIsNotFreed)
<1>1. IndInv => (refused = {} => RegisteredIsNotFreed)
  BY DEF IndInv, Tracked, NoDangling, RegisteredIsNotFreed, Live
<1> QED
  BY <1>1, IndInit, IndNext, PTL DEF Spec

(* A thread that starts to write after its set was unregistered, or after  *)
(* the provider was dropped, sends nothing, whatever the enable status     *)
(* it read.                                                                *)
THEOREM DynamicNoLateEvent == Spec => []NoLateEvent
BY IndInit, IndNext, IndImplies, PTL DEF Spec

(* No reference is to freed memory: what the provider lists, what register *)
(* is about to list and what any thread holds or writes through is a live  *)
(* event set.                                                              *)
THEOREM DynamicNoDangling == Spec => []NoDangling
BY IndInit, IndNext, PTL DEF Spec, IndInv

=============================================================================
