-------------------------- MODULE DynamicProvider --------------------------
(***************************************************************************)
(* Provider and EventSet of the eventheader_dynamic crate.  A provider     *)
(* keeps a reference to every event set it created until it unregisters    *)
(* all of them; the program's threads keep references of their own, and    *)
(* write events through them, at any time before or after.                 *)
(*                                                                         *)
(* An event set is memory at some address (an element of Sets) that may    *)
(* be freed and allocated again.  The kernel knows a registered set by     *)
(* that address, and writes its enable status there.  The tracepoint state *)
(* in a set is what module Tracepoint describes, one whole call at a time. *)
(* The kernel may refuse to register an address and to unregister one; the *)
(* provider does not look at the errno of unregister.                      *)
(***************************************************************************)
EXTENDS Naturals, FiniteSets

CONSTANTS
    Sets,      \* addresses where an event set can be
    Keys,      \* pairs of a level and a keyword
    Threads,   \* threads that hold a set and write to it
    EIO        \* errno of a failed registration

ASSUME EIOAssumption == EIO \in Nat \ {0}
ASSUME KeysAssumption == "none" \notin Keys   \* the key of free memory

VARIABLES
    mem,       \* per address: the EventSet, or Free
    sets,      \* Provider.sets
    provider,  \* "live", "unregistering" or "dropped"
    dropping,  \* the unregister under way is the one of drop
    left,      \* sets that the loop of unregister has not visited
    pending,   \* sets registered by register_set and not yet inserted
    kernel,    \* addresses that the kernel holds registered
    refused,   \* history: those of them that it refused to unregister
    held,      \* per thread: the set it holds, or NoSet
    pc,        \* per thread: where its write is
    late       \* history, per thread: its write began on an unregistered set

vars == <<mem, sets, provider, dropping, left, pending, kernel, refused, held, pc, late>>
registry == <<kernel, refused>>
writers == <<pc, late>>

NoSet == "no set"
Free == [key |-> "none", index |-> FALSE, enabled |-> FALSE, errno |-> 0]

TypeOK ==
    /\ mem \in [Sets -> [key : Keys, index : BOOLEAN, enabled : BOOLEAN, errno : {0, EIO}]
                      \cup {Free}]
    /\ sets \subseteq Sets /\ left \subseteq sets /\ pending \subseteq Sets
    /\ kernel \subseteq Sets /\ refused \subseteq kernel
    /\ provider \in {"live", "unregistering", "dropped"} /\ dropping \in BOOLEAN
    /\ held \in [Threads -> Sets \cup {NoSet}]
    /\ pc \in [Threads -> {"idle", "enabled", "indexed"}]
    /\ late \in [Threads -> BOOLEAN]

Init ==
    /\ mem = [s \in Sets |-> Free]
    /\ sets = {} /\ left = {} /\ pending = {} /\ kernel = {} /\ refused = {}
    /\ provider = "live" /\ dropping = FALSE
    /\ held = [t \in Threads |-> NoSet]
    /\ pc = [t \in Threads |-> "idle"]
    /\ late = [t \in Threads |-> FALSE]

(* EventSet::new.                                                          *)
NewEventSet(k, status) == [key |-> k, index |-> FALSE, enabled |-> status, errno |-> 0]

Referenced(s, ss, h) == s \in ss \/ \E t \in Threads : h[t] = s

(* The ioctl of TracepointState::unregister for the sets of ss that have a *)
(* write index.  The kernel may refuse any of them, and then keeps the     *)
(* address.                                                                *)
UnregisterIoctl(ss) ==
    LET asked == {s \in ss : mem[s].index} IN
    \E no \in SUBSET asked :
        /\ kernel' = kernel \ (asked \ no)
        /\ refused' = (refused \ asked) \cup (no \cap kernel)

(* What goes with its last reference.                                      *)
Unreferenced(ss, h) ==
    {s \in Sets : mem[s] # Free /\ s \notin pending /\ ~Referenced(s, ss, h)}

(* The last reference to a set drops it: TracepointState::drop unregisters *)
(* the address, then the memory is free whatever the kernel answered.      *)
Release(ss, h) ==
    /\ mem' = [s \in Sets |-> IF s \in Unreferenced(ss, h) THEN Free ELSE mem[s]]
    /\ UnregisterIoctl(Unreferenced(ss, h))

(* A thread's handle is replaced by the one it is given.                   *)
Take(t, s) ==
    /\ held' = [held EXCEPT ![t] = s]
    /\ Release(sets, held')

CanCall(t) == provider = "live" /\ pending = {} /\ pc[t] = "idle"

-----------------------------------------------------------------------------
(* find_set, and the first arm of register_set and create_unregistered.    *)
FindSet(t, k) ==
    /\ CanCall(t)
    /\ \E s \in sets : mem[s].key = k /\ Take(t, s)
    /\ UNCHANGED <<sets, provider, dropping, left, pending, writers>>

NotFound(k) == \A s \in sets : mem[s].key # k

Registered(k, err) == [NewEventSet(k, FALSE) EXCEPT !.index = (err = 0), !.errno = err]

(* register_set, second arm: a new set at a free address is registered ... *)
RegisterNew(t, k) ==
    /\ CanCall(t) /\ NotFound(k)
    /\ \E s \in Sets, err \in {0, EIO} :
          /\ mem[s] = Free
          /\ mem' = [mem EXCEPT ![s] = Registered(k, err)]
          /\ kernel' = IF err = 0 THEN kernel \cup {s} ELSE kernel
          /\ refused' = IF err = 0 THEN refused \ {s} ELSE refused
          /\ pending' = {s}
    /\ UNCHANGED <<sets, provider, dropping, left, held, writers>>

(* ... then inserted, and returned to the caller.                          *)
InsertSet(t) ==
    /\ pc[t] = "idle"
    /\ \E s \in pending :
          /\ sets' = sets \cup {s}
          /\ held' = [held EXCEPT ![t] = s]
          /\ Release(sets', held')
    /\ pending' = {}
    /\ UNCHANGED <<provider, dropping, left, writers>>

(* create_unregistered, second arm.                                        *)
CreateUnregistered(t, k) ==
    /\ CanCall(t) /\ NotFound(k)
    /\ \E s \in Sets, status \in BOOLEAN :
          /\ mem[s] = Free
          /\ sets' = sets \cup {s}
          /\ held' = [held EXCEPT ![t] = s]
          /\ mem' = [m \in Sets |->
                       CASE m = s -> NewEventSet(k, status)
                         [] m # s /\ m \in Unreferenced(sets', held') -> Free
                         [] OTHER -> mem[m]]
          /\ UnregisterIoctl(Unreferenced(sets', held'))
    /\ UNCHANGED <<provider, dropping, left, pending, writers>>

(* A thread lets its handle go.                                            *)
DropHandle(t) ==
    /\ pc[t] = "idle" /\ held[t] # NoSet
    /\ Take(t, NoSet)
    /\ UNCHANGED <<sets, provider, dropping, left, pending, writers>>

-----------------------------------------------------------------------------
(* Provider::unregister, called by the program or by drop: each set in     *)
(* turn, then the list is cleared.                                         *)
UnregisterBegin ==
    /\ provider = "live" /\ pending = {}
    /\ provider' = "unregistering"
    /\ dropping' \in BOOLEAN
    /\ left' = sets
    /\ UNCHANGED <<mem, sets, pending, registry, held, writers>>

(* Fault: TracepointState::unregister leaves the write index.              *)
UnregisteredKeepsIndex(e, bit) == [e EXCEPT !.enabled = bit]

(* TracepointState::unregister: the write index goes whether the kernel    *)
(* agrees or not.  It clears the enable bit of the address, or on older    *)
(* versions and when it refuses leaves it.                                 *)
Unregistered(e, bit) == [e EXCEPT !.index = FALSE, !.enabled = bit]

BitsAfter(e) == IF e.index THEN {FALSE, e.enabled} ELSE {e.enabled}

(* Fault: sets without listeners are left out of the loop.                 *)
UnregisterEachEnabled ==
    \E s \in left :
        /\ provider = "unregistering"
        /\ left' = left \ {s}
        /\ mem' = IF mem[s].enabled THEN [mem EXCEPT ![s] = Unregistered(@, FALSE)] ELSE mem
        /\ kernel' = IF mem[s].enabled THEN kernel \ {s} ELSE kernel
        /\ UNCHANGED <<sets, provider, dropping, pending, refused, held, writers>>

UnregisterEach ==
    \E s \in left :
        /\ provider = "unregistering"
        /\ left' = left \ {s}
        /\ \E bit \in BitsAfter(mem[s]) : mem' = [mem EXCEPT ![s] = Unregistered(@, bit)]
        /\ UnregisterIoctl({s})
        /\ UNCHANGED <<sets, provider, dropping, pending, held, writers>>

UnregisterClear ==
    /\ provider = "unregistering" /\ left = {}
    /\ provider' = IF dropping THEN "dropped" ELSE "live"
    /\ sets' = {}
    /\ dropping' = FALSE
    /\ Release({}, held)
    /\ UNCHANGED <<left, pending, held, writers>>

-----------------------------------------------------------------------------
(* The kernel: a listener comes or goes.  The kernel writes to an address  *)
(* it has even when the set there is another one by now.                   *)
KernelToggle ==
    /\ \E s \in kernel : mem[s] # Free /\ mem' = [mem EXCEPT ![s].enabled = ~@]
    /\ UNCHANGED <<sets, provider, dropping, left, pending, registry, held, writers>>

(* EventBuilder::write through a handle: loads the enable status, the      *)
(* write index, then calls writev.                                         *)
WriteBegin(t) ==
    /\ pc[t] = "idle" /\ held[t] # NoSet
    /\ mem[held[t]].enabled
    /\ pc' = [pc EXCEPT ![t] = "enabled"]
    /\ late' = [late EXCEPT ![t] = held[t] \notin kernel \ refused]
    /\ UNCHANGED <<mem, sets, provider, dropping, left, pending, registry, held>>

WriteIndex(t) ==
    /\ pc[t] = "enabled"
    /\ pc' = [pc EXCEPT ![t] = IF mem[held[t]].index THEN "indexed" ELSE "idle"]
    /\ late' = [late EXCEPT ![t] = @ /\ pc'[t] # "idle"]
    /\ UNCHANGED <<mem, sets, provider, dropping, left, pending, registry, held>>

WriteEvent(t) ==
    /\ pc[t] = "indexed"
    /\ pc' = [pc EXCEPT ![t] = "idle"]
    /\ late' = [late EXCEPT ![t] = FALSE]
    /\ UNCHANGED <<mem, sets, provider, dropping, left, pending, registry, held>>

ThreadStep(t) ==
    \/ \E k \in Keys : FindSet(t, k) \/ RegisterNew(t, k) \/ CreateUnregistered(t, k)
    \/ InsertSet(t) \/ DropHandle(t)
    \/ WriteBegin(t) \/ WriteIndex(t) \/ WriteEvent(t)

Next ==
    \/ \E t \in Threads : ThreadStep(t)
    \/ UnregisterBegin \/ UnregisterEach \/ UnregisterClear
    \/ KernelToggle

(* The loop of unregister and a write under way do not stop halfway.       *)
Fairness ==
    /\ WF_vars(UnregisterEach) /\ WF_vars(UnregisterClear)
    /\ \A t \in Threads : WF_vars(WriteIndex(t)) /\ WF_vars(WriteEvent(t))

Spec == Init /\ [][Next]_vars /\ Fairness

-----------------------------------------------------------------------------
(* While the kernel has the address of a set that it was not asked in vain *)
(* to unregister, the provider itself holds a reference to the set (or is  *)
(* about to), and the set has its write index.  So no holder of the only   *)
(* other reference frees or moves it, and what a provider leaves behind in *)
(* the kernel when it is dropped is only what the kernel refused.          *)
PinnedUntilUnregistered ==
    \A s \in kernel \ refused : s \in sets \cup pending /\ mem[s].index

(* A write that begins on a set that is not registered, because the        *)
(* provider unregistered it (whatever the kernel answered) or was dropped, *)
(* or because the set never was, sends no event, enabled though the set    *)
(* may look.                                                               *)
NoLateEvent ==
    \A t \in Threads : pc[t] = "indexed" => ~late[t]

(* unregister always comes to its end, whatever the threads that hold sets *)
(* do; and then the kernel has been asked for every set it still has.      *)
UnregisterEnds ==
    provider = "unregistering" ~> sets = {} /\ kernel \subseteq refused

(* What the SAFETY comments of register_set guarantee: "nobody ever        *)
(* moves-from or deallocates set_mut.state while it is registered".  False *)
(* of the code: unregister drops the errno of state.unregister and clears  *)
(* the list, so a set whose unregistration failed is freed with its last   *)
(* reference while the kernel still has its address.                       *)
RegisteredIsNotFreed ==
    \A s \in kernel : mem[s] # Free
=============================================================================
