------------------------- MODULE EventHeaderProvider -------------------------
(***************************************************************************)
(* Provider of the eventheader crate: a static object that registers and   *)
(* unregisters all the tracepoints the linker collected for it.  The list  *)
(* of tracepoint pointers comes with NULLs and duplicates; register sorts  *)
(* and compacts it in place.  A busy flag keeps two threads off the list.  *)
(*                                                                         *)
(* A tracepoint is what module Tracepoint describes, seen one whole call   *)
(* at a time: "unregistered", "registered" or, after a register that       *)
(* panicked on an active tracepoint, "busy" for ever.  Each swap of the    *)
(* flag, each iteration of the compaction loops and each call on a         *)
(* tracepoint is one action.                                               *)
(***************************************************************************)
EXTENDS Integers, Sequences, SequencesExt, FiniteSets

CONSTANTS
    Threads,      \* threads that call register and unregister
    Pointers,     \* addresses of the tracepoints: positive numbers
    MaxEvents,    \* bound on the length of the linker's list
    Errnos        \* errno values of a failed registering ioctl

NULL == 0

ASSUME PointersAssumption == Pointers \subseteq Nat \ {NULL}
ASSUME MaxEventsAssumption == MaxEvents \in Nat
ASSUME ErrnosAssumption == Errnos \subseteq Nat \ {0}

VARIABLES
    busy,      \* the AtomicBool
    events,    \* the list of pointers, 1-based
    linked,    \* the pointers the linker put there (never changes)
    state,     \* per tracepoint: see above
    kernel,    \* tracepoints whose registration the kernel holds
    panicked,  \* some register call panicked
    misused,   \* history: a caller broke a precondition of register
    good_pos, next_pos,  \* loop variables of the compaction
    pc, pos, result      \* per thread: step, list position, first error

vars == <<busy, events, linked, state, kernel, panicked, misused, good_pos,
          next_pos, pc, pos, result>>
tracepointVars == <<linked, state, kernel, panicked, misused>>
loopVars == <<good_pos, next_pos>>

AlreadyUnregistered == 116

FixUpSteps == {"sort", "scan", "compact", "fill"}
ListSteps == FixUpSteps \cup {"reg_each", "unreg_each"}

TypeOK ==
    /\ busy \in BOOLEAN
    /\ events \in BoundedSeq(Pointers \cup {NULL}, MaxEvents)
    /\ linked \subseteq Pointers
    /\ state \in [Pointers -> {"unregistered", "registered", "busy"}]
    /\ kernel \subseteq Pointers
    /\ panicked \in BOOLEAN /\ misused \in BOOLEAN
    /\ good_pos \in 1 .. MaxEvents + 1 /\ next_pos \in 1 .. MaxEvents + 1
    /\ pc \in [Threads -> ListSteps \cup {"idle", "skipped"}]
    /\ pos \in [Threads -> 1 .. MaxEvents + 1]
    /\ result \in [Threads -> Nat]

Init ==
    /\ busy = FALSE
    /\ events \in BoundedSeq(Pointers \cup {NULL}, MaxEvents)
    /\ linked = ToSet(events) \ {NULL}
    /\ state = [p \in Pointers |-> "unregistered"]
    /\ kernel = {}
    /\ panicked = FALSE /\ misused = FALSE
    /\ good_pos = 1 /\ next_pos = 1
    /\ pc = [t \in Threads |-> "idle"]
    /\ pos = [t \in Threads |-> 1]
    /\ result = [t \in Threads |-> 0]

Goto(t, label) == pc' = [pc EXCEPT ![t] = label]

(* The documented preconditions: nothing registered yet, and no call of    *)
(* another thread during register.  unregister may overlap itself.         *)
RegisterAllowed ==
    /\ \A p \in Pointers : state[p] # "registered"
    /\ \A t \in Threads : pc[t] = "idle"

UnregisterAllowed == \A t \in Threads : pc[t] \in {"idle", "skipped", "unreg_each"}

(* Fault: the errors of the tracepoints are dropped.                       *)
KeepNone(t, e) == UNCHANGED result

(* if result == 0 { result = err }: the first error is kept.               *)
KeepFirst(t, e) == result' = [result EXCEPT ![t] = IF @ = 0 THEN e ELSE @]

(* The for loop over the list stops at its end or at the first NULL.       *)
AtEnd(t) == pos[t] <= Len(events) => events[pos[t]] = NULL

(* busy.swap(false) and return.                                            *)
Finish(t) ==
    /\ busy' = FALSE
    /\ Goto(t, "idle")
    /\ pos' = [pos EXCEPT ![t] = 1]
    /\ result' = [result EXCEPT ![t] = 0]

-----------------------------------------------------------------------------
(* register: take the flag or panic.                                       *)
Register(t) ==
    /\ pc[t] = "idle"
    /\ misused' = (misused \/ ~RegisterAllowed)
    /\ busy' = TRUE
    /\ IF busy THEN panicked' = TRUE /\ UNCHANGED pc
       ELSE /\ Goto(t, IF events = <<>> THEN "reg_each" ELSE "sort")
            /\ UNCHANGED panicked
    /\ UNCHANGED <<events, linked, state, kernel, loopVars, pos, result>>

(* The list after a sort: the same elements in another order.              *)
Reordered == \E f \in Bijection(DOMAIN events, DOMAIN events) :
    events' = [i \in DOMAIN events |-> events[f[i]]]

Descending(s) == \A i, j \in DOMAIN s : i < j => s[i] >= s[j]

(* Fault: ascending order, NULL first.                                     *)
SortAscending(t) ==
    /\ pc[t] = "sort"
    /\ Reordered /\ Descending(Reverse(events'))
    /\ good_pos' = 1
    /\ Goto(t, "scan")
    /\ UNCHANGED <<busy, tracepointVars, next_pos, pos, result>>

(* sort_unstable_by(|a, b| b.cmp(a)): descending, so NULL goes last.       *)
Sort(t) ==
    /\ pc[t] = "sort"
    /\ Reordered /\ Descending(events')
    /\ good_pos' = 1
    /\ Goto(t, "scan")
    /\ UNCHANGED <<busy, tracepointVars, next_pos, pos, result>>

(* Outer while: look for the first pair of equal neighbours.               *)
Scan(t) ==
    /\ pc[t] = "scan"
    /\ \/ /\ good_pos = Len(events)
          /\ next_pos' = good_pos + 1
          /\ Goto(t, "fill")
          /\ UNCHANGED good_pos
       \/ /\ good_pos # Len(events)
          /\ events[good_pos] = events[good_pos + 1]
          /\ next_pos' = good_pos + 2
          /\ Goto(t, "compact")
          /\ UNCHANGED good_pos
       \/ /\ good_pos # Len(events)
          /\ events[good_pos] # events[good_pos + 1]
          /\ good_pos' = good_pos + 1
          /\ UNCHANGED <<next_pos, pc>>
    /\ UNCHANGED <<busy, events, tracepointVars, pos, result>>

(* Inner while: move the next different element down.                      *)
Compact(t) ==
    /\ pc[t] = "compact"
    /\ \/ /\ next_pos = Len(events) + 1
          /\ next_pos' = good_pos + 1
          /\ Goto(t, "fill")
          /\ UNCHANGED <<events, good_pos>>
       \/ /\ next_pos # Len(events) + 1
          /\ IF events[good_pos] # events[next_pos]
                THEN /\ good_pos' = good_pos + 1
                     /\ events' = [events EXCEPT ![good_pos + 1] = events[next_pos]]
                ELSE UNCHANGED <<good_pos, events>>
          /\ next_pos' = next_pos + 1
          /\ UNCHANGED pc
    /\ UNCHANGED <<busy, tracepointVars, pos, result>>

(* Fill the rest of the list with NULL.                                    *)
Fill(t) ==
    /\ pc[t] = "fill"
    /\ \/ /\ next_pos = Len(events) + 1
          /\ Goto(t, "reg_each")
          /\ UNCHANGED <<events, next_pos>>
       \/ /\ next_pos # Len(events) + 1
          /\ events' = [events EXCEPT ![next_pos] = NULL]
          /\ next_pos' = next_pos + 1
          /\ UNCHANGED pc
    /\ UNCHANGED <<busy, tracepointVars, good_pos, pos, result>>

(* TracepointState::register of one tracepoint.  The kernel refuses an     *)
(* address it still has.  On an active tracepoint the assert! unwinds out  *)
(* of the whole call: the tracepoint stays busy, and so does the provider. *)
RegisterOne(t, p) ==
    \/ /\ state[p] = "unregistered" /\ p \notin kernel
       /\ state' = [state EXCEPT ![p] = "registered"]
       /\ kernel' = kernel \cup {p}
       /\ pos' = [pos EXCEPT ![t] = @ + 1]
       /\ UNCHANGED <<panicked, pc, result>>
    \/ /\ state[p] = "unregistered"
       /\ \E e \in Errnos : KeepFirst(t, e)
       /\ pos' = [pos EXCEPT ![t] = @ + 1]
       /\ UNCHANGED <<state, kernel, panicked, pc>>
    \/ /\ state[p] # "unregistered"
       /\ state' = [state EXCEPT ![p] = "busy"]
       /\ panicked' = TRUE
       /\ Goto(t, "idle")
       /\ pos' = [pos EXCEPT ![t] = 1]
       /\ result' = [result EXCEPT ![t] = 0]
       /\ UNCHANGED kernel

RegisterEach(t) ==
    /\ pc[t] = "reg_each"
    /\ \/ AtEnd(t) /\ Finish(t) /\ UNCHANGED tracepointVars
       \/ ~AtEnd(t) /\ RegisterOne(t, events[pos[t]]) /\ UNCHANGED <<busy, linked, misused>>
    /\ UNCHANGED <<events, loopVars>>

-----------------------------------------------------------------------------
(* Fault: the flag is set but not looked at.                               *)
UnregisterIgnoresBusy(t) ==
    /\ pc[t] = "idle"
    /\ misused' = (misused \/ ~UnregisterAllowed)
    /\ busy' = TRUE
    /\ Goto(t, "unreg_each")
    /\ UNCHANGED <<events, linked, state, kernel, panicked, loopVars, pos, result>>

(* unregister: if the flag is taken, return 0 without touching anything.   *)
Unregister(t) ==
    /\ pc[t] = "idle"
    /\ misused' = (misused \/ ~UnregisterAllowed)
    /\ busy' = TRUE
    /\ Goto(t, IF busy THEN "skipped" ELSE "unreg_each")
    /\ UNCHANGED <<events, linked, state, kernel, panicked, loopVars, pos, result>>

ReturnSkipped(t) ==
    /\ pc[t] = "skipped"
    /\ Goto(t, "idle")
    /\ UNCHANGED <<busy, events, tracepointVars, loopVars, pos, result>>

(* Fault: the result of a tracepoint's unregister is not looked at.        *)
UnregisterOneSilently(t, p) ==
    \/ /\ state[p] = "registered"
       /\ state' = [state EXCEPT ![p] = "unregistered"]
       /\ kernel' \in {kernel, kernel \ {p}}
       /\ UNCHANGED result
    \/ /\ state[p] = "unregistered"
       /\ UNCHANGED <<state, kernel, result>>

(* TracepointState::unregister of one tracepoint.  A failed ioctl is       *)
(* reported, but the tracepoint counts as unregistered from then on.  A    *)
(* busy one is never met: the register that left it so kept the flag.      *)
UnregisterOne(t, p) ==
    \/ /\ state[p] = "registered"
       /\ state' = [state EXCEPT ![p] = "unregistered"]
       /\ \/ kernel' = kernel \ {p} /\ UNCHANGED result
          \/ \E e \in Errnos : KeepFirst(t, e) /\ UNCHANGED kernel
    \/ /\ state[p] = "unregistered"
       /\ KeepFirst(t, AlreadyUnregistered)
       /\ UNCHANGED <<state, kernel>>

UnregisterEach(t) ==
    /\ pc[t] = "unreg_each"
    /\ \/ AtEnd(t) /\ Finish(t) /\ UNCHANGED tracepointVars
       \/ /\ ~AtEnd(t)
          /\ UnregisterOne(t, events[pos[t]])
          /\ pos' = [pos EXCEPT ![t] = @ + 1]
          /\ UNCHANGED <<busy, linked, panicked, misused, pc>>
    /\ UNCHANGED <<events, loopVars>>

-----------------------------------------------------------------------------
Continue(t) ==
    \/ Sort(t) \/ Scan(t) \/ Compact(t) \/ Fill(t) \/ RegisterEach(t)
    \/ ReturnSkipped(t) \/ UnregisterEach(t)

Next == \E t \in Threads : Register(t) \/ Unregister(t) \/ Continue(t)

(* Calls do not block: a thread in one finishes it.                        *)
Fairness == \A t \in Threads : WF_vars(Continue(t))

Spec == Init /\ [][Next]_vars /\ Fairness

-----------------------------------------------------------------------------
(* Only one thread at a time works on the list, whatever calls overlap:    *)
(* the in-place sort and compaction never race with another call's walk.   *)
ListIsPrivate ==
    \A t \in Threads : pc[t] \in ListSteps =>
        busy /\ \A u \in Threads : pc[u] \in ListSteps => u = t

(* When register starts registering, the list holds each linked tracepoint *)
(* exactly once, largest address first, and NULL everywhere after it.      *)
ListIsFixedUp ==
    \A t \in Threads : pc[t] = "reg_each" =>
        \E n \in 0 .. Len(events) :
            /\ n = Cardinality(linked)
            /\ linked = {events[i] : i \in 1 .. n}
            /\ \A i \in 1 .. n - 1 : events[i] > events[i + 1]
            /\ \A i \in n + 1 .. Len(events) : events[i] = NULL

(* A register that returns 0 has registered every tracepoint of the list.  *)
RegisterZeroMeansAll ==
    \A t \in Threads : pc[t] = "reg_each" /\ AtEnd(t) /\ result[t] = 0 =>
        kernel = linked

(* An unregister that went through the list and returns 0 has left the     *)
(* kernel with none of the registrations, those an earlier call failed to  *)
(* remove included.                                                        *)
UnregisterWalkLeavesNone ==
    \A t \in Threads : pc[t] = "unreg_each" /\ AtEnd(t) /\ result[t] = 0 =>
        kernel = {}

=============================================================================
