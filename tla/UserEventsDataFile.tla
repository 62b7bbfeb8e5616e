------------------------- MODULE UserEventsDataFile -------------------------
(***************************************************************************)
(* The process-wide cell USER_EVENTS_DATA_FILE of the tracepoint crate: an *)
(* atomic i32 that holds -EAGAIN until some thread needs the               *)
(* user_events_data file, then either the negated errno of a failed open   *)
(* or the descriptor that every later ioctl and writev uses.               *)
(*                                                                         *)
(* Any number of threads may run get() at once.  Each atomic access of the *)
(* cell and each system call is one action.  The cell is a static that is  *)
(* never dropped, so close() is never reached and is not an action.        *)
(***************************************************************************)
EXTENDS Integers

CONSTANTS
    Threads,     \* threads that call into the crate
    Fds,         \* descriptor numbers the kernel may hand out
    Errnos       \* errno values a failed open of the file may leave

ASSUME FdsAreDescriptors == Fds \subseteq Nat
ASSUME ErrnosArePositive == Errnos \subseteq Nat \ {0}

EAGAIN_ERROR == -11

(* A failed open is stored as -errno (and EAGAIN itself is such an errno). *)
OpenErrors == {-e : e \in Errnos}

VARIABLES
    file_or_error,  \* the atomic cell
    openFds,        \* kernel: descriptors of user_events_data now open
    pc,             \* where each thread is
    new,            \* update(): new_file_or_error of each thread
    old,            \* update(): old_file_or_error of each thread
    got             \* value get() gave back to each thread

fileVars == <<file_or_error, openFds, new, old, got>>
dataFileVars == <<file_or_error, openFds, pc, new, old, got>>

(* The steps of a thread inside get(); "got" is the return to the caller.  *)
GetSteps == {"get", "open", "cas", "close", "got"}

Goto(t, label) == pc' = [pc EXCEPT ![t] = label]

FileInit ==
    /\ file_or_error = EAGAIN_ERROR
    /\ openFds = {}
    /\ pc = [t \in Threads |-> "idle"]
    /\ new = [t \in Threads |-> EAGAIN_ERROR]
    /\ old = [t \in Threads |-> EAGAIN_ERROR]
    /\ got = [t \in Threads |-> EAGAIN_ERROR]

Return(t, v) ==
    /\ got' = [got EXCEPT ![t] = v]
    /\ Goto(t, "got")

(* get(): the relaxed load; the slow path only from the initial value.     *)
GetLoad(t) ==
    /\ pc[t] = "get"
    /\ \/ /\ file_or_error = EAGAIN_ERROR
          /\ Goto(t, "open")
          /\ UNCHANGED fileVars
       \/ /\ file_or_error # EAGAIN_ERROR
          /\ Return(t, file_or_error)
          /\ UNCHANGED <<file_or_error, openFds, new, old>>

(* update(), first half: look for the file and open it.  The search for    *)
(* the mount point is module ProcMounts; here only its outcome matters: a  *)
(* descriptor that is free, or an error.                                   *)
UpdateOpen(t) ==
    /\ pc[t] = "open"
    /\ \/ \E fd \in Fds \ openFds :
             /\ openFds' = openFds \cup {fd}
             /\ new' = [new EXCEPT ![t] = fd]
       \/ \E e \in OpenErrors :
             /\ new' = [new EXCEPT ![t] = e]
             /\ UNCHANGED openFds
    /\ old' = [old EXCEPT ![t] = EAGAIN_ERROR]
    /\ Goto(t, "cas")
    /\ UNCHANGED <<file_or_error, got>>

(* Fault: the loser forgets to close its descriptor.                       *)
CasYieldsLeaks(t) ==
    /\ file_or_error # old[t]
    /\ file_or_error >= 0 \/ new[t] < 0
    /\ Return(t, file_or_error)
    /\ UNCHANGED <<file_or_error, openFds, new, old>>

(* Fault: the loser returns its own value.                                 *)
CasYieldsOwn(t) ==
    /\ file_or_error # old[t]
    /\ file_or_error >= 0 \/ new[t] < 0
    /\ got' = [got EXCEPT ![t] = new[t]]
    /\ Goto(t, IF new[t] >= 0 THEN "close" ELSE "got")
    /\ UNCHANGED <<file_or_error, openFds, new, old>>

(* Fault: the expected value is not refreshed before the next round.       *)
CasRetriesStale(t) ==
    /\ file_or_error # old[t]
    /\ file_or_error < 0 /\ new[t] >= 0
    /\ UNCHANGED dataFileVars

(* update(), the compare_exchange loop: one iteration stores the new       *)
(* value, gives up in favour of the one it finds, or goes round again.  A  *)
(* descriptor beats an error; the first descriptor wins.                   *)
CasStores(t) ==
    /\ file_or_error = old[t]
    /\ file_or_error' = new[t]
    /\ Return(t, new[t])
    /\ UNCHANGED <<openFds, new, old>>

CasYields(t) ==
    /\ file_or_error # old[t]
    /\ file_or_error >= 0 \/ new[t] < 0
    /\ got' = [got EXCEPT ![t] = file_or_error]
    /\ Goto(t, IF new[t] >= 0 THEN "close" ELSE "got")
    /\ UNCHANGED <<file_or_error, openFds, new, old>>

CasRetries(t) ==
    /\ file_or_error # old[t]
    /\ file_or_error < 0 /\ new[t] >= 0
    /\ old' = [old EXCEPT ![t] = file_or_error]
    /\ UNCHANGED <<file_or_error, openFds, pc, new, got>>

UpdateCas(t) ==
    /\ pc[t] = "cas"
    /\ CasStores(t) \/ CasYields(t) \/ CasRetries(t)

(* update(): the loser closes the descriptor it opened.                    *)
UpdateClose(t) ==
    /\ pc[t] = "close"
    /\ openFds' = openFds \ {new[t]}
    /\ Goto(t, "got")
    /\ UNCHANGED <<file_or_error, new, old, got>>

(* The caller has taken the value of get(); its locals are gone.           *)
LeaveGet(t) ==
    /\ new' = [new EXCEPT ![t] = EAGAIN_ERROR]
    /\ old' = [old EXCEPT ![t] = EAGAIN_ERROR]
    /\ got' = [got EXCEPT ![t] = EAGAIN_ERROR]
    /\ UNCHANGED <<file_or_error, openFds>>

GetStep(t) == GetLoad(t) \/ UpdateOpen(t) \/ UpdateCas(t) \/ UpdateClose(t)

-----------------------------------------------------------------------------
(* Stand-alone specification: threads call get() again and again.          *)

CallGet(t) ==
    /\ pc[t] = "idle"
    /\ Goto(t, "get")
    /\ UNCHANGED fileVars

GetReturn(t) ==
    /\ pc[t] = "got"
    /\ Goto(t, "idle")
    /\ LeaveGet(t)

FileNext == \E t \in Threads : CallGet(t) \/ GetStep(t) \/ GetReturn(t)

(* A thread inside get() is never blocked, so a preemptive scheduler lets  *)
(* it go on; nothing makes a thread call get().                            *)
FileFairness == \A t \in Threads : WF_dataFileVars(GetStep(t) \/ GetReturn(t))

FileSpec == FileInit /\ [][FileNext]_dataFileVars /\ FileFairness

-----------------------------------------------------------------------------
Values == Fds \cup OpenErrors \cup {EAGAIN_ERROR}

(* Every variable of the cell's protocol keeps its type.                   *)
CellTypeOK ==
    /\ file_or_error \in Values
    /\ openFds \subseteq Fds
    /\ new \in [Threads -> Values]
    /\ old \in [Threads -> OpenErrors \cup {EAGAIN_ERROR}]
    /\ got \in [Threads -> Values]

FileTypeOK == CellTypeOK /\ pc \in [Threads -> GetSteps \cup {"idle"}]

(* The descriptors thread t has opened and not yet published or closed.    *)
Held(t) == IF pc[t] \in {"cas", "close"} /\ new[t] >= 0 THEN {new[t]} ELSE {}

Published == IF file_or_error >= 0 THEN {file_or_error} ELSE {}

(* update() neither leaks nor double-closes: an open descriptor is the     *)
(* published one or is held by one thread that is still in update(), and   *)
(* the published descriptor is open.                                       *)
DescriptorsOwned ==
    /\ openFds = Published \cup UNION {Held(t) : t \in Threads}
    /\ \A t \in Threads : Held(t) \cap Published = {}
    /\ \A t, u \in Threads : t # u => Held(t) \cap Held(u) = {}

(* Whatever the order of the compare_exchanges, a get() that hands back a  *)
(* descriptor hands back the published one, and a thread whose own open    *)
(* succeeded never returns an error (a failed open cannot mask it).        *)
ReturnsPublished ==
    \A t \in Threads : pc[t] \in {"close", "got"} =>
        /\ got[t] >= 0 => got[t] = file_or_error
        /\ new[t] >= 0 => got[t] >= 0

(* A thread outside update() keeps no descriptor in its locals.            *)
LocalsClean ==
    \A t \in Threads : pc[t] \notin {"cas", "close", "got"} => new[t] = EAGAIN_ERROR

(* The loser that is about to close its descriptor has one to close.       *)
LoserHolds == \A t \in Threads : pc[t] = "close" => new[t] >= 0 /\ got[t] >= 0

(* The inductive invariant behind the properties above.                    *)
CellInv == DescriptorsOwned /\ ReturnsPublished /\ LocalsClean /\ LoserHolds

(* The cell only moves from -EAGAIN to an error and from there or directly *)
(* to a descriptor, which stays: peek() in a later writev or ioctl sees    *)
(* the file the registration was made on.                                  *)
DescriptorIsFinal ==
    [][/\ file_or_error >= 0 => file_or_error' = file_or_error
       /\ file_or_error # EAGAIN_ERROR /\ file_or_error' # file_or_error
            => file_or_error' >= 0]_file_or_error

(* The compare_exchange loop is lock-free and bounded: every get() returns. *)
GetReturns == \A t \in Threads : pc[t] = "get" ~> pc[t] = "idle"

(* get() is linearizable: it implements the atomic cell, the compare-and-  *)
(* exchange (or the load of the fast path) being the instant at which a    *)
(* call takes effect.                                                      *)
Atomic == INSTANCE AtomicDataFile WITH
    Descriptors <- Fds,
    Errors <- OpenErrors,
    Unset <- EAGAIN_ERROR,
    cell <- file_or_error,
    result <- got,
    callers <- {t \in Threads : pc[t] \in {"get", "open", "cas"}}

ImplementsAtomic == Atomic!ASpec
=============================================================================
