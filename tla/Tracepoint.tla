------------------------------ MODULE Tracepoint ------------------------------
(***************************************************************************)
(* TracepointState of the tracepoint crate: a registration of a tracepoint *)
(* with the kernel, shared by any number of threads through two atomic     *)
(* words.  write_index says whether the tracepoint is registered, and is   *)
(* also the lock (BUSY) that register and unregister take by swapping it;  *)
(* enable_status is written by the kernel behind the program's back from   *)
(* the registering ioctl to the unregistering one.                         *)
(*                                                                         *)
(* Each atomic access and each system call is one action, so the calls of  *)
(* several threads interleave as they do in the program.  A failed assert! *)
(* unwinds the calling thread: it leaves the words as they are.            *)
(***************************************************************************)
EXTENDS UserEventsDataFile

CONSTANTS
    Tracepoints,      \* TracepointState objects
    U32_MAX,          \* u32::MAX (any bound that leaves room for an index)
    Indexes,          \* write indexes the kernel may assign
    SerializedCallers \* TRUE: callers keep register's "Requires" clause

UNREGISTERED_WRITE_INDEX == U32_MAX
BUSY_WRITE_INDEX == U32_MAX - 1
HIGHEST_VALID_WRITE_INDEX == U32_MAX - 2

ASSUME U32MaxAssumption == U32_MAX \in Nat /\ U32_MAX > 2
ASSUME IndexesAssumption == Indexes \subseteq 0 .. HIGHEST_VALID_WRITE_INDEX
ASSUME CallersAssumption == SerializedCallers \in BOOLEAN

NoIndex == -1

VARIABLES
    write_index,    \* per tracepoint: the atomic word
    enable_status,  \* per tracepoint: the atomic word the kernel writes
    mem,            \* per tracepoint: "live", "dropping", "freed"
    kernelIndex,    \* kernel: index under which enable_status is registered
    issued,         \* kernel: every <<file, index>> it assigned so far
    unregFailed,    \* kernel: an unregistering ioctl failed
    on,             \* per thread: the tracepoint its call is about
    idx,            \* per thread: local write_index
    err             \* per thread: local error (0: success)

tpVars == <<write_index, enable_status, mem, kernelIndex, issued,
            unregFailed, on, idx, err>>
vars == <<dataFileVars, tpVars>>

RegSteps == GetSteps \cup {"reg_final"}
UnregSteps == {"unreg_ioctl", "unreg_final"}
WriteSteps == {"load_index", "writev"}

(* The literal 116 of unregister: nothing to unregister.                   *)
AlreadyUnregistered == 116

TypeOK ==
    /\ CellTypeOK
    /\ pc \in [Threads -> {"idle"} \cup RegSteps \cup UnregSteps \cup WriteSteps]
    /\ write_index \in [Tracepoints ->
          Indexes \cup {UNREGISTERED_WRITE_INDEX, BUSY_WRITE_INDEX}]
    /\ enable_status \in [Tracepoints -> {0, 1}]
    /\ mem \in [Tracepoints -> {"live", "dropping", "freed"}]
    /\ kernelIndex \in [Tracepoints -> Indexes \cup {NoIndex}]
    /\ issued \in [Tracepoints -> SUBSET (Fds \X Indexes)]
    /\ unregFailed \in [Tracepoints -> BOOLEAN]
    /\ on \in [Threads -> Tracepoints]
    /\ idx \in [Threads -> Indexes \cup {UNREGISTERED_WRITE_INDEX}]
    /\ err \in [Threads -> Nat]

Init ==
    /\ FileInit
    /\ write_index = [tp \in Tracepoints |-> UNREGISTERED_WRITE_INDEX]
    /\ enable_status \in [Tracepoints -> {0, 1}]  \* new(initial_enable_status)
    /\ mem = [tp \in Tracepoints |-> "live"]
    /\ kernelIndex = [tp \in Tracepoints |-> NoIndex]
    /\ issued = [tp \in Tracepoints |-> {}]
    /\ unregFailed = [tp \in Tracepoints |-> FALSE]
    /\ on \in [Threads -> Tracepoints]
    /\ idx = [t \in Threads |-> UNREGISTERED_WRITE_INDEX]
    /\ err = [t \in Threads |-> 0]

InCall(t, tp) == pc[t] # "idle" /\ on[t] = tp

(* The call returns; its locals (the error it hands back too) are gone.    *)
Leave(t) ==
    /\ Goto(t, "idle")
    /\ idx' = [idx EXCEPT ![t] = UNREGISTERED_WRITE_INDEX]
    /\ err' = [err EXCEPT ![t] = 0]

(* Fault: only stores over UNREGISTERED or BUSY, so that a valid index     *)
(* stays in the word while it is being unregistered.                       *)
SwapKeepsIndex(tp, v) ==
    write_index' = [write_index EXCEPT ![tp] =
        IF @ <= HIGHEST_VALID_WRITE_INDEX THEN @ ELSE v]

Swap(tp, v) == write_index' = [write_index EXCEPT ![tp] = v]

(* Thread t starts a call on tp; Rust lets it while tp has not been moved  *)
(* into drop.                                                              *)
Enter(t, tp) ==
    /\ pc[t] = "idle"
    /\ mem[tp] = "live"
    /\ on' = [on EXCEPT ![t] = tp]

(* The contract of register: "this TracepointState is not currently        *)
(* registered" and nobody else is registering it.  A concurrent unregister *)
(* is not excluded: the assert! is there to catch it.                      *)
RegisterAllowed(tp) ==
    /\ write_index[tp] > HIGHEST_VALID_WRITE_INDEX
    /\ \A u \in Threads : on[u] = tp => pc[u] \notin RegSteps

-----------------------------------------------------------------------------
(* register_with_flags *)

(* swap(BUSY), then assert!(old == UNREGISTERED): on failure the thread    *)
(* panics out of the call and BUSY stays in the word.                      *)
Register(t, tp) ==
    /\ Enter(t, tp)
    /\ SerializedCallers => RegisterAllowed(tp)
    /\ Swap(tp, BUSY_WRITE_INDEX)
    /\ IF write_index[tp] = UNREGISTERED_WRITE_INDEX
          THEN Goto(t, "get")
          ELSE UNCHANGED pc
    /\ UNCHANGED <<fileVars, enable_status, mem, kernelIndex, issued,
                   unregFailed, idx, err>>

(* The call of USER_EVENTS_DATA_FILE.get().                                *)
RegisterGet(t) == GetStep(t) /\ UNCHANGED tpVars

(* Kernel (DIAG_IOCSREG): refuse, or assign an index of that file and from *)
(* now on write enable_status.  One registration per address.              *)
KernelRegister(tp, file, i) ==
    /\ kernelIndex[tp] = NoIndex
    /\ kernelIndex' = [kernelIndex EXCEPT ![tp] = i]
    /\ issued' = [issued EXCEPT ![tp] = @ \cup {<<file, i>>}]
    /\ enable_status' \in {[enable_status EXCEPT ![tp] = v] : v \in {0, 1}}

(* get() failed: no ioctl, its errno is returned.                          *)
RegisterNoFile(t) ==
    /\ got[t] < 0
    /\ err' = [err EXCEPT ![t] = -got[t]]
    /\ idx' = [idx EXCEPT ![t] = UNREGISTERED_WRITE_INDEX]
    /\ UNCHANGED <<kernelIndex, issued, enable_status>>

(* The ioctl failed.                                                       *)
RegisterRefused(t) ==
    /\ got[t] >= 0
    /\ \E e \in Errnos : err' = [err EXCEPT ![t] = e]
    /\ idx' = [idx EXCEPT ![t] = UNREGISTERED_WRITE_INDEX]
    /\ UNCHANGED <<kernelIndex, issued, enable_status>>

RegisterAccepted(t) ==
    /\ got[t] >= 0
    /\ err' = [err EXCEPT ![t] = 0]
    /\ \E i \in Indexes :
          /\ KernelRegister(on[t], got[t], i)
          /\ idx' = [idx EXCEPT ![t] = i]

RegisterIoctl(t) ==
    /\ pc[t] = "got"
    /\ RegisterNoFile(t) \/ RegisterRefused(t) \/ RegisterAccepted(t)
    /\ Goto(t, "reg_final")
    /\ LeaveGet(t)
    /\ UNCHANGED <<write_index, mem, unregFailed, on>>

(* Fault: new_write_index is not what is swapped in at the end.            *)
RegisterFinalLosesIndex(t) ==
    /\ pc[t] = "reg_final"
    /\ Swap(on[t], UNREGISTERED_WRITE_INDEX)
    /\ Leave(t)
    /\ UNCHANGED <<fileVars, enable_status, mem, kernelIndex, issued,
                   unregFailed, on>>

(* swap(new_write_index); debug_assert!(old == BUSY).                      *)
RegisterFinal(t) ==
    /\ pc[t] = "reg_final"
    /\ Swap(on[t], idx[t])
    /\ Leave(t)
    /\ UNCHANGED <<fileVars, enable_status, mem, kernelIndex, issued,
                   unregFailed, on>>

-----------------------------------------------------------------------------
(* unregister and drop *)

(* Fault: BUSY is treated like UNREGISTERED.                               *)
UnregisterSwapIgnoresBusy(t, tp) ==
    /\ Swap(tp, BUSY_WRITE_INDEX)
    /\ \/ /\ write_index[tp] > HIGHEST_VALID_WRITE_INDEX
          /\ err' = [err EXCEPT ![t] = AlreadyUnregistered]
          /\ Goto(t, "unreg_final")
       \/ /\ write_index[tp] <= HIGHEST_VALID_WRITE_INDEX
          /\ Goto(t, "unreg_ioctl")
          /\ UNCHANGED err
    /\ UNCHANGED <<fileVars, enable_status, kernelIndex, issued,
                   unregFailed, idx>>

(* swap(BUSY): leave at once if somebody else holds it, skip the ioctl if  *)
(* there is nothing to unregister.                                         *)
UnregisterSwap(t, tp) ==
    /\ Swap(tp, BUSY_WRITE_INDEX)
    /\ \/ /\ write_index[tp] = BUSY_WRITE_INDEX
          /\ UNCHANGED <<pc, err>>  \* returns EBUSY
       \/ /\ write_index[tp] = UNREGISTERED_WRITE_INDEX
          /\ err' = [err EXCEPT ![t] = AlreadyUnregistered]
          /\ Goto(t, "unreg_final")
       \/ /\ write_index[tp] <= HIGHEST_VALID_WRITE_INDEX
          /\ Goto(t, "unreg_ioctl")
          /\ UNCHANGED err
    /\ UNCHANGED <<fileVars, enable_status, kernelIndex, issued,
                   unregFailed, idx>>

Unregister(t, tp) ==
    /\ Enter(t, tp)
    /\ UnregisterSwap(t, tp)
    /\ UNCHANGED mem

(* Fault: drop gives the memory back without calling unregister.           *)
DropOnly(t, tp) ==
    /\ Enter(t, tp)
    /\ \A u \in Threads : ~InCall(u, tp)
    /\ mem' = [mem EXCEPT ![tp] = "freed"]
    /\ UNCHANGED <<dataFileVars, write_index, enable_status, kernelIndex, issued,
                   unregFailed, idx, err>>

(* Drop for TracepointState: exclusive access, unregister, then the memory *)
(* is given back.                                                          *)
Drop(t, tp) ==
    /\ Enter(t, tp)
    /\ \A u \in Threads : ~InCall(u, tp)
    /\ UnregisterSwap(t, tp)
    /\ mem' = [mem EXCEPT ![tp] =
          IF write_index[tp] = BUSY_WRITE_INDEX THEN "freed" ELSE "dropping"]

(* Kernel (DIAG_IOCSUNREG on the peeked file): stop writing enable_status  *)
(* and clear it, or fail and leave everything as it is.                    *)
KernelUnregister(tp) ==
    /\ file_or_error >= 0
    /\ kernelIndex' = [kernelIndex EXCEPT ![tp] = NoIndex]
    /\ enable_status' = [enable_status EXCEPT ![tp] = 0]

UnregisterDone(t) ==
    /\ KernelUnregister(on[t])
    /\ err' = [err EXCEPT ![t] = 0]
    /\ UNCHANGED unregFailed

(* Fault: the result of the ioctl is not looked at.                        *)
UnregisterRefusedSilently(t) ==
    /\ err' = [err EXCEPT ![t] = 0]
    /\ unregFailed' = [unregFailed EXCEPT ![on[t]] = TRUE]
    /\ UNCHANGED <<kernelIndex, enable_status>>

UnregisterRefused(t) ==
    /\ \E e \in Errnos : err' = [err EXCEPT ![t] = e]
    /\ unregFailed' = [unregFailed EXCEPT ![on[t]] = TRUE]
    /\ UNCHANGED <<kernelIndex, enable_status>>

UnregisterIoctl(t) ==
    /\ pc[t] = "unreg_ioctl"
    /\ UnregisterDone(t) \/ UnregisterRefused(t)
    /\ Goto(t, "unreg_final")
    /\ UNCHANGED <<fileVars, write_index, mem, issued, on, idx>>

(* swap(UNREGISTERED); debug_assert!(old == BUSY).  End of a drop as well. *)
UnregisterFinal(t) ==
    /\ pc[t] = "unreg_final"
    /\ Swap(on[t], UNREGISTERED_WRITE_INDEX)
    /\ mem' = [mem EXCEPT ![on[t]] = IF @ = "dropping" THEN "freed" ELSE @]
    /\ Leave(t)
    /\ UNCHANGED <<fileVars, enable_status, kernelIndex, issued,
                   unregFailed, on>>

-----------------------------------------------------------------------------
(* write and write_with_headers: two independent relaxed loads, then a     *)
(* writev on the file that the cell holds at that time.                    *)

WriteLoadEnable(t, tp) ==
    /\ Enter(t, tp)
    /\ \/ enable_status[tp] = 0 /\ UNCHANGED pc  \* returns EBADF
       \/ enable_status[tp] # 0 /\ Goto(t, "load_index")
    /\ UNCHANGED <<fileVars, write_index, enable_status, mem, kernelIndex,
                   issued, unregFailed, idx, err>>

(* Fault: BUSY passes for a valid index.                                   *)
WriteLoadIndexOffByOne(t) ==
    /\ pc[t] = "load_index"
    /\ \/ /\ write_index[on[t]] > BUSY_WRITE_INDEX
          /\ Leave(t)
       \/ /\ write_index[on[t]] <= BUSY_WRITE_INDEX
          /\ idx' = [idx EXCEPT ![t] = write_index[on[t]]]
          /\ Goto(t, "writev")
          /\ UNCHANGED err
    /\ UNCHANGED <<fileVars, write_index, enable_status, mem, kernelIndex,
                   issued, unregFailed, on>>

(* Fault: wait for a valid index instead of returning EBADF.               *)
WriteLoadIndexSpins(t) ==
    /\ pc[t] = "load_index"
    /\ write_index[on[t]] <= HIGHEST_VALID_WRITE_INDEX
    /\ idx' = [idx EXCEPT ![t] = write_index[on[t]]]
    /\ Goto(t, "writev")
    /\ UNCHANGED <<fileVars, write_index, enable_status, mem, kernelIndex,
                   issued, unregFailed, on, err>>

WriteLoadIndex(t) ==
    /\ pc[t] = "load_index"
    /\ \/ /\ write_index[on[t]] > HIGHEST_VALID_WRITE_INDEX
          /\ Leave(t)  \* returns EBADF
       \/ /\ write_index[on[t]] <= HIGHEST_VALID_WRITE_INDEX
          /\ idx' = [idx EXCEPT ![t] = write_index[on[t]]]
          /\ Goto(t, "writev")
          /\ UNCHANGED err
    /\ UNCHANGED <<fileVars, write_index, enable_status, mem, kernelIndex,
                   issued, unregFailed, on>>

Writev(t) ==
    /\ pc[t] = "writev"
    /\ Leave(t)  \* returns 0 or the errno of writev
    /\ UNCHANGED <<fileVars, write_index, enable_status, mem, kernelIndex,
                   issued, unregFailed, on>>

(* Kernel: a tracing session starts or stops listening to a registered     *)
(* tracepoint.                                                             *)
KernelUpdate(tp) ==
    /\ kernelIndex[tp] # NoIndex
    /\ enable_status' = [enable_status EXCEPT ![tp] = 1 - @]
    /\ UNCHANGED <<dataFileVars, write_index, mem, kernelIndex, issued,
                   unregFailed, on, idx, err>>

-----------------------------------------------------------------------------
StartCall(t, tp) ==
    Register(t, tp) \/ Unregister(t, tp) \/ Drop(t, tp) \/ WriteLoadEnable(t, tp)

ContinueCall(t) ==
    \/ RegisterGet(t) \/ RegisterIoctl(t) \/ RegisterFinal(t)
    \/ UnregisterIoctl(t) \/ UnregisterFinal(t)
    \/ WriteLoadIndex(t) \/ Writev(t)

Next ==
    \/ \E t \in Threads, tp \in Tracepoints : StartCall(t, tp)
    \/ \E t \in Threads : ContinueCall(t)
    \/ \E tp \in Tracepoints : KernelUpdate(tp)

(* No call of this crate blocks, so the scheduler lets a thread that is in *)
(* one finish it.  Nothing forces a call to start or the kernel to act.    *)
Fairness == \A t \in Threads : WF_vars(ContinueCall(t))

Spec == Init /\ [][Next]_vars /\ Fairness

-----------------------------------------------------------------------------
(* Thread t is between the swap that took BUSY and the one that gives it   *)
(* back.                                                                   *)
Owns(t, tp) == on[t] = tp /\ pc[t] \in RegSteps \cup UnregSteps

(* The two debug_assert!(old_write_index == BUSY) of register and          *)
(* unregister can never fail, and the ioctls of one tracepoint never       *)
(* overlap: BUSY is a lock with at most one holder, even when callers      *)
(* break register's contract and panic out of it.                          *)
BusyIsExclusive ==
    \A tp \in Tracepoints, t \in Threads : Owns(t, tp) =>
        /\ write_index[tp] = BUSY_WRITE_INDEX
        /\ \A u \in Threads : Owns(u, tp) => u = t

(* Whatever register, unregister and get() of other threads do between the *)
(* two loads of write and its writev, the index it sends was assigned to   *)
(* this tracepoint, and by the very file the writev goes to.               *)
WriteUsesIssuedIndex ==
    \A t \in Threads : pc[t] = "writev" =>
        <<file_or_error, idx[t]>> \in issued[on[t]]

(* A valid write_index is the one the kernel has on record.                *)
IndexIsRegistered ==
    \A tp \in Tracepoints : write_index[tp] <= HIGHEST_VALID_WRITE_INDEX =>
        kernelIndex[tp] = write_index[tp]

(* unregister tells the truth: when it is about to return 0 the kernel has *)
(* forgotten the tracepoint, and when it reports that there was nothing to *)
(* do the kernel has no registration, unless an earlier ioctl failed.      *)
UnregisterTellsTruth ==
    \A t \in Threads : pc[t] = "unreg_final" =>
        /\ err[t] = 0 => kernelIndex[on[t]] = NoIndex
        /\ err[t] = AlreadyUnregistered => kernelIndex[on[t]] = NoIndex \/ unregFailed[on[t]]

(* A registration the kernel holds is never forgotten: the tracepoint has  *)
(* its index, or a call in progress is about to store or remove it.  Only  *)
(* a failed unregistering ioctl, which is reported, can orphan it.         *)
NoLostRegistration ==
    \A tp \in Tracepoints : kernelIndex[tp] # NoIndex =>
        \/ write_index[tp] = kernelIndex[tp]
        \/ \E t \in Threads : Owns(t, tp)
        \/ unregFailed[tp]

(* "TracepointState will unregister itself when dropped": once its memory  *)
(* is given back the kernel does not write to it, unless the unregistering *)
(* ioctl failed.                                                           *)
DropUnregisters ==
    \A tp \in Tracepoints : mem[tp] = "freed" =>
        kernelIndex[tp] = NoIndex \/ unregFailed[tp]

(* The inductive invariant behind BusyIsExclusive, WriteUsesIssuedIndex    *)
(* and IndexIsRegistered: an index that was stored, is about to be stored  *)
(* or was loaded belongs to the published file.                            *)
IssuedOn(tp, i) == file_or_error >= 0 /\ <<file_or_error, i>> \in issued[tp]

StoredIndexInv ==
    \A tp \in Tracepoints : write_index[tp] <= HIGHEST_VALID_WRITE_INDEX =>
        kernelIndex[tp] = write_index[tp] /\ IssuedOn(tp, write_index[tp])

NewIndexInv ==
    \A t \in Threads : pc[t] = "reg_final" /\ idx[t] # UNREGISTERED_WRITE_INDEX =>
        kernelIndex[on[t]] = idx[t] /\ IssuedOn(on[t], idx[t])

LoadedIndexInv == \A t \in Threads : pc[t] = "writev" => IssuedOn(on[t], idx[t])

IndexInv == BusyIsExclusive /\ StoredIndexInv /\ NewIndexInv /\ LoadedIndexInv

(* The further conjuncts that hold when callers keep register's contract.  *)
Forgotten(tp) == kernelIndex[tp] = NoIndex \/ unregFailed[tp]

BusyHasOwner ==
    \A tp \in Tracepoints : write_index[tp] = BUSY_WRITE_INDEX =>
        \E t \in Threads : Owns(t, tp)

IndexKept ==
    \A tp \in Tracepoints :
        Forgotten(tp) \/ write_index[tp] \in {kernelIndex[tp], BUSY_WRITE_INDEX}

OwnerForgotten ==
    \A t \in Threads :
        \/ pc[t] \in GetSteps \cup {"unreg_final"}
        \/ pc[t] = "reg_final" /\ idx[t] = UNREGISTERED_WRITE_INDEX
      => Forgotten(on[t])

DropIsExclusive ==
    \A tp \in Tracepoints, t \in Threads :
        mem[tp] # "live" /\ InCall(t, tp) => pc[t] \in UnregSteps

SerialInv ==
    /\ BusyHasOwner /\ IndexKept /\ OwnerForgotten /\ DropIsExclusive
    /\ UnregisterTellsTruth /\ DropUnregisters

(* Every call on a tracepoint returns (or panics).                         *)
CallsReturn == \A t \in Threads : pc[t] # "idle" ~> pc[t] = "idle"

=============================================================================
