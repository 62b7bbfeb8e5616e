---------------------------- MODULE AtomicDataFile ----------------------------
(***************************************************************************)
(* What get() of the user_events_data cell promises its callers: each call *)
(* takes effect at one instant.  At that instant it hands back what the    *)
(* cell holds or, if the cell holds no descriptor, what the caller's own   *)
(* attempt to open yielded, which the cell then holds too.  Descriptors    *)
(* other than the one in the cell, and their closing, are not visible.     *)
(***************************************************************************)
EXTENDS Integers

CONSTANTS Threads, Descriptors, Errors, Unset

VARIABLES cell, result, callers

atomicVars == <<cell, result, callers>>

AInit ==
    /\ cell = Unset
    /\ result = [t \in Threads |-> Unset]
    /\ callers = {}

ACall(t) ==
    /\ t \notin callers
    /\ callers' = callers \cup {t}
    /\ UNCHANGED <<cell, result>>

(* A caller may put a descriptor where there is none, or an error where    *)
(* nothing was tried yet.                                                  *)
MayStore(v) ==
    \/ v \in Descriptors /\ cell \notin Descriptors
    \/ v \in Errors /\ cell = Unset

ATake(t) ==
    /\ t \in callers
    /\ cell # Unset
    /\ cell' = cell

AStore(t, v) ==
    /\ t \in callers
    /\ MayStore(v)
    /\ cell' = v

AGet(t) ==
    /\ ATake(t) \/ \E v \in Descriptors \cup Errors : AStore(t, v)
    /\ callers' = callers \ {t}
    /\ result' = [result EXCEPT ![t] = cell']

(* The caller takes the result away.                                       *)
AReturn(t) ==
    /\ t \notin callers
    /\ result' = [result EXCEPT ![t] = Unset]
    /\ UNCHANGED <<cell, callers>>

ANext == \E t \in Threads : ACall(t) \/ AGet(t) \/ AReturn(t)

ASpec == AInit /\ [][ANext]_atomicVars
=============================================================================
