------------------------------ MODULE AtomicHandle ------------------------------
(***************************************************************************)
(* What a native handle promises to the threads that share it: a call      *)
(* takes effect at one instant between its start and its return, after     *)
(* every call counted before it, or is refused and takes none.  Of the     *)
(* service behind the handle only the number of calls it has run is kept:  *)
(* a call reads it and adds one, so two calls that overlapped inside the   *)
(* service would show the same number.                                     *)
(*                                                                         *)
(* A call that panics breaks the handle: later calls are refused rather    *)
(* than run on a service left half changed.                                *)
(***************************************************************************)
EXTENDS Naturals

CONSTANTS Threads, Addresses

VARIABLES
    ran,        \* ran[a]: the calls the service at address a has run
    broken,     \* the addresses where a call panicked
    call        \* call[t]: the call of thread t

handleVars == <<ran, broken, call>>

Idle == [state |-> "idle"]
Open(a) == [state |-> "open", at |-> a]
Taken(before) == [state |-> "taken", before |-> before]
Refused == [state |-> "refused"]

Init ==
    /\ ran = [a \in Addresses |-> 0]
    /\ broken = {}
    /\ call = [t \in Threads |-> Idle]

SetCall(t, c) == call' = [call EXCEPT ![t] = c]

\* A call on no handle at all is begun too: it can only be refused.
Begin(t) ==
    /\ call[t] = Idle
    /\ \/ \E a \in Addresses : SetCall(t, Open(a))
       \/ SetCall(t, Refused)
    /\ UNCHANGED <<ran, broken>>

Take(t) ==
    \E a \in Addresses \ broken :
        /\ call[t] = Open(a)
        /\ SetCall(t, Taken(ran[a]))
        /\ ran' = [ran EXCEPT ![a] = @ + 1]
        /\ broken' \in {broken, broken \cup {a}}

Refuse(t) ==
    /\ \E a \in Addresses : call[t] = Open(a)
    /\ SetCall(t, Refused)
    /\ UNCHANGED <<ran, broken>>

End(t) ==
    /\ call[t].state \in {"taken", "refused"}
    /\ SetCall(t, Idle)
    /\ UNCHANGED <<ran, broken>>

Next == \E t \in Threads : Begin(t) \/ Take(t) \/ Refuse(t) \/ End(t)

Spec == Init /\ [][Next]_handleVars
=============================================================================
