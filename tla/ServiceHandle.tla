----------------------------- MODULE ServiceHandle -----------------------------
(***************************************************************************)
(* The two native surfaces of the service, step by step: the C ABI of      *)
(* src/src/ffi.rs (MessengerMlsHandle: a mutex around the service and one  *)
(* around the text of the last error) and the Flutter bridge of            *)
(* src/src/frb_api.rs (MessengerMlsBridge: a mutex around the service; the *)
(* text goes back with the status).                                        *)
(*                                                                         *)
(* A call is several steps, and threads interleave between them.  Of the   *)
(* service only `ran`, the number of calls it has run, is kept: a call     *)
(* reads it when it starts to run and writes one more when it ends.  An    *)
(* error text is the turn of the call that failed, its place in the order  *)
(* in which calls on that handle got the mutex.                            *)
(***************************************************************************)
EXTENDS Naturals, FiniteSets

CONSTANTS
    Threads,    \* threads of the application
    Addresses,  \* addresses a handle may have; none is used twice
    Null,       \* the null pointer
    Calls,      \* the entry points called
    MaxCalls    \* bound: calls made

ASSUME NullAssumption == Null \notin Addresses \cup Threads
ASSUME MaxCallsAssumption == MaxCalls \in Nat

VARIABLES
    surface,    \* "abi" or "bridge": the surface the application uses
    live,       \* the handles made and not freed
    made,       \* the handles made
    holder,     \* holder[a]: the thread that holds the service's mutex, or Null
    poisoned,   \* the handles whose mutex a panic poisoned
    ran,        \* ran[a]: the calls the service has run
    turns,      \* turns[a]: the calls that got the mutex
    slot,       \* slot[a]: last_error, as the turn that failed, or NoText
    frame,      \* frame[t]: the call of thread t
    entered,    \* the calls made, for the bound
    buffers     \* the MlsBuffers allocated by write_out and not freed

callVars == <<surface, live, made, holder, poisoned, ran, turns, slot, frame, buffers>>
nativeVars == <<callVars, entered>>
-----------------------------------------------------------------------------
(* The entry points: what each reads and returns. *)

Shape(input, output) == [input |-> input, output |-> output]

ClientShapes ==
    [create_client |-> Shape("json", "void"),
     restore_client |-> Shape("bytes", "void"),
     export_client_state |-> Shape("none", "bytes"),
     get_client_id |-> Shape("none", "json"),
     create_key_packages |-> Shape("u32", "json"),
     mark_key_packages_uploaded |-> Shape("json", "void")]

GroupShapes ==
    [create_group |-> Shape("json", "json"),
     list_groups |-> Shape("none", "json"),
     get_group_state |-> Shape("json", "json"),
     list_members |-> Shape("json", "json"),
     invite |-> Shape("json", "json"),
     join_from_welcome |-> Shape("bytes", "json"),
     remove |-> Shape("json", "json")]

CommitShapes ==
    [self_update |-> Shape("json", "json"),
     encrypt_message |-> Shape("json", "json"),
     handle_incoming |-> Shape("json", "json"),
     has_pending_commit |-> Shape("json", "json"),
     merge_pending_commit |-> Shape("json", "json"),
     clear_pending_commit |-> Shape("json", "void"),
     drop_group |-> Shape("json", "void")]

Operations == DOMAIN ClientShapes \cup DOMAIN GroupShapes \cup DOMAIN CommitShapes

ShapeOf(op) ==
    CASE op \in DOMAIN ClientShapes -> ClientShapes[op]
      [] op \in DOMAIN GroupShapes -> GroupShapes[op]
      [] op \in DOMAIN CommitShapes -> CommitShapes[op]

ASSUME CallsAssumption == Calls \subseteq Operations

\* run_out and run_out_bytes; the others are run_void.
HasOutput(op) == ShapeOf(op).output # "void"

\* read_input refuses a null pointer with a length; parse_json also what does not parse.
\* The bridge takes strings and vectors: only a json can be refused.
Refusable(op) ==
    ShapeOf(op).input \in IF surface = "abi" THEN {"json", "bytes"} ELSE {"json"}
-----------------------------------------------------------------------------
(* Frames.  turn is 0 until the mutex is got; before is what the service had run when  *)
(* the call started to run; shown has the text the caller was given, once it asked.    *)

NoText == 0
Unasked == {}
Steps == {"idle", "called", "locked", "running", "reporting", "unlocking", "returned"}

Frames ==
    [pc: Steps, at: Addresses \cup {Null}, op: Calls \cup {Null}, out: BOOLEAN,
     turn: Nat, before: Nat, outcome: {"ok", "failed", "refused"},
     shown: SUBSET Nat]

NoFrame ==
    [pc |-> "idle", at |-> Null, op |-> Null, out |-> FALSE, turn |-> 0, before |-> 0,
     outcome |-> "ok", shown |-> Unasked]

NativeTypeOK ==
    /\ surface \in {"abi", "bridge"}
    /\ live \subseteq made /\ made \subseteq Addresses
    /\ holder \in [Addresses -> Threads \cup {Null}]
    /\ poisoned \subseteq Addresses
    /\ ran \in [Addresses -> Nat]
    /\ turns \in [Addresses -> Nat]
    /\ slot \in [Addresses -> Nat]
    /\ frame \in [Threads -> Frames]
    /\ entered \in Nat
    /\ buffers \subseteq Threads \X {"out", "text"}

NativeInit ==
    /\ surface \in {"abi", "bridge"}
    /\ live = {}
    /\ made = {}
    /\ holder = [a \in Addresses |-> Null]
    /\ poisoned = {}
    /\ ran = [a \in Addresses |-> 0]
    /\ turns = [a \in Addresses |-> 0]
    /\ slot = [a \in Addresses |-> NoText]
    /\ frame = [t \in Threads |-> NoFrame]
    /\ entered = 0
    /\ buffers = {}
-----------------------------------------------------------------------------
(* Handles. *)

\* messenger_mls_new, MessengerMlsBridge::create.
New(a) ==
    /\ a \notin made
    /\ made' = made \cup {a}
    /\ live' = live \cup {a}
    /\ UNCHANGED <<surface, holder, poisoned, ran, turns, slot, frame, entered, buffers>>

\* Mutant of Free: the handle is forgotten, not freed.
FreeForgotten(a) ==
    /\ made' = made \ {a}
    /\ UNCHANGED <<surface, live, holder, poisoned, ran, turns, slot, frame, entered, buffers>>

\* messenger_mls_free, the drop of the bridge.  Freeing a handle a call is using, or one
\* freed before, is undefined: the caller must not.
Free(a) ==
    /\ live' = live \ {a}
    /\ UNCHANGED <<surface, made, holder, poisoned, ran, turns, slot, frame, entered, buffers>>
-----------------------------------------------------------------------------
(* One call, step by step.  Each step belongs to a thread and moves its frame. *)

At(t, pc) == frame[t].pc = pc
Handle(t) == frame[t].at
SetFrame(t, f) == frame' = [frame EXCEPT ![t] = f]
Goto(t, pc) == SetFrame(t, [frame[t] EXCEPT !.pc = pc])
Refusal(t, pc) == SetFrame(t, [frame[t] EXCEPT !.pc = pc, !.outcome = "refused"])
MutexFree(a) == holder[a] = Null

Count == entered < MaxCalls /\ entered' = entered + 1

\* The caller enters op; out: did it give a place for the output?
Call(t, a, op, out) ==
    /\ At(t, "idle")
    /\ SetFrame(t, [NoFrame EXCEPT !.pc = "called", !.at = a, !.op = op, !.out = out])
    /\ UNCHANGED <<surface, live, made, holder, poisoned, ran, turns, slot, buffers>>

\* No handle, or nowhere to put the output: refused before the lock, and last_error is
\* left as it is.
RefuseNull(t) ==
    /\ At(t, "called")
    /\ surface = "abi"
    /\ Handle(t) = Null \/ (HasOutput(frame[t].op) /\ ~ frame[t].out)
    /\ Refusal(t, "returned")
    /\ UNCHANGED <<surface, live, made, holder, poisoned, ran, turns, slot, entered, buffers>>

\* The bridge parses before it locks.
RejectEarly(t) ==
    /\ At(t, "called")
    /\ surface = "bridge"
    /\ Handle(t) # Null
    /\ Refusable(frame[t].op)
    /\ Refusal(t, "returned")
    /\ UNCHANGED <<surface, live, made, holder, poisoned, ran, turns, slot, entered, buffers>>

\* lock() waits for the holder, then returns an error when the mutex is poisoned.
CanLock(t) ==
    /\ At(t, "called")
    /\ Handle(t) # Null
    /\ MutexFree(Handle(t))
    /\ surface = "abi" /\ HasOutput(frame[t].op) => frame[t].out

\* Mutant of RefusePoisoned: a poisoned lock is waited for.
RefusePoisonedNever(t) == FALSE /\ UNCHANGED nativeVars

RefusePoisoned(t) ==
    /\ CanLock(t)
    /\ Handle(t) \in poisoned
    /\ Refusal(t, "returned")
    /\ UNCHANGED <<surface, live, made, holder, poisoned, ran, turns, slot, entered, buffers>>

\* Mutant of Lock: the guard is not kept.
LockDropped(t) ==
    /\ CanLock(t)
    /\ Handle(t) \notin poisoned
    /\ turns' = [turns EXCEPT ![Handle(t)] = @ + 1]
    /\ SetFrame(t, [frame[t] EXCEPT !.pc = "locked", !.turn = turns[Handle(t)] + 1])
    /\ UNCHANGED <<surface, live, made, holder, poisoned, ran, slot, entered, buffers>>

Lock(t) ==
    /\ CanLock(t)
    /\ Handle(t) \notin poisoned
    /\ turns' = [turns EXCEPT ![Handle(t)] = @ + 1]
    /\ holder' = [holder EXCEPT ![Handle(t)] = t]
    /\ SetFrame(t, [frame[t] EXCEPT !.pc = "locked", !.turn = turns[Handle(t)] + 1])
    /\ UNCHANGED <<surface, live, made, poisoned, ran, slot, entered, buffers>>

\* The C ABI reads and parses its input inside the closure it runs under the lock.
RejectInput(t) ==
    /\ At(t, "locked")
    /\ surface = "abi"
    /\ Refusable(frame[t].op)
    /\ Refusal(t, "reporting")
    /\ UNCHANGED <<surface, live, made, holder, poisoned, ran, turns, slot, entered, buffers>>

\* The service starts on the state it finds.
Start(t) ==
    /\ At(t, "locked")
    /\ SetFrame(t, [frame[t] EXCEPT !.pc = "running", !.before = ran[Handle(t)]])
    /\ UNCHANGED <<surface, live, made, holder, poisoned, ran, turns, slot, entered, buffers>>

Wrote(t) == ran' = [ran EXCEPT ![Handle(t)] = frame[t].before + 1]

\* The service ends, with a result or an error, and leaves its state.  The ABI writes a
\* result out before it reports; an error writes none.
Finish(t) ==
    /\ At(t, "running")
    /\ Wrote(t)
    /\ \E outcome \in {"ok", "failed"} :
         /\ SetFrame(t, [frame[t] EXCEPT !.outcome = outcome,
                            !.pc = IF surface = "abi" THEN "reporting" ELSE "unlocking"])
         /\ buffers' = IF surface = "abi" /\ outcome = "ok" /\ HasOutput(frame[t].op)
                       THEN buffers \cup {<<t, "out">>} ELSE buffers
    /\ UNCHANGED <<surface, live, made, holder, poisoned, turns, slot, entered>>

\* The bridge turns a panic into a status; unwinding drops the guard and poisons the
\* mutex.  In the C ABI a panic aborts the process.
Panic(t) ==
    /\ At(t, "running")
    /\ surface = "bridge"
    /\ Wrote(t)
    /\ poisoned' = poisoned \cup {Handle(t)}
    /\ holder' = [holder EXCEPT ![Handle(t)] = Null]
    /\ SetFrame(t, [frame[t] EXCEPT !.pc = "returned", !.outcome = "failed"])
    /\ UNCHANGED <<surface, live, made, turns, slot, entered, buffers>>

\* Mutant of Report: an input that was refused leaves no text.
ReportOutcomeOnly(t) ==
    /\ At(t, "reporting")
    /\ slot' = IF frame[t].outcome = "refused" THEN slot
               ELSE [slot EXCEPT ![Handle(t)] =
                        IF frame[t].outcome = "ok" THEN NoText ELSE frame[t].turn]
    /\ Goto(t, "unlocking")
    /\ UNCHANGED <<surface, live, made, holder, poisoned, ran, turns, entered, buffers>>

\* last_error is cleared, or set_last_error called, while the service's guard is held.
Report(t) ==
    /\ At(t, "reporting")
    /\ slot' = [slot EXCEPT ![Handle(t)] =
                   IF frame[t].outcome = "ok" THEN NoText ELSE frame[t].turn]
    /\ Goto(t, "unlocking")
    /\ UNCHANGED <<surface, live, made, holder, poisoned, ran, turns, entered, buffers>>

Unlock(t) ==
    /\ At(t, "unlocking")
    /\ holder' = [holder EXCEPT ![Handle(t)] = Null]
    /\ Goto(t, "returned")
    /\ UNCHANGED <<surface, live, made, poisoned, ran, turns, slot, entered, buffers>>

NativeStep(t) ==
    \/ RefuseNull(t) \/ RejectEarly(t) \/ RefusePoisoned(t) \/ Lock(t)
    \/ RejectInput(t) \/ Start(t) \/ Finish(t) \/ Panic(t) \/ Report(t) \/ Unlock(t)
-----------------------------------------------------------------------------
(* What the caller does with a call that returned. *)

Failed(t) == frame[t].outcome # "ok"

\* messenger_mls_last_error copies the slot under the slot's mutex alone; of null it
\* fails.  The bridge returned the text with the status: its own.
AskLastError(t) ==
    /\ At(t, "returned")
    /\ Failed(t)
    /\ frame[t].shown = Unasked
    /\ LET text == IF surface = "bridge" THEN frame[t].turn
                   ELSE IF Handle(t) = Null THEN NoText ELSE slot[Handle(t)]
       IN /\ SetFrame(t, [frame[t] EXCEPT !.shown = {text}])
          /\ buffers' = IF surface = "abi" /\ text # NoText
                        THEN buffers \cup {<<t, "text">>} ELSE buffers
    /\ UNCHANGED <<surface, live, made, holder, poisoned, ran, turns, slot, entered>>

-----------------------------------------------------------------------------
(* Properties. *)

\* A failed call is shown its own text, unless a later call got the handle in between:
\* then it may be shown that call's, or none; never the text of an earlier one.
TextNotOlder ==
    \A t \in Threads :
        At(t, "returned") /\ frame[t].turn # 0 /\ frame[t].shown # Unasked =>
            \/ frame[t].shown = {frame[t].turn}
            \/ /\ frame[t].turn < turns[Handle(t)]
               /\ \A text \in frame[t].shown : text = NoText \/ frame[t].turn < text

\* Every call is one step of AtomicHandle: no two calls overlap in the service, a call
\* refused changes nothing, and nothing runs on a service that panicked.
AbstractCall(f) ==
    CASE f.pc = "idle" -> [state |-> "idle"]
      [] f.pc \in {"called", "locked", "running"} /\ f.at # Null -> [state |-> "open", at |-> f.at]
      [] f.pc = "called" /\ f.at = Null -> [state |-> "refused"]
      [] f.pc \in {"reporting", "unlocking", "returned"} ->
            IF f.outcome = "refused" THEN [state |-> "refused"]
            ELSE [state |-> "taken", before |-> f.before]

Atomic == INSTANCE AtomicHandle WITH
    broken <- poisoned, call <- [t \in Threads |-> AbstractCall(frame[t])]

ImplementsAtomic == Atomic!Spec
=============================================================================
