------------------------------- MODULE SdkProofs -------------------------------
(***************************************************************************)
(* Proofs about calls on native handles and the objects that own them, for *)
(* any threads, handles, objects, entry points and languages.              *)
(*                                                                         *)
(* First the calls: the types, TextNotOlder, and that every call is one    *)
(* step of AtomicHandle.  CallInv is inductive: who holds a mutex is alone *)
(* inside, with the last turn given (Holds); what a call may have got at   *)
(* each step (Staged); turns are distinct on a handle (Turned); and the    *)
(* error slot shows a failed call its own text or a later one (Slotted,    *)
(* Shown).                                                                 *)
(*                                                                         *)
(* Then the objects: HandleOwnedOnce and BuffersOwned.  OwnerInv says who  *)
(* holds each live handle, that a call's object holds the handle of the    *)
(* call, and what finalizers hold; BufferInv says which stage of a call    *)
(* may have memory of the library.                                         *)
(***************************************************************************)
EXTENDS SdkClients, FiniteSetTheorems, TLAPS

\* The steps at which a call holds the mutex of its handle.
Holding == {"locked", "running", "reporting", "unlocking"}

\* The mutex: who holds it is alone inside, on a handle no panic poisoned, and works on
\* what the service has run.
Holds(t) ==
    frame[t].pc \in Holding =>
        /\ frame[t].at \in Addresses
        /\ holder[frame[t].at] = t
        /\ frame[t].at \notin poisoned
        /\ frame[t].turn = turns[frame[t].at]
        /\ frame[t].turn # 0
        /\ frame[t].pc = "running" => frame[t].before = ran[frame[t].at]

\* What a call may have got at each step.
Staged(t) ==
    /\ frame[t].pc \in {"idle", "called"} => frame[t].turn = 0
    /\ frame[t].pc \in {"idle", "called", "locked", "running"} => frame[t].outcome = "ok"
    /\ frame[t].pc # "returned" => frame[t].shown = Unasked
    /\ \A text, other \in frame[t].shown : text = other

\* Calls on one handle have turns of their own, counted by it.
Turned(t) ==
    frame[t].turn # 0 =>
        /\ frame[t].at \in Addresses
        /\ frame[t].turn <= turns[frame[t].at]
        /\ \A u \in Threads : u # t /\ frame[u].at = frame[t].at => frame[u].turn # frame[t].turn

\* The text a failed call would be shown, were it to ask now.
MayShow(t, text) ==
    \/ text = frame[t].turn
    \/ frame[t].turn < turns[frame[t].at] /\ (text = NoText \/ frame[t].turn < text)

Slotted(t) ==
    /\ surface = "abi" /\ frame[t].pc = "unlocking" =>
          slot[frame[t].at] = IF frame[t].outcome = "ok" THEN NoText ELSE frame[t].turn
    /\ surface = "abi" /\ frame[t].pc = "returned" /\ frame[t].turn # 0 /\ frame[t].outcome # "ok" =>
          MayShow(t, slot[frame[t].at])

Shown(t) ==
    frame[t].pc = "returned" /\ frame[t].turn # 0 =>
        \A text \in frame[t].shown : MayShow(t, text)

HoldInv == \A t \in Threads : Holds(t)
StageInv == \A t \in Threads : Staged(t)
TurnsInv == \A t \in Threads : Turned(t)
SlotInv == \A t \in Threads : Slotted(t)
ShownInv == \A t \in Threads : Shown(t)

\* What every step of every call keeps.
CallInv == HoldInv /\ StageInv /\ TurnsInv /\ SlotInv /\ ShownInv
-----------------------------------------------------------------------------
-----------------------------------------------------------------------------
(* Types. *)

\* A frame keeps its type when its step, turn, outcome or text moves.
LEMMA FrameTypes ==
    ASSUME NEW f \in Frames, NEW pc \in Steps
    PROVE  /\ [f EXCEPT !.pc = pc] \in Frames
           /\ [f EXCEPT !.pc = pc, !.outcome = "refused"] \in Frames
           /\ [f EXCEPT !.pc = pc, !.outcome = "failed"] \in Frames
           /\ \A outcome \in {"ok", "failed"} : [f EXCEPT !.outcome = outcome, !.pc = pc] \in Frames
           /\ \A turn \in Nat : [f EXCEPT !.pc = pc, !.turn = turn] \in Frames
           /\ \A before \in Nat : [f EXCEPT !.pc = pc, !.before = before] \in Frames
BY DEF Frames

\* A step inside a call keeps the types of the native layer.
LEMMA NativeStepTypes ==
    ASSUME NativeTypeOK, NEW t \in Threads, NativeStep(t), frame[t].pc \in Holding => frame[t].at \in Addresses
    PROVE NativeTypeOK'
<1> USE NullAssumption DEF NativeTypeOK, SetFrame, Goto, Refusal
<1>0. /\ frame[t] \in Frames
      /\ frame[t].at \in Addresses \cup {Null}
      /\ frame[t].turn \in Nat
      /\ frame[t].before \in Nat
  BY DEF Frames
<1>s. {"locked", "running", "reporting", "unlocking", "returned"} \subseteq Steps
  BY DEF Steps
<1>1. ASSUME RefuseNull(t) PROVE NativeTypeOK'
  BY <1>0, <1>1, <1>s, FrameTypes DEF RefuseNull
<1>2. ASSUME RejectEarly(t) PROVE NativeTypeOK'
  BY <1>0, <1>2, <1>s, FrameTypes DEF RejectEarly
<1>3. ASSUME RefusePoisoned(t) PROVE NativeTypeOK'
  BY <1>0, <1>3, <1>s, FrameTypes DEF RefusePoisoned
<1>4. ASSUME Lock(t) PROVE NativeTypeOK'
  <2>1. frame[t].at \in Addresses
    BY <1>0, <1>4 DEF Lock, CanLock, Handle
  <2>2. turns[frame[t].at] + 1 \in Nat
    BY <2>1
  <2>3. [frame[t] EXCEPT !.pc = "locked", !.turn = turns[frame[t].at] + 1] \in Frames
    BY <1>0, <1>s, <2>2, FrameTypes
  <2> QED BY <1>4, <2>2, <2>3 DEF Lock, Handle
<1>5. ASSUME RejectInput(t) PROVE NativeTypeOK'
  BY <1>0, <1>5, <1>s, FrameTypes DEF RejectInput
<1>6. ASSUME Start(t) PROVE NativeTypeOK'
  <2>1. frame[t].at \in Addresses
    BY <1>6 DEF Start, At, Holding
  <2>2. ran[frame[t].at] \in Nat
    BY <2>1
  <2>3. [frame[t] EXCEPT !.pc = "running", !.before = ran[frame[t].at]] \in Frames
    BY <1>0, <1>s, <2>2, FrameTypes
  <2> QED BY <1>6, <2>3 DEF Start, Handle
<1>7. ASSUME Finish(t) PROVE NativeTypeOK'
  <2>1. PICK outcome \in {"ok", "failed"}, pc \in {"reporting", "unlocking"} :
            frame' = [frame EXCEPT ![t] = [frame[t] EXCEPT !.outcome = outcome, !.pc = pc]]
    BY <1>7 DEF Finish
  <2>4. frame' \in [Threads -> Frames]
    BY <1>0, <1>s, <2>1, FrameTypes
  <2>2. buffers' \subseteq Threads \X {"out", "text"}
    BY <1>7 DEF Finish
  <2>3. ran' \in [Addresses -> Nat]
    <3>1. frame[t].before + 1 \in Nat
      BY <1>0
    <3> QED BY <1>7, <3>1 DEF Finish, Wrote
  <2> QED BY <1>7, <2>2, <2>3, <2>4 DEF Finish
<1>8. ASSUME Panic(t) PROVE NativeTypeOK'
  <2>1. ran' \in [Addresses -> Nat] /\ holder' \in [Addresses -> Threads \cup {Null}]
    <3>1. frame[t].before + 1 \in Nat
      BY <1>0
    <3> QED BY <1>8, <3>1 DEF Panic, Wrote
  <2>2. poisoned' \subseteq Addresses
    BY <1>8 DEF Panic, At, Handle, Holding
  <2>3. frame' \in [Threads -> Frames]
    BY <1>0, <1>8, <1>s, FrameTypes DEF Panic
  <2> QED BY <1>8, <2>1, <2>2, <2>3 DEF Panic
<1>9. ASSUME Report(t) PROVE NativeTypeOK'
  <2>1. slot' \in [Addresses -> Nat]
    BY <1>0, <1>9 DEF Report, NoText
  <2> QED BY <1>0, <1>9, <1>s, <2>1, FrameTypes DEF Report
<1>10. ASSUME Unlock(t) PROVE NativeTypeOK'
  BY <1>0, <1>10, <1>s, FrameTypes DEF Unlock
<1> QED
  BY <1>1, <1>2, <1>3, <1>4, <1>5, <1>6, <1>7, <1>8, <1>9, <1>10 DEF NativeStep

\* A step keeps the types of the native layer when the frame it sets has its type.
LEMMA CallTypes ==
    ASSUME NativeTypeOK, NEW t \in Threads, NEW at \in Addresses \cup {Null}, NEW op \in Calls,
           NEW out \in BOOLEAN, Call(t, at, op, out), entered' \in Nat
    PROVE  NativeTypeOK'
<1>1. [NoFrame EXCEPT !.pc = "called", !.at = at, !.op = op, !.out = out] \in Frames
  BY DEF NoFrame, Frames, Steps, Unasked
<1> QED BY <1>1 DEF Call, NativeTypeOK, SetFrame

\* Leaving a call keeps the types.
LEMMA LeaveTypes ==
    ASSUME TypeOK, NEW t \in Threads, NEW freed, Leave(t, freed)
    PROVE  TypeOK'
<1>1. NoFrame \in Frames
  BY DEF NoFrame, Frames, Steps, Unasked
<1> QED BY <1>1 DEF Leave, TypeOK, NativeTypeOK, SetFrame

\* Asking for the text keeps the types: the text is a turn.
LEMMA AskTypes ==
    ASSUME NativeTypeOK, NEW t \in Threads, AskLastError(t)
    PROVE  NativeTypeOK'
<1>1. PICK text \in Nat : frame' = [frame EXCEPT ![t] = [frame[t] EXCEPT !.shown = {text}]]
  <2>1. frame[t] \in Frames
    BY DEF NativeTypeOK
  <2>2. frame[t].turn \in Nat /\ NoText \in Nat
    BY <2>1 DEF Frames, NoText
  <2>3. Handle(t) # Null => slot[Handle(t)] \in Nat
    BY <2>1 DEF Frames, Handle, NativeTypeOK
  <2> QED BY <2>2, <2>3 DEF AskLastError, SetFrame
<1>2. frame[t] \in Frames
  BY DEF NativeTypeOK
<1>3. [frame[t] EXCEPT !.shown = {text}] \in Frames
  BY <1>2 DEF Frames
<1>4. buffers' \subseteq Threads \X {"out", "text"}
  BY DEF AskLastError, NativeTypeOK
<1> QED BY <1>1, <1>3, <1>4 DEF AskLastError, NativeTypeOK

\* Making and freeing a handle, and a bound counted.
LEMMA HandleTypes ==
    ASSUME NativeTypeOK, NEW a \in Addresses
    PROVE  /\ New(a) => NativeTypeOK'
           /\ Free(a) => NativeTypeOK'
<1>1. ASSUME New(a) PROVE NativeTypeOK'
  BY <1>1 DEF New, NativeTypeOK
<1>2. ASSUME Free(a) PROVE NativeTypeOK'
  BY <1>2 DEF Free, NativeTypeOK
<1> QED BY <1>1, <1>2

\* The bound counts in Nat.
LEMMA CountTypes ==
    ASSUME NativeTypeOK, Count
    PROVE  entered' \in Nat
BY DEF Count, NativeTypeOK

\* The types of every variable hold in every state.
LEMMA InitTypes == Init => TypeOK
<1> SUFFICES ASSUME Init PROVE TypeOK
  OBVIOUS
<1>1. NoFrame \in Frames
  BY DEF NoFrame, Frames, Steps, Unasked
<1>2. NativeTypeOK
  BY <1>1 DEF Init, NativeInit, NativeTypeOK, NoText
<1> QED BY <1>2 DEF Init, TypeOK

\* Making, moving and closing an object keep the types.
LEMMA ObjectTypes ==
    ASSUME TypeOK, NEW o \in Objects, NEW p \in Objects,
           \/ \E a \in Addresses : Construct(o, a)
           \/ MoveConstruct(o, p) \/ MoveAssign(o, p) \/ Destroy(o)
           \/ GoClose(o) \/ DartClose(o) \/ FacadeClose(o) \/ Collect(o)
    PROVE  TypeOK'
<1> USE HandleTypes DEF TypeOK, Become
<1>0. object[o] \in Addresses \cup {Null, Unborn} /\ object[p] \in Addresses \cup {Null, Unborn}
  OBVIOUS
<1>u. UNCHANGED nativeVars => NativeTypeOK'
  BY DEF nativeVars, callVars, NativeTypeOK
<1>f. FreeOwned(o) => NativeTypeOK'
  BY <1>u DEF FreeOwned, Owns
<1>1. CASE \E a \in Addresses : Construct(o, a)
  BY <1>1 DEF Construct
<1>2. CASE MoveConstruct(o, p)
  BY <1>0, <1>2, <1>u DEF MoveConstruct
<1>3. CASE MoveAssign(o, p)
  BY <1>0, <1>3, <1>f DEF MoveAssign
<1>4. CASE Destroy(o)
  BY <1>4, <1>f DEF Destroy
<1>5. CASE GoClose(o)
  BY <1>5 DEF GoClose, Owns
<1>6. CASE DartClose(o)
  BY <1>6 DEF DartClose, Owns
<1>7. CASE FacadeClose(o)
  BY <1>7 DEF FacadeClose, Owns
<1>8. CASE Collect(o)
  <2>1. CASE finalizer[o] = Null
    <3>1. Null \notin live
      BY NullAssumption DEF NativeTypeOK
    <3> QED BY <1>8, <1>u, <2>1, <3>1 DEF Collect
  <2>2. CASE finalizer[o] \in live
    <3>1. finalizer[o] \in Addresses
      BY <2>2 DEF NativeTypeOK
    <3> QED BY <1>8, <1>u, <3>1 DEF Collect
  <2> QED BY <1>8, <2>1, <2>2 DEF Collect
<1> QED BY <1>1, <1>2, <1>3, <1>4, <1>5, <1>6, <1>7, <1>8

\* Entering a call on an object keeps the types.
LEMMA CallOnTypes ==
    ASSUME TypeOK, NEW t \in Threads, NEW o \in Objects, NEW op \in Calls, NEW out \in BOOLEAN,
           object[o] # Unborn, CallOn(t, o, op, out), entered' \in Nat,
           queue' \in Seq(Objects \X Calls)
    PROVE  TypeOK'
<1>1. object[o] \in Addresses \cup {Null}
  BY DEF TypeOK
<1>2. NativeTypeOK'
  BY <1>1, CallTypes DEF CallOn, TypeOK
<1> QED BY <1>2 DEF CallOn, TypeOK

\* Scheduling a call, and running it, keep the types.
LEMMA QueueTypes ==
    ASSUME TypeOK
    PROVE  /\ \A o \in Objects, op \in Calls : Schedule(o, op) => TypeOK'
           /\ RunMicrotask => TypeOK'
<1>1. ASSUME NEW o \in Objects, NEW op \in Calls, Schedule(o, op) PROVE TypeOK'
  <2>1. NativeTypeOK'
    BY <1>1, CountTypes DEF Schedule, callVars, TypeOK, NativeTypeOK
  <2>2. queue' \in Seq(Objects \X Calls)
    BY <1>1 DEF Schedule, TypeOK
  <2> QED BY <1>1, <2>1, <2>2 DEF Schedule, TypeOK
<1>2. ASSUME RunMicrotask PROVE TypeOK'
  <2> DEFINE o == Head(queue)[1]
             op == Head(queue)[2]
  <2>1. queue \in Seq(Objects \X Calls) /\ queue # <<>>
    BY <1>2 DEF RunMicrotask, TypeOK
  <2>2. Head(queue) \in Objects \X Calls /\ Tail(queue) \in Seq(Objects \X Calls)
    BY <2>1
  <2>3. o \in Objects /\ op \in Calls
    BY <2>2
  <2>4. entered' \in Nat
    BY <1>2 DEF RunMicrotask, TypeOK, NativeTypeOK
  <2>5. CASE Owns(o)
    <3>1. CallOn(Main, o, op, TRUE) /\ queue' = Tail(queue)
      BY <1>2, <2>5 DEF RunMicrotask
    <3>2. object[o] # Unborn
      BY <2>5, UnbornAssumption DEF Owns
    <3> HIDE DEF o, op
    <3> QED BY <2>2, <2>3, <2>4, <3>1, <3>2, CallOnTypes, MainAssumption
  <2>6. CASE ~ Owns(o)
    <3>1. UNCHANGED <<callVars, lang, object, finalizer, on>> /\ queue' = Tail(queue)
      BY <1>2, <2>6 DEF RunMicrotask
    <3> QED BY <2>2, <2>4, <3>1 DEF TypeOK, NativeTypeOK, callVars
  <2> QED BY <2>5, <2>6
<1> QED BY <1>1, <1>2

\* The three wrappers that call at once.
LEMMA CallsTypes ==
    ASSUME TypeOK, NEW t \in Threads, NEW o \in Objects, NEW op \in Calls, NEW out \in BOOLEAN,
           CCall(t, o, op, out) \/ CppCall(t, o, op) \/ GoCall(t, o, op) \/ DartCall(o, op)
    PROVE  TypeOK'
<1>1. entered' \in Nat
  BY CountTypes DEF CCall, CppCall, GoCall, DartCall, TypeOK
<1>2. queue' \in Seq(Objects \X Calls)
  BY DEF CCall, CppCall, GoCall, DartCall, TypeOK
<1>3. object[o] # Unborn
  BY UnbornAssumption DEF CCall, CppCall, GoCall, DartCall, Owns
<1>4. PICK u \in Threads, given \in BOOLEAN : CallOn(u, o, op, given)
  BY MainAssumption DEF CCall, CppCall, GoCall, DartCall
<1> QED BY <1>1, <1>2, <1>3, <1>4, CallOnTypes

\* A thread that goes on keeps the types.
LEMMA ProceedTypes ==
    ASSUME TypeOK, HoldInv, StageInv, NEW t \in Threads, Proceed(t)
    PROVE  TypeOK'
<1>1. CASE NativeStep(t) /\ UNCHANGED clientVars
  <2>1. NativeTypeOK
    BY DEF TypeOK
  <2>3. frame[t].pc \in Holding => frame[t].at \in Addresses
    BY DEF HoldInv, Holds
  <2>2. NativeTypeOK'
    BY <1>1, <2>1, <2>3, NativeStepTypes
  <2> QED BY <1>1, <2>2 DEF TypeOK, clientVars
<1>2. CASE Ask(t)
  BY <1>2, AskTypes DEF Ask, TypeOK, clientVars
<1>3. CASE TakeOutput(t) \/ Throw(t)
  BY <1>3, LeaveTypes DEF TakeOutput, Throw
<1> QED BY <1>1, <1>2, <1>3 DEF Proceed

\* Every step keeps the types.
LEMMA StepTypes ==
    ASSUME TypeOK, HoldInv, StageInv, [Next]_vars
    PROVE  TypeOK'
<1>1. CASE UNCHANGED vars
  BY <1>1 DEF vars, nativeVars, callVars, clientVars, TypeOK, NativeTypeOK
<1>2. CASE Next
  <2>1. CASE \E o, p \in Objects :
               \/ \E a \in Addresses : Construct(o, a)
               \/ MoveConstruct(o, p) \/ MoveAssign(o, p) \/ Destroy(o)
               \/ GoClose(o) \/ DartClose(o) \/ FacadeClose(o) \/ Collect(o)
    BY <2>1, ObjectTypes
  <2>2. CASE \E t \in Threads, o \in Objects, op \in Calls, out \in BOOLEAN :
               CCall(t, o, op, out) \/ CppCall(t, o, op) \/ GoCall(t, o, op) \/ DartCall(o, op)
    BY <2>2, CallsTypes
  <2>3. CASE RunMicrotask \/ \E o \in Objects, op \in Calls : Schedule(o, op)
    BY <2>3, QueueTypes
  <2>4. CASE \E t \in Threads : Proceed(t)
    BY <2>4, ProceedTypes
  <2> QED BY <1>2, <2>1, <2>2, <2>3, <2>4, MainAssumption DEF Next
<1> QED BY <1>1, <1>2
-----------------------------------------------------------------------------
(* Calls. *)

USE DEF At, Handle, SetFrame, Goto, Refusal, NoText, Unasked

\* The frame of a thread has its fields, and a step that sets one frame leaves the others.
LEMMA FrameSet ==
    ASSUME NativeTypeOK, NEW t \in Threads, NEW f, SetFrame(t, f)
    PROVE  /\ frame'[t] = f
           /\ \A u \in Threads : u # t => frame'[u] = frame[u]
BY DEF NativeTypeOK

\* A frame is a frame.
LEMMA FrameOf ==
    ASSUME NativeTypeOK, NEW t \in Threads
    PROVE  frame[t] \in Frames
BY DEF NativeTypeOK

\* What a thread keeps when another thread steps.
LEMMA Undisturbed ==
    ASSUME NEW u \in Threads, frame'[u] = frame[u], surface' = surface,
           CallInv
    PROVE  /\ Staged(u)'
           /\ (frame[u].at \in Addresses => 
                 /\ turns'[frame[u].at] = turns[frame[u].at]
                 /\ holder'[frame[u].at] = holder[frame[u].at]
                 /\ ran'[frame[u].at] = ran[frame[u].at]
                 /\ frame[u].at \notin poisoned => frame[u].at \notin poisoned')
              => Holds(u)'
           /\ (frame[u].turn # 0 => 
                 /\ turns'[frame[u].at] = turns[frame[u].at]
                 /\ slot'[frame[u].at] = slot[frame[u].at]) 
              => Slotted(u)' /\ Shown(u)'
<1>1. Staged(u)'
  BY DEF Staged, CallInv, StageInv
<1>2. ASSUME (frame[u].at \in Addresses => 
                 /\ turns'[frame[u].at] = turns[frame[u].at]
                 /\ holder'[frame[u].at] = holder[frame[u].at]
                 /\ ran'[frame[u].at] = ran[frame[u].at]
                 /\ frame[u].at \notin poisoned => frame[u].at \notin poisoned')
      PROVE Holds(u)'
  BY <1>2 DEF Holds, CallInv, HoldInv
<1>3. ASSUME (frame[u].turn # 0 => 
                 /\ turns'[frame[u].at] = turns[frame[u].at]
                 /\ slot'[frame[u].at] = slot[frame[u].at]) 
      PROVE Shown(u)'
  BY <1>3 DEF Shown, MayShow, CallInv, ShownInv
<1>4. ASSUME (frame[u].turn # 0 => 
                 /\ turns'[frame[u].at] = turns[frame[u].at]
                 /\ slot'[frame[u].at] = slot[frame[u].at]) 
      PROVE Slotted(u)'
  BY <1>4 DEF Slotted, MayShow, CallInv, HoldInv, Holds, Holding, SlotInv
<1> QED BY <1>1, <1>2, <1>3, <1>4

\* Turns stay apart when none is given.
LEMMA TurnsKept ==
    ASSUME CallInv, UNCHANGED turns,
           \A u \in Threads : \/ frame'[u].turn = 0
                              \/ frame'[u].turn = frame[u].turn /\ frame'[u].at = frame[u].at
    PROVE  TurnsInv'
<1> SUFFICES ASSUME NEW u \in Threads, frame'[u].turn # 0 PROVE Turned(u)'
  BY DEF TurnsInv, Turned
<1>1. frame'[u].turn = frame[u].turn /\ frame'[u].at = frame[u].at /\ Turned(u)
  BY DEF CallInv, TurnsInv
<1>2. ASSUME NEW v \in Threads, v # u, frame'[v].at = frame'[u].at
      PROVE  frame'[v].turn # frame'[u].turn
  BY <1>1, <1>2 DEF Turned
<1> QED BY <1>1, <1>2 DEF Turned

\* A refusal before the lock.
LEMMA RefusedCalls ==
    ASSUME NativeTypeOK, CallInv, NEW t \in Threads,
           RefuseNull(t) \/ RejectEarly(t) \/ RefusePoisoned(t)
    PROVE  CallInv'
<1>1. /\ frame[t].pc = "called"
      /\ frame'[t] = [frame[t] EXCEPT !.pc = "returned", !.outcome = "refused"]
      /\ \A u \in Threads : u # t => frame'[u] = frame[u]
      /\ UNCHANGED <<surface, holder, poisoned, ran, turns, slot>>
  BY FrameSet DEF RefuseNull, RejectEarly, RefusePoisoned, CanLock
<1>2. /\ frame'[t].pc = "returned"
      /\ frame'[t].at = frame[t].at
      /\ frame'[t].turn = 0
      /\ frame'[t].outcome = "refused"
      /\ frame'[t].shown = {}
  BY <1>1, FrameOf DEF CallInv, StageInv, Staged, Frames
<1>3. Holds(t)' /\ Staged(t)' /\ Slotted(t)' /\ Shown(t)'
  BY <1>2 DEF Holds, Staged, Slotted, Shown, Holding
<1>4. ASSUME NEW u \in Threads, u # t PROVE Holds(u)' /\ Staged(u)' /\ Slotted(u)' /\ Shown(u)'
  BY <1>1, <1>4, Undisturbed
<1>5. TurnsInv'
  BY <1>1, <1>2, TurnsKept
<1> QED BY <1>3, <1>4, <1>5 DEF CallInv, HoldInv, StageInv, SlotInv, ShownInv

\* Getting the mutex: the turn is the last yet, and nobody held it.
LEMMA LockedCalls ==
    ASSUME NativeTypeOK, CallInv, NEW t \in Threads, Lock(t)
    PROVE  CallInv'
<1> DEFINE a == frame[t].at
<1>0. /\ a \in Addresses
      /\ turns[a] \in Nat
      /\ turns' = [turns EXCEPT ![a] = @ + 1]
      /\ holder' = [holder EXCEPT ![a] = t]
      /\ holder[a] = Null
      /\ a \notin poisoned
      /\ UNCHANGED <<surface, poisoned, ran, slot>>
  BY FrameOf DEF Lock, CanLock, MutexFree, Frames, NativeTypeOK
<1>1. /\ frame[t].pc = "called"
      /\ frame'[t] = [frame[t] EXCEPT !.pc = "locked", !.turn = turns[a] + 1]
      /\ \A u \in Threads : u # t => frame'[u] = frame[u]
  BY FrameSet DEF Lock, CanLock
<1>2. /\ frame'[t].pc = "locked"
      /\ frame'[t].at = a
      /\ frame'[t].turn = turns[a] + 1
      /\ frame'[t].outcome = "ok"
      /\ frame'[t].shown = {}
  BY <1>1, FrameOf DEF CallInv, StageInv, Staged, Frames
<1>3. /\ turns'[a] = turns[a] + 1
      /\ holder'[a] = t
      /\ \A b \in Addresses : b # a => turns'[b] = turns[b] /\ holder'[b] = holder[b]
  BY <1>0 DEF NativeTypeOK
<1>n. /\ \A u \in Threads : frame[u].turn \in Nat /\ u # Null
      /\ \A b \in Addresses : turns[b] \in Nat /\ slot[b] \in Nat
  BY FrameOf, NullAssumption DEF Frames, NativeTypeOK
<1> HIDE DEF a
<1>4. Holds(t)' /\ Staged(t)' /\ Slotted(t)' /\ Shown(t)' 
  BY <1>0, <1>2, <1>3, <1>n DEF Holds, Staged, Slotted, Shown, Holding
<1>5. ASSUME NEW u \in Threads, u # t PROVE Holds(u)' /\ Staged(u)' /\ Slotted(u)' /\ Shown(u)'
  <2>1. frame'[u] = frame[u] /\ Holds(u) /\ Slotted(u) /\ Shown(u) /\ Turned(u)
    BY <1>1, <1>5 DEF CallInv, HoldInv, TurnsInv, SlotInv, ShownInv
  <2>2. Holds(u)'
    BY <1>0, <1>3, <1>n, <2>1 DEF Holds
  <2>3. Staged(u)'
    BY <1>0, <2>1, Undisturbed
  <2>4. CASE frame[u].turn = 0
    BY <1>0, <2>1, <2>2, <2>3, <2>4, Undisturbed
  <2>5. CASE frame[u].turn # 0
    <3> DEFINE b == frame[u].at
    <3>1. b \in Addresses /\ turns[b] <= turns'[b] /\ turns'[b] \in Nat /\ turns[b] \in Nat
      BY <1>0, <1>3, <1>n, <2>1, <2>5 DEF Turned
    <3>2. \A text : MayShow(u, text) => MayShow(u, text)'
      BY <1>n, <2>1, <3>1 DEF MayShow
    <3>3. Shown(u)'
      BY <2>1, <3>2 DEF Shown
    <3>4. Slotted(u)'
      BY <1>0, <2>1, <3>2 DEF Slotted
    <3> QED BY <2>2, <2>3, <3>3, <3>4
  <2> QED BY <2>4, <2>5
<1>6. TurnsInv'
  <2>1. Turned(t)'
    <3>1. ASSUME NEW u \in Threads, u # t, frame'[u].at = a PROVE frame'[u].turn # turns[a] + 1
      <4>1. frame'[u] = frame[u] /\ Turned(u)
        BY <1>1, <3>1 DEF CallInv, TurnsInv
      <4> QED BY <1>0, <1>n, <3>1, <4>1 DEF Turned
    <3> QED BY <1>0, <1>2, <1>3, <3>1 DEF Turned
  <2>2. ASSUME NEW u \in Threads, u # t PROVE Turned(u)'
    <3>1. frame'[u] = frame[u] /\ Turned(u)
      BY <1>1, <2>2 DEF CallInv, TurnsInv
    <3>2. ASSUME frame[u].turn # 0, NEW v \in Threads, v # u, frame'[v].at = frame[u].at
          PROVE  frame'[v].turn # frame[u].turn
      <4>1. CASE v = t
        BY <1>0, <1>2, <1>n, <3>1, <3>2, <4>1 DEF Turned
      <4>2. CASE v # t
        BY <1>1, <3>1, <3>2, <4>2 DEF Turned
      <4> QED BY <4>1, <4>2
    <3>3. frame[u].turn # 0 => frame[u].turn <= turns'[frame[u].at]
      BY <1>0, <1>3, <1>n, <3>1 DEF Turned
    <3> QED BY <3>1, <3>2, <3>3 DEF Turned
  <2> QED BY <2>1, <2>2 DEF TurnsInv
<1> QED BY <1>4, <1>5, <1>6 DEF CallInv, HoldInv, StageInv, SlotInv, ShownInv
\* Inside the mutex, before the report: others keep what they have, for nobody else holds
\* the handle.
LEMMA InsideCalls ==
    ASSUME NativeTypeOK, CallInv, NEW t \in Threads, RejectInput(t) \/ Start(t) \/ Finish(t)
    PROVE  CallInv'
<1> DEFINE a == frame[t].at
<1>0. /\ a \in Addresses
      /\ holder[a] = t
      /\ a \notin poisoned
      /\ frame[t].turn = turns[a]
      /\ frame[t].turn # 0
      /\ frame[t].pc = "running" => frame[t].before = ran[a]
      /\ frame[t].shown = {}
      /\ frame[t].outcome = "ok"
      /\ UNCHANGED <<surface, holder, poisoned, turns, slot>>
      /\ \A b \in Addresses : b # a => ran'[b] = ran[b]
  BY DEF RejectInput, Start, Finish, Wrote, CallInv, HoldInv, Holds, StageInv, Staged, Holding, NativeTypeOK
<1>1. /\ \A u \in Threads : u # t => frame'[u] = frame[u]
      /\ frame'[t].at = a
      /\ frame'[t].turn = frame[t].turn
      /\ frame'[t].shown = {}
      /\ \/ frame'[t].pc = "reporting"
         \/ frame'[t].pc = "unlocking" /\ surface = "bridge"
         \/ frame'[t].pc = "running" /\ frame'[t].outcome = "ok" /\ frame'[t].before = ran'[a]
  <2>0. frame[t] \in Frames
    BY FrameOf
  <2>1. CASE RejectInput(t)
    <3>1. /\ frame'[t] = [frame[t] EXCEPT !.pc = "reporting", !.outcome = "refused"]
          /\ \A u \in Threads : u # t => frame'[u] = frame[u]
      BY <2>1, FrameSet DEF RejectInput
    <3> QED BY <1>0, <2>0, <3>1 DEF Frames
  <2>2. CASE Start(t)
    <3>1. /\ frame'[t] = [frame[t] EXCEPT !.pc = "running", !.before = ran[a]]
          /\ \A u \in Threads : u # t => frame'[u] = frame[u]
          /\ ran' = ran
      BY <2>2, FrameSet DEF Start
    <3> QED BY <1>0, <2>0, <3>1 DEF Frames
  <2>3. CASE Finish(t)
    <3>1. PICK outcome \in {"ok", "failed"} :
              SetFrame(t, [frame[t] EXCEPT !.outcome = outcome,
                              !.pc = IF surface = "abi" THEN "reporting" ELSE "unlocking"])
      BY <2>3 DEF Finish
    <3>2. frame'[t] = [frame[t] EXCEPT !.outcome = outcome,
                              !.pc = IF surface = "abi" THEN "reporting" ELSE "unlocking"]
      BY <3>1, FrameSet
    <3>3. surface \in {"abi", "bridge"}
      BY DEF NativeTypeOK
    <3>4. \A u \in Threads : u # t => frame'[u] = frame[u]
      BY <3>1, FrameSet
    <3> QED BY <1>0, <2>0, <3>2, <3>3, <3>4 DEF Frames
  <2> QED BY <2>1, <2>2, <2>3
<1> HIDE DEF a
<1>2. Holds(t)' /\ Staged(t)' /\ Slotted(t)' /\ Shown(t)'
  BY <1>0, <1>1 DEF Holds, Staged, Slotted, Shown, Holding
<1>3. ASSUME NEW u \in Threads, u # t PROVE Holds(u)' /\ Staged(u)' /\ Slotted(u)' /\ Shown(u)'
  <2>1. CASE frame[u].at # a
    BY <1>0, <1>1, <1>3, <2>1, Undisturbed
  <2>2. CASE frame[u].at = a
    <3>1. frame[u].pc \notin Holding
      BY <1>0, <1>3, <2>2 DEF CallInv, HoldInv, Holds
    <3>2. Holds(u)'
      BY <1>1, <1>3, <3>1 DEF Holds
    <3> QED BY <1>0, <1>1, <1>3, <3>2, Undisturbed
  <2> QED BY <2>1, <2>2
<1>4. TurnsInv'
  BY <1>0, <1>1, TurnsKept DEF a
<1> QED BY <1>2, <1>3, <1>4 DEF CallInv, HoldInv, StageInv, SlotInv, ShownInv

\* A panic leaves the handle poisoned and free.
LEMMA PanicCalls ==
    ASSUME NativeTypeOK, CallInv, NEW t \in Threads, Panic(t)
    PROVE  CallInv'
<1> DEFINE a == frame[t].at
<1>0. /\ a \in Addresses
      /\ holder[a] = t
      /\ frame[t].shown = {}
      /\ surface = "bridge"
      /\ poisoned' = poisoned \cup {a}
      /\ UNCHANGED <<surface, turns, slot>>
      /\ \A b \in Addresses : b # a => ran'[b] = ran[b] /\ holder'[b] = holder[b]
  BY DEF Panic, Wrote, CallInv, HoldInv, Holds, StageInv, Staged, Holding, NativeTypeOK
<1>1. /\ \A u \in Threads : u # t => frame'[u] = frame[u]
      /\ frame'[t].at = a
      /\ frame'[t].turn = frame[t].turn
      /\ frame'[t].shown = {}
      /\ frame'[t].pc = "returned"
  <2>1. /\ frame'[t] = [frame[t] EXCEPT !.pc = "returned", !.outcome = "failed"]
        /\ \A u \in Threads : u # t => frame'[u] = frame[u]
    BY FrameSet DEF Panic
  <2> QED BY <1>0, <2>1, FrameOf DEF Frames
<1> HIDE DEF a
<1>2. Holds(t)' /\ Staged(t)' /\ Slotted(t)' /\ Shown(t)'
  BY <1>0, <1>1 DEF Holds, Staged, Slotted, Shown, Holding
<1>3. ASSUME NEW u \in Threads, u # t PROVE Holds(u)' /\ Staged(u)' /\ Slotted(u)' /\ Shown(u)'
  <2>1. CASE frame[u].at # a
    BY <1>0, <1>1, <1>3, <2>1, Undisturbed
  <2>2. CASE frame[u].at = a
    <3>1. frame[u].pc \notin Holding
      BY <1>0, <1>3, <2>2 DEF CallInv, HoldInv, Holds
    <3>2. Holds(u)'
      BY <1>1, <1>3, <3>1 DEF Holds
    <3> QED BY <1>0, <1>1, <1>3, <3>2, Undisturbed
  <2> QED BY <2>1, <2>2
<1>4. TurnsInv'
  BY <1>0, <1>1, TurnsKept DEF a
<1> QED BY <1>2, <1>3, <1>4 DEF CallInv, HoldInv, StageInv, SlotInv, ShownInv

\* The report writes the text of the last turn, which is later than that of every call
\* that returned.
LEMMA ReportCalls ==
    ASSUME NativeTypeOK, CallInv, NEW t \in Threads, Report(t)
    PROVE  CallInv'
<1> DEFINE a == frame[t].at
<1>0. /\ a \in Addresses
      /\ holder[a] = t
      /\ frame[t].turn = turns[a]
      /\ frame[t].turn # 0
      /\ frame[t].shown = {}
      /\ UNCHANGED <<surface, holder, poisoned, turns, ran>>
      /\ slot'[a] = IF frame[t].outcome = "ok" THEN NoText ELSE frame[t].turn
      /\ \A b \in Addresses : b # a => slot'[b] = slot[b]
  BY DEF Report, CallInv, HoldInv, Holds, StageInv, Staged, Holding, NativeTypeOK
<1>1. /\ \A u \in Threads : u # t => frame'[u] = frame[u]
      /\ frame'[t].pc = "unlocking"
      /\ frame'[t].at = a
      /\ frame'[t].turn = frame[t].turn
      /\ frame'[t].outcome = frame[t].outcome
      /\ frame'[t].shown = {}
  <2>1. /\ frame'[t] = [frame[t] EXCEPT !.pc = "unlocking"]
        /\ \A u \in Threads : u # t => frame'[u] = frame[u]
    BY FrameSet DEF Report
  <2> QED BY <1>0, <2>1, FrameOf DEF Frames
<1>n. \A u \in Threads : frame[u].turn \in Nat
  BY FrameOf DEF Frames
<1>p. Holds(t)
  BY DEF CallInv, HoldInv
<1>q. frame[t].pc = "reporting"
  BY DEF Report
<1>2. Staged(t)' /\ Slotted(t)' /\ Shown(t)'
  BY <1>0, <1>1 DEF Staged, Slotted, Shown
<1>3. Holds(t)'
  BY <1>0, <1>1, <1>p, <1>q DEF Holds, Holding
<1> HIDE DEF a
<1>4. ASSUME NEW u \in Threads, u # t PROVE Holds(u)' /\ Staged(u)' /\ Slotted(u)' /\ Shown(u)'
  <2>0. frame'[u] = frame[u]
    BY <1>1, <1>4
  <2>1. CASE frame[u].at # a \/ frame[u].turn = 0
    <3>1. frame[u].turn # 0 => frame[u].at \in Addresses
      BY DEF CallInv, TurnsInv, Turned
    <3> QED BY <1>0, <2>0, <2>1, <3>1, Undisturbed
  <2>2. CASE frame[u].at = a /\ frame[u].turn # 0
    <3>1. frame[u].pc \notin Holding
      BY <1>0, <1>4, <2>2 DEF CallInv, HoldInv, Holds
    <3>2. frame[u].turn < turns[a]
      <4>1. Turned(u)
        BY DEF CallInv, TurnsInv
      <4>2. turns[a] \in Nat
        BY <1>0 DEF NativeTypeOK
      <4> QED BY <1>0, <1>4, <1>n, <2>2, <4>1, <4>2 DEF Turned, a
    <3>3. Slotted(u)'
      BY <1>0, <2>0, <2>2, <3>1, <3>2 DEF Slotted, MayShow, Holding
    <3>4. Holds(u)' /\ Staged(u)'
      BY <1>0, <2>0, Undisturbed
    <3>5. Shown(u)'
      BY <1>0, <2>0 DEF CallInv, ShownInv, Shown, MayShow
    <3> QED BY <3>3, <3>4, <3>5
  <2> QED BY <2>1, <2>2
<1>5. TurnsInv'
  BY <1>0, <1>1, TurnsKept DEF a
<1> QED BY <1>2, <1>3, <1>4, <1>5 DEF CallInv, HoldInv, StageInv, SlotInv, ShownInv

\* The guard dropped: the text written is there to be asked for.
LEMMA UnlockCalls ==
    ASSUME NativeTypeOK, CallInv, NEW t \in Threads, Unlock(t)
    PROVE  CallInv'
<1> DEFINE a == frame[t].at
<1>0. /\ a \in Addresses
      /\ holder[a] = t
      /\ frame[t].pc = "unlocking"
      /\ frame[t].shown = {}
      /\ UNCHANGED <<surface, poisoned, turns, ran, slot>>
      /\ \A b \in Addresses : b # a => holder'[b] = holder[b]
  BY DEF Unlock, CallInv, HoldInv, Holds, StageInv, Staged, Holding, NativeTypeOK
<1>1. /\ \A u \in Threads : u # t => frame'[u] = frame[u]
      /\ frame'[t].pc = "returned"
      /\ frame'[t].at = a
      /\ frame'[t].turn = frame[t].turn
      /\ frame'[t].outcome = frame[t].outcome
      /\ frame'[t].shown = {}
  <2>1. /\ frame'[t] = [frame[t] EXCEPT !.pc = "returned"]
        /\ \A u \in Threads : u # t => frame'[u] = frame[u]
    BY FrameSet DEF Unlock
  <2> QED BY <1>0, <2>1, FrameOf DEF Frames
<1>2. Holds(t)' /\ Staged(t)' /\ Shown(t)'
  BY <1>1 DEF Holds, Staged, Shown, Holding
<1>3. Slotted(t)'
  BY <1>0, <1>1 DEF Slotted, MayShow, CallInv, SlotInv
<1> HIDE DEF a
<1>4. ASSUME NEW u \in Threads, u # t PROVE Holds(u)' /\ Staged(u)' /\ Slotted(u)' /\ Shown(u)'
  <2>1. CASE frame[u].at # a
    BY <1>0, <1>1, <1>4, <2>1, Undisturbed
  <2>2. CASE frame[u].at = a
    <3>1. frame[u].pc \notin Holding
      BY <1>0, <1>4, <2>2 DEF CallInv, HoldInv, Holds
    <3>2. Holds(u)'
      BY <1>1, <1>4, <3>1 DEF Holds
    <3> QED BY <1>0, <1>1, <1>4, <3>2, Undisturbed
  <2> QED BY <2>1, <2>2
<1>5. TurnsInv'
  BY <1>0, <1>1, TurnsKept DEF a
<1> QED BY <1>2, <1>3, <1>4, <1>5 DEF CallInv, HoldInv, StageInv, SlotInv, ShownInv

\* Entering a call, and leaving it: a frame with nothing in it.
LEMMA FreshFrames ==
    ASSUME NativeTypeOK, CallInv, NEW t \in Threads, UNCHANGED <<surface, holder, poisoned, turns, ran, slot>>,
           \/ \E at, op, out : Call(t, at, op, out)
           \/ SetFrame(t, NoFrame)
    PROVE  CallInv'
<1>1. /\ \A u \in Threads : u # t => frame'[u] = frame[u]
      /\ frame'[t].pc \in {"idle", "called"}
      /\ frame'[t].turn = 0
      /\ frame'[t].outcome = "ok"
      /\ frame'[t].shown = {}
  <2>1. CASE SetFrame(t, NoFrame)
    <3>1. /\ frame'[t] = NoFrame
          /\ \A u \in Threads : u # t => frame'[u] = frame[u]
      BY <2>1, FrameSet
    <3> QED BY <3>1 DEF NoFrame
  <2>2. CASE \E at, op, out : Call(t, at, op, out)
    <3>1. PICK at, op, out : Call(t, at, op, out)
      BY <2>2
    <3>2. /\ frame'[t] = [NoFrame EXCEPT !.pc = "called", !.at = at, !.op = op, !.out = out]
          /\ \A u \in Threads : u # t => frame'[u] = frame[u]
      BY <3>1, FrameSet DEF Call
    <3> QED BY <3>2 DEF NoFrame
  <2> QED BY <2>1, <2>2
<1>2. Holds(t)' /\ Staged(t)' /\ Slotted(t)' /\ Shown(t)'
  BY <1>1 DEF Holds, Staged, Slotted, Shown, Holding
<1>3. ASSUME NEW u \in Threads, u # t PROVE Holds(u)' /\ Staged(u)' /\ Slotted(u)' /\ Shown(u)'
  BY <1>1, <1>3, Undisturbed
<1>4. TurnsInv'
  BY <1>1, TurnsKept
<1> QED BY <1>2, <1>3, <1>4 DEF CallInv, HoldInv, StageInv, SlotInv, ShownInv

\* The text shown is one the call may be shown.
LEMMA AskCalls ==
    ASSUME NativeTypeOK, CallInv, NEW t \in Threads, AskLastError(t)
    PROVE  CallInv'
<1> DEFINE text == IF surface = "bridge" THEN frame[t].turn
                   ELSE IF frame[t].at = Null THEN NoText ELSE slot[frame[t].at]
<1>1. /\ \A u \in Threads : u # t => frame'[u] = frame[u]
      /\ frame[t].pc = "returned"
      /\ frame[t].outcome # "ok"
      /\ frame'[t].pc = "returned"
      /\ frame'[t].at = frame[t].at
      /\ frame'[t].turn = frame[t].turn
      /\ frame'[t].outcome = frame[t].outcome
      /\ frame'[t].shown = {text}
      /\ UNCHANGED <<surface, holder, poisoned, turns, ran, slot>>
  <2>1. /\ frame'[t] = [frame[t] EXCEPT !.shown = {text}]
        /\ \A u \in Threads : u # t => frame'[u] = frame[u]
        /\ UNCHANGED <<surface, holder, poisoned, turns, ran, slot>>
    BY FrameSet DEF AskLastError
  <2>2. frame[t].pc = "returned" /\ frame[t].outcome # "ok"
    BY DEF AskLastError, Failed
  <2> HIDE DEF text
  <2> QED BY <2>1, <2>2, FrameOf DEF Frames
<1>2. frame[t].turn # 0 => MayShow(t, text)
  <2>1. frame[t].turn # 0 => frame[t].at \in Addresses
    BY DEF CallInv, TurnsInv, Turned
  <2>2. surface \in {"abi", "bridge"}
    BY DEF NativeTypeOK
  <2> QED BY <1>1, <2>1, <2>2, NullAssumption DEF CallInv, SlotInv, Slotted, MayShow
<1> HIDE DEF text
<1>3. Holds(t)' /\ Staged(t)' /\ Shown(t)' /\ Slotted(t)'
  BY <1>1, <1>2 DEF Holds, Staged, Shown, MayShow, Holding, Slotted, CallInv, SlotInv
<1>4. ASSUME NEW u \in Threads, u # t PROVE Holds(u)' /\ Staged(u)' /\ Slotted(u)' /\ Shown(u)'
  BY <1>1, <1>4, Undisturbed
<1>5. TurnsInv'
  BY <1>1, TurnsKept
<1> QED BY <1>3, <1>4, <1>5 DEF CallInv, HoldInv, StageInv, SlotInv, ShownInv

\* Steps of objects touch no call.
LEMMA ObjectCalls ==
    ASSUME CallInv, UNCHANGED <<surface, holder, poisoned, turns, ran, slot, frame>>
    PROVE  CallInv'
<1>1. ASSUME NEW u \in Threads PROVE Holds(u)' /\ Staged(u)' /\ Slotted(u)' /\ Shown(u)'
  BY <1>1, Undisturbed
<1>2. TurnsInv'
  BY TurnsKept
<1> QED BY <1>1, <1>2 DEF CallInv, HoldInv, StageInv, SlotInv, ShownInv
-----------------------------------------------------------------------------
(* Refinement. *)

AbstractCalls == [u \in Threads |-> AbstractCall(frame[u])]

\* Where a call stands, for the abstract handle.
LEMMA AbstractStages ==
    ASSUME NEW f
    PROVE  /\ f.pc = "idle" => AbstractCall(f) = Atomic!Idle
           /\ f.pc \in {"called", "locked", "running"} /\ f.at # Null => AbstractCall(f) = Atomic!Open(f.at)
           /\ f.pc = "called" /\ f.at = Null => AbstractCall(f) = Atomic!Refused
           /\ f.pc \in {"reporting", "unlocking", "returned"} /\ f.outcome = "refused" => AbstractCall(f) = Atomic!Refused
           /\ f.pc \in {"reporting", "unlocking", "returned"} /\ f.outcome # "refused" =>
                AbstractCall(f) = Atomic!Taken(f.before)
BY DEF AbstractCall, Atomic!Idle, Atomic!Open, Atomic!Refused, Atomic!Taken

\* When one frame moves, one abstract call does.
LEMMA AbstractSet ==
    ASSUME NEW t \in Threads, \A u \in Threads : u # t => frame'[u] = frame[u]
    PROVE  AbstractCalls' = [AbstractCalls EXCEPT ![t] = AbstractCall(frame'[t])]
BY DEF AbstractCalls

\* A call takes effect when the service ends: it worked on what the service had run.
LEMMA AbstractFinish ==
    ASSUME NativeTypeOK, CallInv, NEW t \in Threads, Finish(t) \/ Panic(t)
    PROVE  Atomic!Take(t)
<1> DEFINE a == frame[t].at
<1>0. /\ a \in Addresses
      /\ a \notin poisoned
      /\ frame[t].pc = "running"
      /\ frame[t].before = ran[a]
      /\ ran' = [ran EXCEPT ![a] = ran[a] + 1]
      /\ poisoned' \in {poisoned, poisoned \cup {a}}
      /\ a # Null
  <2>1. frame[t].pc = "running"
    BY DEF Finish, Panic
  <2>2. a \in Addresses /\ a \notin poisoned /\ frame[t].before = ran[a] /\ a # Null
    BY <2>1, NullAssumption DEF CallInv, HoldInv, Holds, Holding
  <2>3. ran' = [ran EXCEPT ![a] = frame[t].before + 1]
    BY DEF Finish, Panic, Wrote
  <2>4. poisoned' \in {poisoned, poisoned \cup {a}}
    BY DEF Finish, Panic
  <2> QED BY <2>1, <2>2, <2>3, <2>4
<1>1. /\ \A u \in Threads : u # t => frame'[u] = frame[u]
      /\ frame'[t].pc \in {"reporting", "unlocking", "returned"}
      /\ frame'[t].outcome # "refused"
      /\ frame'[t].before = ran[a]
  <2>1. CASE Finish(t)
    <3>1. PICK outcome \in {"ok", "failed"} :
              SetFrame(t, [frame[t] EXCEPT !.outcome = outcome,
                              !.pc = IF surface = "abi" THEN "reporting" ELSE "unlocking"])
      BY <2>1 DEF Finish
    <3>2. /\ frame'[t] = [frame[t] EXCEPT !.outcome = outcome,
                              !.pc = IF surface = "abi" THEN "reporting" ELSE "unlocking"]
          /\ \A u \in Threads : u # t => frame'[u] = frame[u]
      BY <3>1, FrameSet
    <3> QED BY <1>0, <3>2, FrameOf DEF Frames
  <2>2. CASE Panic(t)
    <3>1. /\ frame'[t] = [frame[t] EXCEPT !.pc = "returned", !.outcome = "failed"]
          /\ \A u \in Threads : u # t => frame'[u] = frame[u]
      BY <2>2, FrameSet DEF Panic
    <3> QED BY <1>0, <3>1, FrameOf DEF Frames
  <2> QED BY <2>1, <2>2
<1> HIDE DEF a
<1>2. AbstractCalls[t] = Atomic!Open(a)
  BY <1>0, AbstractStages DEF AbstractCalls, a
<1>3. AbstractCalls' = [AbstractCalls EXCEPT ![t] = Atomic!Taken(ran[a])]
  BY <1>1, AbstractSet, AbstractStages
<1> QED BY <1>0, <1>2, <1>3 DEF Atomic!Take, Atomic!SetCall, AbstractCalls

\* A step inside a call takes effect, refuses, or does not show.
LEMMA AbstractNative ==
    ASSUME NativeTypeOK, CallInv, NEW t \in Threads, NativeStep(t)
    PROVE  Atomic!Take(t) \/ Atomic!Refuse(t) \/ UNCHANGED <<ran, poisoned, AbstractCalls>>
<1>f. frame[t] \in Frames
  BY FrameOf
<1>1. CASE Finish(t) \/ Panic(t)
  BY <1>1, AbstractFinish
<1>2. CASE RefuseNull(t) \/ RejectEarly(t) \/ RefusePoisoned(t) \/ RejectInput(t)
  <2>1. /\ frame[t].pc \in {"called", "locked"}
        /\ frame'[t].pc \in {"reporting", "returned"}
        /\ frame'[t].outcome = "refused"
        /\ UNCHANGED <<ran, poisoned>>
        /\ \A u \in Threads : u # t => frame'[u] = frame[u]
    <3>1. PICK pc \in {"reporting", "returned"} :
              /\ frame'[t] = [frame[t] EXCEPT !.pc = pc, !.outcome = "refused"]
              /\ \A u \in Threads : u # t => frame'[u] = frame[u]
      BY <1>2, FrameSet DEF RefuseNull, RejectEarly, RefusePoisoned, RejectInput
    <3>2. frame[t].pc \in {"called", "locked"} /\ UNCHANGED <<ran, poisoned>>
      BY <1>2 DEF RefuseNull, RejectEarly, RefusePoisoned, RejectInput, CanLock
    <3> QED BY <1>f, <3>1, <3>2 DEF Frames
  <2>2. AbstractCalls' = [AbstractCalls EXCEPT ![t] = Atomic!Refused]
    BY <2>1, AbstractSet, AbstractStages
  <2>3. CASE frame[t].at = Null
    <3>1. frame[t].pc = "called"
      BY <2>1, <2>3, NullAssumption DEF CallInv, HoldInv, Holds, Holding
    <3>2. AbstractCalls[t] = Atomic!Refused
      BY <2>3, <3>1, AbstractStages DEF AbstractCalls
    <3>3. AbstractCalls' = AbstractCalls
      BY <2>2, <3>2 DEF AbstractCalls
    <3> QED BY <2>1, <3>3
  <2>4. CASE frame[t].at # Null
    <3>1. frame[t].at \in Addresses
      BY <1>f, <2>4 DEF Frames
    <3>2. AbstractCalls[t] = Atomic!Open(frame[t].at)
      BY <2>1, <2>4, AbstractStages DEF AbstractCalls
    <3> QED BY <2>1, <2>2, <3>1, <3>2 DEF Atomic!Refuse, Atomic!SetCall, AbstractCalls
  <2> QED BY <2>3, <2>4
<1>3. CASE Lock(t) \/ Start(t) \/ Report(t) \/ Unlock(t)
  <2>1. UNCHANGED <<ran, poisoned>>
    BY <1>3 DEF Lock, Start, Report, Unlock
  <2>2. \A u \in Threads : u # t => frame'[u] = frame[u]
    BY <1>3, FrameSet DEF Lock, Start, Report, Unlock
  <2>3. AbstractCall(frame'[t]) = AbstractCall(frame[t])
    <3>1. CASE Lock(t)
      <4>1. frame'[t] = [frame[t] EXCEPT !.pc = "locked", !.turn = turns[Handle(t)] + 1]
        BY <3>1, FrameSet DEF Lock
      <4>2. /\ frame[t].pc = "called" /\ frame[t].at # Null
            /\ frame'[t].pc = "locked" /\ frame'[t].at = frame[t].at
        <5>1. frame[t].pc = "called" /\ frame[t].at # Null
          BY <3>1 DEF Lock, CanLock
        <5> QED BY <1>f, <4>1, <5>1 DEF Frames
      <4> QED BY <4>2, AbstractStages
    <3>2. CASE Start(t)
      <4>1. frame'[t] = [frame[t] EXCEPT !.pc = "running", !.before = ran[Handle(t)]]
        BY <3>2, FrameSet DEF Start
      <4>2. /\ frame[t].pc = "locked" /\ frame[t].at # Null
            /\ frame'[t].pc = "running" /\ frame'[t].at = frame[t].at
        <5>1. frame[t].pc = "locked"
          BY <3>2 DEF Start
        <5>2. frame[t].at # Null
          BY <5>1, NullAssumption DEF CallInv, HoldInv, Holds, Holding
        <5> QED BY <1>f, <4>1, <5>1, <5>2 DEF Frames
      <4> QED BY <4>2, AbstractStages
    <3>3. CASE Report(t) \/ Unlock(t)
      <4>1. PICK pc \in {"unlocking", "returned"} : frame'[t] = [frame[t] EXCEPT !.pc = pc]
        BY <3>3, FrameSet DEF Report, Unlock
      <4>2. /\ frame[t].pc \in {"reporting", "unlocking"} /\ frame'[t].pc \in {"unlocking", "returned"}
            /\ frame'[t].outcome = frame[t].outcome /\ frame'[t].before = frame[t].before
        BY <1>f, <3>3, <4>1 DEF Report, Unlock, Frames
      <4> QED BY <4>2, AbstractStages
    <3> QED BY <1>3, <3>1, <3>2, <3>3
  <2>4. AbstractCalls' = AbstractCalls
    BY <2>2, <2>3 DEF AbstractCalls
  <2> QED BY <2>1, <2>4
<1> QED BY <1>1, <1>2, <1>3 DEF NativeStep

\* Entering a call begins it, leaving it ends it.
LEMMA AbstractCaller ==
    ASSUME NativeTypeOK, CallInv, NEW t \in Threads,
           \/ \E at, op, out : at \in Addresses \cup {Null} /\ Call(t, at, op, out)
           \/ AskLastError(t)
           \/ At(t, "returned") /\ SetFrame(t, NoFrame) /\ UNCHANGED <<ran, poisoned>>
    PROVE  Atomic!Begin(t) \/ Atomic!End(t) \/ UNCHANGED <<ran, poisoned, AbstractCalls>>
<1>1. CASE \E at, op, out : at \in Addresses \cup {Null} /\ Call(t, at, op, out)
  <2>1. PICK at, op, out : at \in Addresses \cup {Null} /\ Call(t, at, op, out)
    BY <1>1
  <2>2. /\ frame'[t] = [NoFrame EXCEPT !.pc = "called", !.at = at, !.op = op, !.out = out]
        /\ \A u \in Threads : u # t => frame'[u] = frame[u]
        /\ frame[t].pc = "idle"
        /\ UNCHANGED <<ran, poisoned>>
    BY <2>1, FrameSet DEF Call
  <2>3. frame'[t].pc = "called" /\ frame'[t].at = at
    BY <2>2 DEF NoFrame
  <2>4. /\ AbstractCalls[t] = Atomic!Idle
        /\ AbstractCalls' = [AbstractCalls EXCEPT ![t] = AbstractCall(frame'[t])]
    BY <2>2, AbstractStages, AbstractSet DEF AbstractCalls
  <2>5. AbstractCall(frame'[t]) = IF at = Null THEN Atomic!Refused ELSE Atomic!Open(at)
    BY <2>3, AbstractStages
  <2>6. CASE at = Null
    BY <2>2, <2>4, <2>5, <2>6 DEF Atomic!Begin, Atomic!SetCall, AbstractCalls
  <2>7. CASE at \in Addresses
    <3>1. at # Null
      BY <2>7, NullAssumption
    <3>2. Atomic!SetCall(t, Atomic!Open(at))
      BY <2>4, <2>5, <3>1 DEF Atomic!SetCall, AbstractCalls
    <3> QED BY <2>2, <2>4, <2>7, <3>2 DEF Atomic!Begin, AbstractCalls
  <2> QED BY <2>1, <2>6, <2>7
<1>2. CASE AskLastError(t)
  <2> DEFINE text == IF surface = "bridge" THEN frame[t].turn
                     ELSE IF frame[t].at = Null THEN NoText ELSE slot[frame[t].at]
  <2>1. /\ frame'[t] = [frame[t] EXCEPT !.shown = {text}]
        /\ \A u \in Threads : u # t => frame'[u] = frame[u]
    BY <1>2, FrameSet DEF AskLastError
  <2> HIDE DEF text
  <2>2. /\ frame[t].pc = "returned" /\ frame'[t].pc = "returned"
        /\ frame'[t].outcome = frame[t].outcome /\ frame'[t].before = frame[t].before
        /\ UNCHANGED <<ran, poisoned>>
    BY <1>2, <2>1, FrameOf DEF AskLastError, Frames
  <2>3. AbstractCall(frame'[t]) = AbstractCall(frame[t])
    BY <2>2, AbstractStages
  <2> QED BY <2>1, <2>2, <2>3 DEF AbstractCalls
<1>3. CASE At(t, "returned") /\ SetFrame(t, NoFrame) /\ UNCHANGED <<ran, poisoned>>
  <2>1. frame'[t] = NoFrame /\ \A u \in Threads : u # t => frame'[u] = frame[u]
    BY <1>3, FrameSet
  <2>2. AbstractCall(frame'[t]) = Atomic!Idle
    BY <2>1, AbstractStages DEF NoFrame
  <2>3. AbstractCalls' = [AbstractCalls EXCEPT ![t] = Atomic!Idle]
    BY <2>1, <2>2, AbstractSet
  <2>4. AbstractCalls[t].state \in {"taken", "refused"}
    BY <1>3, AbstractStages DEF AbstractCalls, Atomic!Taken, Atomic!Refused
  <2> QED BY <1>3, <2>3, <2>4 DEF Atomic!End, Atomic!SetCall, AbstractCalls
<1> QED BY <1>1, <1>2, <1>3
-----------------------------------------------------------------------------
(* The whole: every step keeps the invariant and is a step of the abstract handle. *)

\* No call is under way at first.
LEMMA InitCalls == Init => CallInv
BY DEF Init, NativeInit, NoFrame, CallInv, HoldInv, StageInv, TurnsInv, SlotInv, ShownInv,
       Holds, Staged, Turned, Slotted, Shown, Holding

\* A step is one of an object, a call entered, a step inside a call, or its end.
LEMMA StepKinds ==
    ASSUME TypeOK, [Next]_vars
    PROVE  \/ UNCHANGED <<surface, holder, poisoned, turns, ran, slot, frame>>
           \/ /\ UNCHANGED <<surface, holder, poisoned, turns, ran, slot>>
              /\ \E t \in Threads : \E at, op, out : at \in Addresses \cup {Null} /\ Call(t, at, op, out)
           \/ \E t \in Threads : NativeStep(t) \/ AskLastError(t)
           \/ /\ UNCHANGED <<surface, holder, poisoned, turns, ran, slot>>
              /\ \E t \in Threads : At(t, "returned") /\ SetFrame(t, NoFrame)
<1> DEFINE Still == UNCHANGED <<surface, holder, poisoned, turns, ran, slot, frame>>
           Calling == /\ UNCHANGED <<surface, holder, poisoned, turns, ran, slot>>
                      /\ \E t \in Threads : \E at, op, out : at \in Addresses \cup {Null} /\ Call(t, at, op, out)
<1>0. /\ UNCHANGED nativeVars => Still
      /\ UNCHANGED callVars => Still
      /\ \A a : New(a) \/ Free(a) => Still
  BY DEF nativeVars, callVars, New, Free
<1>c. ASSUME NEW t \in Threads, NEW o \in Objects, NEW op, NEW out, object[o] # Unborn, CallOn(t, o, op, out)
      PROVE  Calling
  <2>1. object[o] \in Addresses \cup {Null}
    BY <1>c DEF TypeOK
  <2>2. Call(t, object[o], op, out)
    BY <1>c DEF CallOn
  <2>3. UNCHANGED <<surface, holder, poisoned, turns, ran, slot>>
    BY <2>2 DEF Call
  <2> QED BY <2>1, <2>2, <2>3
<1> HIDE DEF Still, Calling
<1>1. CASE UNCHANGED vars
  BY <1>0, <1>1 DEF vars, Still
<1>2. CASE \E o, p \in Objects :
               \/ \E a \in Addresses : Construct(o, a)
               \/ MoveConstruct(o, p) \/ MoveAssign(o, p) \/ Destroy(o)
               \/ GoClose(o) \/ DartClose(o) \/ FacadeClose(o) \/ Collect(o)
  <2>1. Still
    BY <1>0, <1>2 DEF Construct, MoveConstruct, MoveAssign, Destroy, GoClose, DartClose,
                      FacadeClose, Collect, FreeOwned
  <2> QED BY <2>1 DEF Still
<1>3. CASE \E t \in Threads, o \in Objects, op \in Calls, out \in BOOLEAN :
               CCall(t, o, op, out) \/ CppCall(t, o, op) \/ GoCall(t, o, op) \/ DartCall(o, op)
  <2>1. Calling
    BY <1>3, <1>c, MainAssumption, UnbornAssumption DEF CCall, CppCall, GoCall, DartCall, Owns
  <2> QED BY <2>1 DEF Calling
<1>4. CASE RunMicrotask \/ \E o \in Objects, op \in Calls : Schedule(o, op)
  <2>1. CASE \E o \in Objects, op \in Calls : Schedule(o, op)
    BY <1>0, <2>1 DEF Schedule, Still
  <2>2. CASE RunMicrotask
    <3> DEFINE o == Head(queue)[1]
               op == Head(queue)[2]
    <3>1. queue \in Seq(Objects \X Calls) /\ queue # <<>>
      BY <2>2 DEF RunMicrotask, TypeOK
    <3>2. Head(queue) \in Objects \X Calls
      BY <3>1
    <3>3. o \in Objects
      BY <3>2
    <3>4. \/ object[o] # Unborn /\ CallOn(Main, o, op, TRUE)
          \/ UNCHANGED callVars
      BY <2>2, UnbornAssumption DEF RunMicrotask, Owns
    <3> HIDE DEF o, op
    <3> QED BY <1>0, <1>c, <3>3, <3>4, MainAssumption DEF Still, Calling
  <2> QED BY <1>4, <2>1, <2>2
<1>5. CASE \E t \in Threads : Proceed(t)
  BY <1>5 DEF Proceed, Ask, TakeOutput, Throw, Leave
<1> QED BY <1>1, <1>2, <1>3, <1>4, <1>5, MainAssumption DEF Next

\* Every step keeps the invariant of calls.
LEMMA StepCalls ==
    ASSUME TypeOK, CallInv, [Next]_vars
    PROVE  CallInv'
<1>0. NativeTypeOK
  BY DEF TypeOK
<1>1. ASSUME NEW t \in Threads, NativeStep(t) PROVE CallInv'
  BY <1>0, <1>1, RefusedCalls, LockedCalls, InsideCalls, PanicCalls, ReportCalls, UnlockCalls
     DEF NativeStep
<1> QED BY <1>0, <1>1, StepKinds, ObjectCalls, FreshFrames, AskCalls

\* The types and the invariant of calls, in every state.
LEMMA SdkInvAlways == Spec => [](TypeOK /\ CallInv)
<1>1. Init => TypeOK /\ CallInv
  BY InitTypes, InitCalls
<1>2. TypeOK /\ CallInv /\ [Next]_vars => TypeOK' /\ CallInv'
  BY StepTypes, StepCalls DEF CallInv
<1> QED BY <1>1, <1>2, PTL DEF Spec

\* The types of the handles, the calls and the objects, in every state.
THEOREM TypeCorrect == Spec => []TypeOK
BY SdkInvAlways, PTL

\* A failed call is never shown the text of an earlier call (messenger_mls_last_error).
THEOREM TextNotOlderCorrect == Spec => []TextNotOlder
<1>1. TypeOK /\ CallInv => TextNotOlder
  <2> SUFFICES ASSUME TypeOK, CallInv, NEW t \in Threads, frame[t].pc = "returned", frame[t].turn # 0,
                      frame[t].shown # {}
               PROVE  \/ frame[t].shown = {frame[t].turn}
                      \/ /\ frame[t].turn < turns[frame[t].at]
                         /\ \A text \in frame[t].shown : text = NoText \/ frame[t].turn < text
    BY DEF TextNotOlder
  <2>0. PICK text \in frame[t].shown : TRUE
    OBVIOUS
  <2>1. frame[t].shown = {text}
    <3>1. \A other \in frame[t].shown : other = text
      BY DEF CallInv, StageInv, Staged
    <3> QED BY <3>1
  <2>2. MayShow(t, text)
    BY <2>1 DEF CallInv, ShownInv, Shown
  <2> QED BY <2>1, <2>2 DEF MayShow
<1> QED BY <1>1, SdkInvAlways, PTL

\* Every call through a native handle is one step of AtomicHandle, or is refused (run_out,
\* run_void, with_service).
THEOREM ImplementsAtomicCorrect == Spec => ImplementsAtomic
<1>1. Init => Atomic!Init
  BY AbstractStages DEF Init, NativeInit, Atomic!Init, NoFrame
<1>2. TypeOK /\ CallInv /\ [Next]_vars => [Atomic!Next]_Atomic!handleVars
  <2> SUFFICES ASSUME TypeOK, CallInv, [Next]_vars
               PROVE  Atomic!Next \/ UNCHANGED <<ran, poisoned, AbstractCalls>>
    BY DEF Atomic!handleVars, AbstractCalls
  <2>0. NativeTypeOK
    BY DEF TypeOK
  <2>1. CASE UNCHANGED <<surface, holder, poisoned, turns, ran, slot, frame>>
    BY <2>1 DEF AbstractCalls
  <2>2. CASE \E t \in Threads : NativeStep(t)
    BY <2>0, <2>2, AbstractNative DEF Atomic!Next
  <2>3. CASE \E t \in Threads :
               \/ \E at, op, out : at \in Addresses \cup {Null} /\ Call(t, at, op, out)
               \/ AskLastError(t)
               \/ At(t, "returned") /\ SetFrame(t, NoFrame) /\ UNCHANGED <<ran, poisoned>>
    BY <2>0, <2>3, AbstractCaller DEF Atomic!Next
  <2> QED BY <2>1, <2>2, <2>3, StepKinds
<1> QED BY <1>1, <1>2, SdkInvAlways, PTL DEF Spec, ImplementsAtomic, Atomic!Spec
-----------------------------------------------------------------------------
(* The objects. *)

USE DEF At, Handle, SetFrame, Goto, Refusal, NoText, Unasked

\* Every live handle is held by an object, no two objects hold the same, and what an
\* object holds is live.
Held ==
    /\ \A a \in live : \E o \in Objects : object[o] = a
    /\ \A o, p \in Objects : Owns(o) /\ object[o] = object[p] => o = p
    /\ \A o \in Objects : Owns(o) => object[o] \in live

\* A call is on the handle of the object it was made on, which holds it still.
Called == \A t \in Threads : frame[t].pc # "idle" =>
    on[t] \in Objects /\ object[on[t]] = frame[t].at

\* Where there is a collector, an object that holds a handle has it in its finalizer, and a
\* finalizer that outlived its object's handle has a dead one.
Finalized ==
    /\ \A o \in Objects : finalizer[o] \in made \cup {Null}
    /\ \A o \in Objects : finalizer[o] \in live => object[o] = finalizer[o]
    /\ Collected => \A o \in Objects : Owns(o) => finalizer[o] = object[o]
    /\ ~ Collected => \A o \in Objects : finalizer[o] = Null

OwnerInv == Held /\ Called /\ Finalized

\* What each stage of a call may have in memory.
BufferInv == \A t \in Threads :
    /\ <<t, "text">> \in buffers => frame[t].pc = "returned" /\ frame[t].outcome # "ok"
    /\ <<t, "out">> \in buffers => /\ frame[t].pc \in {"reporting", "unlocking", "returned"}
                                   /\ frame[t].outcome = "ok"

\* Nothing is owned or allocated at first.
LEMMA OwnerInit == Init => OwnerInv /\ BufferInv
<1> SUFFICES ASSUME Init PROVE OwnerInv /\ BufferInv
  OBVIOUS
<1>1. Held
  BY UnbornAssumption DEF Init, NativeInit, Held, Owns
<1>2. Called /\ Finalized /\ BufferInv
  BY UnbornAssumption DEF Init, NativeInit, NoFrame, Called, Finalized, Owns, BufferInv
<1> QED BY <1>1, <1>2 DEF OwnerInv

\* A new handle goes to an object that had none.
LEMMA ConstructOwners ==
    ASSUME TypeOK, OwnerInv, NEW o \in Objects, NEW a \in Addresses, Construct(o, a)
    PROVE  OwnerInv'
<1>1. /\ a \notin made
      /\ object[o] = Unborn
      /\ object' = [object EXCEPT ![o] = a]
      /\ live' = live \cup {a} /\ made' = made \cup {a}
      /\ finalizer' = [finalizer EXCEPT ![o] = IF Collected THEN a ELSE Null]
      /\ UNCHANGED <<lang, frame, on>>
      /\ live \subseteq made
      /\ made \subseteq Addresses
      /\ Unborn \notin Addresses /\ Unborn # Null /\ Null \notin Addresses
  BY NullAssumption, UnbornAssumption DEF Construct, New, Become, TypeOK, NativeTypeOK
<1>2. object'[o] = a /\ \A p \in Objects : p # o => object'[p] = object[p]
  BY <1>1 DEF TypeOK
<1>3. /\ finalizer'[o] = IF Collected THEN a ELSE Null
      /\ \A p \in Objects : p # o => finalizer'[p] = finalizer[p]
  BY <1>1 DEF TypeOK
<1>4. Held'
  BY <1>1, <1>2 DEF OwnerInv, Held, Owns
<1>5. Called'
  <2> SUFFICES ASSUME NEW t \in Threads, frame[t].pc # "idle"
               PROVE  on[t] \in Objects /\ object'[on[t]] = frame[t].at
    BY <1>1 DEF Called
  <2>1. on[t] \in Objects /\ object[on[t]] = frame[t].at
    BY DEF OwnerInv, Called
  <2>2. frame[t].at # Unborn
    BY <1>1, FrameOf DEF TypeOK, Frames
  <2> QED BY <1>1, <1>2, <2>1, <2>2
<1>6. Finalized'
  BY <1>1, <1>2, <1>3 DEF OwnerInv, Finalized, Owns, Collected
<1> QED BY <1>4, <1>5, <1>6 DEF OwnerInv

\* An object lets its handle go, and the handle is freed; or another object takes it.
LEMMA CloseOwners ==
    ASSUME TypeOK, OwnerInv, NEW o \in Objects,
           Destroy(o) \/ GoClose(o) \/ DartClose(o) \/ FacadeClose(o) \/ Collect(o)
    PROVE  OwnerInv'
<1>0. /\ Unborn \notin Addresses /\ Unborn # Null /\ Null \notin Addresses
      /\ live \subseteq Addresses
      /\ Null \notin live
  BY NullAssumption, UnbornAssumption DEF TypeOK, NativeTypeOK
<1>1. /\ \A t \in Threads : on[t] # o
      /\ object'[o] \in {Null, Unborn}
      /\ \A p \in Objects : p # o => object'[p] = object[p] /\ finalizer'[p] = finalizer[p]
      /\ UNCHANGED <<lang, frame, on, made>>
      /\ live' = live \ {object[o]}
      /\ finalizer'[o] \in {finalizer[o], Null}
  <2>1. CASE Destroy(o)
    BY <1>0, <2>1 DEF Destroy, FreeOwned, Free, Owns, Become, Quiet, TypeOK, NativeTypeOK, nativeVars, callVars
  <2>2. CASE GoClose(o) \/ DartClose(o) \/ FacadeClose(o)
    BY <1>0, <2>2 DEF GoClose, DartClose, FacadeClose, Free, Owns, Become, Quiet, TypeOK
  <2>3. CASE Collect(o)
    <3>1. live' = live \ {object[o]} /\ UNCHANGED <<lang, frame, on, made>>
      <4>1. CASE finalizer[o] \in live /\ Free(finalizer[o])
        BY <2>3, <4>1 DEF Collect, Free, OwnerInv, Finalized
      <4>2. CASE finalizer[o] = Null /\ UNCHANGED nativeVars
        <5>1. ~ Owns(o)
          BY <1>0, <2>3, <4>2 DEF Collect, OwnerInv, Finalized, Owns
        <5> QED BY <1>0, <2>3, <4>2, <5>1 DEF Collect, Owns, nativeVars, callVars
      <4> QED BY <2>3, <4>1, <4>2 DEF Collect
    <3>2. /\ object' = [object EXCEPT ![o] = Unborn]
          /\ finalizer' = [finalizer EXCEPT ![o] = Null]
          /\ \A t \in Threads : on[t] # o
      BY <2>3 DEF Collect, Become, Quiet
    <3> QED BY <3>1, <3>2 DEF TypeOK
  <2> QED BY <2>1, <2>2, <2>3
<1>2. Held'
  BY <1>0, <1>1 DEF OwnerInv, Held, Owns
<1>3. Called'
  BY <1>1 DEF OwnerInv, Called
<1>4. Finalized'
  BY <1>0, <1>1 DEF OwnerInv, Finalized, Owns, Collected
<1> QED BY <1>2, <1>3, <1>4 DEF OwnerInv

\* A move hands the handle from one object to another; what the other held is freed.
LEMMA MoveOwners ==
    ASSUME TypeOK, OwnerInv, NEW o \in Objects, NEW p \in Objects, MoveConstruct(o, p) \/ MoveAssign(o, p)
    PROVE  OwnerInv'
<1>0. /\ Unborn \notin Addresses /\ Unborn # Null /\ Null \notin Addresses
      /\ live \subseteq Addresses
      /\ Null \notin live
  BY NullAssumption, UnbornAssumption DEF TypeOK, NativeTypeOK
<1>1. /\ \A t \in Threads : on[t] # p
      /\ o # p
      /\ object[p] # Unborn
      /\ UNCHANGED <<lang, frame, on, made, finalizer>>
      /\ ~ Collected
      /\ live' = live \ {object[o]}
      /\ object' = [object EXCEPT ![o] = object[p], ![p] = Null]
      /\ object[o] = Unborn \/ \A t \in Threads : on[t] # o
  <2>1. CASE MoveConstruct(o, p)
    BY <1>0, <2>1 DEF MoveConstruct, Quiet, Collected, nativeVars, callVars
  <2>2. CASE MoveAssign(o, p)
    BY <1>0, <2>2 DEF MoveAssign, Quiet, Collected, FreeOwned, Free, Owns, TypeOK, nativeVars, callVars
  <2> QED BY <2>1, <2>2
<1>2. /\ object'[o] = object[p]
      /\ object'[p] = Null
      /\ \A q \in Objects : q # o /\ q # p => object'[q] = object[q]
  BY <1>1 DEF TypeOK
<1>3. Held'
  <2>1. ASSUME NEW a \in live' PROVE \E q \in Objects : object'[q] = a
    <3>1. PICK q \in Objects : object[q] = a
      BY <1>1, <2>1 DEF OwnerInv, Held
    <3>2. q # o
      BY <1>1, <2>1, <3>1
    <3> QED BY <1>2, <3>1, <3>2
  <2>2. ASSUME NEW q \in Objects, object'[q] \in Addresses
        PROVE  /\ object'[q] \in live'
               /\ \A r \in Objects : object'[q] = object'[r] => q = r
    <3>1. q # p
      BY <1>0, <1>2, <2>2
    <3> DEFINE from(r) == IF r = o THEN p ELSE r
    <3>2. \A r \in Objects : r # p => from(r) \in Objects /\ object'[r] = object[from(r)] /\ from(r) # o
      BY <1>1, <1>2
    <3>3. \A r \in Objects : object[from(q)] = object[r] => from(q) = r
      BY <2>2, <3>1, <3>2 DEF OwnerInv, Held, Owns
    <3>4. object'[q] \in live
      BY <2>2, <3>1, <3>2 DEF OwnerInv, Held, Owns
    <3>5. object'[q] # object[o]
      BY <3>1, <3>2, <3>3
    <3>6. ASSUME NEW r \in Objects, object'[q] = object'[r] PROVE q = r
      <4>1. r # p
        BY <1>0, <1>2, <2>2, <3>6
      <4>2. from(q) = from(r)
        BY <3>1, <3>2, <3>3, <3>6, <4>1
      <4> QED BY <3>1, <4>1, <4>2
    <3>7. object'[q] \in live'
      BY <1>1, <3>4, <3>5
    <3> QED BY <3>6, <3>7
  <2> QED BY <2>1, <2>2 DEF Held, Owns
<1>4. Called'
  <2> SUFFICES ASSUME NEW t \in Threads, frame[t].pc # "idle"
               PROVE  on[t] \in Objects /\ object'[on[t]] = frame[t].at
    BY <1>1 DEF Called
  <2>1. on[t] \in Objects /\ object[on[t]] = frame[t].at
    BY DEF OwnerInv, Called
  <2>2. frame[t].at # Unborn
    BY <1>0, FrameOf DEF TypeOK, Frames
  <2> QED BY <1>1, <1>2, <2>1, <2>2
<1>5. Finalized'
  BY <1>0, <1>1 DEF OwnerInv, Finalized, Collected
<1> QED BY <1>3, <1>4, <1>5 DEF OwnerInv

\* Steps that make and free nothing.
LEMMA CallOwners ==
    ASSUME TypeOK, OwnerInv, UNCHANGED <<lang, live, made, object, finalizer>>,
           \A t \in Threads : \/ frame'[t].pc = "idle"
                              \/ frame'[t].at = frame[t].at /\ frame[t].pc # "idle" /\ on'[t] = on[t]
                              \/ on'[t] \in Objects /\ frame'[t].at = object[on'[t]]
    PROVE  OwnerInv'
<1>1. Held'
  BY DEF OwnerInv, Held, Owns
<1>2. Called'
  BY DEF OwnerInv, Called
<1>3. Finalized'
  BY DEF OwnerInv, Finalized, Owns, Collected
<1> QED BY <1>1, <1>2, <1>3 DEF OwnerInv

\* What a thread's own step inside its call leaves of it.
LEMMA NativeFrames ==
    ASSUME TypeOK, NEW t \in Threads, NativeStep(t) \/ AskLastError(t)
    PROVE  /\ \A u \in Threads : u # t => frame'[u] = frame[u]
           /\ frame'[t].at = frame[t].at /\ frame[t].pc # "idle"
           /\ UNCHANGED <<live, made>>
<1>0. NativeTypeOK /\ frame[t] \in Frames
  BY FrameOf DEF TypeOK
<1>1. frame[t].pc # "idle" /\ UNCHANGED <<live, made>>
  BY DEF NativeStep, RefuseNull, RejectEarly, RefusePoisoned, CanLock, Lock, RejectInput, Start,
         Finish, Panic, Report, Unlock, AskLastError
<1>2. \E f : SetFrame(t, f)
  BY DEF NativeStep, RefuseNull, RejectEarly, RefusePoisoned, CanLock, Lock, RejectInput, Start,
         Finish, Panic, Report, Unlock, AskLastError
<1>3. \A u \in Threads : u # t => frame'[u] = frame[u]
  BY <1>0, <1>2, FrameSet
<1>4. frame'[t].at = frame[t].at
  <2>1. CASE RefuseNull(t) \/ RejectEarly(t) \/ RefusePoisoned(t) \/ RejectInput(t)
    <3>1. \E pc \in {"reporting", "returned"} :
              frame'[t] = [frame[t] EXCEPT !.pc = pc, !.outcome = "refused"]
      BY <1>0, <2>1, FrameSet DEF RefuseNull, RejectEarly, RefusePoisoned, RejectInput
    <3> QED BY <1>0, <3>1 DEF Frames
  <2>2. CASE Lock(t)
    <3>1. frame'[t] = [frame[t] EXCEPT !.pc = "locked", !.turn = turns[Handle(t)] + 1]
      BY <1>0, <2>2, FrameSet DEF Lock
    <3> QED BY <1>0, <3>1 DEF Frames
  <2>3. CASE Start(t)
    <3>1. frame'[t] = [frame[t] EXCEPT !.pc = "running", !.before = ran[Handle(t)]]
      BY <1>0, <2>3, FrameSet DEF Start
    <3> QED BY <1>0, <3>1 DEF Frames
  <2>4. CASE Finish(t)
    <3>1. PICK outcome \in {"ok", "failed"} :
              SetFrame(t, [frame[t] EXCEPT !.outcome = outcome,
                              !.pc = IF surface = "abi" THEN "reporting" ELSE "unlocking"])
      BY <2>4 DEF Finish
    <3>2. frame'[t] = [frame[t] EXCEPT !.outcome = outcome,
                              !.pc = IF surface = "abi" THEN "reporting" ELSE "unlocking"]
      BY <1>0, <3>1, FrameSet
    <3> QED BY <1>0, <3>2 DEF Frames
  <2>5. CASE Panic(t)
    <3>1. frame'[t] = [frame[t] EXCEPT !.pc = "returned", !.outcome = "failed"]
      BY <1>0, <2>5, FrameSet DEF Panic
    <3> QED BY <1>0, <3>1 DEF Frames
  <2>6. CASE Report(t) \/ Unlock(t)
    <3>1. \E pc \in {"unlocking", "returned"} : frame'[t] = [frame[t] EXCEPT !.pc = pc]
      BY <1>0, <2>6, FrameSet DEF Report, Unlock
    <3> QED BY <1>0, <3>1 DEF Frames
  <2>7. CASE AskLastError(t)
    <3> DEFINE text == IF surface = "bridge" THEN frame[t].turn
                       ELSE IF frame[t].at = Null THEN NoText ELSE slot[frame[t].at]
    <3>1. frame'[t] = [frame[t] EXCEPT !.shown = {text}]
      BY <1>0, <2>7, FrameSet DEF AskLastError
    <3> HIDE DEF text
    <3> QED BY <1>0, <3>1 DEF Frames
  <2> QED BY <2>1, <2>2, <2>3, <2>4, <2>5, <2>6, <2>7 DEF NativeStep
<1> QED BY <1>1, <1>3, <1>4

\* A call entered, and what follows it.
LEMMA StepOwners ==
    ASSUME TypeOK, OwnerInv, [Next]_vars
    PROVE  OwnerInv'
<1>0. NativeTypeOK
  BY DEF TypeOK
<1>c. ASSUME NEW t \in Threads, NEW o \in Objects, NEW op, NEW out, CallOn(t, o, op, out)
      PROVE  OwnerInv'
  <2>1. frame' = [frame EXCEPT ![t] = [NoFrame EXCEPT !.pc = "called", !.at = object[o], !.op = op, !.out = out]]
    BY <1>c DEF CallOn, Call
  <2>2. /\ frame'[t].at = object[o]
        /\ \A u \in Threads : u # t => frame'[u] = frame[u]
    <3>1. /\ frame'[t] = [NoFrame EXCEPT !.pc = "called", !.at = object[o], !.op = op, !.out = out]
          /\ \A u \in Threads : u # t => frame'[u] = frame[u]
      BY <1>0, <2>1, FrameSet
    <3> QED BY <3>1 DEF NoFrame
  <2>3. on' = [on EXCEPT ![t] = o] /\ UNCHANGED <<lang, live, made, object, finalizer>>
    BY <1>c DEF CallOn, Call
  <2>4. on'[t] = o /\ \A u \in Threads : u # t => on'[u] = on[u]
    BY <2>3 DEF TypeOK
  <2>5. ASSUME NEW u \in Threads
        PROVE  \/ frame'[u].pc = "idle"
               \/ frame'[u].at = frame[u].at /\ frame[u].pc # "idle" /\ on'[u] = on[u]
               \/ on'[u] \in Objects /\ frame'[u].at = object[on'[u]]
    BY <2>2, <2>4
  <2> QED BY <2>3, <2>5, CallOwners
<1>1. CASE UNCHANGED vars \/ \E o \in Objects, op \in Calls : Schedule(o, op)
  <2>1. UNCHANGED <<lang, live, made, object, finalizer, frame, on>>
    BY <1>1 DEF vars, nativeVars, callVars, clientVars, Schedule
  <2>2. \A u \in Threads : \/ frame'[u].pc = "idle"
                           \/ frame'[u].at = frame[u].at /\ frame[u].pc # "idle" /\ on'[u] = on[u]
    BY <2>1
  <2> QED BY <2>1, <2>2, CallOwners
<1>2. CASE \E o, p \in Objects :
               \/ \E a \in Addresses : Construct(o, a)
               \/ MoveConstruct(o, p) \/ MoveAssign(o, p) \/ Destroy(o)
               \/ GoClose(o) \/ DartClose(o) \/ FacadeClose(o) \/ Collect(o)
  BY <1>2, ConstructOwners, MoveOwners, CloseOwners
<1>3. CASE \E t \in Threads, o \in Objects, op \in Calls, out \in BOOLEAN :
               CCall(t, o, op, out) \/ CppCall(t, o, op) \/ GoCall(t, o, op) \/ DartCall(o, op)
  BY <1>3, <1>c, MainAssumption DEF CCall, CppCall, GoCall, DartCall
<1>4. CASE RunMicrotask
  <2> DEFINE o == Head(queue)[1]
             op == Head(queue)[2]
  <2>1. queue \in Seq(Objects \X Calls) /\ queue # <<>>
    BY <1>4 DEF RunMicrotask, TypeOK
  <2>2. Head(queue) \in Objects \X Calls
    BY <2>1
  <2>3. o \in Objects
    BY <2>2
  <2>4. \/ CallOn(Main, o, op, TRUE)
        \/ UNCHANGED <<lang, live, made, object, finalizer, frame, on>>
    BY <1>4 DEF RunMicrotask, callVars
  <2> HIDE DEF o, op
  <2>5. CASE UNCHANGED <<lang, live, made, object, finalizer, frame, on>>
    <3>1. \A u \in Threads : \/ frame'[u].pc = "idle"
                             \/ frame'[u].at = frame[u].at /\ frame[u].pc # "idle" /\ on'[u] = on[u]
      BY <2>5
    <3> QED BY <2>5, <3>1, CallOwners
  <2> QED BY <1>c, <2>3, <2>4, <2>5, MainAssumption
<1>5. ASSUME NEW t \in Threads, Proceed(t) PROVE OwnerInv'
  <2>1. CASE (NativeStep(t) /\ UNCHANGED clientVars) \/ Ask(t)
    <3>1. (NativeStep(t) \/ AskLastError(t)) /\ UNCHANGED clientVars
      BY <2>1 DEF Ask
    <3>2. /\ \A u \in Threads : u # t => frame'[u] = frame[u]
          /\ frame'[t].at = frame[t].at /\ frame[t].pc # "idle"
          /\ UNCHANGED <<lang, live, made, object, finalizer, on>>
      BY <3>1, NativeFrames DEF clientVars
    <3>3. ASSUME NEW u \in Threads
          PROVE  \/ frame'[u].pc = "idle"
                 \/ frame'[u].at = frame[u].at /\ frame[u].pc # "idle" /\ on'[u] = on[u]
      BY <3>2
    <3> QED BY <3>2, <3>3, CallOwners
  <2>2. CASE TakeOutput(t) \/ Throw(t)
    <3>1. /\ SetFrame(t, NoFrame)
          /\ on' = [on EXCEPT ![t] = Null]
          /\ UNCHANGED <<lang, live, made, object, finalizer>>
      BY <2>2 DEF TakeOutput, Throw, Leave
    <3>2. frame'[t].pc = "idle" /\ \A u \in Threads : u # t => frame'[u] = frame[u]
      <4>1. frame'[t] = NoFrame /\ \A u \in Threads : u # t => frame'[u] = frame[u]
        BY <1>0, <3>1, FrameSet
      <4> QED BY <4>1 DEF NoFrame
    <3>3. \A u \in Threads : u # t => on'[u] = on[u]
      BY <3>1 DEF TypeOK
    <3>4. ASSUME NEW u \in Threads
          PROVE  \/ frame'[u].pc = "idle"
                 \/ frame'[u].at = frame[u].at /\ frame[u].pc # "idle" /\ on'[u] = on[u]
      BY <3>2, <3>3
    <3> QED BY <3>1, <3>4, CallOwners
  <2> QED BY <1>5, <2>1, <2>2 DEF Proceed
<1> QED BY <1>1, <1>2, <1>3, <1>4, <1>5, MainAssumption DEF Next

\* A buffer is written by the step that gets its text or output, and only for the call that
\* made it.
LEMMA StepBuffers ==
    ASSUME TypeOK, CallInv, BufferInv, [Next]_vars
    PROVE  BufferInv'
<1>0. NativeTypeOK
  BY DEF TypeOK
<1>1. CASE UNCHANGED <<frame, buffers>>
  BY <1>1 DEF BufferInv
<1>2. ASSUME NEW t \in Threads, NEW at, NEW op, NEW out, Call(t, at, op, out)
      PROVE  BufferInv'
  <2>1. /\ \A u \in Threads : u # t => frame'[u] = frame[u]
        /\ frame[t].pc = "idle"
        /\ buffers' = buffers
    BY <1>0, <1>2, FrameSet DEF Call
  <2>2. <<t, "text">> \notin buffers /\ <<t, "out">> \notin buffers
    BY <2>1 DEF BufferInv
  <2>3. ASSUME NEW u \in Threads
        PROVE  /\ <<u, "text">> \in buffers' => frame'[u].pc = "returned" /\ frame'[u].outcome # "ok"
               /\ <<u, "out">> \in buffers' => /\ frame'[u].pc \in {"reporting", "unlocking", "returned"}
                                               /\ frame'[u].outcome = "ok"
    <3>1. CASE u = t
      BY <2>1, <2>2, <3>1
    <3>2. CASE u # t
      BY <2>1, <3>2 DEF BufferInv
    <3> QED BY <3>1, <3>2
  <2> QED BY <2>3 DEF BufferInv
<1>3. ASSUME NEW t \in Threads, NativeStep(t) \/ AskLastError(t) \/ TakeOutput(t) \/ Throw(t)
      PROVE  BufferInv'
  <2>0. frame[t] \in Frames
    BY <1>0, FrameOf
  <2>s. Staged(t)
    BY DEF CallInv, StageInv
  <2>1. /\ \A u \in Threads : u # t => frame'[u] = frame[u]
        /\ \A u \in Threads, what \in {"out", "text"} : u # t /\ <<u, what>> \in buffers' => <<u, what>> \in buffers
    <3>1. CASE NativeStep(t) \/ AskLastError(t)
      <4>1. buffers' \subseteq buffers \cup {<<t, "out">>, <<t, "text">>}
        BY <3>1 DEF NativeStep, RefuseNull, RejectEarly, RefusePoisoned, CanLock, Lock, RejectInput,
               Start, Finish, Panic, Report, Unlock, AskLastError
      <4> QED BY <3>1, <4>1, NativeFrames
    <3>2. CASE TakeOutput(t) \/ Throw(t)
      <4>1. SetFrame(t, NoFrame) /\ buffers' \subseteq buffers
        BY <3>2 DEF TakeOutput, Throw, Leave
      <4> QED BY <1>0, <4>1, FrameSet
    <3> QED BY <1>3, <3>1, <3>2
  <2>2. /\ <<t, "text">> \in buffers' => frame'[t].pc = "returned" /\ frame'[t].outcome # "ok"
        /\ <<t, "out">> \in buffers' => /\ frame'[t].pc \in {"reporting", "unlocking", "returned"}
                                        /\ frame'[t].outcome = "ok"
    <3>b. /\ <<t, "text">> \in buffers => frame[t].pc = "returned" /\ frame[t].outcome # "ok"
          /\ <<t, "out">> \in buffers => /\ frame[t].pc \in {"reporting", "unlocking", "returned"}
                                         /\ frame[t].outcome = "ok"
      BY DEF BufferInv
    <3>1. CASE RefuseNull(t) \/ RejectEarly(t) \/ RefusePoisoned(t) \/ RejectInput(t) \/ Lock(t) \/ Start(t)
               \/ Panic(t)
      <4>1. frame[t].pc \in {"called", "locked", "running"} /\ buffers' = buffers
        BY <3>1 DEF RefuseNull, RejectEarly, RefusePoisoned, CanLock, Lock, RejectInput, Start, Panic
      <4> QED BY <3>b, <4>1
    <3>2. CASE Finish(t)
      <4>1. PICK outcome \in {"ok", "failed"} :
              /\ SetFrame(t, [frame[t] EXCEPT !.outcome = outcome,
                              !.pc = IF surface = "abi" THEN "reporting" ELSE "unlocking"])
              /\ buffers' = IF surface = "abi" /\ outcome = "ok" /\ HasOutput(frame[t].op)
                            THEN buffers \cup {<<t, "out">>} ELSE buffers
        BY <3>2 DEF Finish
      <4>2. frame'[t] = [frame[t] EXCEPT !.outcome = outcome,
                              !.pc = IF surface = "abi" THEN "reporting" ELSE "unlocking"]
        BY <1>0, <4>1, FrameSet
      <4>3. /\ frame'[t].outcome = outcome
            /\ frame'[t].pc \in {"reporting", "unlocking"}
        BY <2>0, <4>2 DEF Frames
      <4>4. frame[t].pc = "running"
        BY <3>2 DEF Finish
      <4> QED BY <3>b, <4>1, <4>3, <4>4
    <3>3. CASE Report(t) \/ Unlock(t)
      <4>1. PICK pc \in {"unlocking", "returned"} :
                frame'[t] = [frame[t] EXCEPT !.pc = pc]
        BY <1>0, <3>3, FrameSet DEF Report, Unlock
      <4>2. frame'[t].pc = pc /\ frame'[t].outcome = frame[t].outcome
        BY <2>0, <4>1 DEF Frames
      <4>3. frame[t].pc \in {"reporting", "unlocking"} /\ buffers' = buffers
        BY <3>3 DEF Report, Unlock
      <4> QED BY <3>b, <4>2, <4>3
    <3>4. CASE AskLastError(t)
      <4> DEFINE text == IF surface = "bridge" THEN frame[t].turn
                         ELSE IF frame[t].at = Null THEN NoText ELSE slot[frame[t].at]
      <4>1. frame'[t] = [frame[t] EXCEPT !.shown = {text}]
        BY <1>0, <3>4, FrameSet DEF AskLastError
      <4> HIDE DEF text
      <4>2. frame'[t].pc = frame[t].pc /\ frame'[t].outcome = frame[t].outcome
        BY <2>0, <4>1 DEF Frames
      <4>3. /\ frame[t].pc = "returned" /\ frame[t].outcome # "ok"
            /\ buffers' \subseteq buffers \cup {<<t, "text">>}
        BY <3>4 DEF AskLastError, Failed
      <4> QED BY <3>b, <4>2, <4>3
    <3>5. CASE TakeOutput(t) \/ Throw(t)
      <4>1. <<t, "text">> \notin buffers' /\ <<t, "out">> \notin buffers'
        <5>1. CASE TakeOutput(t)
          BY <3>b, <5>1 DEF TakeOutput, Leave, Failed
        <5>2. CASE Throw(t)
          BY <3>b, <5>2 DEF Throw, Leave, Failed
        <5> QED BY <3>5, <5>1, <5>2
      <4> QED BY <4>1
    <3> QED BY <1>3, <3>1, <3>2, <3>3, <3>4, <3>5 DEF NativeStep
  <2>3. ASSUME NEW u \in Threads
        PROVE  /\ <<u, "text">> \in buffers' => frame'[u].pc = "returned" /\ frame'[u].outcome # "ok"
               /\ <<u, "out">> \in buffers' => /\ frame'[u].pc \in {"reporting", "unlocking", "returned"}
                                               /\ frame'[u].outcome = "ok"
    <3>1. CASE u = t
      BY <2>2, <3>1
    <3>2. CASE u # t
      BY <2>1, <3>2 DEF BufferInv
    <3> QED BY <3>1, <3>2
  <2> QED BY <2>3 DEF BufferInv
<1>4. CASE UNCHANGED vars
  BY <1>1, <1>4 DEF vars, nativeVars, callVars
<1>5. CASE Next
  <2>1. CASE \E o, p \in Objects :
               \/ \E a \in Addresses : Construct(o, a)
               \/ MoveConstruct(o, p) \/ MoveAssign(o, p) \/ Destroy(o)
               \/ GoClose(o) \/ DartClose(o) \/ FacadeClose(o) \/ Collect(o)
    BY <1>1, <2>1 DEF Construct, New, MoveConstruct, MoveAssign, Destroy, GoClose, DartClose,
                      FacadeClose, Collect, FreeOwned, Free, nativeVars, callVars
  <2>2. CASE \E t \in Threads, o \in Objects, op \in Calls, out \in BOOLEAN :
               CCall(t, o, op, out) \/ CppCall(t, o, op) \/ GoCall(t, o, op) \/ DartCall(o, op)
    BY <1>2, <2>2, MainAssumption DEF CCall, CppCall, GoCall, DartCall, CallOn
  <2>3. CASE RunMicrotask \/ \E o \in Objects, op \in Calls : Schedule(o, op)
    BY <1>1, <1>2, <2>3, MainAssumption DEF RunMicrotask, Schedule, CallOn, callVars
  <2>4. CASE \E t \in Threads : Proceed(t)
    <3>1. CASE \E t \in Threads : NativeStep(t) \/ AskLastError(t) \/ TakeOutput(t) \/ Throw(t)
      BY <1>3, <3>1
    <3> QED BY <2>4, <3>1 DEF Proceed, Ask
  <2> QED BY <1>5, <2>1, <2>2, <2>3, <2>4, MainAssumption DEF Next
<1> QED BY <1>4, <1>5

\* The types and the invariants of owners and buffers, in every state.
LEMMA ObjectsAlways == Spec => [](TypeOK /\ OwnerInv /\ BufferInv)
<1>1. Init => OwnerInv /\ BufferInv
  BY OwnerInit
<1>2. TypeOK /\ CallInv /\ OwnerInv /\ BufferInv /\ [Next]_vars => OwnerInv' /\ BufferInv'
  BY StepOwners, StepBuffers
<1> QED BY <1>1, <1>2, SdkInvAlways, PTL DEF Spec

\* Every handle has one owner as long as it lives.
THEOREM HandleOwnedOnceCorrect == Spec => []HandleOwnedOnce
<1>1. TypeOK /\ OwnerInv => HandleOwnedOnce
  <2> SUFFICES ASSUME TypeOK, OwnerInv PROVE HandleOwnedOnce
    OBVIOUS
  <2>1. ASSUME NEW a \in live PROVE Cardinality({o \in Objects : object[o] = a}) = 1
    <3>1. PICK o \in Objects : object[o] = a
      BY DEF OwnerInv, Held
    <3>2. a \in Addresses
      BY DEF TypeOK, NativeTypeOK
    <3>3. {p \in Objects : object[p] = a} = {o}
      BY <3>1, <3>2 DEF OwnerInv, Held, Owns
    <3> QED BY <3>3, FS_Singleton
  <2>2. \A o \in Objects : Owns(o) => object[o] \in live
    BY DEF OwnerInv, Held
  <2>3. ASSUME NEW t \in Threads, frame[t].pc # "idle" PROVE frame[t].at \in live \cup {Null}
    <3>1. on[t] \in Objects /\ object[on[t]] = frame[t].at
      BY <2>3 DEF OwnerInv, Called
    <3>2. frame[t].at \in Addresses \cup {Null}
      BY FrameOf DEF TypeOK, Frames
    <3> QED BY <2>2, <3>1, <3>2 DEF Owns
  <2> QED BY <2>1, <2>2, <2>3 DEF HandleOwnedOnce
<1> QED BY <1>1, ObjectsAlways, PTL

\* What the library allocates for a call is freed before the wrapper returns or throws.
THEOREM BuffersOwnedCorrect == Spec => []BuffersOwned
<1>1. BufferInv => BuffersOwned
  BY DEF BufferInv, BuffersOwned
<1> QED BY <1>1, ObjectsAlways, PTL
=============================================================================
