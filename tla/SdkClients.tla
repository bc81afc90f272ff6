------------------------------- MODULE SdkClients -------------------------------
(***************************************************************************)
(* The objects that own handles, in each language: pointers of the C ABI   *)
(* itself, the C++, Go and Dart wrappers src/src/bin/sdk_codegen.rs        *)
(* renders over it, and the Dart class of src/flutter/sgtp_chat_core over  *)
(* the bridge.  An application is written in one language.                 *)
(*                                                                         *)
(* Assumed of the application, as the comments of messenger_mls_free and   *)
(* its header ask: an object is not closed, moved or destroyed during a    *)
(* call on it.  Dart objects live in one isolate, hence on one thread,     *)
(* where a scheduled call runs as a microtask, after the code that         *)
(* scheduled it.                                                           *)
(***************************************************************************)
EXTENDS ServiceHandle, Sequences

CONSTANTS
    Objects,    \* client objects
    Languages,  \* the languages considered: of "c", "cpp", "go", "dart", "facade"
    Unborn,     \* no object yet, or no more
    Main        \* the thread of the Dart isolate

ASSUME LanguagesAssumption == Languages \subseteq {"c", "cpp", "go", "dart", "facade"}
ASSUME UnbornAssumption == Unborn \notin Addresses \cup {Null}
ASSUME MainAssumption == Main \in Threads

VARIABLES
    lang,       \* the language of the application
    object,     \* object[o]: the handle it holds, Null when moved from or closed
    finalizer,  \* finalizer[o]: the handle the collector frees with the object
    queue,      \* the microtasks of the isolate: calls scheduled
    on          \* on[t]: the object thread t is calling

clientVars == <<lang, object, finalizer, queue, on>>
vars == <<nativeVars, clientVars>>

TypeOK ==
    /\ NativeTypeOK
    /\ lang \in Languages
    /\ object \in [Objects -> Addresses \cup {Null, Unborn}]
    /\ finalizer \in [Objects -> Addresses \cup {Null}]
    /\ queue \in Seq(Objects \X Calls)
    /\ on \in [Threads -> Objects \cup {Null}]

Init ==
    /\ NativeInit
    /\ lang \in Languages
    /\ surface = IF lang = "facade" THEN "bridge" ELSE "abi"
    /\ object = [o \in Objects |-> Unborn]
    /\ finalizer = [o \in Objects |-> Null]
    /\ queue = <<>>
    /\ on = [t \in Threads |-> Null]
-----------------------------------------------------------------------------
(* Objects. *)

Owns(o) == object[o] \in Addresses
Quiet(o) == \A t \in Threads : on[t] # o
Become(o, p) == object' = [object EXCEPT ![o] = p]
Collected == lang \in {"dart", "facade"}

\* The constructor, New() or create(); Dart attaches the finalizer there.
Construct(o, a) ==
    /\ object[o] = Unborn
    /\ New(a)
    /\ Become(o, a)
    /\ finalizer' = [finalizer EXCEPT ![o] = IF Collected THEN a ELSE Null]
    /\ UNCHANGED <<lang, queue, on>>

\* What the object owned is freed, if it owned anything.
FreeOwned(o) == IF Owns(o) THEN Free(object[o]) ELSE UNCHANGED nativeVars

Destroy(o) ==
    /\ lang \in {"c", "cpp"}
    /\ object[o] # Unborn
    /\ Quiet(o)
    /\ FreeOwned(o)
    /\ Become(o, Unborn)
    /\ UNCHANGED <<lang, finalizer, queue, on>>

MoveConstruct(o, p) ==
    /\ lang = "cpp"
    /\ object[o] = Unborn
    /\ object[p] # Unborn
    /\ Quiet(p)
    /\ object' = [object EXCEPT ![o] = object[p], ![p] = Null]
    /\ UNCHANGED <<nativeVars, lang, finalizer, queue, on>>

\* Mutant of MoveAssign: the other object keeps its pointer.
MoveAssignShared(o, p) ==
    /\ lang = "cpp"
    /\ o # p
    /\ object[o] # Unborn
    /\ object[p] # Unborn
    /\ Quiet(o)
    /\ Quiet(p)
    /\ FreeOwned(o)
    /\ Become(o, object[p])
    /\ UNCHANGED <<lang, finalizer, queue, on>>

\* Assignment to itself returns at once.
MoveAssign(o, p) ==
    /\ lang = "cpp"
    /\ o # p
    /\ object[o] # Unborn
    /\ object[p] # Unborn
    /\ Quiet(o)
    /\ Quiet(p)
    /\ FreeOwned(o)
    /\ object' = [object EXCEPT ![o] = object[p], ![p] = Null]
    /\ UNCHANGED <<lang, finalizer, queue, on>>

GoClose(o) ==
    /\ lang = "go"
    /\ Owns(o)
    /\ Quiet(o)
    /\ Free(object[o])
    /\ Become(o, Null)
    /\ UNCHANGED <<lang, finalizer, queue, on>>

\* close() calls detach(this), but attach() was given no detach key: the finalizer stays.
DartClose(o) ==
    /\ lang = "dart"
    /\ Owns(o)
    /\ Quiet(o)
    /\ Free(object[o])
    /\ Become(o, Null)
    /\ UNCHANGED <<lang, finalizer, queue, on>>

\* dispose() of the bridge's opaque pointer drops the reference its finalizer held.
FacadeClose(o) ==
    /\ lang = "facade"
    /\ Owns(o)
    /\ Quiet(o)
    /\ Free(object[o])
    /\ Become(o, Null)
    /\ finalizer' = [finalizer EXCEPT ![o] = Null]
    /\ UNCHANGED <<lang, queue, on>>

\* The collector takes an object nothing refers to: no scheduled call does.  Freeing a
\* handle that is free already is undefined, and not modelled further.
Collect(o) ==
    /\ Collected
    /\ object[o] # Unborn
    /\ Quiet(o)
    /\ \A i \in DOMAIN queue : queue[i][1] # o
    /\ \/ finalizer[o] \in live /\ Free(finalizer[o])
       \/ finalizer[o] = Null /\ UNCHANGED nativeVars
    /\ Become(o, Unborn)
    /\ finalizer' = [finalizer EXCEPT ![o] = Null]
    /\ UNCHANGED <<lang, queue, on>>
-----------------------------------------------------------------------------
(* Calls. *)

CallOn(t, o, op, out) ==
    /\ Call(t, object[o], op, out)
    /\ on' = [on EXCEPT ![t] = o]
    /\ UNCHANGED <<lang, object, finalizer>>

\* out: does the caller give a place for the output?
CCall(t, o, op, out) ==
    /\ lang = "c"
    /\ object[o] # Unborn
    /\ CallOn(t, o, op, out)
    /\ Count
    /\ UNCHANGED queue

\* A method of an object moved from passes its null pointer on.
CppCall(t, o, op) ==
    /\ lang = "cpp"
    /\ object[o] # Unborn
    /\ CallOn(t, o, op, TRUE)
    /\ Count
    /\ UNCHANGED queue

\* A closed client returns an error without a call.
GoCall(t, o, op) ==
    /\ lang = "go"
    /\ Owns(o)
    /\ CallOn(t, o, op, TRUE)
    /\ Count
    /\ UNCHANGED queue

\* The Sync methods: _ensureOpen throws when the object is closed.
DartCall(o, op) ==
    /\ lang \in {"dart", "facade"}
    /\ Owns(o)
    /\ CallOn(Main, o, op, TRUE)
    /\ Count
    /\ UNCHANGED queue

\* The others schedule the Sync method, open or closed.
Schedule(o, op) ==
    /\ lang \in {"dart", "facade"}
    /\ At(Main, "idle")
    /\ object[o] # Unborn
    /\ queue' = Append(queue, <<o, op>>)
    /\ Count
    /\ UNCHANGED <<callVars, lang, object, finalizer, on>>

\* In the order they were scheduled; on an object closed since, the future fails.
RunMicrotask ==
    /\ queue # <<>>
    /\ At(Main, "idle")
    /\ queue' = Tail(queue)
    /\ LET o == Head(queue)[1]
           op == Head(queue)[2]
       IN IF Owns(o) THEN CallOn(Main, o, op, TRUE)
          ELSE UNCHANGED <<callVars, lang, object, finalizer, on>>
    /\ UNCHANGED entered

Leave(t, freed) ==
    /\ SetFrame(t, NoFrame)
    /\ buffers' = buffers \ freed
    /\ on' = [on EXCEPT ![t] = Null]
    /\ UNCHANGED <<surface, live, made, holder, poisoned, ran, turns, slot, entered>>
    /\ UNCHANGED <<lang, object, finalizer, queue>>

\* takeBuffer, _takeBytes and the others copy the output and free it.
TakeOutput(t) ==
    /\ At(t, "returned")
    /\ ~ Failed(t)
    /\ Leave(t, {<<t, "out">>})

\* throwLastError, statusError, _throwIfError: ask for the text, then free it and throw.
Ask(t) == AskLastError(t) /\ UNCHANGED clientVars

\* Mutant of Throw: the text is not freed.
ThrowAndKeep(t) ==
    /\ At(t, "returned")
    /\ Failed(t)
    /\ frame[t].shown # Unasked
    /\ Leave(t, {})

Throw(t) ==
    /\ At(t, "returned")
    /\ Failed(t)
    /\ frame[t].shown # Unasked
    /\ Leave(t, {<<t, "text">>})

\* The thread goes on inside the library, or in the wrapper after it.
Proceed(t) ==
    \/ NativeStep(t) /\ UNCHANGED clientVars
    \/ Ask(t)
    \/ TakeOutput(t)
    \/ Throw(t)

Next ==
    \/ \E o \in Objects :
         \/ \E a \in Addresses : Construct(o, a)
         \/ \E p \in Objects : MoveConstruct(o, p) \/ MoveAssign(o, p)
         \/ Destroy(o) \/ GoClose(o) \/ DartClose(o) \/ FacadeClose(o) \/ Collect(o)
         \/ \E op \in Calls :
              \/ \E t \in Threads : \/ \E out \in BOOLEAN : CCall(t, o, op, out)
                                    \/ CppCall(t, o, op) \/ GoCall(t, o, op)
              \/ DartCall(o, op)
              \/ Schedule(o, op)
    \/ RunMicrotask
    \/ \E t \in Threads : Proceed(t)

\* A thread inside a call is scheduled, and an isolate runs its microtasks.
Fairness == WF_vars(RunMicrotask) /\ \A t \in Threads : WF_vars(Proceed(t))

Spec == Init /\ [][Next]_vars /\ Fairness
-----------------------------------------------------------------------------
(* Properties. *)

\* Each handle has one owner as long as it is live, so it is freed once and no owner
\* keeps a freed one; no call is inside a freed handle, scheduled calls included.
HandleOwnedOnce ==
    /\ \A a \in live : Cardinality({o \in Objects : object[o] = a}) = 1
    /\ \A o \in Objects : Owns(o) => object[o] \in live
    /\ \A t \in Threads : ~ At(t, "idle") => Handle(t) \in live \cup {Null}

\* What the library wrote out is freed before the wrapper returns or throws.
BuffersOwned == \A t \in Threads, what \in {"out", "text"} :
    <<t, what>> \in buffers => ~ At(t, "idle")

\* Every call returns and every scheduled call runs, whatever calls, closes and panics
\* come in between: no thread waits for a lock nobody will release.
CallsComplete == <>[](queue = <<>> /\ \A t \in Threads : At(t, "idle"))

\* ffi.rs: a handle is not used after it was freed.  The finalizer of an object frees the
\* handle it was attached to, so that handle must not be freed before.
FinalizedOnce == \A o \in Objects : finalizer[o] # Null => finalizer[o] \in live
=============================================================================
