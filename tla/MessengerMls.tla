----------------------------- MODULE MessengerMls -----------------------------
(***************************************************************************)
(* The service of src/src/service.rs, one instance per handle, with the    *)
(* transport and the disk of the applications around it.                   *)
(*                                                                         *)
(* A call holds the handle's mutex from start to end (ffi.rs, frb_api.rs), *)
(* so one action is one call.  A call that returns an error and changes    *)
(* nothing is a stutter and has no action; a call that returns an error    *)
(* after changing something has one.                                       *)
(*                                                                         *)
(* The transport is the set of everything calls returned: delivering any   *)
(* member of it, in any order, more than once or never, covers loss,       *)
(* duplication and reordering.  The disk holds the last blob exported.     *)
(***************************************************************************)
EXTENDS RuntimeState

CONSTANTS
    Handles,        \* native handles (devices, processes)
    Accounts,       \* Accounts[h]: the clients that may be created on handle h
    Persisting,     \* handles whose application exports before it transmits
    MaxFresh,       \* bound: commits, groups, messages and key packages made
    MaxGen,         \* bound: messages one member sends in an epoch
    MaxOffset       \* bound: messages one session of a group takes in

ASSUME AccountsAssumption == Accounts \in [Handles -> SUBSET Clients]
ASSUME PersistingAssumption == Persisting \subseteq Handles

VARIABLES
    state,      \* state[h]: RuntimeState of the service
    backend,    \* backend[h]: OpenMlsBackend of the service
    disk,       \* disk[h]: the blob of the last export_client_state, or NoSnap
    net,        \* every message and key package a call returned
    unsaved,    \* unsaved[h]: what a persisting application has yet to transmit
    fresh       \* the next unused number

vars == <<state, backend, disk, net, unsaved, fresh>>

CommitMsgs ==
    [kind: {"commit"}, group: Groups, on: Nat, id: Nat, leaf: Leaves, tree: Trees]
WelcomeMsgs ==
    [kind: {"welcome"}, group: Groups, key: KeyPackages, id: Nat, epoch: Nat,
     leaf: Leaves, tree: Trees]
ApplicationMsgs ==
    [kind: {"application"}, group: Groups, on: Nat, id: Nat, leaf: Leaves, gen: Nat]
KeyPackageMsgs == [kind: {"keypackage"}, key: KeyPackages]
Messages == CommitMsgs \cup WelcomeMsgs \cup ApplicationMsgs \cup KeyPackageMsgs

TypeOK ==
    /\ state \in [Handles -> RuntimeStates]
    /\ backend \in [Handles -> Backends]
    /\ disk \in [Handles -> Snapshots \cup {NoSnap}]
    /\ net \subseteq Messages
    /\ unsaved \in [Handles -> SUBSET Messages]
    /\ fresh \in Nat

Init ==
    /\ state = [h \in Handles |-> NewRuntimeState]
    /\ backend = [h \in Handles |-> ResetBackend]
    /\ disk = [h \in Handles |-> NoSnap]
    /\ net = {}
    /\ unsaved = [h \in Handles |-> {}]
    /\ fresh = 0
-----------------------------------------------------------------------------
(* What the actions share. *)

SetState(h, s) == state' = [state EXCEPT ![h] = s]
SetGroup(h, g, rg) == state' = [state EXCEPT ![h].groups[g] = rg]
SetBackend(h, b) == backend' = [backend EXCEPT ![h] = b]

\* Results go to the application.  One that persists transmits them after its next
\* export, and never if the session is lost before it.
Return(h, messages) ==
    /\ net' = net \cup messages
    /\ unsaved' = [unsaved EXCEPT ![h] = IF h \in Persisting THEN @ \cup messages ELSE @]
ReturnNothing == UNCHANGED <<net, unsaved>>
LoseSession(h) ==
    /\ net' = net \ unsaved[h]
    /\ unsaved' = [unsaved EXCEPT ![h] = {}]

Arrived(kind) == {m \in net : m.kind = kind /\ \A h \in Handles : m \notin unsaved[h]}

Mint(count) == fresh + count <= MaxFresh /\ fresh' = fresh + count

Identity(h) == state[h].identity
Runtime(h, g) == state[h].groups[g]
Mls(h, g) == backend[h].groups[g]
HasIdentity(h) == Identity(h) # NoClient
HasSigner(h) == backend[h].signer # NoClient
-----------------------------------------------------------------------------
(* Identity and key packages. *)

\* Mutants of CreateClient: storage, or the runtime state, survives the re-init.
CreateClientKeepsStorage(h, client) ==
    /\ SetBackend(h, [backend[h] EXCEPT !.signer = client, !.groups = NoGroups])
    /\ SetState(h, [NewRuntimeState EXCEPT !.identity = client])
    /\ ReturnNothing
    /\ UNCHANGED <<disk, fresh>>
CreateClientKeepsState(h, client) ==
    /\ SetBackend(h, ConfiguredBackend(client))
    /\ SetState(h, [state[h] EXCEPT !.identity = client])
    /\ ReturnNothing
    /\ UNCHANGED <<disk, fresh>>

CreateClient(h, client) ==
    /\ SetBackend(h, ConfiguredBackend(client))
    /\ SetState(h, [NewRuntimeState EXCEPT !.identity = client])
    /\ ReturnNothing
    /\ UNCHANGED <<disk, fresh>>

\* The key does not parse: both layers are reset before the error is returned.
CreateClientBadKey(h) ==
    /\ SetBackend(h, ResetBackend)
    /\ SetState(h, NewRuntimeState)
    /\ ReturnNothing
    /\ UNCHANGED <<disk, fresh>>

CreateKeyPackages(h, count) ==
    /\ HasIdentity(h)
    /\ HasSigner(h)
    /\ Mint(count)
    /\ LET made == {[id |-> n, owner |-> backend[h].signer] : n \in fresh .. fresh + count - 1}
           record(key) == [data |-> key, uploaded |-> FALSE, consumed |-> FALSE]
       IN /\ SetBackend(h, WithKeys(backend[h], made))
          /\ SetState(h, [state[h] EXCEPT !.keyPackages = @ \cup {record(key) : key \in made},
                                          !.counter = @ + count])
          /\ Return(h, {[kind |-> "keypackage", key |-> key] : key \in made})
    /\ UNCHANGED disk

\* The known packages are marked even when the call then reports missing ones.
MarkKeyPackagesUploaded(h, bundle) ==
    /\ SetState(h, [state[h] EXCEPT !.keyPackages =
           {[r EXCEPT !.uploaded = @ \/ r.data \in bundle] : r \in state[h].keyPackages}])
    /\ ReturnNothing
    /\ UNCHANGED <<backend, disk, fresh>>
-----------------------------------------------------------------------------
(* Groups and their members. *)

CreateGroup(h, g) ==
    /\ HasIdentity(h)
    /\ ~ Known(state[h], g)
    /\ ~ HasGroup(backend[h], g)
    /\ HasSigner(h)
    /\ CanBuild(backend[h], g)
    /\ Mint(1)
    /\ LET group == NewGroup(backend[h].signer, fresh)
       IN /\ SetBackend(h, Written(backend[h], g, group))
          /\ SetGroup(h, g, ApplySnapshot(NewRuntimeGroup(Identity(h)), group))
    /\ ReturnNothing
    /\ UNCHANGED disk

CommitMsg(g, group, tree) ==
    [kind |-> "commit", group |-> g, on |-> group.tip, id |-> fresh, leaf |-> group.own,
     tree |-> tree]

\* A call that stages commit number `fresh`: the runtime takes the backend's snapshot,
\* still of the epoch before the commit.
StageCommit(h, g, rg, tree, welcomes) ==
    /\ SetBackend(h, WithStaged(backend[h], g, fresh, tree))
    /\ SetGroup(h, g, rg)
    /\ Return(h, {CommitMsg(g, Mls(h, g), tree)} \cup welcomes)
    /\ Mint(1)
    /\ UNCHANGED disk

Invite(h, g, key) ==
    /\ Known(state[h], g)
    /\ key.owner \notin Runtime(h, g).members
    /\ HasSigner(h)
    /\ HasGroup(backend[h], g)
    /\ CanAdd(Mls(h, g), key.owner)
    /\ \E leaf \in Leaves, index \in Indices :
         /\ LeftmostFree(Mls(h, g).tree, leaf)
         /\ NextIndex(Runtime(h, g).memberMap, index)
         /\ LET tree == WithLeaf(Mls(h, g).tree, leaf, key.owner)
                rg == [ApplySnapshot(Runtime(h, g), Mls(h, g)) EXCEPT
                          !.pending = TRUE,
                          !.members = @ \cup {key.owner},
                          !.memberMap = @ \cup {<<index, key.owner>>}]
                welcome == [kind |-> "welcome", group |-> g, key |-> key, id |-> fresh,
                            epoch |-> Mls(h, g).epoch + 1, leaf |-> leaf, tree |-> tree]
            IN StageCommit(h, g, rg, tree, {welcome})

\* The leaf to blank is looked up in the member map, not in the ratchet tree.
Remove(h, g, client) ==
    /\ HasIdentity(h)
    /\ Known(state[h], g)
    /\ HasSigner(h)
    /\ HasGroup(backend[h], g)
    /\ \E entry \in Runtime(h, g).memberMap :
         /\ entry[2] = client
         /\ CanRemove(Mls(h, g), entry[1])
         /\ LET removed == [ApplySnapshot(Runtime(h, g), Mls(h, g)) EXCEPT
                               !.pending = TRUE,
                               !.members = @ \ {client},
                               !.memberMap = {other \in @ : other[2] # client}]
                rg == IF client = Identity(h)
                      THEN [removed EXCEPT !.active = FALSE, !.selfLeaf = NoLeaf]
                      ELSE removed
            IN StageCommit(h, g, rg, WithoutLeaf(Mls(h, g).tree, entry[1]), {})

\* Mutant of SelfUpdate: the commit is not flagged.
SelfUpdateUnflagged(h, g) ==
    /\ Known(state[h], g)
    /\ HasSigner(h)
    /\ HasGroup(backend[h], g)
    /\ Operational(Mls(h, g))
    /\ StageCommit(h, g, ApplySnapshot(Runtime(h, g), Mls(h, g)), Mls(h, g).tree, {})

SelfUpdate(h, g) ==
    /\ Known(state[h], g)
    /\ HasSigner(h)
    /\ HasGroup(backend[h], g)
    /\ Operational(Mls(h, g))
    /\ LET rg == [ApplySnapshot(Runtime(h, g), Mls(h, g)) EXCEPT !.pending = TRUE]
       IN StageCommit(h, g, rg, Mls(h, g).tree, {})

\* self_update asks the backend first: for a group the runtime does not know, the
\* commit is staged and then lost with the error.
SelfUpdateUnknown(h, g) ==
    /\ ~ Known(state[h], g)
    /\ HasSigner(h)
    /\ HasGroup(backend[h], g)
    /\ Operational(Mls(h, g))
    /\ SetBackend(h, WithStaged(backend[h], g, fresh, Mls(h, g).tree))
    /\ Mint(1)
    /\ ReturnNothing
    /\ UNCHANGED <<state, disk>>

\* Mutant of MergePendingCommit: the commit is cleared.
MergePendingCommitClears(h, g) ==
    /\ Known(state[h], g)
    /\ HasGroup(backend[h], g)
    /\ Mls(h, g).active
    /\ SetBackend(h, WithCleared(backend[h], g))
    /\ SetGroup(h, g, [ApplySnapshot(Runtime(h, g), Cleared(Mls(h, g))) EXCEPT !.pending = FALSE])
    /\ ReturnNothing
    /\ UNCHANGED <<disk, fresh>>

MergePendingCommit(h, g) ==
    /\ Known(state[h], g)
    /\ HasGroup(backend[h], g)
    /\ Mls(h, g).active
    /\ SetBackend(h, WithMerged(backend[h], g))
    /\ SetGroup(h, g, [ApplySnapshot(Runtime(h, g), MergedOwn(Mls(h, g))) EXCEPT !.pending = FALSE])
    /\ ReturnNothing
    /\ UNCHANGED <<disk, fresh>>

\* The members that invite() and remove() changed ahead of the merge stay changed.
ClearPendingCommit(h, g) ==
    /\ Known(state[h], g)
    /\ HasGroup(backend[h], g)
    /\ SetBackend(h, WithCleared(backend[h], g))
    /\ SetGroup(h, g, [Runtime(h, g) EXCEPT !.pending = FALSE])
    /\ ReturnNothing
    /\ UNCHANGED <<disk, fresh>>

DropGroup(h, g) ==
    /\ Known(state[h], g)
    /\ HasGroup(backend[h], g)
    /\ SetBackend(h, Dropped(backend[h], g))
    /\ SetGroup(h, g, NoGroup)
    /\ ReturnNothing
    /\ UNCHANGED <<disk, fresh>>
-----------------------------------------------------------------------------
(* Messages. *)

\* Mutant of JoinedRecord: a rejoin starts a new record.
JoinedRecordAnew(h, g) == NewRuntimeGroup(Identity(h))

\* A group already known keeps its runtime record: members, offset, queue and flag.
JoinedRecord(h, g) ==
    IF Known(state[h], g) THEN Runtime(h, g) ELSE NewRuntimeGroup(Identity(h))

\* The private key package is spent; the record takes only the snapshot.
JoinFromWelcome(h, m) ==
    /\ HasIdentity(h)
    /\ m.key \in backend[h].keys
    /\ CanBuild(backend[h], m.group)
    /\ LET group == MemberAt(m.key.owner, m.leaf, m.id, m.epoch, m.tree)
       IN /\ SetBackend(h, Written(WithoutKey(backend[h], m.key), m.group, group))
          /\ SetGroup(h, m.group, ApplySnapshot(JoinedRecord(h, m.group), group))
    /\ ReturnNothing
    /\ UNCHANGED <<disk, fresh>>

\* OpenMLS spends the key package before it finds the id taken in storage.
JoinRefused(h, m) ==
    /\ HasIdentity(h)
    /\ m.key \in backend[h].keys
    /\ ~ CanBuild(backend[h], m.group)
    /\ SetBackend(h, WithoutKey(backend[h], m.key))
    /\ ReturnNothing
    /\ UNCHANGED <<state, disk, fresh>>

EncryptMessage(h, g) ==
    /\ Known(state[h], g)
    /\ HasSigner(h)
    /\ HasGroup(backend[h], g)
    /\ Mls(h, g).active
    /\ Mls(h, g).gen < MaxGen
    /\ Mint(1)
    /\ SetBackend(h, Written(backend[h], g, Sent(Mls(h, g))))
    /\ Return(h, {[kind |-> "application", group |-> g, on |-> Mls(h, g).tip, id |-> fresh,
                   leaf |-> Mls(h, g).own, gen |-> Mls(h, g).gen]})
    /\ UNCHANGED <<state, disk>>

\* The runtime only counts and queues a message the backend accepted; it takes no
\* snapshot.  When it does not know the group, the call fails after the backend moved.
RecordIncoming(h, m) ==
    \/ /\ Known(state[h], m.group)
       /\ Runtime(h, m.group).offset < MaxOffset
       /\ SetGroup(h, m.group, [Runtime(h, m.group) EXCEPT
              !.offset = @ + 1, !.queue = Enqueued(@, m.id)])
    \/ /\ ~ Known(state[h], m.group)
       /\ UNCHANGED state

\* process_message takes messages of the current epoch, from another member.
CanProcess(h, m) ==
    /\ HasGroup(backend[h], m.group)
    /\ Mls(h, m.group).active
    /\ Mls(h, m.group).tip = m.on
    /\ Mls(h, m.group).own # m.leaf

HandleCommit(h, m) ==
    /\ CanProcess(h, m)
    /\ SetBackend(h, Written(backend[h], m.group, MergedIncoming(Mls(h, m.group), m.id, m.tree)))
    /\ RecordIncoming(h, m)
    /\ ReturnNothing
    /\ UNCHANGED <<disk, fresh>>

HandleApplication(h, m) ==
    /\ CanProcess(h, m)
    /\ <<m.leaf, m.gen>> \notin Mls(h, m.group).seen
    /\ \E kept \in BOOLEAN :
         SetBackend(h, WithConsumed(backend[h], m.group, m.leaf, m.gen, kept))
    /\ RecordIncoming(h, m)
    /\ ReturnNothing
    /\ UNCHANGED <<disk, fresh>>
-----------------------------------------------------------------------------
(* Export, restart and restore. *)

ExportClientState(h) ==
    /\ disk' = [disk EXCEPT ![h] = Exported(state[h], backend[h])]
    /\ unsaved' = [unsaved EXCEPT ![h] = {}]
    /\ UNCHANGED <<state, backend, net, fresh>>

\* The process ends and a new handle is made.
NewHandle(h) ==
    /\ SetBackend(h, ResetBackend)
    /\ SetState(h, NewRuntimeState)
    /\ LoseSession(h)
    /\ UNCHANGED <<disk, fresh>>

Saved(h) == disk[h].runtime
SavedGroups(h) == KnownGroups(Saved(h))

\* What restore_client leaves of the backend before it looks at the dump.
Reconfigured(h) ==
    IF Saved(h).identity = NoClient THEN ResetBackend ELSE ConfiguredBackend(Saved(h).identity)

\* Mutant of RestoreClient: the backend is not reset first, so that the groups of the session
\* stay next to those of the blob.
RestoreClientOver(h) ==
    /\ disk[h] # NoSnap
    /\ CanLoad(disk[h].dump, SavedGroups(h))
    /\ LET loaded == Loaded(Saved(h).identity, disk[h].dump, SavedGroups(h))
       IN SetBackend(h, [loaded EXCEPT !.groups =
              [g \in Groups |-> IF g \in SavedGroups(h) THEN @[g] ELSE Mls(h, g)]])
    /\ SetState(h, Saved(h))
    /\ LoseSession(h)
    /\ UNCHANGED <<disk, fresh>>

RestoreClient(h) ==
    /\ disk[h] # NoSnap
    /\ CanLoad(disk[h].dump, SavedGroups(h))
    /\ SetBackend(h, Loaded(Saved(h).identity, disk[h].dump, SavedGroups(h)))
    /\ SetState(h, Saved(h))
    /\ LoseSession(h)
    /\ UNCHANGED <<disk, fresh>>

\* A blob of an earlier version has no dump; without groups it is accepted.
RestoreWithoutDump(h) ==
    /\ disk[h] # NoSnap
    /\ SavedGroups(h) = {}
    /\ SetBackend(h, Reconfigured(h))
    /\ SetState(h, Saved(h))
    /\ LoseSession(h)
    /\ UNCHANGED <<disk, fresh>>

\* The calls that fail below have replaced the backend and not the runtime state.
FailRestore(h, b) ==
    /\ disk[h] # NoSnap
    /\ SetBackend(h, b)
    /\ ReturnNothing
    /\ UNCHANGED <<state, disk, fresh>>

\* InvalidArgument: the private key in the blob does not parse.
RestoreBadKey(h) ==
    disk[h] # NoSnap /\ Saved(h).identity # NoClient /\ FailRestore(h, ResetBackend)

\* Unsupported: groups and no dump.
RestoreGroupsWithoutDump(h) ==
    disk[h] # NoSnap /\ SavedGroups(h) # {} /\ FailRestore(h, Reconfigured(h))

\* InvalidArgument: a truncated dump.
RestoreDamagedDump(h) == disk[h] # NoSnap /\ FailRestore(h, Reconfigured(h))

\* InvalidState: a listed group is not in the dump.
RestoreMissingGroup(h) ==
    /\ disk[h] # NoSnap
    /\ ~ CanLoad(disk[h].dump, SavedGroups(h))
    /\ FailRestore(h, Loaded(Saved(h).identity, disk[h].dump,
                             LoadedPrefix(disk[h].dump, SavedGroups(h))))
-----------------------------------------------------------------------------
PublishedKeys == {m.key : m \in Arrived("keypackage")}

Setup(h) ==
    \/ \E client \in Accounts[h] : CreateClient(h, client)
    \/ CreateClientBadKey(h)
    \/ \E count \in 1 .. 2 : CreateKeyPackages(h, count)
    \/ \E bundle \in SUBSET PublishedKeys : MarkKeyPackagesUploaded(h, bundle)

Lifecycle(h) ==
    \/ \E g \in Groups : \/ CreateGroup(h, g)
                         \/ SelfUpdate(h, g)
                         \/ MergePendingCommit(h, g)
    \/ \E g \in Groups, key \in PublishedKeys : Invite(h, g, key)
    \/ \E g \in Groups, client \in Clients : Remove(h, g, client)
    \/ \E m \in Arrived("welcome") : JoinFromWelcome(h, m) \/ JoinRefused(h, m)
    \/ \E m \in Arrived("commit") : HandleCommit(h, m)

Messaging(h) ==
    \/ \E g \in Groups : EncryptMessage(h, g)
    \/ \E m \in Arrived("application") : HandleApplication(h, m)

\* Documented as recovery and debugging, not as steps of the protocol.
Recovery(h) == \E g \in Groups : ClearPendingCommit(h, g) \/ DropGroup(h, g)

Persistence(h) == ExportClientState(h) \/ NewHandle(h) \/ RestoreClient(h)

\* Calls that return an error after a change, and the blobs of earlier versions.
Failure(h) ==
    \/ RestoreBadKey(h)
    \/ RestoreGroupsWithoutDump(h)
    \/ RestoreDamagedDump(h)
    \/ RestoreMissingGroup(h)
    \/ \E g \in Groups : SelfUpdateUnknown(h, g)

CleanStep(h) ==
    Setup(h) \/ Lifecycle(h) \/ Messaging(h) \/ Recovery(h) \/ Persistence(h)
        \/ RestoreWithoutDump(h)

\* No commit is cleared.
KeepingStep(h) ==
    \/ Setup(h) \/ Lifecycle(h) \/ Messaging(h) \/ Persistence(h) \/ RestoreWithoutDump(h)
    \/ \E g \in Groups : DropGroup(h, g)

KeepingNext == \E h \in Handles : KeepingStep(h)
CleanNext == \E h \in Handles : CleanStep(h)
Next == \E h \in Handles : CleanStep(h) \/ Failure(h)

\* KeepingSpec: no own commit is cleared, and no call of restore_client fails.
\* CleanSpec: no call of restore_client fails.
KeepingSpec == Init /\ [][KeepingNext]_vars
CleanSpec == Init /\ [][CleanNext]_vars
Spec == Init /\ [][Next]_vars
=============================================================================
