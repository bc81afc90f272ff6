----------------------------- MODULE RuntimeState -----------------------------
(***************************************************************************)
(* src/src/state.rs: the service's own projection of its groups            *)
(* (GroupRuntimeState), the client's runtime state, and its persisted      *)
(* form.  The copies of the ratchet tree and of the exported secret follow *)
(* the epoch field and are not represented.                                *)
(***************************************************************************)
EXTENDS OpenMlsBackend, Sequences

CONSTANTS
    MaxQueue,   \* MAX_INCOMING_QUEUE (1024 in the code)
    MaxIndex,   \* bound: the last index of a member map
    NoLeaf,     \* self_leaf_index = None
    NoSnap      \* nothing exported yet

Indices == 0 .. MaxIndex

ASSUME QueueAssumption == MaxQueue \in Nat
ASSUME IndexAssumption == MaxIndex \in Nat /\ MaxLeaf <= MaxIndex
ASSUME NoLeafAssumption == NoLeaf \notin Indices

\* member_map as a set of <<index, client>> pairs; members without is_self, which
\* marks the entry of the identity; queue: the identities of the queued messages.
RuntimeGroups ==
    [epoch: Nat, active: BOOLEAN, members: SUBSET Clients,
     memberMap: SUBSET (Indices \X Clients), selfLeaf: Indices \cup {NoLeaf},
     pending: BOOLEAN, offset: Nat, queue: Seq(Nat)]

ASSUME NoGroupRuntimeAssumption == NoGroup \notin RuntimeGroups

MaybeRuntimeGroups == RuntimeGroups \cup {NoGroup}

\* KeyPackageRecord; revoked and expired are never set by the code.
KeyPackageRecords == [data: KeyPackages, uploaded: BOOLEAN, consumed: BOOLEAN]

RuntimeStates ==
    [identity: Clients \cup {NoClient},
     groups: [Groups -> MaybeRuntimeGroups],
     keyPackages: SUBSET KeyPackageRecords,
     counter: Nat]

NewRuntimeState ==
    [identity |-> NoClient, groups |-> NoGroups, keyPackages |-> {}, counter |-> 0]

\* GroupRuntimeState::new: the client itself, at leaf 0.
NewRuntimeGroup(client) ==
    [epoch |-> 0, active |-> TRUE, members |-> {client}, memberMap |-> {<<0, client>>},
     selfLeaf |-> 0, pending |-> FALSE, offset |-> 0, queue |-> <<>>]

\* Mutant of ApplySnapshot: the client's own leaf is not refreshed.
ApplySnapshotNoLeaf(rg, group) == [rg EXCEPT !.epoch = group.epoch, !.active = group.active]

\* MessengerMls::apply_snapshot, with snapshot_for of the backend's group.
ApplySnapshot(rg, group) ==
    [rg EXCEPT !.epoch = group.epoch, !.active = group.active, !.selfLeaf = group.own]

Known(s, g) == s.groups[g] # NoGroup
KnownGroups(s) == {g \in Groups : Known(s, g)}

\* Mutant of NextIndex: the largest index itself.
NextIndexReused(memberMap, index) ==
    /\ \A entry \in memberMap : entry[1] <= index
    /\ index # 0 => \E entry \in memberMap : entry[1] = index

\* The index invite() gives: one past the largest in the map, or 0.
NextIndex(memberMap, index) ==
    /\ \A entry \in memberMap : entry[1] < index
    /\ index # 0 => \E entry \in memberMap : entry[1] = index - 1

\* Mutant of Enqueued: the bound is off by one.
EnqueuedEarly(queue, item) ==
    LET longer == Append(queue, item)
    IN IF Len(longer) >= MaxQueue THEN Tail(longer) ELSE longer

\* Push back, then drop from the front what exceeds the bound.
Enqueued(queue, item) ==
    LET longer == Append(queue, item)
    IN IF Len(longer) > MaxQueue THEN Tail(longer) ELSE longer

(***************************************************************************)
(* PersistedClientState.  What export_client_state() returns: the runtime  *)
(* state with the storage dump of the backend.                             *)
(***************************************************************************)
Snapshots == [runtime: RuntimeStates, dump: Dumps]

ASSUME NoSnapAssumption == NoSnap \notin Snapshots

Exported(s, b) == [runtime |-> s, dump |-> Dump(b)]
=============================================================================
