-------------------------- MODULE MessengerProperties --------------------------
(***************************************************************************)
(* What src/src/service.rs should guarantee: properties of MessengerMls.   *)
(***************************************************************************)
EXTENDS MessengerMls

(* Safety: the two layers of one handle. *)

\* The service and the backend know the same groups, and the signer is the identity's:
\* every call that touches both layers touches them together, or neither, but for a failing
\* restore and self_update of a group the runtime has lost.
LayersAgree ==
    \A h \in Handles :
        /\ backend[h].signer = Identity(h)
        /\ \A g \in Groups : Known(state[h], g) <=> HasGroup(backend[h], g)

\* Nothing of one identity survives in the session of another: after a re-init every
\* key package, private key and group belongs to the current identity.
OwnedByIdentity ==
    \A h \in Handles :
        /\ \A record \in state[h].keyPackages : record.data.owner = Identity(h)
        /\ \A key \in backend[h].keys : key.owner = Identity(h)
        /\ \A g \in Groups : HasGroup(backend[h], g) => Mls(h, g).me = Identity(h)

\* has_pending_commit and the service's flag cannot miss a commit that waits for
\* merge_pending_commit in the backend.
PendingFlagged ==
    \A h \in Handles, g \in Groups :
        HasGroup(backend[h], g) /\ Mls(h, g).pending # NoCommit => Runtime(h, g).pending

\* The projection never shows an epoch the group has not reached, nor another
\* member's leaf as the client's own.
NeverAhead ==
    \A h \in Handles, g \in Groups :
        Known(state[h], g) /\ HasGroup(backend[h], g) =>
            /\ Runtime(h, g).epoch <= Mls(h, g).epoch
            /\ Runtime(h, g).selfLeaf \in {Mls(h, g).own, NoLeaf}

\* The member list and the member map hold the same clients, each at one index:
\* remove() finds a unique leaf for each member list_members shows.
RosterConsistent ==
    \A h \in Handles, g \in Groups : Known(state[h], g) =>
        LET map == Runtime(h, g).memberMap
        IN /\ {entry[2] : entry \in map} = Runtime(h, g).members
           /\ \A one, other \in map : one[1] = other[1] \/ one[2] = other[2] => one = other

\* The queue holds the last messages counted by transport_last_offset, all of them
\* until it is full and never more than MAX_INCOMING_QUEUE.
QueueTracksOffset ==
    \A h \in Handles, g \in Groups : Known(state[h], g) =>
        LET rg == Runtime(h, g)
        IN Len(rg.queue) = IF rg.offset <= MaxQueue THEN rg.offset ELSE MaxQueue

(* The members of one group. *)

\* The founder of a group sits at its first leaf.
Founded(h, g) == HasGroup(backend[h], g) /\ Mls(h, g).own = 0

\* Liveness: when the founder of a group alone commits, merges what it commits, and every
\* message arrives in the end, in whatever order, the members end at the founder's commit,
\* with nothing pending, and whoever was removed has learned it.
Converges ==
    <>[]\A h, k \in Handles, g \in Groups : Founded(h, g) /\ h # k =>
        /\ Mls(h, g).pending = NoCommit
        /\ IF Identity(k) \in Occupants(Mls(h, g).tree)
           THEN HasGroup(backend[k], g) /\ Mls(k, g).active /\ Mls(k, g).tip = Mls(h, g).tip
           ELSE HasGroup(backend[k], g) => ~ Mls(k, g).active

(* Safety: export and restore. *)

SameButConsumed(one, other) ==
    \/ one = other
    \/ one # NoGroup /\ other # NoGroup
       /\ [one EXCEPT !.seen = {}] = [other EXCEPT !.seen = {}]

\* Unless a restore has failed, the blob export_client_state would return now restores,
\* after whatever other calls: the same signer, private keys and groups, with their epoch
\* and pending commit.
ExportRestorable ==
    \A h \in Handles :
        LET blob == Exported(state[h], backend[h])
            ids == KnownGroups(blob.runtime)
            restored == Loaded(blob.runtime.identity, blob.dump, ids)
        IN /\ CanLoad(blob.dump, ids)
           /\ restored.signer = backend[h].signer
           /\ restored.keys = backend[h].keys
           /\ \A g \in Groups : SameButConsumed(restored.groups[g], backend[h].groups[g])

\* An application that exports before it transmits is never stranded by a crash: a
\* member still at the epoch its own transmitted commit left can merge that commit.
NotStranded ==
    \A h \in Persisting, m \in Arrived("commit") :
        HasGroup(backend[h], m.group) /\ Mls(h, m.group).tip = m.on
                /\ Mls(h, m.group).own = m.leaf =>
            /\ Mls(h, m.group).pending = [id |-> m.id, tree |-> m.tree]
            /\ Runtime(h, m.group).pending

\* Nor does a restored sending ratchet repeat a generation: receivers never refuse a
\* message as already consumed when it is a new one.
GenerationsUnique ==
    \A one, other \in {m \in net : m.kind = "application"} :
        one.on = other.on /\ one.leaf = other.leaf /\ one.gen = other.gen => one = other

(* Safety: the roster of the only committer of a group, its founder. *)

\* While the member map has no hole, it is the ratchet tree the pending or last commit
\* leads to.
DenseMapExact ==
    \A h \in Handles, g \in Groups :
        Known(state[h], g) /\ Founded(h, g) =>
            LET map == Runtime(h, g).memberMap
                indices == {entry[1] : entry \in map}
                group == Mls(h, g)
            IN indices = 0 .. Cardinality(indices) - 1 =>
                   map = IF group.pending = NoCommit THEN group.tree ELSE group.pending.tree

(* Action properties. *)

\* transport_last_offset counts one message at a time and never restarts while the
\* group is known, rejoining it included; only a restore may set it back.
OffsetMonotone ==
    [][\A h \in Handles, g \in Groups :
           Known(state[h], g) /\ Known(state'[h], g)
                   /\ (disk[h] = NoSnap \/ state'[h] # Saved(h)) =>
               state'[h].groups[g].offset \in {Runtime(h, g).offset, Runtime(h, g).offset + 1}]_vars

\* Whatever failed before, a re-init or a successful restore leaves the two layers
\* in agreement.
Resynchronises ==
    [][\A h \in Handles :
           RestoreClient(h) \/ (\E client \in Accounts[h] : CreateClient(h, client)) =>
               /\ backend'[h].signer = state'[h].identity
               /\ \A g \in Groups : Known(state'[h], g) <=> HasGroup(backend'[h], g)]_vars

(* The abstract specification: the groups in memory are the copies, and what the blob on
   the disk loads is saved. *)

Copied(group) ==
    IF group = NoGroup THEN [kind |-> "absent"]
    ELSE [kind |-> "held", tip |-> group.tip, epoch |-> group.epoch, leaf |-> group.own,
          active |-> group.active,
          pending |-> IF group.pending = NoCommit THEN {} ELSE {group.pending.id}]

Copies(groups) == [g \in Groups |-> Copied(groups[g])]

Numbers(packages) == {key.id : key \in packages}

SavedCopies(blob) ==
    IF blob = NoSnap THEN [there |-> FALSE]
    ELSE [there |-> TRUE,
          copies |-> Copies(Loaded(blob.runtime.identity, blob.dump,
                                   KnownGroups(blob.runtime)).groups),
          keys |-> Numbers(blob.dump.keys)]

Shown(m) ==
    IF m.kind = "commit"
    THEN [kind |-> "commit", group |-> m.group, on |-> m.on, id |-> m.id, leaf |-> m.leaf]
    ELSE [kind |-> "welcome", group |-> m.group, key |-> m.key.id, id |-> m.id,
          epoch |-> m.epoch, leaf |-> m.leaf]

ShownOf(messages) == {Shown(m) : m \in {m \in messages : m.kind \in {"commit", "welcome"}}}

Lifecycles == INSTANCE CommitLifecycle WITH
    copy <- [h \in Handles |-> Copies(backend[h].groups)],
    keys <- [h \in Handles |-> Numbers(backend[h].keys)],
    saved <- [h \in Handles |-> SavedCopies(disk[h])],
    sent <- ShownOf(net),
    made <- fresh

\* Every call is one step of the commit lifecycle README.md describes, or none: a copy
\* leaves an epoch only by the one commit that waits in it or by one another member made
\* on that epoch, never by a commit it discarded; it enters a group only by making it or by
\* an unused invitation; and a restored client holds exactly the epochs, pending commits
\* and unused key packages it exported.
ImplementsLifecycle == Lifecycles!Spec

(* What the documents say and the code does not do; each is refuted by a run. *)

\* types.rs: GroupState.epoch is the current MLS epoch.
EpochCurrent ==
    \A h \in Handles, g \in Groups :
        Known(state[h], g) /\ HasGroup(backend[h], g) => Runtime(h, g).epoch = Mls(h, g).epoch

\* README.md: restore_client after export_client_state restores the client; so the blob
\* export_client_state would return now lists no group its dump lacks.
ExportLoads ==
    \A h \in Handles : CanLoad(Dump(backend[h]), KnownGroups(state[h]))

\* types.rs: RemoveRequest.removed_client is the member the call removes.
RemoveHitsTarget ==
    [][\A h \in Handles, g \in Groups, client \in Clients :
           Remove(h, g, client) =>
               \A entry \in Mls(h, g).tree \ backend'[h].groups[g].pending.tree :
                   entry[2] = client]_vars
=============================================================================
