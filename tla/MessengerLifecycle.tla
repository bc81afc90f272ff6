--------------------------- MODULE MessengerLifecycle ---------------------------
(***************************************************************************)
(* The service implements the lifecycle of commits that README.md promises *)
(* (CommitLifecycle), for every value of the constants, as long as no      *)
(* restore fails: every call of CleanSpec is one step of it or none.       *)
(*                                                                         *)
(* Two facts about the service are needed, and neither is seen in one      *)
(* call.  That the blob exported holds the copies in memory, and no other, *)
(* is LayersInv.  That spending the key package of a welcome takes its     *)
(* number, and only that, out of what the handle can still be invited by   *)
(* is KeysInv: no two private key packages kept in one place have the same *)
(* number, and all numbers are below the next one.                         *)
(***************************************************************************)
EXTENDS MessengerLayers

\* What CommitLifecycle sees of the service.
AbstractCopy == [h \in Handles |-> Copies(backend[h].groups)]
AbstractKeys == [h \in Handles |-> Numbers(backend[h].keys)]
AbstractSaved == [h \in Handles |-> SavedCopies(disk[h])]
AbstractSent == ShownOf(net)
Unseen == UNCHANGED <<AbstractCopy, AbstractKeys, AbstractSaved, AbstractSent, fresh>>
-----------------------------------------------------------------------------
(* Key packages and their numbers. *)

\* Packages kept in one place: the numbers below n are used, each once.
Numbered(packages, n) ==
    \A one \in packages :
        one.id < n /\ \A other \in packages : one.id = other.id => one = other

KeysInv ==
    /\ \A h \in Handles :
         /\ Numbered(backend[h].keys, fresh)
         /\ disk[h] # NoSnap => Numbered(disk[h].dump.keys, fresh)
    /\ \A m \in net : m.kind = "keypackage" => m.key.id < fresh

\* One package less is one number less.
LEMMA NumbersLess ==
    ASSUME NEW packages, NEW n, Numbered(packages, n), NEW key \in packages
    PROVE  Numbers(packages \ {key}) = Numbers(packages) \ {key.id}
BY DEF Numbered, Numbers

\* A step of one handle that exports nothing.
LEMMA KeysFrame ==
    ASSUME TypeInv, KeysInv, NEW h \in Handles, NEW b, SetBackend(h, b), UNCHANGED disk,
           Numbered(b.keys, fresh'), fresh' \in Nat, fresh <= fresh',
           \A m \in net' : m.kind = "keypackage" => m \in net \/ m.key.id < fresh'
    PROVE  KeysInv'
<1>1. /\ fresh \in Nat /\ NetOK
      /\ \A k \in Handles : backend[k] \in Backends /\ disk[k] \in Snapshots \cup {NoSnap}
  BY DEF TypeInv, FreshOK, BackendOK, DiskOK, SoundBackends
<1>2. ASSUME NEW packages \in SUBSET KeyPackages, Numbered(packages, fresh)
      PROVE  Numbered(packages, fresh')
  BY <1>1, <1>2 DEF Numbered, KeyPackages
<1>3. ASSUME NEW k \in Handles PROVE Numbered(backend'[k].keys, fresh')
  <2>1. CASE k = h
    BY <2>1 DEF SetBackend, TypeInv, BackendOK
  <2>2. CASE k # h
    <3>1. backend'[k] = backend[k]
      BY <2>2 DEF SetBackend, TypeInv, BackendOK
    <3> QED BY <1>1, <1>2, <3>1 DEF KeysInv, Backends
  <2> QED BY <2>1, <2>2
<1>4. ASSUME NEW k \in Handles, disk[k] # NoSnap PROVE Numbered(disk[k].dump.keys, fresh')
  <2>1. disk[k].dump.keys \in SUBSET KeyPackages
    BY <1>1, <1>4 DEF Snapshots, Dumps
  <2> QED BY <1>2, <1>4, <2>1 DEF KeysInv
<1>5. ASSUME NEW m \in net, m.kind = "keypackage" PROVE m.key.id < fresh'
  <2>1. m.key \in KeyPackages
    BY <1>1, <1>5 DEF NetOK, Messages, CommitMsgs, WelcomeMsgs, ApplicationMsgs, KeyPackageMsgs
  <2>2. m.key.id < fresh /\ m.key.id \in Nat
    BY <1>5, <2>1 DEF KeysInv, KeyPackages
  <2> QED BY <1>1, <2>2
<1> QED BY <1>3, <1>4, <1>5 DEF KeysInv

\* The same, for a step that makes no key package.
LEMMA KeysKept ==
    ASSUME TypeInv, KeysInv, NEW h \in Handles, NEW b, SetBackend(h, b), UNCHANGED disk,
           \/ b.keys \subseteq backend[h].keys
           \/ disk[h] # NoSnap /\ b.keys = disk[h].dump.keys,
           UNCHANGED fresh \/ Mint(1),
           \A m \in net' \ net : m.kind # "keypackage"
    PROVE  KeysInv'
<1>1. fresh \in Nat /\ fresh' \in Nat /\ fresh <= fresh'
  BY DEF TypeInv, FreshOK, Mint
<1>2. /\ backend[h].keys \subseteq KeyPackages
      /\ disk[h] # NoSnap => disk[h].dump.keys \subseteq KeyPackages
  BY DEF TypeInv, BackendOK, SoundBackends, Backends, DiskOK, Snapshots, Dumps
<1>3. Numbered(b.keys, fresh')
  <2>1. \A key \in KeyPackages : key.id < fresh => key.id < fresh'
    BY <1>1 DEF KeyPackages
  <2> QED BY <1>2, <2>1 DEF KeysInv, Numbered
<1> QED BY <1>1, <1>3, KeysFrame

\* What a change of the backend leaves of its groups in memory and of its keys.
LEMMA GroupsChanged ==
    ASSUME NEW b \in Backends, NEW g \in Groups
    PROVE  /\ \A group : /\ Written(b, g, group).groups[g] = group
                         /\ Written(b, g, group).keys = b.keys
                         /\ \A k \in Groups \ {g} : Written(b, g, group).groups[k] = b.groups[k]
           /\ \A id, tree :
                /\ WithStaged(b, g, id, tree).groups[g] = Staged(b.groups[g], id, tree)
                /\ WithStaged(b, g, id, tree).keys = b.keys
                /\ \A k \in Groups \ {g} : WithStaged(b, g, id, tree).groups[k] = b.groups[k]
           /\ WithMerged(b, g).groups[g] = MergedOwn(b.groups[g])
           /\ WithMerged(b, g).keys = b.keys
           /\ \A k \in Groups \ {g} : WithMerged(b, g).groups[k] = b.groups[k]
           /\ WithCleared(b, g).groups[g] = Cleared(b.groups[g])
           /\ WithCleared(b, g).keys = b.keys
           /\ \A k \in Groups \ {g} : WithCleared(b, g).groups[k] = b.groups[k]
           /\ Dropped(b, g).groups[g] = NoGroup
           /\ Dropped(b, g).keys = b.keys
           /\ \A k \in Groups \ {g} : Dropped(b, g).groups[k] = b.groups[k]
           /\ \A leaf, gen, kept :
                /\ WithConsumed(b, g, leaf, gen, kept).groups[g] = Consumed(b.groups[g], leaf, gen)
                /\ WithConsumed(b, g, leaf, gen, kept).keys = b.keys
                /\ \A k \in Groups \ {g} :
                     WithConsumed(b, g, leaf, gen, kept).groups[k] = b.groups[k]
           /\ \A key : /\ WithoutKey(b, key) \in Backends
                       /\ WithoutKey(b, key).groups = b.groups
                       /\ WithoutKey(b, key).keys = b.keys \ {key}
           /\ \A packages : /\ WithKeys(b, packages).groups = b.groups
                            /\ WithKeys(b, packages).keys = b.keys \cup packages
BY DEF Backends, Written, WithStaged, WithMerged, WithCleared, Dropped, WithConsumed,
       WithoutKey, WithKeys

LEMMA SetupKeys ==
    ASSUME TypeInv, KeysInv, NEW h \in Handles, Setup(h)
    PROVE  KeysInv'
<1>1. ASSUME NEW b, SetBackend(h, b), b.keys = {}, UNCHANGED <<disk, net, fresh>> PROVE KeysInv'
  BY <1>1, KeysKept
<1>2. ASSUME NEW client \in Accounts[h], CreateClient(h, client) PROVE KeysInv'
  BY <1>1, <1>2 DEF CreateClient, ReturnNothing, ConfiguredBackend, ResetBackend
<1>3. CASE CreateClientBadKey(h)
  BY <1>1, <1>3 DEF CreateClientBadKey, ReturnNothing, ResetBackend
<1>4. ASSUME NEW bundle \in SUBSET PublishedKeys, MarkKeyPackagesUploaded(h, bundle)
      PROVE  KeysInv'
  <2>1. SetBackend(h, backend[h]) /\ UNCHANGED <<disk, net, fresh>>
    BY <1>4 DEF MarkKeyPackagesUploaded, ReturnNothing, SetBackend, TypeInv, BackendOK
  <2> QED BY <2>1, KeysKept
<1>5. ASSUME NEW count \in 1 .. 2, CreateKeyPackages(h, count) PROVE KeysInv'
  <2> DEFINE made == {[id |-> n, owner |-> backend[h].signer] : n \in fresh .. fresh + count - 1}
             b == WithKeys(backend[h], made)
  <2>1. /\ backend[h] \in Backends /\ backend[h].keys \subseteq KeyPackages
        /\ fresh \in Nat /\ fresh' = fresh + count
    BY <1>5 DEF CreateKeyPackages, Mint, TypeInv, BackendOK, SoundBackends, Backends, FreshOK
  <2>2. /\ SetBackend(h, b) /\ UNCHANGED disk
        /\ net' = net \cup {[kind |-> "keypackage", key |-> key] : key \in made}
    BY <1>5 DEF CreateKeyPackages, Return
  <2>3. \A key \in made : key.id \in fresh .. fresh' - 1 /\ key.owner = backend[h].signer
                          /\ key = [id |-> key.id, owner |-> key.owner]
    BY <2>1
  <2>4. \A one, other \in made : one.id = other.id => one = other
    BY <2>3
  <2>5. b.keys = backend[h].keys \cup made
    BY <2>1, GroupsChanged DEF WithKeys, Backends
  <2> HIDE DEF made
  <2>6. Numbered(b.keys, fresh')
    <3>1. \A key \in backend[h].keys :
            /\ key.id \in Nat /\ key.id < fresh
            /\ \A other \in backend[h].keys : key.id = other.id => key = other
      BY <2>1 DEF KeysInv, Numbered, KeyPackages
    <3> HIDE DEF b
    <3> QED BY <2>1, <2>3, <2>4, <2>5, <3>1 DEF Numbered
  <2>7. \A m \in net' : m.kind = "keypackage" => m \in net \/ m.key.id < fresh'
    <3>1. \A key \in made : key.id < fresh'
      BY <2>1, <2>3
    <3> QED BY <2>2, <3>1
  <2> HIDE DEF b
  <2> QED BY <2>1, <2>2, <2>6, <2>7, KeysFrame
<1> QED BY <1>2, <1>3, <1>4, <1>5 DEF Setup

\* The messages that are not key packages, by how a call returns them.
LEMMA GroupCallKeys ==
    ASSUME TypeInv, KeysInv, NEW h \in Handles, Lifecycle(h) \/ Messaging(h) \/ Recovery(h)
    PROVE  KeysInv'
<1>1. backend[h] \in Backends
  BY DEF TypeInv, BackendOK, SoundBackends
<1>2. /\ \A m \in Arrived("welcome") \cup Arrived("commit") \cup Arrived("application") :
           m.group \in Groups
  BY ArrivedTypes DEF WelcomeMsgs, CommitMsgs, ApplicationMsgs
<1>3. ASSUME NEW b, SetBackend(h, b), b.keys \subseteq backend[h].keys,
             UNCHANGED disk, UNCHANGED <<net, fresh>>
      PROVE  KeysInv'
  BY <1>3, KeysKept
<1>4. ASSUME NEW b, SetBackend(h, b), b.keys \subseteq backend[h].keys,
             UNCHANGED disk, Mint(1), NEW messages, Return(h, messages),
             \A m \in messages : m.kind # "keypackage"
      PROVE  KeysInv'
  BY <1>4, KeysKept DEF Return
<1>5. ASSUME NEW g \in Groups, CreateGroup(h, g) PROVE KeysInv'
  <2>1. PICK group : /\ SetBackend(h, Written(backend[h], g, group))
                     /\ Mint(1) /\ UNCHANGED <<disk, net>>
    BY <1>5 DEF CreateGroup, ReturnNothing
  <2> DEFINE b == Written(backend[h], g, group)
  <2>2. b.keys = backend[h].keys /\ SetBackend(h, b)
    BY <1>1, <2>1, GroupsChanged
  <2> HIDE DEF b
  <2> QED BY <2>1, <2>2, KeysKept
<1>6. ASSUME NEW g \in Groups, NEW rg, NEW tree, NEW welcomes,
             StageCommit(h, g, rg, tree, welcomes), \A m \in welcomes : m.kind = "welcome"
      PROVE  KeysInv'
  <2> DEFINE b == WithStaged(backend[h], g, fresh, tree)
             messages == {CommitMsg(g, Mls(h, g), tree)} \cup welcomes
  <2>1. SetBackend(h, b) /\ Mint(1) /\ UNCHANGED disk /\ Return(h, messages)
    BY <1>6 DEF StageCommit
  <2>2. b.keys = backend[h].keys /\ \A m \in messages : m.kind # "keypackage"
    BY <1>1, <1>6, GroupsChanged DEF CommitMsg
  <2> HIDE DEF b, messages
  <2> QED BY <1>4, <2>1, <2>2
<1>7. ASSUME NEW g \in Groups, NEW key \in PublishedKeys, Invite(h, g, key) PROVE KeysInv'
  <2> DEFINE Welcome(leaf, tree) ==
               [kind |-> "welcome", group |-> g, key |-> key, id |-> fresh,
                epoch |-> Mls(h, g).epoch + 1, leaf |-> leaf, tree |-> tree]
  <2>1. PICK rg, leaf, tree : StageCommit(h, g, rg, tree, {Welcome(leaf, tree)})
    BY <1>7 DEF Invite
  <2>2. Welcome(leaf, tree).kind = "welcome"
    OBVIOUS
  <2> HIDE DEF Welcome
  <2> QED BY <1>6, <2>1, <2>2
<1>8. ASSUME NEW g \in Groups, NEW client \in Clients, Remove(h, g, client) PROVE KeysInv'
  <2>1. PICK rg, tree : StageCommit(h, g, rg, tree, {})
    BY <1>8 DEF Remove
  <2> QED BY <1>6, <2>1
<1>9. ASSUME NEW g \in Groups, SelfUpdate(h, g) PROVE KeysInv'
  <2>1. PICK rg, tree : StageCommit(h, g, rg, tree, {})
    BY <1>9 DEF SelfUpdate
  <2> QED BY <1>6, <2>1
<1>10. ASSUME NEW g \in Groups,
              MergePendingCommit(h, g) \/ ClearPendingCommit(h, g) \/ DropGroup(h, g)
       PROVE  KeysInv'
  <2>1. PICK b \in {WithMerged(backend[h], g), WithCleared(backend[h], g), Dropped(backend[h], g)} :
          SetBackend(h, b) /\ UNCHANGED <<disk, net, fresh>>
    BY <1>10 DEF MergePendingCommit, ClearPendingCommit, DropGroup, ReturnNothing
  <2>2. b.keys = backend[h].keys
    BY <1>1, GroupsChanged
  <2> QED BY <1>3, <2>1, <2>2
<1>11. ASSUME NEW m \in Arrived("welcome"), JoinFromWelcome(h, m) \/ JoinRefused(h, m)
       PROVE  KeysInv'
  <2>1. WithoutKey(backend[h], m.key) \in Backends
        /\ WithoutKey(backend[h], m.key).keys \subseteq backend[h].keys
    BY <1>1, <1>2, GroupsChanged
  <2>2. CASE JoinRefused(h, m)
    BY <1>3, <2>1, <2>2 DEF JoinRefused, ReturnNothing
  <2>3. CASE JoinFromWelcome(h, m)
    <3>1. PICK group : /\ SetBackend(h, Written(WithoutKey(backend[h], m.key), m.group, group))
                       /\ UNCHANGED <<disk, net, fresh>>
      BY <2>3 DEF JoinFromWelcome, ReturnNothing
    <3> DEFINE b == Written(WithoutKey(backend[h], m.key), m.group, group)
    <3>2. SetBackend(h, b) /\ b.keys \subseteq backend[h].keys
      BY <1>2, <2>1, <3>1, GroupsChanged
    <3> HIDE DEF b
    <3> QED BY <1>3, <3>1, <3>2
  <2> QED BY <1>11, <2>2, <2>3
<1>12. ASSUME NEW m \in Arrived("commit"), HandleCommit(h, m) PROVE KeysInv'
  <2>1. PICK group : SetBackend(h, Written(backend[h], m.group, group)) /\ UNCHANGED <<disk, net, fresh>>
    BY <1>12 DEF HandleCommit, ReturnNothing
  <2> DEFINE b == Written(backend[h], m.group, group)
  <2>2. SetBackend(h, b) /\ b.keys = backend[h].keys
    BY <1>1, <1>2, <2>1, GroupsChanged
  <2> HIDE DEF b
  <2> QED BY <1>3, <2>1, <2>2
<1>13. ASSUME NEW m \in Arrived("application"), HandleApplication(h, m) PROVE KeysInv'
  <2>1. PICK kept \in BOOLEAN :
          /\ SetBackend(h, WithConsumed(backend[h], m.group, m.leaf, m.gen, kept))
          /\ UNCHANGED <<disk, net, fresh>>
    BY <1>13 DEF HandleApplication, ReturnNothing
  <2> DEFINE b == WithConsumed(backend[h], m.group, m.leaf, m.gen, kept)
  <2>2. SetBackend(h, b) /\ b.keys = backend[h].keys
    BY <1>1, <1>2, <2>1, GroupsChanged
  <2> HIDE DEF b
  <2> QED BY <1>3, <2>1, <2>2
<1>14. ASSUME NEW g \in Groups, EncryptMessage(h, g) PROVE KeysInv'
  <2> DEFINE message == [kind |-> "application", group |-> g, on |-> Mls(h, g).tip,
                         id |-> fresh, leaf |-> Mls(h, g).own, gen |-> Mls(h, g).gen]
  <2>1. /\ SetBackend(h, Written(backend[h], g, Sent(Mls(h, g))))
        /\ Mint(1) /\ UNCHANGED disk /\ Return(h, {message})
    BY <1>14 DEF EncryptMessage
  <2> DEFINE b == Written(backend[h], g, Sent(Mls(h, g)))
  <2>2. SetBackend(h, b) /\ b.keys = backend[h].keys
    BY <1>1, <2>1, GroupsChanged
  <2>3. message.kind # "keypackage"
    OBVIOUS
  <2> HIDE DEF b, message
  <2> QED BY <1>4, <2>1, <2>2, <2>3
<1> QED BY <1>5, <1>7, <1>8, <1>9, <1>10, <1>11, <1>12, <1>13, <1>14
        DEF Lifecycle, Messaging, Recovery

LEMMA PersistenceKeys ==
    ASSUME TypeInv, KeysInv, NEW h \in Handles, Persistence(h) \/ RestoreWithoutDump(h)
    PROVE  KeysInv'
<1>1. ASSUME NEW b, SetBackend(h, b), LoseSession(h), UNCHANGED <<disk, fresh>>,
             \/ b.keys = {}
             \/ disk[h] # NoSnap /\ b.keys = disk[h].dump.keys
      PROVE  KeysInv'
  <2>1. \A m \in net' \ net : m.kind # "keypackage"
    BY <1>1 DEF LoseSession
  <2> QED BY <1>1, <2>1, KeysKept
<1>2. CASE ExportClientState(h)
  <2>1. disk' = [disk EXCEPT ![h] = Exported(state[h], backend[h])]
        /\ UNCHANGED <<backend, net, fresh>>
    BY <1>2 DEF ExportClientState
  <2>2. ASSUME NEW k \in Handles, disk'[k] # NoSnap PROVE Numbered(disk'[k].dump.keys, fresh)
    <3>1. CASE k = h
      BY <2>1, <3>1 DEF Exported, Dump, KeysInv, TypeInv, DiskOK
    <3>2. CASE k # h
      BY <2>1, <2>2, <3>2 DEF KeysInv, TypeInv, DiskOK
    <3> QED BY <3>1, <3>2
  <2> QED BY <2>1, <2>2 DEF KeysInv
<1>3. CASE NewHandle(h)
  BY <1>1, <1>3 DEF NewHandle, ResetBackend
<1>4. CASE RestoreWithoutDump(h)
  <2>1. Reconfigured(h).keys = {}
    BY DEF Reconfigured, ConfiguredBackend, ResetBackend
  <2> QED BY <1>1, <1>4, <2>1 DEF RestoreWithoutDump
<1>5. CASE RestoreClient(h)
  <2>1. Loaded(Saved(h).identity, disk[h].dump, SavedGroups(h)).keys = disk[h].dump.keys
    BY DEF Loaded
  <2> QED BY <1>1, <1>5, <2>1 DEF RestoreClient
<1> QED BY <1>2, <1>3, <1>4, <1>5 DEF Persistence

LEMMA StepKeys == TypeInv /\ KeysInv /\ [CleanNext]_vars => KeysInv'
<1>1. ASSUME TypeInv, KeysInv, NEW h \in Handles, CleanStep(h) PROVE KeysInv'
  BY <1>1, SetupKeys, GroupCallKeys, PersistenceKeys DEF CleanStep
<1>2. KeysInv /\ UNCHANGED vars => KeysInv'
  BY DEF vars, KeysInv
<1> QED BY <1>1, <1>2 DEF CleanNext
-----------------------------------------------------------------------------
(* What is seen of one group. *)

\* A copy of a group that is there.
LEMMA CopiedGroup ==
    ASSUME NEW group \in MlsGroups
    PROVE  /\ Copied(group) =
                [kind |-> "held", tip |-> group.tip, epoch |-> group.epoch, leaf |-> group.own,
                 active |-> group.active,
                 pending |-> IF group.pending = NoCommit THEN {} ELSE {group.pending.id}]
           /\ Copied(group).kind = "held" /\ Copied(group).tip = group.tip
           /\ Copied(group).epoch = group.epoch /\ Copied(group).leaf = group.own
           /\ Copied(group).active = group.active
           /\ Copied(group).pending =
                IF group.pending = NoCommit THEN {} ELSE {group.pending.id}
BY NoGroupAssumption DEF Copied

\* A group without a pending commit is seen as a copy at the start of its epoch.
LEMMA CopiedStart ==
    ASSUME NEW group \in MlsGroups, group.pending = NoCommit
    PROVE  Copied(group) = Lifecycles!At(group.tip, group.epoch, group.own, group.active)
BY CopiedGroup DEF Lifecycles!At

\* The pending commit of a copy, replaced.
LEMMA PendingReplaced ==
    ASSUME NEW tip, NEW epoch, NEW leaf, NEW active, NEW one, NEW other
    PROVE  [[kind |-> "held", tip |-> tip, epoch |-> epoch, leaf |-> leaf, active |-> active,
             pending |-> one] EXCEPT !.pending = other]
             = [kind |-> "held", tip |-> tip, epoch |-> epoch, leaf |-> leaf, active |-> active,
                pending |-> other]
OBVIOUS

\* Groups that agree on what is seen, and on the number of the pending commit.
Number(group) == IF group.pending = NoCommit THEN {} ELSE {group.pending.id}
LEMMA CopiedAlike ==
    ASSUME NEW group \in MlsGroups, NEW other \in MlsGroups,
           other.tip = group.tip, other.epoch = group.epoch, other.own = group.own,
           other.active = group.active
    PROVE  Copied(other) = [Copied(group) EXCEPT !.pending = Number(other)]
<1>1. Copied(group) =
        [kind |-> "held", tip |-> group.tip, epoch |-> group.epoch, leaf |-> group.own,
         active |-> group.active, pending |-> Number(group)]
  BY CopiedGroup DEF Number
<1>2. Copied(other) =
        [kind |-> "held", tip |-> group.tip, epoch |-> group.epoch, leaf |-> group.own,
         active |-> group.active, pending |-> Number(other)]
  BY CopiedGroup DEF Number
<1> QED BY <1>1, <1>2, PendingReplaced

\* A pending commit kept is the same seen.
LEMMA CopiedSame ==
    ASSUME NEW group \in MlsGroups, NEW other \in MlsGroups,
           other.tip = group.tip, other.epoch = group.epoch, other.own = group.own,
           other.active = group.active, other.pending = group.pending
    PROVE  Copied(other) = Copied(group)
BY NoGroupAssumption DEF Copied

(* What each change of a group shows. *)

LEMMA CopiedStaged ==
    ASSUME NEW group \in MlsGroups, NEW id \in Nat, NEW tree \in Trees
    PROVE  Copied(Staged(group, id, tree)) = [Copied(group) EXCEPT !.pending = {id}]
<1>1. Staged(group, id, tree) \in MlsGroups
  BY GroupChanged
<1>2. [id |-> id, tree |-> tree] # NoCommit
  BY NoCommitAssumption DEF Commits
<1>3. /\ Staged(group, id, tree).tip = group.tip /\ Staged(group, id, tree).epoch = group.epoch
      /\ Staged(group, id, tree).own = group.own
      /\ Staged(group, id, tree).active = group.active
      /\ Staged(group, id, tree).pending = [id |-> id, tree |-> tree]
  BY DEF Staged, MlsGroups
<1>4. Number(Staged(group, id, tree)) = {id}
  BY <1>2, <1>3 DEF Number
<1>5. Copied(Staged(group, id, tree)) =
        [Copied(group) EXCEPT !.pending = Number(Staged(group, id, tree))]
  BY <1>1, <1>3, CopiedAlike
<1> QED BY <1>4, <1>5

LEMMA CopiedMergedOwn ==
    ASSUME NEW group \in MlsGroups
    PROVE  /\ group.pending = NoCommit => Copied(MergedOwn(group)) = Copied(group)
           /\ group.pending # NoCommit =>
                Copied(MergedOwn(group)) =
                  Lifecycles!At(group.pending.id, group.epoch + 1, group.own, TRUE)
<1>1. group.pending = NoCommit => Copied(MergedOwn(group)) = Copied(group)
  BY DEF MergedOwn
<1>2. ASSUME group.pending # NoCommit
      PROVE  Copied(MergedOwn(group)) =
               Lifecycles!At(group.pending.id, group.epoch + 1, group.own, TRUE)
  <2>1. MergedOwn(group) \in MlsGroups
    BY GroupChanged
  <2>2. MergedOwn(group) = AtNextEpoch(group, group.pending.id, group.pending.tree)
    BY <1>2 DEF MergedOwn
  <2>3. /\ MergedOwn(group).tip = group.pending.id /\ MergedOwn(group).epoch = group.epoch + 1
        /\ MergedOwn(group).own = group.own /\ MergedOwn(group).active = TRUE
        /\ MergedOwn(group).pending = NoCommit
    BY <2>2 DEF AtNextEpoch, MemberAt
  <2> QED BY <2>1, <2>3, CopiedStart
<1> QED BY <1>1, <1>2

LEMMA CopiedMergedIncoming ==
    ASSUME NEW group \in MlsGroups, NEW id \in Nat, NEW tree \in Trees
    PROVE  \E here \in BOOLEAN :
             Copied(MergedIncoming(group, id, tree)) =
               Lifecycles!At(id, group.epoch + 1, group.own, here)
<1> DEFINE merged == MergedIncoming(group, id, tree)
<1>1. merged \in MlsGroups
  BY GroupChanged
<1>2. /\ merged.tip = id /\ merged.epoch = group.epoch + 1 /\ merged.own = group.own
      /\ merged.pending = NoCommit
  BY DEF MergedIncoming, AtNextEpoch, MemberAt
<1>3. merged.active \in BOOLEAN
  BY <1>1 DEF MlsGroups
<1> HIDE DEF merged
<1>4. Copied(merged) = Lifecycles!At(id, group.epoch + 1, group.own, merged.active)
  BY <1>1, <1>2, CopiedStart
<1> QED BY <1>3, <1>4 DEF merged

LEMMA CopiedCleared ==
    ASSUME NEW group \in MlsGroups
    PROVE  Copied(Cleared(group)) = [Copied(group) EXCEPT !.pending = {}]
<1>1. Cleared(group) \in MlsGroups
  BY GroupChanged
<1>2. /\ Cleared(group).tip = group.tip /\ Cleared(group).epoch = group.epoch
      /\ Cleared(group).own = group.own /\ Cleared(group).active = group.active
      /\ Cleared(group).pending = NoCommit
  BY DEF Cleared, MlsGroups
<1>3. Number(Cleared(group)) = {}
  BY <1>2 DEF Number
<1>4. Copied(Cleared(group)) = [Copied(group) EXCEPT !.pending = Number(Cleared(group))]
  BY <1>1, <1>2, CopiedAlike
<1> QED BY <1>3, <1>4

LEMMA CopiedSent ==
    ASSUME NEW group \in MlsGroups
    PROVE  Copied(Sent(group)) = Copied(group)
<1>1. /\ Sent(group).tip = group.tip /\ Sent(group).epoch = group.epoch
      /\ Sent(group).own = group.own /\ Sent(group).active = group.active
      /\ Sent(group).pending = group.pending
  BY DEF Sent, MlsGroups
<1> QED BY <1>1, GroupChanged, CopiedSame

LEMMA CopiedConsumed ==
    ASSUME NEW group \in MlsGroups, NEW leaf \in Leaves, NEW gen \in Nat
    PROVE  Copied(Consumed(group, leaf, gen)) = Copied(group)
<1> DEFINE consumed == Consumed(group, leaf, gen)
<1>1. /\ consumed.tip = group.tip /\ consumed.epoch = group.epoch
      /\ consumed.own = group.own /\ consumed.active = group.active
      /\ consumed.pending = group.pending
  BY DEF Consumed, MlsGroups
<1>2. consumed \in MlsGroups
  BY GroupChanged
<1> HIDE DEF consumed
<1>3. Copied(consumed) = Copied(group)
  BY <1>1, <1>2, CopiedSame
<1> QED BY <1>3 DEF consumed
-----------------------------------------------------------------------------
(* What is seen of a step. *)

\* A step that changes one group of one handle, and exports nothing.
LEMMA SeenGroup ==
    ASSUME TypeInv, NEW h \in Handles, NEW g \in Groups, NEW b, SetBackend(h, b),
           UNCHANGED disk,
           \A k \in Groups \ {g} : b.groups[k] = backend[h].groups[k]
    PROVE  /\ Lifecycles!SetCopy(h, g, Copied(b.groups[g]))
           /\ UNCHANGED AbstractSaved
           /\ Copied(b.groups[g]) = Copied(Mls(h, g)) => UNCHANGED AbstractCopy
           /\ AbstractCopy[h][g] = Copied(Mls(h, g))
<1>1. backend'[h] = b /\ \A k \in Handles : k # h => backend'[k] = backend[k]
  BY DEF SetBackend, TypeInv, BackendOK
<1>2. ASSUME NEW k \in Handles, k # h PROVE AbstractCopy'[k] = AbstractCopy[k]
  BY <1>1, <1>2 DEF AbstractCopy
<1>3. AbstractCopy'[h] = [AbstractCopy[h] EXCEPT ![g] = Copied(b.groups[g])]
  BY <1>1 DEF AbstractCopy, Copies
<1>4. AbstractCopy' = [AbstractCopy EXCEPT ![h] = [AbstractCopy[h] EXCEPT ![g] = Copied(b.groups[g])]]
  BY <1>2, <1>3 DEF AbstractCopy
<1>5. AbstractCopy[h][g] = Copied(Mls(h, g))
  BY DEF AbstractCopy, Copies, Mls
<1>6. Copied(b.groups[g]) = Copied(Mls(h, g)) => AbstractCopy' = AbstractCopy
  <2> SUFFICES ASSUME Copied(b.groups[g]) = Copied(Mls(h, g)) PROVE AbstractCopy' = AbstractCopy
    OBVIOUS
  <2>1. [AbstractCopy[h] EXCEPT ![g] = Copied(b.groups[g])] = AbstractCopy[h]
    BY <1>5 DEF AbstractCopy, Copies
  <2> QED BY <1>4, <2>1 DEF AbstractCopy
<1>7. UNCHANGED AbstractSaved
  BY DEF AbstractSaved
<1>8. Lifecycles!SetCopy(h, g, Copied(b.groups[g]))
  BY <1>4 DEF Lifecycles!SetCopy, AbstractCopy
<1> QED BY <1>5, <1>6, <1>7, <1>8

\* A step that replaces all the groups of one handle.
LEMMA SeenHandle ==
    ASSUME TypeInv, NEW h \in Handles, NEW b, SetBackend(h, b), UNCHANGED disk
    PROVE  /\ AbstractCopy' = [AbstractCopy EXCEPT ![h] = Copies(b.groups)]
           /\ UNCHANGED AbstractSaved
           /\ Copies(b.groups) = Copies(backend[h].groups) => UNCHANGED AbstractCopy
<1>1. backend'[h] = b /\ \A k \in Handles : k # h => backend'[k] = backend[k]
  BY DEF SetBackend, TypeInv, BackendOK
<1>2. AbstractCopy' = [AbstractCopy EXCEPT ![h] = Copies(b.groups)]
  BY <1>1 DEF AbstractCopy
<1>3. UNCHANGED AbstractSaved
  BY DEF AbstractSaved
<1>4. Copies(b.groups) = Copies(backend[h].groups) => AbstractCopy' = AbstractCopy
  BY <1>2 DEF AbstractCopy
<1> QED BY <1>2, <1>3, <1>4

\* The key packages of the handle, with its backend.
LEMMA SeenKeys ==
    ASSUME TypeInv, NEW h \in Handles, NEW b, SetBackend(h, b)
    PROVE  /\ AbstractKeys' = [AbstractKeys EXCEPT ![h] = Numbers(b.keys)]
           /\ AbstractKeys[h] = Numbers(backend[h].keys)
           /\ b.keys = backend[h].keys => UNCHANGED AbstractKeys
<1>1. backend'[h] = b /\ \A k \in Handles : k # h => backend'[k] = backend[k]
  BY DEF SetBackend, TypeInv, BackendOK
<1>2. AbstractKeys' = [AbstractKeys EXCEPT ![h] = Numbers(b.keys)]
  BY <1>1 DEF AbstractKeys
<1>3. AbstractKeys[h] = Numbers(backend[h].keys)
  BY DEF AbstractKeys
<1>4. b.keys = backend[h].keys => AbstractKeys' = AbstractKeys
  BY <1>2, <1>3 DEF AbstractKeys
<1> QED BY <1>2, <1>3, <1>4

\* The messages a call returns, and those a lost session takes with it.
LEMMA SeenSent ==
    ASSUME NEW h \in Handles
    PROVE  /\ UNCHANGED net => UNCHANGED AbstractSent
           /\ ReturnNothing => UNCHANGED AbstractSent
           /\ \A messages :
                Return(h, messages) => AbstractSent' = AbstractSent \cup ShownOf(messages)
           /\ LoseSession(h) => AbstractSent' \subseteq AbstractSent
<1>1. \A one, other : ShownOf(one \cup other) = ShownOf(one) \cup ShownOf(other)
  BY DEF ShownOf
<1>2. \A one, other : one \subseteq other => ShownOf(one) \subseteq ShownOf(other)
  BY DEF ShownOf
<1>3. UNCHANGED net => UNCHANGED AbstractSent
  BY DEF AbstractSent
<1>4. \A messages : Return(h, messages) => AbstractSent' = AbstractSent \cup ShownOf(messages)
  BY <1>1 DEF AbstractSent, Return
<1>5. LoseSession(h) => AbstractSent' \subseteq AbstractSent
  BY <1>2 DEF AbstractSent, LoseSession
<1> QED BY <1>3, <1>4, <1>5 DEF ReturnNothing
-----------------------------------------------------------------------------
(* The calls, one by one. *)

LEMMA CreateGroupStep ==
    ASSUME TypeInv, NEW h \in Handles, NEW g \in Groups, CreateGroup(h, g)
    PROVE  Lifecycles!Create(h, g)
<1> DEFINE group == NewGroup(backend[h].signer, fresh)
           b == Written(backend[h], g, group)
<1>1. backend[h].signer \in Clients /\ backend[h] \in Backends /\ fresh \in Nat
  BY Read DEF CreateGroup, HasSigner, TypeInv, FreshOK, SoundBackends
<1>2. group \in MlsGroups
  <2>1. 0 \in Leaves /\ {<<0, backend[h].signer>>} \in Trees
    BY <1>1, MaxLeafAssumption DEF Leaves, Trees
  <2> QED BY <1>1, <2>1, GroupMade DEF NewGroup
<1>3. /\ group.tip = fresh /\ group.epoch = 0 /\ group.own = 0
      /\ group.pending = NoCommit /\ group.active = TRUE
  BY DEF NewGroup, MemberAt
<1>4. /\ SetBackend(h, b) /\ UNCHANGED disk /\ ReturnNothing
      /\ fresh' = fresh + 1 /\ backend[h].groups[g] = NoGroup
  BY DEF CreateGroup, Mint, HasGroup
<1> HIDE DEF group
<1>5. /\ b.groups[g] = group /\ b.keys = backend[h].keys
      /\ \A k \in Groups \ {g} : b.groups[k] = backend[h].groups[k]
  BY <1>1, GroupsChanged
<1> HIDE DEF b
<1>6. /\ Lifecycles!SetCopy(h, g, Copied(group)) /\ UNCHANGED AbstractSaved
      /\ AbstractCopy[h][g] = Copied(NoGroup)
  BY <1>4, <1>5, SeenGroup DEF Mls
<1>7. UNCHANGED <<AbstractKeys, AbstractSent>>
  BY <1>4, <1>5, SeenKeys, SeenSent
<1>8. Copied(group) = Lifecycles!At(fresh, 0, 0, TRUE)
  BY <1>2, <1>3, CopiedStart
<1>9. AbstractCopy[h][g].kind # "held"
  BY <1>6 DEF Copied
<1> QED BY <1>4, <1>6, <1>7, <1>8, <1>9
        DEF Lifecycles!Create, Lifecycles!Held, AbstractCopy, AbstractKeys, AbstractSaved,
            AbstractSent

\* Welcomes that arrived are invitations sent; its key package is one of the handle's.
LEMMA WelcomeSeen ==
    ASSUME TypeInv, KeysInv, NEW h \in Handles, NEW m \in Arrived("welcome"),
           m.key \in backend[h].keys
    PROVE  /\ m.group \in Groups /\ m.key.owner \in Clients /\ m.leaf \in Leaves
           /\ m.id \in Nat /\ m.epoch \in Nat /\ m.tree \in Trees
           /\ Shown(m) \in Lifecycles!Invited(h)
           /\ Shown(m).group = m.group /\ Shown(m).id = m.id /\ Shown(m).epoch = m.epoch
           /\ Shown(m).leaf = m.leaf /\ Shown(m).key = m.key.id
           /\ Numbers(backend[h].keys \ {m.key}) = AbstractKeys[h] \ {Shown(m).key}
<1>1. m \in WelcomeMsgs /\ m \in net /\ m.kind = "welcome"
  BY ArrivedTypes DEF Arrived
<1>2. /\ m.group \in Groups /\ m.key.owner \in Clients /\ m.leaf \in Leaves
      /\ m.id \in Nat /\ m.epoch \in Nat /\ m.tree \in Trees
  BY <1>1 DEF WelcomeMsgs, KeyPackages
<1>3. /\ Shown(m).kind = "welcome"
      /\ Shown(m).group = m.group /\ Shown(m).id = m.id /\ Shown(m).epoch = m.epoch
      /\ Shown(m).leaf = m.leaf /\ Shown(m).key = m.key.id
  BY <1>1 DEF Shown
<1>4. Shown(m) \in AbstractSent
  BY <1>1 DEF AbstractSent, ShownOf
<1>5. AbstractKeys[h] = Numbers(backend[h].keys) /\ m.key.id \in Numbers(backend[h].keys)
  BY DEF AbstractKeys, Numbers
<1>6. Shown(m) \in Lifecycles!Invited(h)
  BY <1>3, <1>4, <1>5 DEF Lifecycles!Invited, AbstractKeys, AbstractSent
<1>7. Numbers(backend[h].keys \ {m.key}) = Numbers(backend[h].keys) \ {m.key.id}
  BY NumbersLess DEF KeysInv
<1> QED BY <1>2, <1>3, <1>5, <1>6, <1>7

LEMMA JoinStep ==
    ASSUME TypeInv, KeysInv, NEW h \in Handles, NEW m \in Arrived("welcome"),
           JoinFromWelcome(h, m)
    PROVE  Lifecycles!Join(h)
<1> DEFINE group == MemberAt(m.key.owner, m.leaf, m.id, m.epoch, m.tree)
           less == WithoutKey(backend[h], m.key)
           b == Written(less, m.group, group)
<1>1. m.key \in backend[h].keys /\ backend[h] \in Backends
  BY DEF JoinFromWelcome, TypeInv, BackendOK, SoundBackends
<1> DEFINE seen == Shown(m)
<1>1a. /\ m.group \in Groups /\ m.key.owner \in Clients /\ m.leaf \in Leaves
       /\ m.id \in Nat /\ m.epoch \in Nat /\ m.tree \in Trees
  BY <1>1, WelcomeSeen
<1>1b. /\ seen \in Lifecycles!Invited(h) /\ seen.group = m.group
       /\ seen.id = m.id /\ seen.epoch = m.epoch /\ seen.leaf = m.leaf
       /\ Numbers(backend[h].keys \ {m.key}) = AbstractKeys[h] \ {seen.key}
  BY <1>1, WelcomeSeen
<1> HIDE DEF seen
<1>2. group \in MlsGroups
  BY <1>1a, GroupMade
<1>3. /\ group.tip = m.id /\ group.epoch = m.epoch /\ group.own = m.leaf
      /\ group.pending = NoCommit /\ group.active = TRUE
  BY DEF MemberAt
<1>4. SetBackend(h, b) /\ UNCHANGED <<disk, fresh>> /\ ReturnNothing
  BY DEF JoinFromWelcome
<1>5. less \in Backends /\ less.groups = backend[h].groups /\ less.keys = backend[h].keys \ {m.key}
  BY <1>1, GroupsChanged, <1>1a
<1> HIDE DEF group, less
<1>6. /\ b.groups[m.group] = group /\ b.keys = backend[h].keys \ {m.key}
      /\ \A k \in Groups \ {m.group} : b.groups[k] = backend[h].groups[k]
  BY <1>1a, <1>5, GroupsChanged
<1> HIDE DEF b
<1>7. Lifecycles!SetCopy(h, m.group, Copied(group)) /\ UNCHANGED AbstractSaved
  BY <1>1a, <1>4, <1>6, SeenGroup
<1>8. Copied(group) = Lifecycles!At(seen.id, seen.epoch, seen.leaf, TRUE)
  BY <1>1b, <1>2, <1>3, CopiedStart
<1>9. AbstractKeys' = [AbstractKeys EXCEPT ![h] = @ \ {seen.key}]
  BY <1>1b, <1>4, <1>6, SeenKeys
<1>10. UNCHANGED AbstractSent
  BY <1>4, SeenSent
<1>11. Lifecycles!Use(h, seen)
  BY <1>9 DEF Lifecycles!Use, AbstractKeys
<1>12. /\ seen \in Lifecycles!Invited(h)
       /\ Lifecycles!SetCopy(h, seen.group,
                             Lifecycles!At(seen.id, seen.epoch, seen.leaf, TRUE))
  BY <1>1b, <1>7, <1>8
<1> QED BY <1>4, <1>7, <1>10, <1>11, <1>12 DEF Lifecycles!Join, AbstractSaved, AbstractSent

LEMMA RefuseStep ==
    ASSUME TypeInv, KeysInv, NEW h \in Handles, NEW m \in Arrived("welcome"), JoinRefused(h, m)
    PROVE  Lifecycles!Refuse(h)
<1> DEFINE b == WithoutKey(backend[h], m.key)
<1>1. m.key \in backend[h].keys /\ backend[h] \in Backends
  BY DEF JoinRefused, TypeInv, BackendOK, SoundBackends
<1>2. SetBackend(h, b) /\ UNCHANGED <<disk, fresh>> /\ ReturnNothing
  BY DEF JoinRefused
<1>3. b.groups = backend[h].groups /\ b.keys = backend[h].keys \ {m.key}
  BY <1>1, WelcomeSeen, GroupsChanged
<1> HIDE DEF b
<1>4. UNCHANGED <<AbstractCopy, AbstractSaved>>
  BY <1>2, <1>3, SeenHandle
<1>5. AbstractKeys' = [AbstractKeys EXCEPT ![h] = @ \ {Shown(m).key}]
  BY <1>1, <1>2, <1>3, SeenKeys, WelcomeSeen
<1>6. UNCHANGED AbstractSent
  BY <1>2, SeenSent
<1>7. Lifecycles!Use(h, Shown(m)) /\ Shown(m) \in Lifecycles!Invited(h)
  BY <1>1, <1>5, WelcomeSeen DEF Lifecycles!Use, AbstractKeys
<1> QED BY <1>2, <1>4, <1>6, <1>7 DEF Lifecycles!Refuse, AbstractCopy, AbstractSaved, AbstractSent

\* A commit staged: no other is pending, and the client is a member.
LEMMA StageStep ==
    ASSUME TypeInv, NEW h \in Handles, NEW g \in Groups, HasGroup(backend[h], g),
           Operational(Mls(h, g)), NEW tree \in Trees, NEW rg, NEW welcomes,
           StageCommit(h, g, rg, tree, welcomes),
           \/ ShownOf(welcomes) = {}
           \/ \E key \in 0 .. fresh - 1, leaf \in Leaves :
                ShownOf(welcomes) = {Lifecycles!Invitation(g, key, fresh, Mls(h, g).epoch + 1, leaf)}
    PROVE  Lifecycles!Stage(h, g)
<1> DEFINE b == WithStaged(backend[h], g, fresh, tree)
           commit == CommitMsg(g, Mls(h, g), tree)
<1>1. /\ SetBackend(h, b) /\ UNCHANGED disk /\ fresh' = fresh + 1
      /\ Return(h, {commit} \cup welcomes)
  BY DEF StageCommit, Mint
<1>2. Mls(h, g) \in MlsGroups /\ backend[h] \in Backends /\ fresh \in Nat
  BY Read DEF TypeInv, FreshOK, SoundBackends
<1>3. /\ b.groups[g] = Staged(Mls(h, g), fresh, tree) /\ b.keys = backend[h].keys
      /\ \A k \in Groups \ {g} : b.groups[k] = backend[h].groups[k]
  BY <1>2, GroupsChanged DEF Mls
<1> HIDE DEF b
<1>4. /\ Lifecycles!SetCopy(h, g, Copied(Staged(Mls(h, g), fresh, tree)))
      /\ UNCHANGED AbstractSaved
      /\ AbstractCopy[h][g] = Copied(Mls(h, g))
  BY <1>1, <1>3, SeenGroup
<1>5. UNCHANGED AbstractKeys
  BY <1>1, <1>3, SeenKeys
<1>6. Copied(Staged(Mls(h, g), fresh, tree)) = [AbstractCopy[h][g] EXCEPT !.pending = {fresh}]
  <2>1. Copied(Staged(Mls(h, g), fresh, tree)) = [Copied(Mls(h, g)) EXCEPT !.pending = {fresh}]
    BY <1>2, CopiedStaged
  <2> QED BY <1>4, <2>1
<1>7. /\ AbstractCopy[h][g].kind = "held" /\ AbstractCopy[h][g].active
      /\ AbstractCopy[h][g].pending = {}
      /\ AbstractCopy[h][g].tip = Mls(h, g).tip /\ AbstractCopy[h][g].leaf = Mls(h, g).own
      /\ AbstractCopy[h][g].epoch = Mls(h, g).epoch
  BY <1>2, <1>4, CopiedGroup DEF Operational
<1>8. ShownOf({commit}) =
        {Lifecycles!Commit(g, AbstractCopy[h][g].tip, fresh, AbstractCopy[h][g].leaf)}
  <2>1. commit.kind = "commit"
        /\ Shown(commit) =
             Lifecycles!Commit(g, AbstractCopy[h][g].tip, fresh, AbstractCopy[h][g].leaf)
    BY <1>7 DEF CommitMsg, Shown, Lifecycles!Commit
  <2> HIDE DEF commit
  <2> QED BY <2>1 DEF ShownOf
<1>9. ShownOf({commit} \cup welcomes) = ShownOf({commit}) \cup ShownOf(welcomes)
  BY DEF ShownOf
<1>10. AbstractSent' = (AbstractSent \cup ShownOf({commit})) \cup ShownOf(welcomes)
  BY <1>1, <1>9, SeenSent
<1> DEFINE committed ==
      AbstractSent
        \cup {Lifecycles!Commit(g, AbstractCopy[h][g].tip, fresh, AbstractCopy[h][g].leaf)}
<1>11. \/ AbstractSent' = committed
       \/ \E key \in 0 .. fresh - 1, leaf \in Leaves :
            AbstractSent' = committed \cup
              {Lifecycles!Invitation(g, key, fresh, AbstractCopy[h][g].epoch + 1, leaf)}
  BY <1>7, <1>8, <1>10
<1>12. Lifecycles!SetCopy(h, g, [AbstractCopy[h][g] EXCEPT !.pending = {fresh}])
  BY <1>4, <1>6
<1> QED BY <1>1, <1>4, <1>5, <1>7, <1>11, <1>12
        DEF Lifecycles!Stage, Lifecycles!Held, AbstractCopy, AbstractKeys, AbstractSaved,
            AbstractSent

LEMMA InviteStep ==
    ASSUME TypeInv, KeysInv, NEW h \in Handles, NEW g \in Groups, NEW key \in PublishedKeys,
           Invite(h, g, key)
    PROVE  Lifecycles!Stage(h, g)
<1> DEFINE Welcome(leaf, tree) ==
             [kind |-> "welcome", group |-> g, key |-> key, id |-> fresh,
              epoch |-> Mls(h, g).epoch + 1, leaf |-> leaf, tree |-> tree]
<1>1. /\ HasGroup(backend[h], g) /\ Mls(h, g) \in MlsGroups /\ Operational(Mls(h, g))
      /\ Mls(h, g).tree \in Trees
  BY Read DEF Invite, CanAdd, MlsGroups
<1>2. key \in KeyPackages /\ key.owner \in Clients /\ key.id \in Nat
  BY ArrivedTypes DEF KeyPackages
<1>3. key.id \in 0 .. fresh - 1
  <2>1. key.id < fresh /\ fresh \in Nat
    BY DEF PublishedKeys, Arrived, KeysInv, TypeInv, FreshOK
  <2> QED BY <1>2, <2>1
<1>4. PICK leaf \in Leaves : \E rg :
        StageCommit(h, g, rg, WithLeaf(Mls(h, g).tree, leaf, key.owner),
                    {Welcome(leaf, WithLeaf(Mls(h, g).tree, leaf, key.owner))})
  BY DEF Invite
<1> DEFINE tree == WithLeaf(Mls(h, g).tree, leaf, key.owner)
<1>5. tree \in Trees
  BY <1>1, <1>2, <1>4, TreeOps
<1>6. ShownOf({Welcome(leaf, tree)}) =
        {Lifecycles!Invitation(g, key.id, fresh, Mls(h, g).epoch + 1, leaf)}
  <2>1. Welcome(leaf, tree).kind = "welcome"
        /\ Shown(Welcome(leaf, tree)) =
             Lifecycles!Invitation(g, key.id, fresh, Mls(h, g).epoch + 1, leaf)
    BY DEF Shown, Lifecycles!Invitation
  <2> HIDE DEF Welcome
  <2> QED BY <2>1 DEF ShownOf
<1> HIDE DEF tree, Welcome
<1>7. \E rg : StageCommit(h, g, rg, tree, {Welcome(leaf, tree)})
  BY <1>4 DEF tree
<1> QED BY <1>1, <1>3, <1>4, <1>5, <1>6, <1>7, StageStep

LEMMA RemoveStep ==
    ASSUME TypeInv, NEW h \in Handles, NEW g \in Groups,
           \/ \E client \in Clients : Remove(h, g, client)
           \/ SelfUpdate(h, g)
    PROVE  Lifecycles!Stage(h, g)
<1>1. HasGroup(backend[h], g) /\ Mls(h, g) \in MlsGroups
  BY Read DEF Remove, SelfUpdate
<1>2. Mls(h, g).tree \in Trees
  BY <1>1 DEF MlsGroups
<1>3. Operational(Mls(h, g))
  BY DEF Remove, SelfUpdate, CanRemove
<1>4. ShownOf({}) = {}
  BY DEF ShownOf
<1>5. \E tree \in Trees : \E rg : StageCommit(h, g, rg, tree, {})
  <2>1. ASSUME NEW client \in Clients, Remove(h, g, client)
        PROVE  \E tree \in Trees : \E rg : StageCommit(h, g, rg, tree, {})
    <3>1. PICK entry \in Runtime(h, g).memberMap : \E rg :
            StageCommit(h, g, rg, WithoutLeaf(Mls(h, g).tree, entry[1]), {})
      BY <2>1 DEF Remove
    <3>2. WithoutLeaf(Mls(h, g).tree, entry[1]) \in Trees
      BY <1>2 DEF WithoutLeaf, Trees
    <3> QED BY <3>1, <3>2
  <2>2. CASE SelfUpdate(h, g)
    BY <1>2, <2>2 DEF SelfUpdate
  <2> QED BY <2>1, <2>2
<1> QED BY <1>1, <1>3, <1>4, <1>5, StageStep

\* The own commit merged, or nothing when none is pending.
LEMMA MergeStep ==
    ASSUME TypeInv, NEW h \in Handles, NEW g \in Groups, MergePendingCommit(h, g)
    PROVE  Lifecycles!Merge(h, g) \/ Unseen
<1> DEFINE group == Mls(h, g)
           b == WithMerged(backend[h], g)
<1>1. group \in MlsGroups /\ backend[h] \in Backends
  BY Read DEF MergePendingCommit, TypeInv, BackendOK, SoundBackends
<1>2. SetBackend(h, b) /\ UNCHANGED <<disk, fresh>> /\ ReturnNothing
  BY DEF MergePendingCommit
<1>3. /\ b.groups[g] = MergedOwn(group) /\ b.keys = backend[h].keys
      /\ \A k \in Groups \ {g} : b.groups[k] = backend[h].groups[k]
  BY <1>1, GroupsChanged DEF Mls
<1> HIDE DEF b
<1>4. /\ Lifecycles!SetCopy(h, g, Copied(MergedOwn(group)))
      /\ UNCHANGED AbstractSaved
      /\ Copied(MergedOwn(group)) = Copied(Mls(h, g)) => UNCHANGED AbstractCopy
      /\ AbstractCopy[h][g] = Copied(Mls(h, g))
  BY <1>2, <1>3, SeenGroup
<1>5. UNCHANGED <<AbstractKeys, AbstractSent>>
  BY <1>2, <1>3, SeenKeys, SeenSent
<1>6. CASE group.pending = NoCommit
  BY <1>1, <1>2, <1>4, <1>5, <1>6, CopiedMergedOwn DEF Unseen
<1>7. CASE group.pending # NoCommit
  <2>1. Copied(MergedOwn(group)) =
          Lifecycles!At(group.pending.id, group.epoch + 1, group.own, TRUE)
    BY <1>1, <1>7, CopiedMergedOwn
  <2>2. /\ AbstractCopy[h][g].kind = "held" /\ AbstractCopy[h][g].epoch = group.epoch
        /\ AbstractCopy[h][g].leaf = group.own
        /\ AbstractCopy[h][g].pending = {group.pending.id}
    BY <1>1, <1>4, <1>7, CopiedGroup
  <2>3. Lifecycles!SetCopy(h, g, Lifecycles!At(group.pending.id, AbstractCopy[h][g].epoch + 1,
                                               AbstractCopy[h][g].leaf, TRUE))
    BY <1>4, <2>1, <2>2
  <2>4. Lifecycles!Merge(h, g)
    BY <1>2, <1>4, <1>5, <2>2, <2>3
       DEF Lifecycles!Merge, Lifecycles!Held, AbstractCopy, AbstractKeys, AbstractSaved,
           AbstractSent
  <2> QED BY <2>4
<1> QED BY <1>6, <1>7

\* A commit handled is one sent, on the epoch of the copy, by the member at another leaf.
LEMMA AdvanceStep ==
    ASSUME TypeInv, NEW h \in Handles, NEW m \in Arrived("commit"), HandleCommit(h, m)
    PROVE  Lifecycles!Advance(h, m.group)
<1> DEFINE group == Mls(h, m.group)
           next == MergedIncoming(group, m.id, m.tree)
           b == Written(backend[h], m.group, next)
<1>1. m \in CommitMsgs /\ m \in net /\ m.kind = "commit"
  BY ArrivedTypes DEF Arrived
<1>2. m.group \in Groups /\ m.id \in Nat /\ m.tree \in Trees
  BY <1>1 DEF CommitMsgs
<1>3. group \in MlsGroups /\ backend[h] \in Backends
  BY <1>2, Read DEF HandleCommit, CanProcess, TypeInv, BackendOK, SoundBackends
<1>4. /\ SetBackend(h, b) /\ UNCHANGED <<disk, fresh>> /\ ReturnNothing
      /\ group.active /\ group.tip = m.on /\ group.own # m.leaf
  BY DEF HandleCommit, CanProcess
<1>5. PICK here \in BOOLEAN :
        Copied(next) = Lifecycles!At(m.id, group.epoch + 1, group.own, here)
  BY <1>2, <1>3, CopiedMergedIncoming
<1>6. /\ b.groups[m.group] = next /\ b.keys = backend[h].keys
      /\ \A k \in Groups \ {m.group} : b.groups[k] = backend[h].groups[k]
  BY <1>2, <1>3, GroupsChanged
<1> HIDE DEF b, next
<1>7. /\ Lifecycles!SetCopy(h, m.group, Copied(next))
      /\ UNCHANGED AbstractSaved
      /\ AbstractCopy[h][m.group] = Copied(group)
  BY <1>2, <1>4, <1>6, SeenGroup
<1>8. UNCHANGED <<AbstractKeys, AbstractSent>>
  BY <1>4, <1>6, SeenKeys, SeenSent
<1>9. /\ AbstractCopy[h][m.group].kind = "held" /\ AbstractCopy[h][m.group].active
      /\ AbstractCopy[h][m.group].tip = m.on /\ AbstractCopy[h][m.group].leaf = group.own
      /\ AbstractCopy[h][m.group].epoch = group.epoch
  BY <1>3, <1>4, <1>7, CopiedGroup
<1>10. /\ Shown(m) \in AbstractSent /\ Shown(m).kind = "commit" /\ Shown(m).group = m.group
       /\ Shown(m).on = AbstractCopy[h][m.group].tip
       /\ Shown(m).leaf # AbstractCopy[h][m.group].leaf /\ Shown(m).id = m.id
  BY <1>1, <1>4, <1>9 DEF Shown, ShownOf, AbstractSent
<1>11. Lifecycles!SetCopy(h, m.group,
                          Lifecycles!At(Shown(m).id, AbstractCopy[h][m.group].epoch + 1,
                                        AbstractCopy[h][m.group].leaf, here))
  BY <1>5, <1>7, <1>9, <1>10
<1> QED BY <1>4, <1>7, <1>8, <1>9, <1>10, <1>11
        DEF Lifecycles!Advance, Lifecycles!Held, AbstractCopy, AbstractKeys, AbstractSaved,
            AbstractSent

LEMMA DiscardStep ==
    ASSUME TypeInv, NEW h \in Handles, NEW g \in Groups, ClearPendingCommit(h, g)
    PROVE  Lifecycles!Discard(h, g)
<1> DEFINE group == Mls(h, g)
           b == WithCleared(backend[h], g)
<1>1. group \in MlsGroups /\ backend[h] \in Backends
  BY Read DEF ClearPendingCommit, TypeInv, BackendOK, SoundBackends
<1>2. SetBackend(h, b) /\ UNCHANGED <<disk, fresh>> /\ ReturnNothing
  BY DEF ClearPendingCommit
<1>3. /\ b.groups[g] = Cleared(group) /\ b.keys = backend[h].keys
      /\ \A k \in Groups \ {g} : b.groups[k] = backend[h].groups[k]
  BY <1>1, GroupsChanged DEF Mls
<1> HIDE DEF b
<1>4. /\ Lifecycles!SetCopy(h, g, Copied(Cleared(group)))
      /\ UNCHANGED AbstractSaved
      /\ AbstractCopy[h][g] = Copied(group)
  BY <1>2, <1>3, SeenGroup
<1>5. UNCHANGED <<AbstractKeys, AbstractSent>>
  BY <1>2, <1>3, SeenKeys, SeenSent
<1>6. Copied(Cleared(group)) = [Copied(group) EXCEPT !.pending = {}]
  BY <1>1, CopiedCleared
<1>7. Lifecycles!SetCopy(h, g, [AbstractCopy[h][g] EXCEPT !.pending = {}])
  BY <1>4, <1>6
<1>8. AbstractCopy[h][g].kind = "held"
  BY <1>1, <1>4, CopiedGroup
<1> QED BY <1>2, <1>4, <1>5, <1>7, <1>8
        DEF Lifecycles!Discard, Lifecycles!Held, AbstractCopy, AbstractKeys, AbstractSaved,
            AbstractSent

LEMMA LeaveStep ==
    ASSUME TypeInv, NEW h \in Handles, NEW g \in Groups, DropGroup(h, g)
    PROVE  Lifecycles!Leave(h, g)
<1> DEFINE b == Dropped(backend[h], g)
<1>1. SetBackend(h, b) /\ UNCHANGED <<disk, fresh>> /\ ReturnNothing
  BY DEF DropGroup
<1>2. backend[h] \in Backends
  BY DEF TypeInv, BackendOK, SoundBackends
<1>3. /\ b.groups[g] = NoGroup /\ b.keys = backend[h].keys
      /\ \A k \in Groups \ {g} : b.groups[k] = backend[h].groups[k]
  BY <1>2, GroupsChanged
<1> HIDE DEF b
<1>4. Lifecycles!SetCopy(h, g, Copied(NoGroup)) /\ UNCHANGED AbstractSaved
  BY <1>1, <1>3, SeenGroup
<1>5. UNCHANGED <<AbstractKeys, AbstractSent>>
  BY <1>1, <1>3, SeenKeys, SeenSent
<1>6. Copied(NoGroup) = Lifecycles!Absent
  BY DEF Copied, Lifecycles!Absent
<1> QED BY <1>1, <1>4, <1>5, <1>6
        DEF Lifecycles!Leave, AbstractKeys, AbstractSaved, AbstractSent

\* The calls that begin a session without groups or key packages.
LEMMA ResetSteps ==
    ASSUME TypeInv, NEW h \in Handles,
           \/ \E client \in Accounts[h] : CreateClient(h, client)
           \/ CreateClientBadKey(h)
           \/ NewHandle(h)
           \/ RestoreWithoutDump(h)
    PROVE  Lifecycles!Reset(h)
<1>1. \A b : b = ResetBackend \/ (\E client : b = ConfiguredBackend(client))
               => b.groups = NoGroups /\ b.keys = {}
  BY DEF ResetBackend, ConfiguredBackend
<1>2. PICK b : /\ SetBackend(h, b) /\ b.groups = NoGroups /\ b.keys = {}
               /\ UNCHANGED <<disk, fresh>> /\ (ReturnNothing \/ LoseSession(h))
  <2>1. CASE \E client \in Accounts[h] : CreateClient(h, client)
    BY <1>1, <2>1 DEF CreateClient
  <2>2. CASE CreateClientBadKey(h) \/ NewHandle(h)
    BY <1>1, <2>2 DEF CreateClientBadKey, NewHandle
  <2>3. CASE RestoreWithoutDump(h)
    BY <1>1, <2>3 DEF RestoreWithoutDump, Reconfigured
  <2> QED BY <2>1, <2>2, <2>3
<1>3. Copies(NoGroups) = Lifecycles!Empty
  BY DEF Copies, NoGroups, Copied, Lifecycles!Empty, Lifecycles!Absent
<1>4. /\ AbstractCopy' = [AbstractCopy EXCEPT ![h] = Copies(b.groups)]
      /\ UNCHANGED AbstractSaved
  BY <1>2, SeenHandle
<1>5. AbstractKeys' = [AbstractKeys EXCEPT ![h] = {}]
  BY <1>2, SeenKeys DEF Numbers
<1>6. AbstractSent' \subseteq AbstractSent
  BY <1>2, SeenSent
<1>7. Lifecycles!Lose
  BY <1>2, <1>4, <1>6 DEF Lifecycles!Lose, AbstractSaved, AbstractSent
<1> QED BY <1>2, <1>3, <1>4, <1>5, <1>7 DEF Lifecycles!Reset, AbstractCopy, AbstractKeys

\* What is restored is what the blob loads into.
LEMMA RestoreStep ==
    ASSUME TypeInv, NEW h \in Handles, RestoreClient(h)
    PROVE  Lifecycles!Restore(h)
<1> DEFINE b == Loaded(Saved(h).identity, disk[h].dump, SavedGroups(h))
<1>1. /\ disk[h] # NoSnap /\ SetBackend(h, b) /\ UNCHANGED <<disk, fresh>>
      /\ LoseSession(h)
  BY DEF RestoreClient
<1>2. /\ AbstractSaved[h].there = TRUE
      /\ AbstractSaved[h].copies = Copies(b.groups)
      /\ AbstractSaved[h].keys = Numbers(b.keys)
  <2>1. b.keys = disk[h].dump.keys
    BY DEF Loaded
  <2> QED BY <1>1, <2>1 DEF AbstractSaved, SavedCopies, SavedGroups, Saved
<1> HIDE DEF b
<1>3. /\ AbstractCopy' = [AbstractCopy EXCEPT ![h] = AbstractSaved[h].copies]
      /\ UNCHANGED AbstractSaved
  BY <1>1, <1>2, SeenHandle
<1>4. AbstractKeys' = [AbstractKeys EXCEPT ![h] = AbstractSaved[h].keys]
  BY <1>1, <1>2, SeenKeys
<1>5. Lifecycles!Lose
  BY <1>1, <1>3, SeenSent DEF Lifecycles!Lose, AbstractSaved, AbstractSent
<1> QED BY <1>2, <1>3, <1>4, <1>5
        DEF Lifecycles!Restore, AbstractCopy, AbstractKeys, AbstractSaved

\* Layers in step export, under the ids the runtime lists, the groups in memory.
LEMMA ExportSeen ==
    ASSUME NEW s \in RuntimeStates, NEW b \in Backends, InStep(s, b)
    PROVE  Copies(Loaded(s.identity, Dump(b), KnownGroups(s)).groups) = Copies(b.groups)
<1> DEFINE loaded == Loaded(s.identity, Dump(b), KnownGroups(s))
<1>1. loaded.groups = [g \in Groups |-> IF Known(s, g) THEN b.stored[g] ELSE NoGroup]
  BY DEF Loaded, Dump, KnownGroups
<1> HIDE DEF loaded
<1>2. ASSUME NEW g \in Groups PROVE Copied(loaded.groups[g]) = Copied(b.groups[g])
  <2>1. GroupInStep(s.groups[g], b.groups[g], b.stored[g])
    BY DEF InStep
  <2>2. CASE Known(s, g)
    <3>1. b.groups[g] # NoGroup /\ b.stored[g] # NoGroup
      BY <2>1, <2>2 DEF GroupInStep, Known
    <3>2. b.groups[g] \in MlsGroups /\ b.stored[g] \in MlsGroups
      BY <3>1 DEF Backends, MaybeMlsGroups
    <3>3. [b.stored[g] EXCEPT !.seen = {}] = [b.groups[g] EXCEPT !.seen = {}]
      BY <2>1, <3>1 DEF GroupInStep
    <3>4. /\ b.stored[g].tip = b.groups[g].tip /\ b.stored[g].epoch = b.groups[g].epoch
          /\ b.stored[g].own = b.groups[g].own /\ b.stored[g].active = b.groups[g].active
          /\ b.stored[g].pending = b.groups[g].pending
      BY <3>2, <3>3, Mirrored
    <3>5. Copied(b.stored[g]) = Copied(b.groups[g])
      BY <3>2, <3>4, CopiedSame
    <3> QED BY <1>1, <2>2, <3>5
  <2>3. CASE ~ Known(s, g)
    BY <1>1, <2>1, <2>3 DEF GroupInStep, Known
  <2> QED BY <2>2, <2>3
<1> QED BY <1>2 DEF Copies, loaded

LEMMA ExportStep ==
    ASSUME TypeInv, LayersInv, NEW h \in Handles, ExportClientState(h)
    PROVE  Lifecycles!Export(h)
<1>1. state[h] \in RuntimeStates /\ backend[h] \in Backends /\ InStep(state[h], backend[h])
  BY DEF TypeInv, StateOK, BackendOK, SoundBackends, LayersInv
<1>2. /\ disk' = [disk EXCEPT ![h] = Exported(state[h], backend[h])]
      /\ UNCHANGED <<backend, net, fresh>>
  BY DEF ExportClientState
<1> DEFINE blob == Exported(state[h], backend[h])
<1>3. blob # NoSnap /\ blob.runtime = state[h] /\ blob.dump = Dump(backend[h])
      /\ blob.dump.keys = backend[h].keys
  BY <1>1, NoSnapAssumption DEF Exported, Snapshots, Dump, Dumps, Backends
<1>4. SavedCopies(blob) = Lifecycles!Blob(Copies(backend[h].groups), Numbers(backend[h].keys))
  <2> HIDE DEF blob
  <2> QED BY <1>1, <1>3, ExportSeen DEF SavedCopies, Lifecycles!Blob
<1>5. AbstractSaved' = [AbstractSaved EXCEPT ![h] = SavedCopies(blob)]
  BY <1>2 DEF AbstractSaved, TypeInv, DiskOK
<1>6. /\ UNCHANGED <<AbstractCopy, AbstractKeys, AbstractSent>>
      /\ AbstractCopy[h] = Copies(backend[h].groups)
      /\ AbstractKeys[h] = Numbers(backend[h].keys)
  BY <1>2 DEF AbstractCopy, AbstractKeys, AbstractSent
<1>7. AbstractSaved' = [AbstractSaved EXCEPT ![h] = Lifecycles!Blob(AbstractCopy[h], AbstractKeys[h])]
  BY <1>4, <1>5, <1>6
<1> QED BY <1>2, <1>6, <1>7
        DEF Lifecycles!Export, AbstractCopy, AbstractKeys, AbstractSaved, AbstractSent

LEMMA EnrolStep ==
    ASSUME TypeInv, NEW h \in Handles, NEW count \in 1 .. 2, CreateKeyPackages(h, count)
    PROVE  Lifecycles!Enrol(h)
<1> DEFINE made == {[id |-> n, owner |-> backend[h].signer] : n \in fresh .. fresh + count - 1}
           b == WithKeys(backend[h], made)
           packages == {[kind |-> "keypackage", key |-> key] : key \in made}
<1>1. /\ SetBackend(h, b) /\ UNCHANGED disk /\ fresh' = fresh + count
      /\ Return(h, packages)
  BY DEF CreateKeyPackages, Mint
<1>2. backend[h] \in Backends /\ fresh \in Nat
  BY DEF TypeInv, BackendOK, SoundBackends, FreshOK
<1>3. b.groups = backend[h].groups /\ b.keys = backend[h].keys \cup made
  BY <1>2 DEF WithKeys, Backends
<1>4. Numbers(made) = fresh .. fresh' - 1
  <2>1. fresh' - 1 = fresh + count - 1
    BY <1>1, <1>2
  <2>2. ASSUME NEW n \in fresh .. fresh + count - 1 PROVE n \in Numbers(made)
    <3>1. [id |-> n, owner |-> backend[h].signer] \in made
      OBVIOUS
    <3> HIDE DEF made
    <3> QED BY <3>1 DEF Numbers
  <2>3. ASSUME NEW n \in Numbers(made) PROVE n \in fresh .. fresh + count - 1
    BY <2>3 DEF Numbers
  <2> QED BY <2>1, <2>2, <2>3
<1>5. ShownOf(packages) = {}
  BY DEF ShownOf
<1> HIDE DEF made, b, packages
<1>6. Numbers(b.keys) = Numbers(backend[h].keys) \cup (fresh .. fresh' - 1)
  BY <1>3, <1>4 DEF Numbers
<1>7. UNCHANGED <<AbstractCopy, AbstractSaved>>
  BY <1>1, <1>3, SeenHandle
<1>8. AbstractKeys' = [AbstractKeys EXCEPT ![h] = @ \cup (fresh .. fresh' - 1)]
  BY <1>1, <1>6, SeenKeys
<1>9. UNCHANGED AbstractSent
  BY <1>1, <1>5, SeenSent
<1>10. fresh' \in {fresh + 1, fresh + 2}
  BY <1>1
<1> QED BY <1>7, <1>8, <1>9, <1>10
        DEF Lifecycles!Enrol, AbstractCopy, AbstractKeys, AbstractSaved, AbstractSent

LEMMA TalkStep ==
    ASSUME TypeInv, NEW h \in Handles, NEW g \in Groups, EncryptMessage(h, g)
    PROVE  Lifecycles!Talk
<1> DEFINE b == Written(backend[h], g, Sent(Mls(h, g)))
           message == [kind |-> "application", group |-> g, on |-> Mls(h, g).tip,
                       id |-> fresh, leaf |-> Mls(h, g).own, gen |-> Mls(h, g).gen]
<1>1. SetBackend(h, b) /\ UNCHANGED disk /\ fresh' = fresh + 1 /\ Return(h, {message})
  BY DEF EncryptMessage, Mint
<1>2. Mls(h, g) \in MlsGroups /\ backend[h] \in Backends
  BY Read DEF EncryptMessage, TypeInv, BackendOK, SoundBackends
<1>3. /\ b.groups[g] = Sent(Mls(h, g)) /\ b.keys = backend[h].keys
      /\ \A k \in Groups \ {g} : b.groups[k] = backend[h].groups[k]
  BY <1>2, GroupsChanged
<1>4. ShownOf({message}) = {}
  BY DEF ShownOf
<1> HIDE DEF b, message
<1>5. Copied(b.groups[g]) = Copied(Mls(h, g))
  BY <1>2, <1>3, CopiedSent
<1>6. UNCHANGED <<AbstractCopy, AbstractSaved>>
  BY <1>1, <1>3, <1>5, SeenGroup
<1>7. UNCHANGED <<AbstractKeys, AbstractSent>>
  BY <1>1, <1>3, <1>4, SeenKeys, SeenSent
<1> QED BY <1>1, <1>6, <1>7
        DEF Lifecycles!Talk, AbstractCopy, AbstractKeys, AbstractSaved, AbstractSent

\* The calls of which nothing is seen.
LEMMA UnseenSteps ==
    ASSUME TypeInv, NEW h \in Handles,
           \/ \E bundle \in SUBSET PublishedKeys : MarkKeyPackagesUploaded(h, bundle)
           \/ \E m \in Arrived("application") : HandleApplication(h, m)
    PROVE  Unseen
<1>1. CASE \E bundle \in SUBSET PublishedKeys : MarkKeyPackagesUploaded(h, bundle)
  BY <1>1 DEF MarkKeyPackagesUploaded, ReturnNothing, Unseen, AbstractCopy, AbstractKeys,
              AbstractSaved, AbstractSent
<1>2. CASE \E m \in Arrived("application") : HandleApplication(h, m)
  <2>1. PICK m \in Arrived("application") : HandleApplication(h, m)
    BY <1>2
  <2>2. m.group \in Groups /\ m.leaf \in Leaves /\ m.gen \in Nat
    BY ArrivedTypes DEF ApplicationMsgs
  <2>3. Mls(h, m.group) \in MlsGroups /\ backend[h] \in Backends
    BY <2>1, <2>2, Read DEF HandleApplication, CanProcess, TypeInv, BackendOK, SoundBackends
  <2>4. PICK kept \in BOOLEAN :
          SetBackend(h, WithConsumed(backend[h], m.group, m.leaf, m.gen, kept))
    BY <2>1 DEF HandleApplication
  <2>5. UNCHANGED <<disk, fresh>> /\ ReturnNothing
    BY <2>1 DEF HandleApplication
  <2> DEFINE b == WithConsumed(backend[h], m.group, m.leaf, m.gen, kept)
  <2>6. /\ b.groups[m.group] = Consumed(Mls(h, m.group), m.leaf, m.gen)
        /\ b.keys = backend[h].keys
        /\ \A k \in Groups \ {m.group} : b.groups[k] = backend[h].groups[k]
    BY <2>2, <2>3, GroupsChanged DEF Mls
  <2>7. Copied(Consumed(Mls(h, m.group), m.leaf, m.gen)) = Copied(Mls(h, m.group))
    BY <2>2, <2>3, CopiedConsumed
  <2>8. SetBackend(h, b)
    BY <2>4
  <2> HIDE DEF b
  <2>9. UNCHANGED <<AbstractCopy, AbstractSaved>>
    BY <2>2, <2>5, <2>6, <2>7, <2>8, SeenGroup
  <2>10. UNCHANGED <<AbstractKeys, AbstractSent>>
    BY <2>5, <2>6, <2>8, SeenKeys, SeenSent
  <2> QED BY <2>5, <2>9, <2>10 DEF Unseen
<1> QED BY <1>1, <1>2
-----------------------------------------------------------------------------
(* The refinement. *)

LEMMA InitLifecycle == Init => Lifecycles!Init /\ KeysInv
<1> SUFFICES ASSUME Init PROVE Lifecycles!Init /\ KeysInv
  OBVIOUS
<1>1. AbstractCopy = [h \in Handles |-> Lifecycles!Empty]
  BY DEF AbstractCopy, Init, ResetBackend, Copies, NoGroups, Copied,
         Lifecycles!Empty, Lifecycles!Absent
<1>2. AbstractSaved = [h \in Handles |-> Lifecycles!Nothing]
  BY DEF AbstractSaved, Init, SavedCopies, Lifecycles!Nothing
<1>3. AbstractKeys = [h \in Handles |-> {}] /\ AbstractSent = {}
  BY DEF AbstractKeys, AbstractSent, Init, ResetBackend, Numbers, ShownOf
<1>4. fresh \in Nat /\ AbstractKeys \in [Handles -> SUBSET (0 .. fresh - 1)]
  BY <1>3 DEF Init
<1>5. KeysInv
  BY DEF Init, KeysInv, Numbered, ResetBackend
<1> QED BY <1>1, <1>2, <1>3, <1>4, <1>5
        DEF Lifecycles!Init, AbstractCopy, AbstractKeys, AbstractSaved, AbstractSent

LEMMA CleanStepLifecycle ==
    ASSUME TypeInv, LayersInv, KeysInv, NEW h \in Handles, CleanStep(h)
    PROVE  Lifecycles!Next \/ Unseen
<1>1. ASSUME NEW g \in Groups,
             \/ Lifecycles!Create(h, g) \/ Lifecycles!Stage(h, g) \/ Lifecycles!Merge(h, g)
             \/ Lifecycles!Advance(h, g) \/ Lifecycles!Discard(h, g) \/ Lifecycles!Leave(h, g)
      PROVE  Lifecycles!Next
  BY <1>1 DEF Lifecycles!Next
<1>2. ASSUME \/ Lifecycles!Enrol(h) \/ Lifecycles!Join(h) \/ Lifecycles!Refuse(h)
             \/ Lifecycles!Reset(h) \/ Lifecycles!Restore(h) \/ Lifecycles!Export(h)
      PROVE  Lifecycles!Next
  BY <1>2 DEF Lifecycles!Next
<1>3. ASSUME Lifecycles!Talk PROVE Lifecycles!Next
  BY <1>3 DEF Lifecycles!Next
<1>4. CASE Setup(h)
  BY <1>2, <1>4, ResetSteps, EnrolStep, UnseenSteps DEF Setup
<1>5. CASE Lifecycle(h)
  <2>1. ASSUME NEW g \in Groups, CreateGroup(h, g) PROVE Lifecycles!Next
    BY <1>1, <2>1, CreateGroupStep
  <2>2. ASSUME NEW g \in Groups, SelfUpdate(h, g) PROVE Lifecycles!Next
    BY <1>1, <2>2, RemoveStep
  <2>3. ASSUME NEW g \in Groups, MergePendingCommit(h, g) PROVE Lifecycles!Next \/ Unseen
    BY <1>1, <2>3, MergeStep
  <2>4. ASSUME NEW g \in Groups, NEW key \in PublishedKeys, Invite(h, g, key)
        PROVE  Lifecycles!Next
    BY <1>1, <2>4, InviteStep
  <2>5. ASSUME NEW g \in Groups, NEW client \in Clients, Remove(h, g, client)
        PROVE  Lifecycles!Next
    BY <1>1, <2>5, RemoveStep
  <2>6. ASSUME NEW m \in Arrived("welcome"), JoinFromWelcome(h, m) \/ JoinRefused(h, m)
        PROVE  Lifecycles!Next
    BY <1>2, <2>6, JoinStep, RefuseStep
  <2>7. ASSUME NEW m \in Arrived("commit"), HandleCommit(h, m) PROVE Lifecycles!Next
    <3>1. m.group \in Groups
      BY ArrivedTypes DEF CommitMsgs
    <3> QED BY <1>1, <2>7, <3>1, AdvanceStep
  <2> QED BY <1>5, <2>1, <2>2, <2>3, <2>4, <2>5, <2>6, <2>7 DEF Lifecycle
<1>6. CASE Messaging(h)
  BY <1>3, <1>6, TalkStep, UnseenSteps DEF Messaging
<1>7. CASE Recovery(h)
  BY <1>1, <1>7, DiscardStep, LeaveStep DEF Recovery
<1>8. CASE Persistence(h) \/ RestoreWithoutDump(h)
  BY <1>2, <1>8, ExportStep, ResetSteps, RestoreStep DEF Persistence
<1> QED BY <1>4, <1>5, <1>6, <1>7, <1>8 DEF CleanStep

LEMMA StepLifecycle ==
    TypeInv /\ LayersInv /\ KeysInv /\ [CleanNext]_vars
        => [Lifecycles!Next]_(Lifecycles!lifecycleVars)
<1> SUFFICES ASSUME TypeInv, LayersInv, KeysInv, [CleanNext]_vars
             PROVE  [Lifecycles!Next]_(Lifecycles!lifecycleVars)
  OBVIOUS
<1>1. Unseen => UNCHANGED Lifecycles!lifecycleVars
  BY DEF Unseen, AbstractCopy, AbstractKeys, AbstractSaved, AbstractSent,
         Lifecycles!lifecycleVars
<1>2. CASE UNCHANGED vars
  <2>1. Unseen
    BY <1>2 DEF vars, Unseen, AbstractCopy, AbstractKeys, AbstractSaved, AbstractSent
  <2> QED BY <1>1, <2>1
<1>3. CASE CleanNext
  BY <1>1, <1>3, CleanStepLifecycle DEF CleanNext
<1> QED BY <1>2, <1>3

\* Every call of a session that no failed restore has touched is one step of the commit
\* lifecycle README.md describes, or none (ImplementsLifecycle): a copy leaves an epoch only
\* by the one commit that waits in it or by one another member made on that epoch, it enters
\* a group only by making it or by an invitation to a key package it has not used, and
\* restore_client brings back exactly the epochs, pending commits and unused key packages
\* that export_client_state wrote.
THEOREM ImplementsLifecycleCorrect == CleanSpec => ImplementsLifecycle
<1>1. Init => Lifecycles!Init /\ KeysInv
  BY InitLifecycle
<1>2. TypeInv /\ KeysInv /\ [CleanNext]_vars => KeysInv'
  BY StepKeys
<1>3. TypeInv /\ LayersInv /\ KeysInv /\ [CleanNext]_vars
        => [Lifecycles!Next]_(Lifecycles!lifecycleVars)
  BY StepLifecycle
<1>4. CleanSpec => [](TypeInv /\ LayersInv)
  BY InStepAlways
<1> QED BY <1>1, <1>2, <1>3, <1>4, PTL DEF CleanSpec, ImplementsLifecycle, Lifecycles!Spec
=============================================================================
