---------------------------- MODULE MessengerTypes ----------------------------
(***************************************************************************)
(* Type correctness of MessengerMls, for every value of the constants and  *)
(* with failing calls included.  TypeOK is not inductive: the calls that   *)
(* change a group in memory change its persisted copy too, so the copy     *)
(* must be there.  SoundBackends adds that.                                *)
(***************************************************************************)
EXTENDS MessengerProperties, TLAPS

SoundBackends == {b \in Backends : \A g \in Groups : HasGroup(b, g) => b.stored[g] # NoGroup}

StateOK == state \in [Handles -> RuntimeStates]
BackendOK == backend \in [Handles -> SoundBackends]
DiskOK == disk \in [Handles -> Snapshots \cup {NoSnap}]
NetOK == net \subseteq Messages /\ unsaved \in [Handles -> SUBSET Messages]
FreshOK == fresh \in Nat

TypeInv == StateOK /\ BackendOK /\ DiskOK /\ NetOK /\ FreshOK
-----------------------------------------------------------------------------
(* Groups. *)

\* A commit with a tree of members is a commit.
LEMMA TreeOps ==
    ASSUME NEW tree \in Trees, NEW leaf \in Leaves, NEW client \in Clients
    PROVE  /\ WithLeaf(tree, leaf, client) \in Trees
           /\ WithoutLeaf(tree, leaf) \in Trees
BY DEF Trees, WithLeaf, WithoutLeaf

\* The groups OpenMLS makes when one is created or joined.
LEMMA GroupMade ==
    ASSUME NEW client \in Clients, NEW leaf \in Leaves, NEW id \in Nat, NEW epoch \in Nat,
           NEW tree \in Trees
    PROVE  /\ NewGroup(client, id) \in MlsGroups
           /\ MemberAt(client, leaf, id, epoch, tree) \in MlsGroups
BY MaxLeafAssumption DEF NewGroup, MemberAt, MlsGroups, Trees, Leaves

\* Every change of a group leaves a group.
LEMMA GroupChanged ==
    ASSUME NEW group \in MlsGroups
    PROVE  /\ \A id \in Nat, tree \in Trees : Staged(group, id, tree) \in MlsGroups
           /\ \A id \in Nat, tree \in Trees : MergedIncoming(group, id, tree) \in MlsGroups
           /\ MergedOwn(group) \in MlsGroups
           /\ Cleared(group) \in MlsGroups
           /\ Sent(group) \in MlsGroups
           /\ \A leaf \in Leaves, gen \in Nat : Consumed(group, leaf, gen) \in MlsGroups
<1>1. ASSUME NEW i \in Nat, NEW t \in Trees
      PROVE  AtNextEpoch(group, i, t) \in MlsGroups
  <2>1. group.me \in Clients /\ group.own \in Leaves /\ group.epoch + 1 \in Nat
    BY DEF MlsGroups
  <2> QED BY <2>1, GroupMade DEF AtNextEpoch
<1>2. ASSUME NEW id \in Nat, NEW tree \in Trees PROVE Staged(group, id, tree) \in MlsGroups
  BY DEF Staged, MlsGroups, Commits
<1>3. MergedOwn(group) \in MlsGroups
  <2>1. CASE group.pending = NoCommit
    BY <2>1 DEF MergedOwn
  <2>2. CASE group.pending # NoCommit
    <3>1. group.pending.id \in Nat /\ group.pending.tree \in Trees
      BY <2>2 DEF MlsGroups, Commits
    <3> QED BY <1>1, <2>2, <3>1 DEF MergedOwn
  <2> QED BY <2>1, <2>2
<1>4. ASSUME NEW id \in Nat, NEW tree \in Trees
      PROVE  MergedIncoming(group, id, tree) \in MlsGroups
  <2>1. \A here \in BOOLEAN : [AtNextEpoch(group, id, tree) EXCEPT !.active = here] \in MlsGroups
    BY <1>1 DEF MlsGroups
  <2>2. (<<group.own, group.me>> \in tree) \in BOOLEAN
    OBVIOUS
  <2> QED BY <2>1, <2>2, Zenon DEF MergedIncoming
<1>5. Cleared(group) \in MlsGroups
  BY DEF Cleared, MlsGroups
<1>6. Sent(group) \in MlsGroups
  BY DEF Sent, MlsGroups
<1>7. ASSUME NEW leaf \in Leaves, NEW gen \in Nat PROVE Consumed(group, leaf, gen) \in MlsGroups
  BY DEF Consumed, MlsGroups
<1> QED BY <1>2, <1>3, <1>4, <1>5, <1>6, <1>7
-----------------------------------------------------------------------------
(* Backends. *)

LEMMA BackendMade ==
    /\ ResetBackend \in SoundBackends
    /\ \A client \in Clients : ConfiguredBackend(client) \in SoundBackends
    /\ \A maybe \in Clients \cup {NoClient}, dump \in Dumps, ids \in SUBSET Groups :
         Loaded(maybe, dump, ids) \in SoundBackends
<1>1. NoGroups \in [Groups -> MaybeMlsGroups]
  BY DEF NoGroups, MaybeMlsGroups
<1>2. ResetBackend \in SoundBackends
  BY <1>1 DEF ResetBackend, SoundBackends, Backends, HasGroup, NoGroups
<1>3. ASSUME NEW client \in Clients PROVE ConfiguredBackend(client) \in SoundBackends
  BY <1>2 DEF ConfiguredBackend, SoundBackends, Backends, HasGroup
<1>4. ASSUME NEW maybe \in Clients \cup {NoClient}, NEW dump \in Dumps, NEW ids \in SUBSET Groups
      PROVE  Loaded(maybe, dump, ids) \in SoundBackends
  <2>1. [g \in Groups |-> IF g \in ids THEN dump.stored[g] ELSE NoGroup] \in [Groups -> MaybeMlsGroups]
    BY DEF Dumps, MaybeMlsGroups
  <2>2. Loaded(maybe, dump, ids) \in Backends
    BY <2>1 DEF Loaded, Dumps, Backends
  <2> QED BY <2>2 DEF Loaded, SoundBackends, HasGroup
<1> QED BY <1>2, <1>3, <1>4

\* A call that changes the two copies of one group: the persisted copy stays there.
LEMMA BothWritten ==
    ASSUME NEW b \in SoundBackends, NEW g \in Groups, NEW one \in MlsGroups,
           NEW other \in MlsGroups
    PROVE  [b EXCEPT !.groups[g] = one, !.stored[g] = other] \in SoundBackends
<1> DEFINE c == [b EXCEPT !.groups[g] = one, !.stored[g] = other]
<1>1. c \in Backends
  BY DEF SoundBackends, Backends, MaybeMlsGroups
<1>2. \A k \in Groups : c.groups[k] # NoGroup => c.stored[k] # NoGroup
  <2> SUFFICES ASSUME NEW k \in Groups, c.groups[k] # NoGroup PROVE c.stored[k] # NoGroup
    OBVIOUS
  <2>1. CASE k = g
    BY <2>1, NoGroupAssumption DEF SoundBackends, Backends
  <2>2. CASE k # g
    BY <2>2 DEF SoundBackends, Backends, HasGroup
  <2> QED BY <2>1, <2>2
<1> QED BY <1>1, <1>2 DEF SoundBackends, HasGroup

LEMMA BackendChanged ==
    ASSUME NEW b \in SoundBackends, NEW g \in Groups
    PROVE  /\ \A group \in MlsGroups : Written(b, g, group) \in SoundBackends
           /\ \A packages \in SUBSET KeyPackages : WithKeys(b, packages) \in SoundBackends
           /\ \A package : WithoutKey(b, package) \in SoundBackends
           /\ Dropped(b, g) \in SoundBackends
           /\ HasGroup(b, g) =>
                /\ \A id \in Nat, tree \in Trees : WithStaged(b, g, id, tree) \in SoundBackends
                /\ WithMerged(b, g) \in SoundBackends
                /\ WithCleared(b, g) \in SoundBackends
                /\ \A leaf \in Leaves, gen \in Nat, kept \in BOOLEAN :
                     WithConsumed(b, g, leaf, gen, kept) \in SoundBackends
<1>1. ASSUME NEW group \in MlsGroups PROVE Written(b, g, group) \in SoundBackends
  BY BothWritten DEF Written
<1>2. ASSUME NEW packages \in SUBSET KeyPackages PROVE WithKeys(b, packages) \in SoundBackends
  BY DEF WithKeys, SoundBackends, Backends, HasGroup
<1>3. ASSUME NEW package PROVE WithoutKey(b, package) \in SoundBackends
  BY DEF WithoutKey, SoundBackends, Backends, HasGroup
<1>4. Dropped(b, g) \in SoundBackends
  BY DEF Dropped, SoundBackends, Backends, MaybeMlsGroups, HasGroup
<1>5. ASSUME HasGroup(b, g)
      PROVE  /\ \A id \in Nat, tree \in Trees : WithStaged(b, g, id, tree) \in SoundBackends
             /\ WithMerged(b, g) \in SoundBackends
             /\ WithCleared(b, g) \in SoundBackends
             /\ \A leaf \in Leaves, gen \in Nat, kept \in BOOLEAN :
                  WithConsumed(b, g, leaf, gen, kept) \in SoundBackends
  <2>1. b.groups[g] \in MlsGroups /\ b.stored[g] \in MlsGroups
    BY <1>5 DEF HasGroup, SoundBackends, Backends, MaybeMlsGroups
  <2>2. ASSUME NEW id \in Nat, NEW tree \in Trees
        PROVE  WithStaged(b, g, id, tree) \in SoundBackends
    <3>1. Staged(b.groups[g], id, tree) \in MlsGroups /\ Staged(b.stored[g], id, tree) \in MlsGroups
      BY <2>1, GroupChanged
    <3> QED BY <3>1, BothWritten DEF WithStaged
  <2>3. WithMerged(b, g) \in SoundBackends
    <3>1. MergedOwn(b.groups[g]) \in MlsGroups /\ MergedOwn(b.stored[g]) \in MlsGroups
      BY <2>1, GroupChanged
    <3> QED BY <3>1, BothWritten DEF WithMerged
  <2>4. WithCleared(b, g) \in SoundBackends
    <3>1. Cleared(b.groups[g]) \in MlsGroups /\ Cleared(b.stored[g]) \in MlsGroups
      BY <2>1, GroupChanged
    <3> QED BY <3>1, BothWritten DEF WithCleared
  <2>5. ASSUME NEW leaf \in Leaves, NEW gen \in Nat, NEW kept \in BOOLEAN
        PROVE  WithConsumed(b, g, leaf, gen, kept) \in SoundBackends
    <3>1. Consumed(b.groups[g], leaf, gen) \in MlsGroups
      BY <2>1, GroupChanged
    <3>2. CASE kept
      BY <3>1, <3>2, BothWritten DEF WithConsumed, Written
    <3>3. CASE ~ kept
      BY <2>1, <3>1, <3>3, NoGroupAssumption
         DEF WithConsumed, SoundBackends, Backends, MaybeMlsGroups, HasGroup
    <3> QED BY <3>2, <3>3
  <2> QED BY <2>2, <2>3, <2>4, <2>5
<1> QED BY <1>1, <1>2, <1>3, <1>4, <1>5
-----------------------------------------------------------------------------
(* Runtime groups. *)

LEMMA LeafIndex == Leaves \subseteq Indices /\ 0 \in Indices /\ 0 \in Leaves
BY MaxLeafAssumption, IndexAssumption DEF Leaves, Indices

LEMMA RuntimeMade ==
    ASSUME NEW client \in Clients
    PROVE  NewRuntimeGroup(client) \in RuntimeGroups
BY LeafIndex DEF NewRuntimeGroup, RuntimeGroups

LEMMA SnapshotApplied ==
    ASSUME NEW rg \in RuntimeGroups, NEW group \in MlsGroups
    PROVE  ApplySnapshot(rg, group) \in RuntimeGroups
BY LeafIndex DEF ApplySnapshot, RuntimeGroups, MlsGroups

LEMMA EnqueuedType ==
    ASSUME NEW queue \in Seq(Nat), NEW item \in Nat
    PROVE  Enqueued(queue, item) \in Seq(Nat)
BY DEF Enqueued
-----------------------------------------------------------------------------
(* What the actions share. *)

LEMMA SetTypes ==
    ASSUME TypeInv, NEW h \in Handles
    PROVE  /\ \A s \in RuntimeStates : SetState(h, s) => StateOK'
           /\ \A g \in Groups, rg \in MaybeRuntimeGroups : SetGroup(h, g, rg) => StateOK'
           /\ \A b \in SoundBackends : SetBackend(h, b) => BackendOK'
           /\ \A ms \in SUBSET Messages : Return(h, ms) => NetOK'
           /\ ReturnNothing => NetOK'
           /\ LoseSession(h) => NetOK'
           /\ \A n \in Nat : Mint(n) => FreshOK'
<1> USE DEF TypeInv
<1>1. \A s \in RuntimeStates : SetState(h, s) => StateOK'
  BY DEF StateOK, SetState
<1>2. \A g \in Groups, rg \in MaybeRuntimeGroups : SetGroup(h, g, rg) => StateOK'
  <2> SUFFICES ASSUME NEW g \in Groups, NEW rg \in MaybeRuntimeGroups, SetGroup(h, g, rg)
               PROVE  StateOK'
    OBVIOUS
  <2> DEFINE s == [state[h] EXCEPT !.groups[g] = rg]
  <2>1. state' = [state EXCEPT ![h] = s]
    BY DEF SetGroup
  <2>2. s \in RuntimeStates
    BY DEF StateOK, RuntimeStates
  <2> QED BY <2>1, <2>2 DEF StateOK
<1>3. \A b \in SoundBackends : SetBackend(h, b) => BackendOK'
  BY DEF BackendOK, SetBackend
<1>4. \A ms \in SUBSET Messages : Return(h, ms) => NetOK'
  BY DEF NetOK, Return
<1>5. ReturnNothing => NetOK'
  BY DEF NetOK, ReturnNothing
<1>6. LoseSession(h) => NetOK'
  BY DEF NetOK, LoseSession
<1>7. \A n \in Nat : Mint(n) => FreshOK'
  BY DEF FreshOK, Mint
<1> QED BY <1>1, <1>2, <1>3, <1>4, <1>5, <1>6, <1>7

\* The parts of a handle an action reads.
LEMMA Read ==
    ASSUME TypeInv, NEW h \in Handles, NEW g \in Groups
    PROVE  /\ state[h] \in RuntimeStates
           /\ backend[h] \in SoundBackends
           /\ backend[h].signer \in Clients \cup {NoClient}
           /\ Identity(h) \in Clients \cup {NoClient}
           /\ Known(state[h], g) => Runtime(h, g) \in RuntimeGroups
           /\ HasGroup(backend[h], g) => Mls(h, g) \in MlsGroups
<1> USE DEF TypeInv
<1>1. state[h] \in RuntimeStates /\ backend[h] \in SoundBackends
  BY DEF StateOK, BackendOK
<1>2. backend[h].signer \in Clients \cup {NoClient} /\ Identity(h) \in Clients \cup {NoClient}
  BY <1>1 DEF SoundBackends, Backends, RuntimeStates, Identity
<1>3. Known(state[h], g) => Runtime(h, g) \in RuntimeGroups
  BY <1>1 DEF Known, Runtime, RuntimeStates, MaybeRuntimeGroups
<1>4. HasGroup(backend[h], g) => Mls(h, g) \in MlsGroups
  BY <1>1 DEF HasGroup, Mls, SoundBackends, Backends, MaybeMlsGroups
<1> QED BY <1>1, <1>2, <1>3, <1>4

LEMMA ArrivedTypes ==
    ASSUME TypeInv
    PROVE  /\ Arrived("commit") \subseteq CommitMsgs
           /\ Arrived("welcome") \subseteq WelcomeMsgs
           /\ Arrived("application") \subseteq ApplicationMsgs
           /\ PublishedKeys \subseteq KeyPackages
<1>1. \A m \in net : /\ m.kind = "commit" => m \in CommitMsgs
                     /\ m.kind = "welcome" => m \in WelcomeMsgs
                     /\ m.kind = "application" => m \in ApplicationMsgs
                     /\ m.kind = "keypackage" => m \in KeyPackageMsgs
  BY DEF TypeInv, NetOK, Messages, CommitMsgs, WelcomeMsgs, ApplicationMsgs, KeyPackageMsgs
<1>2. Arrived("keypackage") \subseteq KeyPackageMsgs
  BY <1>1 DEF Arrived
<1>3. PublishedKeys \subseteq KeyPackages
  BY <1>2 DEF PublishedKeys, KeyPackageMsgs
<1> QED BY <1>1, <1>3 DEF Arrived

\* Staging a commit keeps the types when the caller's runtime group, tree and welcome
\* messages have theirs.
LEMMA StageTypes ==
    ASSUME TypeInv, NEW h \in Handles, NEW g \in Groups, HasGroup(backend[h], g),
           NEW rg \in RuntimeGroups, NEW tree \in Trees, NEW welcomes \in SUBSET WelcomeMsgs,
           StageCommit(h, g, rg, tree, welcomes)
    PROVE  TypeInv'
<1>1. /\ Mls(h, g) \in MlsGroups
      /\ backend[h] \in SoundBackends
      /\ fresh \in Nat
  BY Read DEF TypeInv, FreshOK
<1>2. WithStaged(backend[h], g, fresh, tree) \in SoundBackends
  BY <1>1, BackendChanged
<1>3. CommitMsg(g, Mls(h, g), tree) \in CommitMsgs
  BY <1>1 DEF CommitMsg, CommitMsgs, MlsGroups
<1>4. {CommitMsg(g, Mls(h, g), tree)} \cup welcomes \in SUBSET Messages
  BY <1>3 DEF Messages
<1>5. StateOK' /\ BackendOK' /\ NetOK' /\ FreshOK'
  BY <1>2, <1>4, SetTypes DEF StageCommit, MaybeRuntimeGroups
<1> QED BY <1>5 DEF StageCommit, TypeInv, DiskOK
-----------------------------------------------------------------------------
(* The actions. *)

LEMMA SetupTypes ==
    ASSUME TypeInv, NEW h \in Handles, Setup(h)
    PROVE  TypeInv'
<1> USE DEF TypeInv
<1>1. NewRuntimeState \in RuntimeStates
  BY DEF NewRuntimeState, RuntimeStates, NoGroups, MaybeRuntimeGroups
<1>2. ASSUME NEW client \in Accounts[h], CreateClient(h, client) PROVE TypeInv'
  <2>1. client \in Clients
    BY <1>2, AccountsAssumption
  <2>2. [NewRuntimeState EXCEPT !.identity = client] \in RuntimeStates
    BY <1>1, <2>1 DEF RuntimeStates
  <2>3. ConfiguredBackend(client) \in SoundBackends
    BY <2>1, BackendMade
  <2>4. StateOK' /\ BackendOK' /\ NetOK'
    BY <1>2, <2>2, <2>3, SetTypes DEF CreateClient
  <2> QED BY <1>2, <2>4 DEF CreateClient, DiskOK, FreshOK
<1>3. ASSUME CreateClientBadKey(h) PROVE TypeInv'
  <2>1. ResetBackend \in SoundBackends
    BY BackendMade
  <2>2. StateOK' /\ BackendOK' /\ NetOK'
    BY <1>3, <1>1, <2>1, SetTypes DEF CreateClientBadKey
  <2> QED BY <1>3, <2>2 DEF CreateClientBadKey, DiskOK, FreshOK
<1>4. ASSUME NEW count \in 1 .. 2, CreateKeyPackages(h, count) PROVE TypeInv'
  <2> DEFINE made == {[id |-> n, owner |-> backend[h].signer] : n \in fresh .. fresh + count - 1}
             records == {[data |-> key, uploaded |-> FALSE, consumed |-> FALSE] : key \in made}
             messages == {[kind |-> "keypackage", key |-> key] : key \in made}
             s == [state[h] EXCEPT !.keyPackages = @ \cup records, !.counter = @ + count]
  <2>1. /\ backend[h].signer \in Clients
        /\ backend[h] \in SoundBackends
        /\ state[h] \in RuntimeStates
        /\ fresh \in Nat
    BY <1>4 DEF CreateKeyPackages, HasSigner, BackendOK, SoundBackends, Backends, StateOK, FreshOK
  <2>2. made \in SUBSET KeyPackages
    BY <2>1 DEF KeyPackages
  <2>3. records \subseteq KeyPackageRecords
    <3>1. \A key \in KeyPackages :
            [data |-> key, uploaded |-> FALSE, consumed |-> FALSE] \in KeyPackageRecords
      BY DEF KeyPackageRecords
    <3> HIDE DEF made
    <3> QED BY <2>2, <3>1
  <2>4. s \in RuntimeStates
    <3> HIDE DEF records
    <3>1. state[h].keyPackages \cup records \in SUBSET KeyPackageRecords
      BY <2>1, <2>3 DEF RuntimeStates
    <3>2. state[h].counter + count \in Nat
      BY <1>4, <2>1 DEF RuntimeStates
    <3> QED BY <2>1, <3>1, <3>2 DEF RuntimeStates
  <2>5. messages \in SUBSET Messages
    BY <2>2 DEF Messages, KeyPackageMsgs
  <2>6. WithKeys(backend[h], made) \in SoundBackends
    <3>1. CASE Groups = {}
      BY <2>1, <2>2, <3>1 DEF WithKeys, SoundBackends, Backends
    <3>2. CASE Groups # {}
      BY <2>1, <2>2, <3>2, BackendChanged
    <3> QED BY <3>1, <3>2
  <2>7. /\ SetState(h, s) /\ SetBackend(h, WithKeys(backend[h], made))
        /\ Return(h, messages) /\ Mint(count) /\ UNCHANGED disk
    BY <1>4 DEF CreateKeyPackages
  <2>8. StateOK' /\ BackendOK' /\ NetOK' /\ FreshOK'
    <3> HIDE DEF made, s, messages
    <3> QED BY <2>4, <2>5, <2>6, <2>7, SetTypes
  <2> QED BY <2>7, <2>8 DEF DiskOK
<1>5. ASSUME NEW bundle, MarkKeyPackagesUploaded(h, bundle) PROVE TypeInv'
  <2> DEFINE marked == {[r EXCEPT !.uploaded = @ \/ r.data \in bundle] : r \in state[h].keyPackages}
             s == [state[h] EXCEPT !.keyPackages = marked]
  <2>1. state[h] \in RuntimeStates
    BY DEF StateOK
  <2>2. \A r \in KeyPackageRecords, up \in BOOLEAN : [r EXCEPT !.uploaded = up] \in KeyPackageRecords
    BY DEF KeyPackageRecords
  <2>3. \A r \in KeyPackageRecords : [r EXCEPT !.uploaded = @ \/ r.data \in bundle] \in KeyPackageRecords
    <3> TAKE r \in KeyPackageRecords
    <3>1. (r.uploaded \/ r.data \in bundle) \in BOOLEAN
      OBVIOUS
    <3> QED BY <2>2, <3>1, Zenon
  <2>4. marked \subseteq KeyPackageRecords
    BY <2>1, <2>3 DEF RuntimeStates
  <2>5. s \in RuntimeStates
    <3> HIDE DEF marked
    <3> QED BY <2>1, <2>4 DEF RuntimeStates
  <2>6. SetState(h, s) /\ ReturnNothing /\ UNCHANGED <<backend, disk, fresh>>
    BY <1>5 DEF MarkKeyPackagesUploaded
  <2>7. StateOK' /\ NetOK'
    <3> HIDE DEF s
    <3> QED BY <2>5, <2>6, SetTypes
  <2> QED BY <2>6, <2>7 DEF BackendOK, DiskOK, FreshOK
<1> QED BY <1>2, <1>3, <1>4, <1>5 DEF Setup
-----------------------------------------------------------------------------
LEMMA CreateGroupTypes ==
    ASSUME TypeInv, NEW h \in Handles, NEW g \in Groups, CreateGroup(h, g)
    PROVE  TypeInv'
<1> DEFINE group == NewGroup(backend[h].signer, fresh)
<1>1. backend[h].signer \in Clients /\ Identity(h) \in Clients /\ backend[h] \in SoundBackends
  BY Read DEF CreateGroup, HasSigner, HasIdentity
<1>2. fresh \in Nat
  BY DEF TypeInv, FreshOK
<1>3. group \in MlsGroups
  BY <1>1, <1>2, GroupMade, LeafIndex DEF Trees
<1>4. ApplySnapshot(NewRuntimeGroup(Identity(h)), group) \in MaybeRuntimeGroups
  BY <1>1, <1>3, RuntimeMade, SnapshotApplied DEF MaybeRuntimeGroups
<1>5. Written(backend[h], g, group) \in SoundBackends
  BY <1>1, <1>3, BackendChanged
<1>6. /\ SetBackend(h, Written(backend[h], g, group))
      /\ SetGroup(h, g, ApplySnapshot(NewRuntimeGroup(Identity(h)), group))
      /\ ReturnNothing /\ Mint(1) /\ UNCHANGED disk
  BY DEF CreateGroup
<1>7. StateOK' /\ BackendOK' /\ NetOK' /\ FreshOK'
  BY <1>4, <1>5, <1>6, SetTypes
<1> QED BY <1>6, <1>7 DEF TypeInv, DiskOK

LEMMA InviteTypes ==
    ASSUME TypeInv, NEW h \in Handles, NEW g \in Groups, NEW key \in KeyPackages,
           Invite(h, g, key)
    PROVE  TypeInv'
<1>1. /\ HasGroup(backend[h], g) /\ Mls(h, g) \in MlsGroups
      /\ Runtime(h, g) \in RuntimeGroups
      /\ key.owner \in Clients
      /\ fresh \in Nat
  BY Read DEF Invite, KeyPackages, TypeInv, FreshOK
<1>2. ApplySnapshot(Runtime(h, g), Mls(h, g)) \in RuntimeGroups
  BY <1>1, SnapshotApplied
<1>3. PICK leaf \in Leaves, index \in Indices :
        LET tree == WithLeaf(Mls(h, g).tree, leaf, key.owner)
            rg == [ApplySnapshot(Runtime(h, g), Mls(h, g)) EXCEPT
                      !.pending = TRUE,
                      !.members = @ \cup {key.owner},
                      !.memberMap = @ \cup {<<index, key.owner>>}]
            welcome == [kind |-> "welcome", group |-> g, key |-> key, id |-> fresh,
                        epoch |-> Mls(h, g).epoch + 1, leaf |-> leaf, tree |-> tree]
        IN StageCommit(h, g, rg, tree, {welcome})
  BY DEF Invite
<1> DEFINE tree == WithLeaf(Mls(h, g).tree, leaf, key.owner)
           rg == [ApplySnapshot(Runtime(h, g), Mls(h, g)) EXCEPT
                     !.pending = TRUE,
                     !.members = @ \cup {key.owner},
                     !.memberMap = @ \cup {<<index, key.owner>>}]
           welcome == [kind |-> "welcome", group |-> g, key |-> key, id |-> fresh,
                       epoch |-> Mls(h, g).epoch + 1, leaf |-> leaf, tree |-> tree]
<1>4. tree \in Trees
  BY <1>1, TreeOps DEF MlsGroups
<1>5. rg \in RuntimeGroups
  <2> DEFINE taken == ApplySnapshot(Runtime(h, g), Mls(h, g))
  <2>1. /\ taken.members \cup {key.owner} \in SUBSET Clients
        /\ taken.memberMap \cup {<<index, key.owner>>} \in SUBSET (Indices \X Clients)
    BY <1>1, <1>2 DEF RuntimeGroups
  <2> HIDE DEF taken
  <2>2. [taken EXCEPT !.pending = TRUE,
                      !.members = taken.members \cup {key.owner},
                      !.memberMap = taken.memberMap \cup {<<index, key.owner>>}] \in RuntimeGroups
    BY <1>2, <2>1 DEF RuntimeGroups, taken
  <2> QED BY <2>2 DEF taken
<1>6. {welcome} \in SUBSET WelcomeMsgs
  <2> HIDE DEF tree
  <2> QED BY <1>1, <1>4 DEF WelcomeMsgs, MlsGroups
<1>7. StageCommit(h, g, rg, tree, {welcome})
  BY <1>3
<1> HIDE DEF tree, rg, welcome
<1> QED BY <1>1, <1>4, <1>5, <1>6, <1>7, StageTypes

LEMMA RemoveTypes ==
    ASSUME TypeInv, NEW h \in Handles, NEW g \in Groups, NEW client \in Clients,
           Remove(h, g, client)
    PROVE  TypeInv'
<1>1. /\ HasGroup(backend[h], g) /\ Mls(h, g) \in MlsGroups
      /\ Runtime(h, g) \in RuntimeGroups
  BY Read DEF Remove
<1> DEFINE removed == [ApplySnapshot(Runtime(h, g), Mls(h, g)) EXCEPT
                          !.pending = TRUE,
                          !.members = @ \ {client},
                          !.memberMap = {other \in @ : other[2] # client}]
           left == [removed EXCEPT !.active = FALSE, !.selfLeaf = NoLeaf]
           rg == IF client = Identity(h) THEN left ELSE removed
<1>2. PICK entry \in Runtime(h, g).memberMap :
        /\ CanRemove(Mls(h, g), entry[1])
        /\ StageCommit(h, g, rg, WithoutLeaf(Mls(h, g).tree, entry[1]), {})
  BY DEF Remove
<1>3. ApplySnapshot(Runtime(h, g), Mls(h, g)) \in RuntimeGroups
  BY <1>1, SnapshotApplied
<1>4. removed \in RuntimeGroups
  BY <1>3 DEF RuntimeGroups
<1>5. left \in RuntimeGroups
  <2> HIDE DEF removed
  <2> QED BY <1>4 DEF RuntimeGroups
<1>6. rg \in RuntimeGroups
  BY <1>4, <1>5
<1>7. WithoutLeaf(Mls(h, g).tree, entry[1]) \in Trees
  BY <1>1 DEF MlsGroups, WithoutLeaf, Trees
<1> HIDE DEF rg
<1> QED BY <1>1, <1>2, <1>6, <1>7, StageTypes

LEMMA SelfUpdateTypes ==
    ASSUME TypeInv, NEW h \in Handles, NEW g \in Groups,
           SelfUpdate(h, g) \/ SelfUpdateUnknown(h, g)
    PROVE  TypeInv'
<1>1. HasGroup(backend[h], g) /\ Mls(h, g) \in MlsGroups
  BY Read DEF SelfUpdate, SelfUpdateUnknown
<1>2. Mls(h, g).tree \in Trees
  BY <1>1 DEF MlsGroups
<1>3. CASE SelfUpdate(h, g)
  <2> DEFINE rg == [ApplySnapshot(Runtime(h, g), Mls(h, g)) EXCEPT !.pending = TRUE]
  <2>1. Runtime(h, g) \in RuntimeGroups
    BY <1>3, Read DEF SelfUpdate
  <2>2. ApplySnapshot(Runtime(h, g), Mls(h, g)) \in RuntimeGroups
    BY <1>1, <2>1, SnapshotApplied
  <2>3. rg \in RuntimeGroups
    BY <2>2 DEF RuntimeGroups
  <2>4. StageCommit(h, g, rg, Mls(h, g).tree, {})
    BY <1>3 DEF SelfUpdate
  <2> HIDE DEF rg
  <2> QED BY <1>1, <1>2, <2>3, <2>4, StageTypes
<1>4. CASE SelfUpdateUnknown(h, g)
  <2>1. WithStaged(backend[h], g, fresh, Mls(h, g).tree) \in SoundBackends
    BY <1>1, <1>2, Read, BackendChanged DEF TypeInv, FreshOK
  <2>2. BackendOK' /\ NetOK' /\ FreshOK'
    BY <1>4, <2>1, SetTypes DEF SelfUpdateUnknown
  <2> QED BY <1>4, <2>2 DEF SelfUpdateUnknown, TypeInv, StateOK, DiskOK
<1> QED BY <1>3, <1>4

LEMMA GroupChangeTypes ==
    ASSUME TypeInv, NEW h \in Handles, NEW g \in Groups,
           \/ MergePendingCommit(h, g)
           \/ ClearPendingCommit(h, g)
           \/ DropGroup(h, g)
    PROVE  TypeInv'
<1>1. /\ HasGroup(backend[h], g) /\ Mls(h, g) \in MlsGroups
      /\ Runtime(h, g) \in RuntimeGroups
      /\ backend[h] \in SoundBackends
  BY Read DEF MergePendingCommit, ClearPendingCommit, DropGroup
<1>2. /\ WithMerged(backend[h], g) \in SoundBackends
      /\ WithCleared(backend[h], g) \in SoundBackends
      /\ Dropped(backend[h], g) \in SoundBackends
  BY <1>1, BackendChanged
<1>3. CASE MergePendingCommit(h, g)
  <2> DEFINE taken == ApplySnapshot(Runtime(h, g), MergedOwn(Mls(h, g)))
             rg == [taken EXCEPT !.pending = FALSE]
  <2>1. taken \in RuntimeGroups
    BY <1>1, GroupChanged, SnapshotApplied
  <2>2. rg \in MaybeRuntimeGroups
    <3> HIDE DEF taken
    <3> QED BY <2>1 DEF RuntimeGroups, MaybeRuntimeGroups
  <2>3. /\ SetBackend(h, WithMerged(backend[h], g)) /\ SetGroup(h, g, rg)
        /\ ReturnNothing /\ UNCHANGED <<disk, fresh>>
    BY <1>3 DEF MergePendingCommit
  <2> HIDE DEF rg
  <2>4. StateOK' /\ BackendOK' /\ NetOK'
    BY <1>2, <2>2, <2>3, SetTypes
  <2> QED BY <2>3, <2>4 DEF TypeInv, DiskOK, FreshOK
<1>4. CASE ClearPendingCommit(h, g)
  <2>1. [Runtime(h, g) EXCEPT !.pending = FALSE] \in MaybeRuntimeGroups
    BY <1>1 DEF RuntimeGroups, MaybeRuntimeGroups
  <2>2. StateOK' /\ BackendOK' /\ NetOK'
    BY <1>2, <1>4, <2>1, SetTypes DEF ClearPendingCommit
  <2> QED BY <1>4, <2>2 DEF ClearPendingCommit, TypeInv, DiskOK, FreshOK
<1>5. CASE DropGroup(h, g)
  <2>1. NoGroup \in MaybeRuntimeGroups
    BY DEF MaybeRuntimeGroups
  <2>2. StateOK' /\ BackendOK' /\ NetOK'
    BY <1>2, <1>5, <2>1, SetTypes DEF DropGroup
  <2> QED BY <1>5, <2>2 DEF DropGroup, TypeInv, DiskOK, FreshOK
<1> QED BY <1>3, <1>4, <1>5

LEMMA JoinTypes ==
    ASSUME TypeInv, NEW h \in Handles, NEW m \in WelcomeMsgs,
           JoinFromWelcome(h, m) \/ JoinRefused(h, m)
    PROVE  TypeInv'
<1>1. /\ m.group \in Groups /\ m.key.owner \in Clients /\ m.id \in Nat /\ m.epoch \in Nat
      /\ m.leaf \in Leaves /\ m.tree \in Trees
  BY DEF WelcomeMsgs, KeyPackages
<1>2. backend[h] \in SoundBackends /\ WithoutKey(backend[h], m.key) \in SoundBackends
  BY <1>1, Read, BackendChanged
<1>3. CASE JoinFromWelcome(h, m)
  <2> DEFINE group == MemberAt(m.key.owner, m.leaf, m.id, m.epoch, m.tree)
             rg == JoinedRecord(h, m.group)
  <2>1. group \in MlsGroups
    BY <1>1, GroupMade
  <2>2. Identity(h) \in Clients
    BY <1>1, <1>3, Read DEF JoinFromWelcome, HasIdentity
  <2>3. rg \in RuntimeGroups
    BY <1>1, <2>2, Read, RuntimeMade DEF JoinedRecord
  <2>4. Written(WithoutKey(backend[h], m.key), m.group, group) \in SoundBackends
    BY <1>1, <1>2, <2>1, BackendChanged
  <2>5. /\ SetBackend(h, Written(WithoutKey(backend[h], m.key), m.group, group))
        /\ SetGroup(h, m.group, ApplySnapshot(rg, group))
        /\ ReturnNothing /\ UNCHANGED <<disk, fresh>>
    BY <1>3 DEF JoinFromWelcome
  <2> HIDE DEF group, rg
  <2>6. ApplySnapshot(rg, group) \in MaybeRuntimeGroups
    BY <2>1, <2>3, SnapshotApplied DEF MaybeRuntimeGroups
  <2>7. StateOK' /\ BackendOK' /\ NetOK'
    BY <1>1, <2>4, <2>5, <2>6, SetTypes
  <2> QED BY <2>5, <2>7 DEF TypeInv, DiskOK, FreshOK
<1>4. CASE JoinRefused(h, m)
  <2>1. BackendOK' /\ NetOK'
    BY <1>2, <1>4, SetTypes DEF JoinRefused
  <2> QED BY <1>4, <2>1 DEF JoinRefused, TypeInv, StateOK, DiskOK, FreshOK
<1> QED BY <1>3, <1>4

LEMMA EncryptTypes ==
    ASSUME TypeInv, NEW h \in Handles, NEW g \in Groups, EncryptMessage(h, g)
    PROVE  TypeInv'
<1> DEFINE message == [kind |-> "application", group |-> g, on |-> Mls(h, g).tip,
                       id |-> fresh, leaf |-> Mls(h, g).own, gen |-> Mls(h, g).gen]
<1>1. /\ Mls(h, g) \in MlsGroups /\ backend[h] \in SoundBackends /\ fresh \in Nat
  BY Read DEF EncryptMessage, TypeInv, FreshOK
<1>2. Written(backend[h], g, Sent(Mls(h, g))) \in SoundBackends
  BY <1>1, GroupChanged, BackendChanged
<1>3. {message} \in SUBSET Messages
  BY <1>1 DEF Messages, ApplicationMsgs, MlsGroups
<1>4. /\ SetBackend(h, Written(backend[h], g, Sent(Mls(h, g)))) /\ Return(h, {message})
      /\ Mint(1) /\ UNCHANGED <<state, disk>>
  BY DEF EncryptMessage
<1> HIDE DEF message
<1>5. BackendOK' /\ NetOK' /\ FreshOK'
  BY <1>2, <1>3, <1>4, SetTypes
<1> QED BY <1>4, <1>5 DEF TypeInv, StateOK, DiskOK

LEMMA RecordTypes ==
    ASSUME TypeInv, NEW h \in Handles, NEW m \in CommitMsgs \cup ApplicationMsgs,
           RecordIncoming(h, m)
    PROVE  StateOK'
<1>1. m.group \in Groups /\ m.id \in Nat
  BY DEF CommitMsgs, ApplicationMsgs
<1>2. CASE Known(state[h], m.group)
  <2> DEFINE rg == [Runtime(h, m.group) EXCEPT !.offset = @ + 1, !.queue = Enqueued(@, m.id)]
  <2>1. Runtime(h, m.group) \in RuntimeGroups
    BY <1>1, <1>2, Read
  <2>2. /\ Runtime(h, m.group).offset + 1 \in Nat
        /\ Enqueued(Runtime(h, m.group).queue, m.id) \in Seq(Nat)
    <3>1. Runtime(h, m.group).offset \in Nat /\ Runtime(h, m.group).queue \in Seq(Nat)
      BY <2>1 DEF RuntimeGroups
    <3>2. Runtime(h, m.group).offset + 1 \in Nat
      BY <3>1
    <3>3. Enqueued(Runtime(h, m.group).queue, m.id) \in Seq(Nat)
      BY <1>1, <3>1, EnqueuedType
    <3> QED BY <3>2, <3>3
  <2>3. rg \in MaybeRuntimeGroups
    BY <2>1, <2>2 DEF RuntimeGroups, MaybeRuntimeGroups
  <2>4. SetGroup(h, m.group, rg)
    BY <1>2 DEF RecordIncoming
  <2> HIDE DEF rg
  <2> QED BY <1>1, <2>3, <2>4, SetTypes
<1>3. CASE ~ Known(state[h], m.group)
  BY <1>3 DEF RecordIncoming, TypeInv, StateOK
<1> QED BY <1>2, <1>3

LEMMA HandleTypes ==
    ASSUME TypeInv, NEW h \in Handles,
           \/ \E m \in CommitMsgs : HandleCommit(h, m)
           \/ \E m \in ApplicationMsgs : HandleApplication(h, m)
    PROVE  TypeInv'
<1>1. ASSUME NEW m \in CommitMsgs, HandleCommit(h, m) PROVE TypeInv'
  <2>1. m.group \in Groups /\ m.id \in Nat /\ m.tree \in Trees
    BY DEF CommitMsgs
  <2>2. Mls(h, m.group) \in MlsGroups /\ backend[h] \in SoundBackends
    BY <1>1, <2>1, Read DEF HandleCommit, CanProcess
  <2>3. Written(backend[h], m.group, MergedIncoming(Mls(h, m.group), m.id, m.tree)) \in SoundBackends
    BY <2>1, <2>2, GroupChanged, BackendChanged
  <2>4. StateOK' /\ BackendOK' /\ NetOK'
    BY <1>1, <2>3, RecordTypes, SetTypes DEF HandleCommit
  <2> QED BY <1>1, <2>4 DEF HandleCommit, TypeInv, DiskOK, FreshOK
<1>2. ASSUME NEW m \in ApplicationMsgs, HandleApplication(h, m) PROVE TypeInv'
  <2>1. m.group \in Groups /\ m.leaf \in Leaves /\ m.gen \in Nat
    BY DEF ApplicationMsgs
  <2>2. HasGroup(backend[h], m.group) /\ backend[h] \in SoundBackends
    BY <1>2, <2>1, Read DEF HandleApplication, CanProcess
  <2>3. \A kept \in BOOLEAN : WithConsumed(backend[h], m.group, m.leaf, m.gen, kept) \in SoundBackends
    BY <2>1, <2>2, BackendChanged
  <2>4. StateOK' /\ BackendOK' /\ NetOK'
    BY <1>2, <2>3, RecordTypes, SetTypes DEF HandleApplication
  <2> QED BY <1>2, <2>4 DEF HandleApplication, TypeInv, DiskOK, FreshOK
<1> QED BY <1>1, <1>2

LEMMA PersistenceTypes ==
    ASSUME TypeInv, NEW h \in Handles,
           \/ ExportClientState(h) \/ NewHandle(h) \/ RestoreClient(h) \/ RestoreWithoutDump(h)
    PROVE  TypeInv'
<1>1. state[h] \in RuntimeStates /\ backend[h] \in SoundBackends
  BY DEF TypeInv, StateOK, BackendOK
<1>2. CASE ExportClientState(h)
  <2>1. Exported(state[h], backend[h]) \in Snapshots
    BY <1>1 DEF Exported, Dump, Snapshots, Dumps, SoundBackends, Backends
  <2>2. DiskOK'
    BY <1>2, <2>1 DEF ExportClientState, TypeInv, DiskOK
  <2>3. NetOK'
    BY <1>2 DEF ExportClientState, TypeInv, NetOK
  <2> QED BY <1>2, <2>2, <2>3 DEF ExportClientState, TypeInv, StateOK, BackendOK, FreshOK
<1>3. CASE NewHandle(h)
  <2>1. NewRuntimeState \in RuntimeStates
    BY DEF NewRuntimeState, RuntimeStates, NoGroups, MaybeRuntimeGroups
  <2>2. StateOK' /\ BackendOK' /\ NetOK'
    BY <1>3, <2>1, BackendMade, SetTypes DEF NewHandle
  <2> QED BY <1>3, <2>2 DEF NewHandle, TypeInv, DiskOK, FreshOK
<1>4. CASE RestoreClient(h)
  <2>1. Saved(h) \in RuntimeStates /\ disk[h].dump \in Dumps
    BY <1>4 DEF RestoreClient, Saved, TypeInv, DiskOK, Snapshots
  <2>2. Loaded(Saved(h).identity, disk[h].dump, SavedGroups(h)) \in SoundBackends
    BY <2>1, BackendMade DEF RuntimeStates, SavedGroups, KnownGroups
  <2>3. StateOK' /\ BackendOK' /\ NetOK'
    BY <1>4, <2>1, <2>2, SetTypes DEF RestoreClient
  <2> QED BY <1>4, <2>3 DEF RestoreClient, TypeInv, DiskOK, FreshOK
<1>5. CASE RestoreWithoutDump(h)
  <2>1. Saved(h) \in RuntimeStates
    BY <1>5 DEF RestoreWithoutDump, Saved, TypeInv, DiskOK, Snapshots
  <2>2. Reconfigured(h) \in SoundBackends
    BY <2>1, BackendMade DEF Reconfigured, RuntimeStates
  <2>3. StateOK' /\ BackendOK' /\ NetOK'
    BY <1>5, <2>1, <2>2, SetTypes DEF RestoreWithoutDump
  <2> QED BY <1>5, <2>3 DEF RestoreWithoutDump, TypeInv, DiskOK, FreshOK
<1> QED BY <1>2, <1>3, <1>4, <1>5

LEMMA FailureTypes ==
    ASSUME TypeInv, NEW h \in Handles, Failure(h)
    PROVE  TypeInv'
<1>1. ASSUME NEW b \in SoundBackends, FailRestore(h, b) PROVE TypeInv'
  <2>1. BackendOK' /\ NetOK'
    BY <1>1, SetTypes DEF FailRestore
  <2> QED BY <1>1, <2>1 DEF FailRestore, TypeInv, StateOK, DiskOK, FreshOK
<1>2. ASSUME disk[h] # NoSnap
      PROVE  /\ Reconfigured(h) \in SoundBackends
             /\ Loaded(Saved(h).identity, disk[h].dump,
                       LoadedPrefix(disk[h].dump, SavedGroups(h))) \in SoundBackends
             /\ ResetBackend \in SoundBackends
  <2>1. Saved(h) \in RuntimeStates /\ disk[h].dump \in Dumps
    BY <1>2 DEF Saved, TypeInv, DiskOK, Snapshots
  <2>2. LoadedPrefix(disk[h].dump, SavedGroups(h)) \in SUBSET Groups
    BY DEF LoadedPrefix, SavedGroups, KnownGroups
  <2> QED BY <2>1, <2>2, BackendMade DEF Reconfigured, RuntimeStates
<1>3. CASE RestoreGroupsWithoutDump(h)
  BY <1>1, <1>2, <1>3 DEF RestoreGroupsWithoutDump
<1>4. CASE RestoreDamagedDump(h)
  BY <1>1, <1>2, <1>4 DEF RestoreDamagedDump
<1>5. CASE RestoreMissingGroup(h)
  BY <1>1, <1>2, <1>5 DEF RestoreMissingGroup
<1>6. CASE \E g \in Groups : SelfUpdateUnknown(h, g)
  BY <1>6, SelfUpdateTypes
<1>7. CASE RestoreBadKey(h)
  BY <1>1, <1>2, <1>7 DEF RestoreBadKey
<1> QED BY <1>3, <1>4, <1>5, <1>6, <1>7 DEF Failure
-----------------------------------------------------------------------------
LEMMA InitTypes == Init => TypeInv
<1>1. ResetBackend \in SoundBackends
  BY BackendMade
<1>2. NewRuntimeState \in RuntimeStates
  BY DEF NewRuntimeState, RuntimeStates, NoGroups, MaybeRuntimeGroups
<1> QED BY <1>1, <1>2 DEF Init, TypeInv, StateOK, BackendOK, DiskOK, NetOK, FreshOK

LEMMA LifecycleTypes ==
    ASSUME TypeInv, NEW h \in Handles, Lifecycle(h) \/ Messaging(h) \/ Recovery(h)
    PROVE  TypeInv'
<1>1. CASE Lifecycle(h)
  <2>1. \A key \in PublishedKeys : key \in KeyPackages
    BY ArrivedTypes
  <2>2. (\A m \in Arrived("welcome") : m \in WelcomeMsgs) /\ (\A m \in Arrived("commit") : m \in CommitMsgs)
    BY ArrivedTypes
  <2> QED BY <1>1, <2>1, <2>2, CreateGroupTypes, SelfUpdateTypes, GroupChangeTypes, InviteTypes,
             RemoveTypes, JoinTypes, HandleTypes DEF Lifecycle
<1>2. CASE Messaging(h)
  <2>1. \A m \in Arrived("application") : m \in ApplicationMsgs
    BY ArrivedTypes
  <2> QED BY <1>2, <2>1, EncryptTypes, HandleTypes DEF Messaging
<1>3. CASE Recovery(h)
  BY <1>3, GroupChangeTypes DEF Recovery
<1> QED BY <1>1, <1>2, <1>3

\* No call, failing ones included, breaks the types.
LEMMA StepTypes == TypeInv /\ [Next]_vars => TypeInv'
<1> SUFFICES ASSUME TypeInv, [Next]_vars PROVE TypeInv'
  OBVIOUS
<1>1. ASSUME NEW h \in Handles, CleanStep(h) \/ Failure(h) PROVE TypeInv'
  BY <1>1, SetupTypes, LifecycleTypes, PersistenceTypes, FailureTypes DEF CleanStep, Persistence
<1>2. CASE UNCHANGED vars
  BY <1>2 DEF vars, TypeInv, StateOK, BackendOK, DiskOK, NetOK, FreshOK
<1> QED BY <1>1, <1>2 DEF Next

LEMMA TypeInvTypeOK == TypeInv => TypeOK
<1> SUFFICES ASSUME TypeInv PROVE TypeOK
  OBVIOUS
<1>1. backend \in [Handles -> Backends]
  BY DEF TypeInv, BackendOK, SoundBackends
<1> QED BY <1>1 DEF TypeInv, TypeOK, StateOK, DiskOK, NetOK, FreshOK

\* Every reachable state, of sessions with failed restores too, has its types.
THEOREM TypeCorrect == Spec => []TypeOK
<1>1. Spec => []TypeInv
  BY InitTypes, StepTypes, PTL DEF Spec
<1> QED BY <1>1, TypeInvTypeOK, PTL
=============================================================================
