---------------------------- MODULE MessengerLayers ----------------------------
(***************************************************************************)
(* The service and the backend stay in step, for every value of the        *)
(* constants, as long as no restore fails (CleanSpec).                     *)
(*                                                                         *)
(* None of the invariants checked is inductive alone: a restore replaces   *)
(* both layers by what the disk holds, so the blob on the disk must load   *)
(* into layers that are in step; it does because at the export the         *)
(* persisted copy of every group mirrored the one in memory.  InStep says  *)
(* all of this of one pair of layers, LayersInv of the live pair of each   *)
(* handle and of the pair its blob loads into.                             *)
(***************************************************************************)
EXTENDS MessengerTypes

\* One group: the runtime's record, the backend's copy in memory, the persisted copy.
GroupInStep(rg, group, stored) ==
    /\ rg # NoGroup <=> group # NoGroup
    /\ group # NoGroup =>
         /\ stored # NoGroup
         /\ [stored EXCEPT !.seen = {}] = [group EXCEPT !.seen = {}]
         /\ group.pending # NoCommit => rg.pending = TRUE
         /\ rg.epoch <= group.epoch
         /\ rg.selfLeaf \in {group.own, NoLeaf}

InStep(s, b) ==
    /\ b.signer = s.identity
    /\ \A g \in Groups : GroupInStep(s.groups[g], b.groups[g], b.stored[g])

BlobLoaded(h) == Loaded(Saved(h).identity, disk[h].dump, SavedGroups(h))

LayersInv ==
    \A h \in Handles :
        /\ InStep(state[h], backend[h])
        /\ disk[h] # NoSnap =>
             CanLoad(disk[h].dump, SavedGroups(h)) /\ InStep(Saved(h), BlobLoaded(h))
-----------------------------------------------------------------------------
(* Frames. *)

\* A step that gives one handle a pair of layers in step, and exports nothing.
LEMMA HandleFrame ==
    ASSUME TypeInv, LayersInv, NEW h \in Handles, NEW s, NEW b,
           SetState(h, s), SetBackend(h, b), UNCHANGED disk, InStep(s, b)
    PROVE  LayersInv'
<1>1. ASSUME NEW k \in Handles PROVE InStep(state'[k], backend'[k])
  <2>1. CASE k = h
    BY <2>1 DEF SetState, SetBackend, TypeInv, StateOK, BackendOK
  <2>2. CASE k # h
    <3>1. state'[k] = state[k] /\ backend'[k] = backend[k]
      BY <2>2 DEF SetState, SetBackend, TypeInv, StateOK, BackendOK
    <3> QED BY <3>1 DEF LayersInv
  <2> QED BY <2>1, <2>2
<1>2. ASSUME NEW k \in Handles
      PROVE  (disk[k] # NoSnap =>
                CanLoad(disk[k].dump, SavedGroups(k)) /\ InStep(Saved(k), BlobLoaded(k)))'
  BY DEF LayersInv, SavedGroups, Saved, BlobLoaded
<1> QED BY <1>1, <1>2 DEF LayersInv

\* A step that touches one group of one handle, and leaves it in step.
LEMMA GroupFrame ==
    ASSUME TypeInv, LayersInv, NEW h \in Handles, NEW g \in Groups, NEW b,
           SetBackend(h, b), UNCHANGED disk,
           b.signer = backend[h].signer,
           \A k \in Groups \ {g} : /\ b.groups[k] = backend[h].groups[k]
                                   /\ b.stored[k] = backend[h].stored[k],
           NEW s, SetState(h, s),
           s.identity = state[h].identity,
           \A k \in Groups \ {g} : s.groups[k] = state[h].groups[k],
           GroupInStep(s.groups[g], b.groups[g], b.stored[g])
    PROVE  LayersInv'
<1>1. InStep(state[h], backend[h])
  BY DEF LayersInv
<1>2. InStep(s, b)
  <2>1. b.signer = s.identity
    BY <1>1 DEF InStep
  <2>2. ASSUME NEW k \in Groups PROVE GroupInStep(s.groups[k], b.groups[k], b.stored[k])
    <3>1. CASE k = g
      BY <3>1
    <3>2. CASE k # g
      <4>1. k \in Groups \ {g}
        BY <3>2
      <4>2. s.groups[k] = state[h].groups[k] /\ b.groups[k] = backend[h].groups[k]
            /\ b.stored[k] = backend[h].stored[k]
        BY <4>1
      <4> QED BY <1>1, <4>2 DEF InStep
    <3> QED BY <3>1, <3>2
  <2> QED BY <2>1, <2>2 DEF InStep
<1> QED BY <1>2, HandleFrame

\* The same, for a step that sets both copies of the group, and the runtime's record.
LEMMA BothFrame ==
    ASSUME TypeInv, LayersInv, NEW h \in Handles, NEW g \in Groups,
           NEW rg, NEW one, NEW other, UNCHANGED disk,
           SetGroup(h, g, rg),
           SetBackend(h, [backend[h] EXCEPT !.groups[g] = one, !.stored[g] = other]),
           GroupInStep(rg, one, other)
    PROVE  LayersInv'
<1> DEFINE s == [state[h] EXCEPT !.groups[g] = rg]
           b == [backend[h] EXCEPT !.groups[g] = one, !.stored[g] = other]
<1>1. state[h] \in RuntimeStates /\ backend[h] \in Backends
  BY DEF TypeInv, StateOK, BackendOK, SoundBackends
<1>2. /\ s.identity = state[h].identity
      /\ s.groups[g] = rg
      /\ \A k \in Groups \ {g} : s.groups[k] = state[h].groups[k]
  BY <1>1 DEF RuntimeStates
<1>3. /\ b.signer = backend[h].signer
      /\ b.groups[g] = one /\ b.stored[g] = other
      /\ \A k \in Groups \ {g} : /\ b.groups[k] = backend[h].groups[k]
                                 /\ b.stored[k] = backend[h].stored[k]
  BY <1>1 DEF Backends
<1>4. SetState(h, s)
  BY DEF SetGroup, SetState
<1>5. SetBackend(h, b)
  OBVIOUS
<1> HIDE DEF s, b
<1> QED BY <1>2, <1>3, <1>4, <1>5, GroupFrame
-----------------------------------------------------------------------------
(* One group, before and after each kind of change. *)

\* What being in step says of a group that is there.
LEMMA InStepFacts ==
    ASSUME TypeInv, LayersInv, NEW h \in Handles, NEW g \in Groups, HasGroup(backend[h], g)
    PROVE  /\ Known(state[h], g)
           /\ Runtime(h, g) \in RuntimeGroups
           /\ Mls(h, g) \in MlsGroups
           /\ backend[h].stored[g] \in MlsGroups
           /\ [backend[h].stored[g] EXCEPT !.seen = {}] = [Mls(h, g) EXCEPT !.seen = {}]
           /\ Mls(h, g).pending # NoCommit => Runtime(h, g).pending = TRUE
           /\ Runtime(h, g).epoch <= Mls(h, g).epoch
           /\ Runtime(h, g).selfLeaf \in {Mls(h, g).own, NoLeaf}
<1>1. GroupInStep(state[h].groups[g], backend[h].groups[g], backend[h].stored[g])
  BY DEF LayersInv, InStep
<1>2. Known(state[h], g) /\ backend[h].stored[g] # NoGroup
  BY <1>1 DEF GroupInStep, HasGroup, Known
<1>3. backend[h].stored[g] \in MlsGroups
  BY <1>2, Read DEF SoundBackends, Backends, MaybeMlsGroups
<1> QED BY <1>1, <1>2, <1>3, Read DEF GroupInStep, HasGroup, Mls, Runtime

\* The persisted copy differs from the one in memory in its consumed generations only.
LEMMA Mirrored ==
    ASSUME NEW group \in MlsGroups, NEW stored \in MlsGroups,
           [stored EXCEPT !.seen = {}] = [group EXCEPT !.seen = {}]
    PROVE  /\ stored.tip = group.tip /\ stored.epoch = group.epoch /\ stored.tree = group.tree
           /\ stored.own = group.own /\ stored.me = group.me /\ stored.active = group.active
           /\ stored.pending = group.pending /\ stored.gen = group.gen
<1> DEFINE s == [stored EXCEPT !.seen = {}]
           m == [group EXCEPT !.seen = {}]
<1>1. /\ s.tip = stored.tip /\ s.epoch = stored.epoch /\ s.tree = stored.tree
      /\ s.own = stored.own /\ s.me = stored.me /\ s.active = stored.active
      /\ s.pending = stored.pending /\ s.gen = stored.gen
  BY DEF MlsGroups
<1>2. /\ m.tip = group.tip /\ m.epoch = group.epoch /\ m.tree = group.tree
      /\ m.own = group.own /\ m.me = group.me /\ m.active = group.active
      /\ m.pending = group.pending /\ m.gen = group.gen
  BY DEF MlsGroups
<1>3. s = m
  OBVIOUS
<1> HIDE DEF s, m
<1> QED BY <1>1, <1>2, <1>3

\* Applying a snapshot of an unstaged group, or of one already flagged.
LEMMA SnapshotInStep ==
    ASSUME NEW rg \in RuntimeGroups, NEW group \in MlsGroups,
           group.pending # NoCommit => rg.pending = TRUE
    PROVE  GroupInStep(ApplySnapshot(rg, group), group, group)
<1>1. /\ ApplySnapshot(rg, group) \in RuntimeGroups
      /\ ApplySnapshot(rg, group).epoch = group.epoch
      /\ ApplySnapshot(rg, group).selfLeaf = group.own
      /\ ApplySnapshot(rg, group).pending = rg.pending
  BY SnapshotApplied DEF ApplySnapshot, RuntimeGroups
<1>2. ApplySnapshot(rg, group) # NoGroup /\ group # NoGroup
  BY <1>1, NoGroupAssumption, NoGroupRuntimeAssumption
<1>3. group.epoch <= group.epoch
  BY DEF MlsGroups
<1> QED BY <1>1, <1>2, <1>3 DEF GroupInStep

\* Staging a commit over mirrored copies, with the runtime flagged.
LEMMA StageInStep ==
    ASSUME TypeInv, LayersInv, NEW h \in Handles, NEW g \in Groups, HasGroup(backend[h], g),
           NEW rg \in RuntimeGroups, NEW tree \in Trees, NEW welcomes,
           rg.pending = TRUE, rg.epoch = Mls(h, g).epoch,
           rg.selfLeaf \in {Mls(h, g).own, NoLeaf},
           StageCommit(h, g, rg, tree, welcomes)
    PROVE  LayersInv'
<1> DEFINE group == Mls(h, g)
           stored == backend[h].stored[g]
           one == Staged(group, fresh, tree)
           other == Staged(stored, fresh, tree)
<1>1. /\ group \in MlsGroups /\ stored \in MlsGroups
      /\ [stored EXCEPT !.seen = {}] = [group EXCEPT !.seen = {}]
  BY InStepFacts
<1>2. one \in MlsGroups /\ other \in MlsGroups
  BY <1>1, GroupChanged DEF TypeInv, FreshOK
<1>3. [other EXCEPT !.seen = {}] = [one EXCEPT !.seen = {}]
  <2> HIDE DEF group, stored
  <2>1. /\ stored.tip = group.tip /\ stored.epoch = group.epoch /\ stored.tree = group.tree
        /\ stored.own = group.own /\ stored.me = group.me /\ stored.active = group.active
        /\ stored.gen = group.gen
    BY <1>1, Mirrored
  <2> QED BY <1>1, <2>1 DEF Staged, MlsGroups
<1>4. one.epoch = group.epoch /\ one.own = group.own
  BY <1>1 DEF Staged, MlsGroups
<1>5. GroupInStep(rg, one, other)
  <2>1. rg.epoch <= one.epoch
    BY <1>1, <1>4 DEF MlsGroups
  <2> HIDE DEF one, other
  <2> QED BY <1>2, <1>3, <1>4, <2>1, NoGroupAssumption, NoGroupRuntimeAssumption DEF GroupInStep
<1>6. /\ SetGroup(h, g, rg) /\ UNCHANGED disk
      /\ SetBackend(h, [backend[h] EXCEPT !.groups[g] = one, !.stored[g] = other])
  BY DEF StageCommit, WithStaged, Mls
<1> HIDE DEF one, other
<1> QED BY <1>5, <1>6, BothFrame
-----------------------------------------------------------------------------
(* The actions on groups. *)

LEMMA CreateGroupInStep ==
    ASSUME TypeInv, LayersInv, NEW h \in Handles, NEW g \in Groups, CreateGroup(h, g)
    PROVE  LayersInv'
<1> DEFINE group == NewGroup(backend[h].signer, fresh)
           rg == NewRuntimeGroup(Identity(h))
<1>1. backend[h].signer \in Clients /\ Identity(h) \in Clients /\ fresh \in Nat
  BY Read DEF CreateGroup, HasSigner, HasIdentity, TypeInv, FreshOK
<1>2. group \in MlsGroups /\ group.pending = NoCommit
  <2>1. group \in MlsGroups
    BY <1>1, GroupMade, LeafIndex DEF Trees
  <2> QED BY <2>1 DEF NewGroup, MemberAt
<1>3. rg \in RuntimeGroups
  BY <1>1, RuntimeMade
<1>4. /\ SetGroup(h, g, ApplySnapshot(rg, group)) /\ UNCHANGED disk
      /\ SetBackend(h, [backend[h] EXCEPT !.groups[g] = group, !.stored[g] = group])
  BY DEF CreateGroup, Written
<1> HIDE DEF group, rg
<1>5. GroupInStep(ApplySnapshot(rg, group), group, group)
  BY <1>2, <1>3, SnapshotInStep
<1> QED BY <1>4, <1>5, BothFrame

LEMMA InviteInStep ==
    ASSUME TypeInv, LayersInv, NEW h \in Handles, NEW g \in Groups, NEW key \in KeyPackages,
           Invite(h, g, key)
    PROVE  LayersInv'
<1>1. /\ HasGroup(backend[h], g) /\ Mls(h, g) \in MlsGroups
      /\ Runtime(h, g) \in RuntimeGroups /\ key.owner \in Clients
  BY Read DEF Invite, KeyPackages
<1> DEFINE taken == ApplySnapshot(Runtime(h, g), Mls(h, g))
<1>2. PICK leaf, index, welcomes :
        /\ leaf \in Leaves /\ index \in Indices
        /\ StageCommit(h, g,
                       [taken EXCEPT !.pending = TRUE,
                                     !.members = @ \cup {key.owner},
                                     !.memberMap = @ \cup {<<index, key.owner>>}],
                       WithLeaf(Mls(h, g).tree, leaf, key.owner), welcomes)
  BY DEF Invite
<1>2b. leaf \in Leaves /\ index \in Indices
  BY <1>2
<1> DEFINE rg == [taken EXCEPT !.pending = TRUE,
                               !.members = @ \cup {key.owner},
                               !.memberMap = @ \cup {<<index, key.owner>>}]
<1>3. taken \in RuntimeGroups /\ taken.epoch = Mls(h, g).epoch /\ taken.selfLeaf = Mls(h, g).own
  BY <1>1, SnapshotApplied DEF ApplySnapshot, RuntimeGroups
<1>4. rg \in RuntimeGroups /\ rg.pending = TRUE
      /\ rg.epoch = Mls(h, g).epoch /\ rg.selfLeaf = Mls(h, g).own
  <2> HIDE DEF taken
  <2>1. /\ taken.members \cup {key.owner} \in SUBSET Clients
        /\ taken.memberMap \cup {<<index, key.owner>>} \in SUBSET (Indices \X Clients)
    BY <1>2b, <1>1, <1>3 DEF RuntimeGroups
  <2> QED BY <1>3, <2>1 DEF RuntimeGroups
<1>5. WithLeaf(Mls(h, g).tree, leaf, key.owner) \in Trees
  BY <1>2b, <1>1, TreeOps DEF MlsGroups
<1>6. StageCommit(h, g, rg, WithLeaf(Mls(h, g).tree, leaf, key.owner), welcomes)
  BY <1>2
<1> HIDE DEF rg
<1> QED BY <1>1, <1>4, <1>5, <1>6, StageInStep

LEMMA RemoveInStep ==
    ASSUME TypeInv, LayersInv, NEW h \in Handles, NEW g \in Groups, NEW client \in Clients,
           Remove(h, g, client)
    PROVE  LayersInv'
<1>1. /\ HasGroup(backend[h], g) /\ Mls(h, g) \in MlsGroups
      /\ Runtime(h, g) \in RuntimeGroups
  BY Read DEF Remove
<1> DEFINE taken == ApplySnapshot(Runtime(h, g), Mls(h, g))
           removed == [taken EXCEPT !.pending = TRUE,
                                    !.members = @ \ {client},
                                    !.memberMap = {other \in @ : other[2] # client}]
           left == [removed EXCEPT !.active = FALSE, !.selfLeaf = NoLeaf]
           rg == IF client = Identity(h) THEN left ELSE removed
<1>2. PICK entry \in Runtime(h, g).memberMap :
        StageCommit(h, g, rg, WithoutLeaf(Mls(h, g).tree, entry[1]), {})
  BY DEF Remove
<1>3. taken \in RuntimeGroups /\ taken.epoch = Mls(h, g).epoch /\ taken.selfLeaf = Mls(h, g).own
  BY <1>1, SnapshotApplied DEF ApplySnapshot, RuntimeGroups
<1>4. removed \in RuntimeGroups /\ removed.pending = TRUE
      /\ removed.epoch = Mls(h, g).epoch /\ removed.selfLeaf = Mls(h, g).own
  <2> HIDE DEF taken
  <2> QED BY <1>3 DEF RuntimeGroups
<1>5. left \in RuntimeGroups /\ left.pending = TRUE
      /\ left.epoch = Mls(h, g).epoch /\ left.selfLeaf = NoLeaf
  <2> HIDE DEF removed
  <2> QED BY <1>4 DEF RuntimeGroups
<1>6. rg \in RuntimeGroups /\ rg.pending = TRUE
      /\ rg.epoch = Mls(h, g).epoch /\ rg.selfLeaf \in {Mls(h, g).own, NoLeaf}
  <2> HIDE DEF removed, left
  <2> QED BY <1>4, <1>5
<1>7. WithoutLeaf(Mls(h, g).tree, entry[1]) \in Trees
  BY <1>1 DEF MlsGroups, WithoutLeaf, Trees
<1> HIDE DEF rg
<1> QED BY <1>1, <1>2, <1>6, <1>7, StageInStep

LEMMA SelfUpdateInStep ==
    ASSUME TypeInv, LayersInv, NEW h \in Handles, NEW g \in Groups, SelfUpdate(h, g)
    PROVE  LayersInv'
<1>1. /\ HasGroup(backend[h], g) /\ Mls(h, g) \in MlsGroups
      /\ Runtime(h, g) \in RuntimeGroups
  BY Read DEF SelfUpdate
<1> DEFINE taken == ApplySnapshot(Runtime(h, g), Mls(h, g))
           rg == [taken EXCEPT !.pending = TRUE]
<1>2. taken \in RuntimeGroups /\ taken.epoch = Mls(h, g).epoch /\ taken.selfLeaf = Mls(h, g).own
  BY <1>1, SnapshotApplied DEF ApplySnapshot, RuntimeGroups
<1>3. rg \in RuntimeGroups /\ rg.pending = TRUE
      /\ rg.epoch = Mls(h, g).epoch /\ rg.selfLeaf = Mls(h, g).own
  <2> HIDE DEF taken
  <2> QED BY <1>2 DEF RuntimeGroups
<1>4. Mls(h, g).tree \in Trees
  BY <1>1 DEF MlsGroups
<1>5. StageCommit(h, g, rg, Mls(h, g).tree, {})
  BY DEF SelfUpdate
<1> HIDE DEF rg
<1> QED BY <1>1, <1>3, <1>4, <1>5, StageInStep

LEMMA MergeInStep ==
    ASSUME TypeInv, LayersInv, NEW h \in Handles, NEW g \in Groups, MergePendingCommit(h, g)
    PROVE  LayersInv'
<1> DEFINE group == Mls(h, g)
           stored == backend[h].stored[g]
           one == MergedOwn(group)
           other == MergedOwn(stored)
           taken == ApplySnapshot(Runtime(h, g), one)
           rg == [taken EXCEPT !.pending = FALSE]
<1>1. /\ group \in MlsGroups /\ stored \in MlsGroups /\ Runtime(h, g) \in RuntimeGroups
      /\ [stored EXCEPT !.seen = {}] = [group EXCEPT !.seen = {}]
  BY InStepFacts DEF MergePendingCommit
<1>2. one \in MlsGroups /\ other \in MlsGroups
  BY <1>1, GroupChanged
<1>3. /\ one.pending = NoCommit
      /\ [other EXCEPT !.seen = {}] = [one EXCEPT !.seen = {}]
  <2> HIDE DEF group, stored
  <2>1. /\ stored.epoch = group.epoch /\ stored.own = group.own /\ stored.me = group.me
        /\ stored.pending = group.pending
    BY <1>1, Mirrored
  <2>2. CASE group.pending = NoCommit
    BY <1>1, <2>1, <2>2 DEF MergedOwn
  <2>3. CASE group.pending # NoCommit
    <3>1. one = other
      BY <2>1, <2>3 DEF MergedOwn, AtNextEpoch
    <3>2. one.pending = NoCommit
      BY <2>3 DEF MergedOwn, AtNextEpoch, MemberAt
    <3> QED BY <3>1, <3>2
  <2> QED BY <2>2, <2>3
<1>4. taken \in RuntimeGroups /\ taken.epoch = one.epoch /\ taken.selfLeaf = one.own
  <2> HIDE DEF one
  <2> QED BY <1>1, <1>2, SnapshotApplied DEF ApplySnapshot, RuntimeGroups
<1>5. rg \in RuntimeGroups /\ rg.epoch = one.epoch /\ rg.selfLeaf = one.own
  <2> HIDE DEF taken, one
  <2> QED BY <1>4 DEF RuntimeGroups
<1>6. GroupInStep(rg, one, other)
  <2> HIDE DEF rg, one, other
  <2>1. rg.epoch <= one.epoch
    BY <1>2, <1>5 DEF MlsGroups
  <2> QED BY <1>2, <1>3, <1>5, <2>1, NoGroupAssumption, NoGroupRuntimeAssumption DEF GroupInStep
<1>7. /\ SetGroup(h, g, rg) /\ UNCHANGED disk
      /\ SetBackend(h, [backend[h] EXCEPT !.groups[g] = one, !.stored[g] = other])
  BY DEF MergePendingCommit, WithMerged, Mls
<1> HIDE DEF rg, one, other
<1> QED BY <1>6, <1>7, BothFrame

LEMMA ClearInStep ==
    ASSUME TypeInv, LayersInv, NEW h \in Handles, NEW g \in Groups, ClearPendingCommit(h, g)
    PROVE  LayersInv'
<1> DEFINE group == Mls(h, g)
           stored == backend[h].stored[g]
           one == Cleared(group)
           other == Cleared(stored)
           rg == [Runtime(h, g) EXCEPT !.pending = FALSE]
<1>1. /\ group \in MlsGroups /\ stored \in MlsGroups /\ Runtime(h, g) \in RuntimeGroups
      /\ [stored EXCEPT !.seen = {}] = [group EXCEPT !.seen = {}]
      /\ Runtime(h, g).epoch <= group.epoch
      /\ Runtime(h, g).selfLeaf \in {group.own, NoLeaf}
  BY InStepFacts DEF ClearPendingCommit
<1>2. one \in MlsGroups /\ other \in MlsGroups
  BY <1>1, GroupChanged
<1>3. /\ one.pending = NoCommit /\ one.epoch = group.epoch /\ one.own = group.own
      /\ [other EXCEPT !.seen = {}] = [one EXCEPT !.seen = {}]
  <2> HIDE DEF group, stored
  <2>1. /\ stored.tip = group.tip /\ stored.epoch = group.epoch /\ stored.tree = group.tree
        /\ stored.own = group.own /\ stored.me = group.me /\ stored.active = group.active
        /\ stored.gen = group.gen
    BY <1>1, Mirrored
  <2> QED BY <1>1, <2>1 DEF Cleared, MlsGroups
<1>4. rg \in RuntimeGroups /\ rg.epoch = Runtime(h, g).epoch /\ rg.selfLeaf = Runtime(h, g).selfLeaf
  BY <1>1 DEF RuntimeGroups
<1>5. GroupInStep(rg, one, other)
  <2> HIDE DEF rg, one, other
  <2> QED BY <1>1, <1>2, <1>3, <1>4, NoGroupAssumption, NoGroupRuntimeAssumption DEF GroupInStep
<1>6. /\ SetGroup(h, g, rg) /\ UNCHANGED disk
      /\ SetBackend(h, [backend[h] EXCEPT !.groups[g] = one, !.stored[g] = other])
  BY DEF ClearPendingCommit, WithCleared, Mls
<1> HIDE DEF rg, one, other
<1> QED BY <1>5, <1>6, BothFrame

LEMMA DropInStep ==
    ASSUME TypeInv, LayersInv, NEW h \in Handles, NEW g \in Groups, DropGroup(h, g)
    PROVE  LayersInv'
<1> DEFINE b == Dropped(backend[h], g)
           s == [state[h] EXCEPT !.groups[g] = NoGroup]
<1>1. state[h] \in RuntimeStates /\ backend[h] \in Backends
  BY DEF TypeInv, StateOK, BackendOK, SoundBackends
<1>2. /\ b.signer = backend[h].signer /\ b.groups[g] = NoGroup
      /\ \A k \in Groups \ {g} : /\ b.groups[k] = backend[h].groups[k]
                                 /\ b.stored[k] = backend[h].stored[k]
  BY <1>1 DEF Dropped, Backends
<1>3. /\ s.identity = state[h].identity /\ s.groups[g] = NoGroup
      /\ \A k \in Groups \ {g} : s.groups[k] = state[h].groups[k]
  BY <1>1 DEF RuntimeStates
<1>4. SetBackend(h, b) /\ SetState(h, s) /\ UNCHANGED disk
  BY DEF DropGroup, SetGroup, SetState
<1> HIDE DEF b, s
<1>5. GroupInStep(s.groups[g], b.groups[g], b.stored[g])
  BY <1>2, <1>3 DEF GroupInStep
<1> QED BY <1>2, <1>3, <1>4, <1>5, GroupFrame

\* A backend that changes while the runtime's groups stay as they are.
LEMMA BackendFrame ==
    ASSUME TypeInv, LayersInv, NEW h \in Handles, NEW g \in Groups, NEW b,
           SetBackend(h, b), UNCHANGED <<state, disk>>,
           b.signer = backend[h].signer,
           \A k \in Groups \ {g} : /\ b.groups[k] = backend[h].groups[k]
                                 /\ b.stored[k] = backend[h].stored[k],
           GroupInStep(Runtime(h, g), b.groups[g], b.stored[g])
    PROVE  LayersInv'
<1>1. SetState(h, state[h])
  BY DEF SetState, TypeInv, StateOK
<1> QED BY <1>1, GroupFrame DEF Runtime

LEMMA JoinInStep ==
    ASSUME TypeInv, LayersInv, NEW h \in Handles, NEW m \in WelcomeMsgs, JoinFromWelcome(h, m)
    PROVE  LayersInv'
<1> DEFINE g == m.group
           group == MemberAt(m.key.owner, m.leaf, m.id, m.epoch, m.tree)
           rg == JoinedRecord(h, g)
           b == Written(WithoutKey(backend[h], m.key), g, group)
           s == [state[h] EXCEPT !.groups[g] = ApplySnapshot(rg, group)]
<1>1. /\ g \in Groups /\ m.key.owner \in Clients /\ m.id \in Nat /\ m.epoch \in Nat
      /\ m.leaf \in Leaves /\ m.tree \in Trees
  BY DEF WelcomeMsgs, KeyPackages
<1>2. group \in MlsGroups /\ group.pending = NoCommit
  <2>1. group \in MlsGroups
    BY <1>1, GroupMade
  <2> QED BY <2>1 DEF MemberAt
<1>3. rg \in RuntimeGroups
  <2>1. Identity(h) \in Clients
    BY <1>1, Read DEF JoinFromWelcome, HasIdentity
  <2> QED BY <1>1, <2>1, Read, RuntimeMade DEF JoinedRecord
<1>4. state[h] \in RuntimeStates /\ backend[h] \in Backends
  BY DEF TypeInv, StateOK, BackendOK, SoundBackends
<1>5. SetBackend(h, b) /\ SetState(h, s) /\ UNCHANGED disk
  BY DEF JoinFromWelcome, SetGroup, SetState
<1> HIDE DEF g, group, rg
<1>6. /\ b.signer = backend[h].signer /\ b.groups[g] = group /\ b.stored[g] = group
      /\ \A k \in Groups \ {g} : /\ b.groups[k] = backend[h].groups[k]
                                 /\ b.stored[k] = backend[h].stored[k]
  BY <1>1, <1>4 DEF Written, WithoutKey, Backends
<1>7. /\ s.identity = state[h].identity /\ s.groups[g] = ApplySnapshot(rg, group)
      /\ \A k \in Groups \ {g} : s.groups[k] = state[h].groups[k]
  BY <1>1, <1>4 DEF RuntimeStates
<1>8. GroupInStep(ApplySnapshot(rg, group), group, group)
  BY <1>2, <1>3, SnapshotInStep
<1> HIDE DEF b, s
<1> QED BY <1>1, <1>5, <1>6, <1>7, <1>8, GroupFrame

LEMMA JoinRefusedInStep ==
    ASSUME TypeInv, LayersInv, NEW h \in Handles, NEW m \in WelcomeMsgs, JoinRefused(h, m)
    PROVE  LayersInv'
<1> DEFINE g == m.group
           b == WithoutKey(backend[h], m.key)
<1>1. g \in Groups /\ backend[h] \in Backends
  BY DEF WelcomeMsgs, TypeInv, BackendOK, SoundBackends
<1>2. b.signer = backend[h].signer /\ b.groups = backend[h].groups /\ b.stored = backend[h].stored
  BY <1>1 DEF WithoutKey, Backends
<1>3. GroupInStep(Runtime(h, g), backend[h].groups[g], backend[h].stored[g])
  BY <1>1 DEF LayersInv, InStep, Runtime
<1>4. SetBackend(h, b) /\ UNCHANGED <<state, disk>>
  BY DEF JoinRefused
<1> HIDE DEF g, b
<1> QED BY <1>1, <1>2, <1>3, <1>4, BackendFrame

LEMMA EncryptInStep ==
    ASSUME TypeInv, LayersInv, NEW h \in Handles, NEW g \in Groups, EncryptMessage(h, g)
    PROVE  LayersInv'
<1> DEFINE group == Sent(Mls(h, g))
           b == Written(backend[h], g, group)
<1>1. /\ Mls(h, g) \in MlsGroups /\ Runtime(h, g) \in RuntimeGroups
      /\ Mls(h, g).pending # NoCommit => Runtime(h, g).pending = TRUE
      /\ Runtime(h, g).epoch <= Mls(h, g).epoch
      /\ Runtime(h, g).selfLeaf \in {Mls(h, g).own, NoLeaf}
  BY InStepFacts DEF EncryptMessage
<1>2. /\ group \in MlsGroups /\ group.pending = Mls(h, g).pending
      /\ group.epoch = Mls(h, g).epoch /\ group.own = Mls(h, g).own
  BY <1>1, GroupChanged DEF Sent, MlsGroups
<1>3. backend[h] \in Backends
  BY DEF TypeInv, BackendOK, SoundBackends
<1>4. SetBackend(h, b) /\ UNCHANGED <<state, disk>>
  BY DEF EncryptMessage
<1> HIDE DEF group
<1>5. /\ b.signer = backend[h].signer /\ b.groups[g] = group /\ b.stored[g] = group
      /\ \A k \in Groups \ {g} : /\ b.groups[k] = backend[h].groups[k]
                                 /\ b.stored[k] = backend[h].stored[k]
  BY <1>3 DEF Written, Backends
<1>6. GroupInStep(Runtime(h, g), group, group)
  BY <1>1, <1>2, NoGroupAssumption, NoGroupRuntimeAssumption DEF GroupInStep
<1> HIDE DEF b
<1> QED BY <1>4, <1>5, <1>6, BackendFrame

\* A message the backend accepts is always counted: the group is known to the service.
LEMMA RecordInStep ==
    ASSUME TypeInv, LayersInv, NEW h \in Handles, NEW m \in CommitMsgs \cup ApplicationMsgs,
           CanProcess(h, m), RecordIncoming(h, m)
    PROVE  \E rg \in RuntimeGroups :
             /\ SetGroup(h, m.group, rg)
             /\ rg.epoch = Runtime(h, m.group).epoch
             /\ rg.selfLeaf = Runtime(h, m.group).selfLeaf
             /\ rg.pending = Runtime(h, m.group).pending
<1>1. m.group \in Groups /\ m.id \in Nat
  BY DEF CommitMsgs, ApplicationMsgs
<1>2. Known(state[h], m.group) /\ Runtime(h, m.group) \in RuntimeGroups
  BY <1>1, InStepFacts DEF CanProcess
<1> DEFINE rg == [Runtime(h, m.group) EXCEPT !.offset = @ + 1, !.queue = Enqueued(@, m.id)]
<1>3. Enqueued(Runtime(h, m.group).queue, m.id) \in Seq(Nat)
  BY <1>1, <1>2, EnqueuedType DEF RuntimeGroups
<1>4. /\ rg \in RuntimeGroups /\ rg.epoch = Runtime(h, m.group).epoch
      /\ rg.selfLeaf = Runtime(h, m.group).selfLeaf
      /\ rg.pending = Runtime(h, m.group).pending
  <2> DEFINE had == Runtime(h, m.group)
             queue == Enqueued(had.queue, m.id)
  <2>1. queue \in Seq(Nat)
    BY <1>3
  <2>2. had \in RuntimeGroups
    BY <1>2
  <2>3. rg = [had EXCEPT !.offset = @ + 1, !.queue = queue]
    BY <2>2 DEF RuntimeGroups
  <2> HIDE DEF had, queue, rg
  <2>4. rg \in RuntimeGroups
    <3>1. had.offset + 1 \in Nat
      BY <2>2 DEF RuntimeGroups
    <3> QED BY <2>1, <2>2, <2>3, <3>1 DEF RuntimeGroups
  <2>5. rg.epoch = had.epoch /\ rg.selfLeaf = had.selfLeaf
    BY <2>2, <2>3 DEF RuntimeGroups
  <2>6. rg.pending = had.pending
    BY <2>2, <2>3, Zenon DEF RuntimeGroups
  <2> QED BY <2>4, <2>5, <2>6 DEF had
<1>5. SetGroup(h, m.group, rg)
  BY <1>2 DEF RecordIncoming
<1> HIDE DEF rg
<1> QED BY <1>4, <1>5

LEMMA HandleCommitInStep ==
    ASSUME TypeInv, LayersInv, NEW h \in Handles, NEW m \in CommitMsgs, HandleCommit(h, m)
    PROVE  LayersInv'
<1> DEFINE g == m.group
           group == MergedIncoming(Mls(h, g), m.id, m.tree)
<1>1. g \in Groups /\ m.id \in Nat /\ m.tree \in Trees
  BY DEF CommitMsgs
<1>2. /\ Mls(h, g) \in MlsGroups /\ Runtime(h, g) \in RuntimeGroups
      /\ Runtime(h, g).epoch <= Mls(h, g).epoch
      /\ Runtime(h, g).selfLeaf \in {Mls(h, g).own, NoLeaf}
  BY <1>1, InStepFacts DEF HandleCommit, CanProcess
<1>3. PICK rg \in RuntimeGroups :
        /\ SetGroup(h, g, rg)
        /\ rg.epoch = Runtime(h, g).epoch /\ rg.selfLeaf = Runtime(h, g).selfLeaf
  BY RecordInStep DEF HandleCommit
<1>4. group \in MlsGroups
  BY <1>1, <1>2, GroupChanged
<1>5. /\ group.pending = NoCommit /\ group.epoch = Mls(h, g).epoch + 1
      /\ group.own = Mls(h, g).own
  BY DEF MergedIncoming, AtNextEpoch, MemberAt
<1>6. UNCHANGED disk /\ SetBackend(h, [backend[h] EXCEPT !.groups[g] = group, !.stored[g] = group])
  BY DEF HandleCommit, Written
<1> HIDE DEF g, group
<1>7. GroupInStep(rg, group, group)
  <2>1. rg.epoch <= group.epoch
    BY <1>2, <1>3, <1>5 DEF MlsGroups, RuntimeGroups
  <2> QED BY <1>2, <1>3, <1>4, <1>5, <2>1, NoGroupAssumption, NoGroupRuntimeAssumption DEF GroupInStep
<1> QED BY <1>1, <1>3, <1>6, <1>7, BothFrame

LEMMA HandleApplicationInStep ==
    ASSUME TypeInv, LayersInv, NEW h \in Handles, NEW m \in ApplicationMsgs,
           HandleApplication(h, m)
    PROVE  LayersInv'
<1> DEFINE g == m.group
           group == Consumed(Mls(h, g), m.leaf, m.gen)
           stored == backend[h].stored[g]
<1>1. g \in Groups /\ m.leaf \in Leaves /\ m.gen \in Nat
  BY DEF ApplicationMsgs
<1>2. /\ Mls(h, g) \in MlsGroups /\ stored \in MlsGroups
      /\ [stored EXCEPT !.seen = {}] = [Mls(h, g) EXCEPT !.seen = {}]
      /\ Mls(h, g).pending # NoCommit => Runtime(h, g).pending = TRUE
      /\ Runtime(h, g).epoch <= Mls(h, g).epoch
      /\ Runtime(h, g).selfLeaf \in {Mls(h, g).own, NoLeaf}
  BY <1>1, InStepFacts DEF HandleApplication, CanProcess
<1>3. PICK rg \in RuntimeGroups :
        /\ SetGroup(h, g, rg)
        /\ rg.epoch = Runtime(h, g).epoch /\ rg.selfLeaf = Runtime(h, g).selfLeaf
        /\ rg.pending = Runtime(h, g).pending
  BY RecordInStep DEF HandleApplication
<1>4. group \in MlsGroups
  BY <1>1, <1>2, GroupChanged
<1>5. /\ group.pending = Mls(h, g).pending /\ group.epoch = Mls(h, g).epoch
      /\ group.own = Mls(h, g).own
      /\ [group EXCEPT !.seen = {}] = [Mls(h, g) EXCEPT !.seen = {}]
  BY <1>2 DEF Consumed, MlsGroups
<1>6. PICK other \in {group, stored} :
        SetBackend(h, [backend[h] EXCEPT !.groups[g] = group, !.stored[g] = other])
  <2>1. PICK kept \in BOOLEAN : SetBackend(h, WithConsumed(backend[h], g, m.leaf, m.gen, kept))
    BY DEF HandleApplication
  <2>2. CASE kept = TRUE
    BY <2>1, <2>2 DEF WithConsumed, Written, Mls
  <2>3. CASE kept = FALSE
    <3>1. backend[h] \in Backends
      BY DEF TypeInv, BackendOK, SoundBackends
    <3>2. \A one : [backend[h] EXCEPT !.groups[g] = one]
                     = [backend[h] EXCEPT !.groups[g] = one, !.stored[g] = backend[h].stored[g]]
      BY <1>1, <3>1 DEF Backends
    <3>3. SetBackend(h, [backend[h] EXCEPT !.groups[g] = group])
      BY <2>1, <2>3 DEF WithConsumed, Mls
    <3> HIDE DEF group
    <3> QED BY <3>2, <3>3
  <2> QED BY <2>2, <2>3
<1>7. UNCHANGED disk
  BY DEF HandleApplication
<1> HIDE DEF g, group, stored
<1>8. GroupInStep(rg, group, other)
  <2>1. other \in MlsGroups /\ [other EXCEPT !.seen = {}] = [group EXCEPT !.seen = {}]
    BY <1>2, <1>4, <1>5
  <2>2. rg.epoch <= group.epoch /\ rg.selfLeaf \in {group.own, NoLeaf}
    BY <1>2, <1>3, <1>5
  <2>3. group.pending # NoCommit => rg.pending = TRUE
    BY <1>2, <1>3, <1>5
  <2> QED BY <1>4, <2>1, <2>2, <2>3, NoGroupAssumption, NoGroupRuntimeAssumption DEF GroupInStep
<1> QED BY <1>1, <1>3, <1>6, <1>7, <1>8, BothFrame
-----------------------------------------------------------------------------
(* Identities, exports and restores. *)

\* No groups in either layer.
LEMMA EmptyInStep ==
    ASSUME NEW s, NEW b, b.signer = s.identity, s.groups = NoGroups, b.groups = NoGroups
    PROVE  InStep(s, b)
BY DEF InStep, GroupInStep, NoGroups

LEMMA ResetFacts ==
    /\ NewRuntimeState.identity = NoClient /\ NewRuntimeState.groups = NoGroups
    /\ ResetBackend.signer = NoClient /\ ResetBackend.groups = NoGroups
    /\ \A client : /\ [NewRuntimeState EXCEPT !.identity = client].identity = client
                   /\ [NewRuntimeState EXCEPT !.identity = client].groups = NoGroups
                   /\ ConfiguredBackend(client).signer = client
                   /\ ConfiguredBackend(client).groups = NoGroups
BY DEF NewRuntimeState, ResetBackend, ConfiguredBackend

LEMMA SetupInStep ==
    ASSUME TypeInv, LayersInv, NEW h \in Handles, Setup(h)
    PROVE  LayersInv'
<1>1. state[h] \in RuntimeStates /\ backend[h] \in Backends /\ InStep(state[h], backend[h])
  BY DEF TypeInv, StateOK, BackendOK, SoundBackends, LayersInv
<1>2. ASSUME NEW client \in Accounts[h], CreateClient(h, client) PROVE LayersInv'
  <2> DEFINE s == [NewRuntimeState EXCEPT !.identity = client]
             b == ConfiguredBackend(client)
  <2>1. b.signer = s.identity /\ s.groups = NoGroups /\ b.groups = NoGroups
    BY ResetFacts
  <2>2. SetState(h, s) /\ SetBackend(h, b) /\ UNCHANGED disk
    BY <1>2 DEF CreateClient
  <2> HIDE DEF s, b
  <2>3. InStep(s, b)
    BY <2>1, EmptyInStep
  <2> QED BY <2>2, <2>3, HandleFrame
<1>3. CASE CreateClientBadKey(h)
  <2>1. InStep(NewRuntimeState, ResetBackend)
    BY ResetFacts, EmptyInStep
  <2> QED BY <1>3, <2>1, HandleFrame DEF CreateClientBadKey
<1>4. ASSUME NEW s, NEW b, SetState(h, s), SetBackend(h, b), UNCHANGED disk,
             s.identity = state[h].identity, s.groups = state[h].groups,
             b.signer = backend[h].signer, b.groups = backend[h].groups,
             b.stored = backend[h].stored
      PROVE  LayersInv'
  <2>1. InStep(s, b)
    BY <1>1, <1>4 DEF InStep
  <2> QED BY <1>4, <2>1, HandleFrame
<1>5. ASSUME NEW count \in 1 .. 2, CreateKeyPackages(h, count) PROVE LayersInv'
  <2> DEFINE made == {[id |-> n, owner |-> backend[h].signer] : n \in fresh .. fresh + count - 1}
             record(key) == [data |-> key, uploaded |-> FALSE, consumed |-> FALSE]
             b == WithKeys(backend[h], made)
             s == [state[h] EXCEPT !.keyPackages = @ \cup {record(key) : key \in made},
                                   !.counter = @ + count]
  <2>1. SetState(h, s) /\ SetBackend(h, b) /\ UNCHANGED disk
    BY <1>5 DEF CreateKeyPackages
  <2>2. s.identity = state[h].identity /\ s.groups = state[h].groups
    BY <1>1 DEF RuntimeStates
  <2>3. b.signer = backend[h].signer /\ b.groups = backend[h].groups
        /\ b.stored = backend[h].stored
    BY <1>1 DEF WithKeys, Backends
  <2> HIDE DEF s, b
  <2> QED BY <1>4, <2>1, <2>2, <2>3
<1>6. ASSUME NEW bundle \in SUBSET PublishedKeys, MarkKeyPackagesUploaded(h, bundle)
      PROVE  LayersInv'
  <2> DEFINE s == [state[h] EXCEPT !.keyPackages =
                     {[r EXCEPT !.uploaded = @ \/ r.data \in bundle] : r \in state[h].keyPackages}]
  <2>1. SetState(h, s) /\ SetBackend(h, backend[h]) /\ UNCHANGED disk
    BY <1>6 DEF MarkKeyPackagesUploaded, SetBackend, TypeInv, BackendOK
  <2>2. s.identity = state[h].identity /\ s.groups = state[h].groups
    BY <1>1 DEF RuntimeStates
  <2> HIDE DEF s
  <2> QED BY <1>4, <2>1, <2>2
<1> QED BY <1>2, <1>3, <1>5, <1>6 DEF Setup

\* Layers in step export a blob that loads into layers in step.
LEMMA ExportedInStep ==
    ASSUME NEW s \in RuntimeStates, NEW b \in Backends, InStep(s, b)
    PROVE  /\ CanLoad(Dump(b), KnownGroups(s))
           /\ InStep(s, Loaded(s.identity, Dump(b), KnownGroups(s)))
<1> DEFINE loaded == Loaded(s.identity, Dump(b), KnownGroups(s))
<1>1. ASSUME NEW g \in Groups, Known(s, g)
      PROVE  b.stored[g] # NoGroup /\ GroupInStep(s.groups[g], b.stored[g], b.stored[g])
  <2>1. GroupInStep(s.groups[g], b.groups[g], b.stored[g])
    BY DEF InStep
  <2>2. s.groups[g] # NoGroup /\ b.groups[g] # NoGroup /\ b.stored[g] # NoGroup
    BY <1>1, <2>1 DEF GroupInStep, Known
  <2>3. b.groups[g] \in MlsGroups /\ b.stored[g] \in MlsGroups
    BY <2>2 DEF Backends, MaybeMlsGroups
  <2>4. [b.stored[g] EXCEPT !.seen = {}] = [b.groups[g] EXCEPT !.seen = {}]
    BY <2>1, <2>2 DEF GroupInStep
  <2>5. /\ b.stored[g].epoch = b.groups[g].epoch /\ b.stored[g].own = b.groups[g].own
        /\ b.stored[g].pending = b.groups[g].pending
    BY <2>3, <2>4, Mirrored
  <2> QED BY <2>1, <2>2, <2>5 DEF GroupInStep
<1>2. /\ loaded.signer = s.identity /\ loaded.stored = b.stored
      /\ loaded.groups = [g \in Groups |-> IF Known(s, g) THEN b.stored[g] ELSE NoGroup]
  BY DEF Loaded, Dump, KnownGroups
<1>3. CanLoad(Dump(b), KnownGroups(s))
  BY <1>1 DEF CanLoad, Dump, KnownGroups
<1> HIDE DEF loaded
<1>4. ASSUME NEW g \in Groups
      PROVE  GroupInStep(s.groups[g], loaded.groups[g], loaded.stored[g])
  <2>1. CASE Known(s, g)
    BY <1>1, <1>2, <2>1
  <2>2. CASE ~ Known(s, g)
    BY <1>2, <2>2 DEF GroupInStep, Known
  <2> QED BY <2>1, <2>2
<1>5. InStep(s, loaded)
  BY <1>2, <1>4 DEF InStep
<1> QED BY <1>3, <1>5 DEF loaded

LEMMA PersistenceInStep ==
    ASSUME TypeInv, LayersInv, NEW h \in Handles,
           Persistence(h) \/ RestoreWithoutDump(h)
    PROVE  LayersInv'
<1>1. CASE ExportClientState(h)
  <2>1. state[h] \in RuntimeStates /\ backend[h] \in Backends /\ InStep(state[h], backend[h])
    BY DEF TypeInv, StateOK, BackendOK, SoundBackends, LayersInv
  <2>2. disk' = [disk EXCEPT ![h] = Exported(state[h], backend[h])]
        /\ UNCHANGED <<state, backend>>
    BY <1>1 DEF ExportClientState
  <2>3. ASSUME NEW k \in Handles
        PROVE  (disk[k] # NoSnap =>
                  CanLoad(disk[k].dump, SavedGroups(k)) /\ InStep(Saved(k), BlobLoaded(k)))'
    <3>1. CASE k = h
      <4>1. disk'[h].runtime = state[h] /\ disk'[h].dump = Dump(backend[h])
        BY <2>2 DEF Exported, TypeInv, DiskOK
      <4> QED BY <2>1, <3>1, <4>1, ExportedInStep DEF BlobLoaded, SavedGroups, Saved
    <3>2. CASE k # h
      <4>1. disk'[k] = disk[k]
        BY <2>2, <3>2 DEF TypeInv, DiskOK
      <4> QED BY <4>1 DEF LayersInv, BlobLoaded, SavedGroups, Saved
    <3> QED BY <3>1, <3>2
  <2> QED BY <2>2, <2>3 DEF LayersInv
<1>2. CASE NewHandle(h)
  <2>1. InStep(NewRuntimeState, ResetBackend)
    BY ResetFacts, EmptyInStep
  <2> QED BY <1>2, <2>1, HandleFrame DEF NewHandle
<1>3. CASE RestoreClient(h)
  <2>1. InStep(Saved(h), BlobLoaded(h))
    BY <1>3 DEF RestoreClient, LayersInv
  <2> QED BY <1>3, <2>1, HandleFrame DEF RestoreClient, BlobLoaded
<1>4. CASE RestoreWithoutDump(h)
  <2>1. Saved(h) \in RuntimeStates
    BY <1>4 DEF RestoreWithoutDump, Saved, TypeInv, DiskOK, Snapshots
  <2>2. Saved(h).groups = NoGroups
    BY <1>4, <2>1 DEF RestoreWithoutDump, SavedGroups, KnownGroups, Known, RuntimeStates, NoGroups
  <2>3. Reconfigured(h).signer = Saved(h).identity /\ Reconfigured(h).groups = NoGroups
    BY ResetFacts DEF Reconfigured
  <2>4. InStep(Saved(h), Reconfigured(h))
    BY <2>2, <2>3, EmptyInStep
  <2> QED BY <1>4, <2>4, HandleFrame DEF RestoreWithoutDump
<1> QED BY <1>1, <1>2, <1>3, <1>4 DEF Persistence
-----------------------------------------------------------------------------
(* The invariant and the theorems. *)

LEMMA InitInStep == Init => LayersInv
<1> SUFFICES ASSUME Init PROVE LayersInv
  OBVIOUS
<1>1. InStep(NewRuntimeState, ResetBackend)
  BY ResetFacts, EmptyInStep
<1> QED BY <1>1 DEF Init, LayersInv

LEMMA StepInStep == TypeInv /\ LayersInv /\ [CleanNext]_vars => LayersInv'
<1> SUFFICES ASSUME TypeInv, LayersInv, [CleanNext]_vars PROVE LayersInv'
  OBVIOUS
<1>1. ASSUME NEW h \in Handles, Lifecycle(h) PROVE LayersInv'
  <2>1. \A key \in PublishedKeys : key \in KeyPackages
    BY ArrivedTypes
  <2>2. (\A m \in Arrived("welcome") : m \in WelcomeMsgs) /\ (\A m \in Arrived("commit") : m \in CommitMsgs)
    BY ArrivedTypes
  <2> QED BY <1>1, <2>1, <2>2, CreateGroupInStep, SelfUpdateInStep, MergeInStep, InviteInStep,
             RemoveInStep, JoinInStep, JoinRefusedInStep, HandleCommitInStep DEF Lifecycle
<1>2. ASSUME NEW h \in Handles, Messaging(h) PROVE LayersInv'
  <2>1. \A m \in Arrived("application") : m \in ApplicationMsgs
    BY ArrivedTypes
  <2> QED BY <1>2, <2>1, EncryptInStep, HandleApplicationInStep DEF Messaging
<1>3. ASSUME NEW h \in Handles, CleanStep(h) PROVE LayersInv'
  BY <1>1, <1>2, <1>3, SetupInStep, PersistenceInStep, ClearInStep, DropInStep DEF CleanStep, Recovery
<1>4. CASE UNCHANGED vars
  BY <1>4 DEF vars, LayersInv, BlobLoaded, SavedGroups, Saved
<1> QED BY <1>3, <1>4 DEF CleanNext

LEMMA InStepAlways == CleanSpec => [](TypeInv /\ LayersInv)
<1>1. [CleanNext]_vars => [Next]_vars
  BY DEF CleanNext, Next
<1>2. Init => TypeInv /\ LayersInv
  BY InitTypes, InitInStep
<1>3. (TypeInv /\ LayersInv) /\ [CleanNext]_vars => (TypeInv /\ LayersInv)'
  BY <1>1, StepTypes, StepInStep
<1> QED BY <1>2, <1>3, PTL DEF CleanSpec

\* The service and the backend know the same groups and the same client (LayersAgree)
\* in every session no failed restore has touched.
THEOREM LayersAgreeCorrect == CleanSpec => []LayersAgree
<1>1. TypeInv /\ LayersInv => LayersAgree
  BY DEF LayersInv, InStep, GroupInStep, LayersAgree, Identity, Known, HasGroup
<1> QED BY <1>1, InStepAlways, PTL

\* A commit waiting in the backend is never missed by the service's flag.
THEOREM PendingFlaggedCorrect == CleanSpec => []PendingFlagged
<1>1. TypeInv /\ LayersInv => PendingFlagged
  BY InStepFacts DEF PendingFlagged
<1> QED BY <1>1, InStepAlways, PTL

\* The service's projection never runs ahead of the group.
THEOREM NeverAheadCorrect == CleanSpec => []NeverAhead
<1>1. TypeInv /\ LayersInv => NeverAhead
  BY InStepFacts DEF NeverAhead
<1> QED BY <1>1, InStepAlways, PTL

\* At every moment, exporting and restoring gives the same client back.
THEOREM ExportRestorableCorrect == CleanSpec => []ExportRestorable
<1>1. ASSUME TypeInv, LayersInv, NEW h \in Handles
      PROVE  LET blob == Exported(state[h], backend[h])
                 ids == KnownGroups(blob.runtime)
                 restored == Loaded(blob.runtime.identity, blob.dump, ids)
             IN /\ CanLoad(blob.dump, ids)
                /\ restored.signer = backend[h].signer
                /\ restored.keys = backend[h].keys
                /\ \A g \in Groups : SameButConsumed(restored.groups[g], backend[h].groups[g])
  <2> DEFINE ids == KnownGroups(state[h])
             restored == Loaded(state[h].identity, Dump(backend[h]), ids)
  <2>1. state[h] \in RuntimeStates /\ backend[h] \in Backends /\ InStep(state[h], backend[h])
    BY <1>1 DEF TypeInv, StateOK, BackendOK, SoundBackends, LayersInv
  <2>2. CanLoad(Dump(backend[h]), ids)
    BY <2>1, ExportedInStep
  <2>3. restored.signer = backend[h].signer /\ restored.keys = backend[h].keys
    BY <2>1 DEF Loaded, Dump, InStep
  <2>4. ASSUME NEW g \in Groups
        PROVE  SameButConsumed(restored.groups[g], backend[h].groups[g])
    <3>1. restored.groups[g] = IF Known(state[h], g) THEN backend[h].stored[g] ELSE NoGroup
      BY DEF Loaded, Dump, KnownGroups
    <3>2. GroupInStep(state[h].groups[g], backend[h].groups[g], backend[h].stored[g])
      BY <2>1 DEF InStep
    <3>3. CASE Known(state[h], g)
      BY <3>1, <3>2, <3>3 DEF GroupInStep, Known, SameButConsumed
    <3>4. CASE ~ Known(state[h], g)
      BY <3>1, <3>2, <3>4 DEF GroupInStep, Known, SameButConsumed
    <3> QED BY <3>3, <3>4
  <2> HIDE DEF restored, ids
  <2>5. /\ Exported(state[h], backend[h]).runtime = state[h]
        /\ Exported(state[h], backend[h]).dump = Dump(backend[h])
    BY DEF Exported
  <2> QED BY <2>2, <2>3, <2>4, <2>5 DEF restored, ids
<1>2. TypeInv /\ LayersInv => ExportRestorable
  BY <1>1 DEF ExportRestorable
<1> QED BY <1>2, InStepAlways, PTL
-----------------------------------------------------------------------------
(* Nothing of another identity.  The property speaks of the live session, which a       *)
(* restore replaces: the invariant speaks of the session the blob would load too.       *)

Owned(s, b) ==
    /\ \A record \in s.keyPackages : record.data.owner = s.identity
    /\ \A key \in b.keys : key.owner = s.identity
    /\ \A g \in Groups : b.groups[g] # NoGroup => b.groups[g].me = s.identity

OwnedInv ==
    \A h \in Handles :
        /\ Owned(state[h], backend[h])
        /\ disk[h] # NoSnap => Owned(Saved(h), BlobLoaded(h))

\* c is b with the copy of one group in memory changed.
OneGroup(b, c, g) ==
    /\ c.signer = b.signer /\ c.keys = b.keys
    /\ \A k \in Groups \ {g} : c.groups[k] = b.groups[k]

\* What each change of a backend makes of the group in memory.
LEMMA OneGroupChanged ==
    ASSUME NEW b \in Backends, NEW g \in Groups
    PROVE  /\ \A group : /\ OneGroup(b, Written(b, g, group), g)
                         /\ Written(b, g, group).groups[g] = group
           /\ \A id, tree : /\ OneGroup(b, WithStaged(b, g, id, tree), g)
                            /\ WithStaged(b, g, id, tree).groups[g] = Staged(b.groups[g], id, tree)
           /\ OneGroup(b, WithMerged(b, g), g)
           /\ WithMerged(b, g).groups[g] = MergedOwn(b.groups[g])
           /\ OneGroup(b, WithCleared(b, g), g)
           /\ WithCleared(b, g).groups[g] = Cleared(b.groups[g])
           /\ OneGroup(b, Dropped(b, g), g) /\ Dropped(b, g).groups[g] = NoGroup
           /\ \A leaf, gen, kept :
                /\ OneGroup(b, WithConsumed(b, g, leaf, gen, kept), g)
                /\ WithConsumed(b, g, leaf, gen, kept).groups[g] = Consumed(b.groups[g], leaf, gen)
<1>1. ASSUME NEW one, NEW other
      PROVE  LET c == [b EXCEPT !.groups[g] = one, !.stored[g] = other]
             IN OneGroup(b, c, g) /\ c.groups[g] = one
  BY DEF OneGroup, Backends
<1>2. ASSUME NEW one
      PROVE  LET c == [b EXCEPT !.groups[g] = one]
             IN OneGroup(b, c, g) /\ c.groups[g] = one
  BY DEF OneGroup, Backends
<1>3. ASSUME NEW group
      PROVE  OneGroup(b, Written(b, g, group), g) /\ Written(b, g, group).groups[g] = group
  BY <1>1 DEF Written
<1>4. ASSUME NEW id, NEW tree
      PROVE  /\ OneGroup(b, WithStaged(b, g, id, tree), g)
             /\ WithStaged(b, g, id, tree).groups[g] = Staged(b.groups[g], id, tree)
  BY <1>1 DEF WithStaged
<1>5. /\ OneGroup(b, WithMerged(b, g), g)
      /\ WithMerged(b, g).groups[g] = MergedOwn(b.groups[g])
  BY <1>1 DEF WithMerged
<1>6. /\ OneGroup(b, WithCleared(b, g), g)
      /\ WithCleared(b, g).groups[g] = Cleared(b.groups[g])
  BY <1>1 DEF WithCleared
<1>7. OneGroup(b, Dropped(b, g), g) /\ Dropped(b, g).groups[g] = NoGroup
  BY <1>2 DEF Dropped
<1>8. ASSUME NEW leaf, NEW gen, NEW kept
      PROVE  /\ OneGroup(b, WithConsumed(b, g, leaf, gen, kept), g)
             /\ WithConsumed(b, g, leaf, gen, kept).groups[g] = Consumed(b.groups[g], leaf, gen)
  BY <1>2, <1>3 DEF WithConsumed
<1> QED BY <1>3, <1>4, <1>5, <1>6, <1>7, <1>8

\* A step that gives one handle a session of one identity, and exports nothing.
LEMMA OwnedFrame ==
    ASSUME TypeInv, OwnedInv, NEW h \in Handles, NEW s, NEW b,
           SetState(h, s), SetBackend(h, b), UNCHANGED disk, Owned(s, b)
    PROVE  OwnedInv'
<1>1. ASSUME NEW k \in Handles PROVE Owned(state'[k], backend'[k])
  <2>1. CASE k = h
    BY <2>1 DEF SetState, SetBackend, TypeInv, StateOK, BackendOK
  <2>2. CASE k # h
    <3>1. state'[k] = state[k] /\ backend'[k] = backend[k]
      BY <2>2 DEF SetState, SetBackend, TypeInv, StateOK, BackendOK
    <3> QED BY <3>1 DEF OwnedInv
  <2> QED BY <2>1, <2>2
<1>2. ASSUME NEW k \in Handles
      PROVE  (disk[k] # NoSnap => Owned(Saved(k), BlobLoaded(k)))'
  BY DEF OwnedInv, SavedGroups, Saved, BlobLoaded
<1> QED BY <1>1, <1>2 DEF OwnedInv

\* The runtime changes nothing but the record of a group, or nothing at all.
RecordAlone(h, g) == UNCHANGED state \/ \E rg : SetGroup(h, g, rg)

\* A step that changes one group, whose copy stays the identity's.
LEMMA OwnedGroupFrame ==
    ASSUME TypeInv, OwnedInv, NEW h \in Handles, NEW g \in Groups, NEW b,
           RecordAlone(h, g), SetBackend(h, b), UNCHANGED disk,
           b.keys \subseteq backend[h].keys,
           \A k \in Groups \ {g} : b.groups[k] = backend[h].groups[k],
           b.groups[g] = NoGroup \/ b.groups[g].me = Identity(h)
    PROVE  OwnedInv'
<1>1. PICK s : /\ SetState(h, s)
               /\ s.identity = state[h].identity /\ s.keyPackages = state[h].keyPackages
  <2>1. state[h] \in RuntimeStates /\ state = [state EXCEPT ![h] = state[h]]
    BY DEF TypeInv, StateOK
  <2>2. ASSUME NEW rg, SetGroup(h, g, rg)
        PROVE  \E s : /\ SetState(h, s)
                      /\ s.identity = state[h].identity /\ s.keyPackages = state[h].keyPackages
    <3> DEFINE s == [state[h] EXCEPT !.groups[g] = rg]
    <3>1. s.identity = state[h].identity /\ s.keyPackages = state[h].keyPackages
      BY <2>1 DEF RuntimeStates
    <3>2. SetState(h, s)
      BY <2>2 DEF SetGroup, SetState
    <3> QED BY <3>1, <3>2
  <2> QED BY <2>1, <2>2 DEF RecordAlone, SetState
<1>2. Owned(state[h], backend[h])
  BY DEF OwnedInv
<1>3. Owned(s, b)
  BY <1>1, <1>2 DEF Owned, Identity
<1> QED BY <1>1, <1>3, OwnedFrame

\* No change of a group changes whose copy it is.
LEMMA OwnerKept ==
    ASSUME NEW group \in MlsGroups
    PROVE  /\ \A id, tree : Staged(group, id, tree).me = group.me
           /\ \A id, tree : MergedIncoming(group, id, tree).me = group.me
           /\ MergedOwn(group).me = group.me
           /\ Cleared(group).me = group.me
           /\ Sent(group).me = group.me
           /\ \A leaf, gen : Consumed(group, leaf, gen).me = group.me
BY DEF Staged, MergedIncoming, MergedOwn, Cleared, Sent, Consumed, AtNextEpoch, MemberAt, MlsGroups

\* The calls that change a group already there.
LEMMA OwnedChanges ==
    ASSUME TypeInv, OwnedInv, NEW h \in Handles, NEW g \in Groups,
           \/ \E key \in KeyPackages : Invite(h, g, key)
           \/ \E client \in Clients : Remove(h, g, client)
           \/ SelfUpdate(h, g) \/ MergePendingCommit(h, g) \/ ClearPendingCommit(h, g)
           \/ DropGroup(h, g) \/ EncryptMessage(h, g)
           \/ \E m : m.group = g /\ (HandleCommit(h, m) \/ HandleApplication(h, m))
    PROVE  OwnedInv'
<1> DEFINE b == backend[h]
           group == Mls(h, g)
<1>1. HasGroup(b, g) /\ UNCHANGED disk
  BY DEF Invite, Remove, SelfUpdate, StageCommit, MergePendingCommit, ClearPendingCommit,
         DropGroup, EncryptMessage, HandleCommit, HandleApplication, CanProcess
<1>2. /\ b \in Backends /\ group \in MlsGroups /\ group = b.groups[g] /\ group.me = Identity(h)
  BY <1>1, Read DEF SoundBackends, OwnedInv, Owned, HasGroup, Mls, Identity
<1>3. RecordAlone(h, g)
  BY DEF RecordAlone, Invite, Remove, SelfUpdate, StageCommit, MergePendingCommit,
         ClearPendingCommit, DropGroup, EncryptMessage, HandleCommit, HandleApplication, RecordIncoming
<1>4. ASSUME NEW c, SetBackend(h, c), OneGroup(b, c, g),
             c.groups[g] = NoGroup \/ c.groups[g].me = group.me
      PROVE  OwnedInv'
  BY <1>1, <1>2, <1>3, <1>4, OwnedGroupFrame DEF OneGroup
<1>5. ASSUME NEW tree, SetBackend(h, WithStaged(b, g, fresh, tree)) PROVE OwnedInv'
  BY <1>2, <1>4, <1>5, OneGroupChanged, OwnerKept
<1>6. ASSUME NEW one, one.me = group.me, SetBackend(h, Written(b, g, one)) PROVE OwnedInv'
  BY <1>2, <1>4, <1>6, OneGroupChanged
<1>7. CASE \/ \E key \in KeyPackages : Invite(h, g, key)
           \/ \E client \in Clients : Remove(h, g, client)
           \/ SelfUpdate(h, g)
  BY <1>5, <1>7 DEF Invite, Remove, SelfUpdate, StageCommit
<1>8. CASE MergePendingCommit(h, g)
  BY <1>2, <1>4, <1>8, OneGroupChanged, OwnerKept DEF MergePendingCommit
<1>9. CASE ClearPendingCommit(h, g)
  BY <1>2, <1>4, <1>9, OneGroupChanged, OwnerKept DEF ClearPendingCommit
<1>10. CASE DropGroup(h, g)
  BY <1>2, <1>4, <1>10, OneGroupChanged DEF DropGroup
<1>11. CASE EncryptMessage(h, g)
  BY <1>2, <1>6, <1>11, OwnerKept DEF EncryptMessage
<1>12. ASSUME NEW m, m.group = g, HandleCommit(h, m) PROVE OwnedInv'
  BY <1>2, <1>6, <1>12, OwnerKept DEF HandleCommit
<1>13. ASSUME NEW m, m.group = g, HandleApplication(h, m) PROVE OwnedInv'
  BY <1>2, <1>4, <1>13, OneGroupChanged, OwnerKept DEF HandleApplication
<1> QED BY <1>7, <1>8, <1>9, <1>10, <1>11, <1>12, <1>13

\* A new group is made with the signer, which is the identity's; a join is with a key
\* package of the identity.
LEMMA OwnedBegins ==
    ASSUME TypeInv, LayersInv, OwnedInv, NEW h \in Handles,
           \/ \E g \in Groups : CreateGroup(h, g)
           \/ \E m \in WelcomeMsgs : JoinFromWelcome(h, m) \/ JoinRefused(h, m)
    PROVE  OwnedInv'
<1> DEFINE b == backend[h]
<1>1. b \in Backends /\ b.signer = Identity(h) /\ \A key \in b.keys : key.owner = Identity(h)
  BY DEF TypeInv, BackendOK, SoundBackends, LayersInv, InStep, OwnedInv, Owned, Identity
<1>2. ASSUME NEW g \in Groups, CreateGroup(h, g) PROVE OwnedInv'
  <2> DEFINE group == NewGroup(b.signer, fresh)
  <2>1. group.me = Identity(h)
    BY <1>1 DEF NewGroup, MemberAt
  <2>2. SetBackend(h, Written(b, g, group)) /\ RecordAlone(h, g) /\ UNCHANGED disk
    BY <1>2 DEF CreateGroup, RecordAlone
  <2> HIDE DEF group, b
  <2>3. b.keys \subseteq backend[h].keys
    BY DEF b
  <2>4. OneGroup(b, Written(b, g, group), g) /\ Written(b, g, group).groups[g] = group
    BY <1>1, OneGroupChanged
  <2> QED BY <2>1, <2>2, <2>4, OwnedGroupFrame DEF OneGroup, b
<1>3. ASSUME NEW m \in WelcomeMsgs, JoinFromWelcome(h, m) \/ JoinRefused(h, m) PROVE OwnedInv'
  <2> DEFINE c == WithoutKey(b, m.key)
             group == MemberAt(m.key.owner, m.leaf, m.id, m.epoch, m.tree)
  <2>1. m.group \in Groups /\ c \in Backends /\ c.groups = b.groups /\ c.keys \subseteq b.keys
    BY <1>1 DEF WithoutKey, Backends, WelcomeMsgs
  <2>2. group.me = Identity(h)
    BY <1>1, <1>3 DEF JoinFromWelcome, JoinRefused, MemberAt
  <2>3. RecordAlone(h, m.group) /\ UNCHANGED disk
    BY <1>3 DEF JoinFromWelcome, JoinRefused, RecordAlone
  <2>4. CASE JoinFromWelcome(h, m)
    <3>1. SetBackend(h, Written(c, m.group, group))
      BY <2>4 DEF JoinFromWelcome
    <3> HIDE DEF group, c
    <3>2. OneGroup(c, Written(c, m.group, group), m.group)
          /\ Written(c, m.group, group).groups[m.group] = group
      BY <2>1, OneGroupChanged
    <3> QED BY <2>1, <2>2, <2>3, <3>1, <3>2, OwnedGroupFrame DEF OneGroup
  <2>5. CASE JoinRefused(h, m)
    <3>1. SetBackend(h, c)
      BY <2>5 DEF JoinRefused
    <3>2. b.groups[m.group] = NoGroup \/ b.groups[m.group].me = Identity(h)
      BY <2>1 DEF OwnedInv, Owned, Identity
    <3> HIDE DEF c
    <3> QED BY <2>1, <2>3, <3>1, <3>2, OwnedGroupFrame
  <2> QED BY <1>3, <2>4, <2>5
<1> QED BY <1>2, <1>3

LEMMA SetupOwned ==
    ASSUME TypeInv, LayersInv, OwnedInv, NEW h \in Handles, Setup(h)
    PROVE  OwnedInv'
<1>1. /\ state[h] \in RuntimeStates /\ backend[h] \in Backends
      /\ backend[h].signer = state[h].identity /\ Owned(state[h], backend[h])
  BY DEF TypeInv, StateOK, BackendOK, SoundBackends, LayersInv, InStep, OwnedInv
<1>2. ASSUME NEW s, s.keyPackages = {} PROVE Owned(s, ResetBackend)
  BY <1>2 DEF Owned, ResetBackend, NoGroups
<1>3. ASSUME NEW client \in Accounts[h], CreateClient(h, client) PROVE OwnedInv'
  <2> DEFINE s == [NewRuntimeState EXCEPT !.identity = client]
             b == ConfiguredBackend(client)
  <2>1. s.keyPackages = {} /\ b.keys = {} /\ b.groups = NoGroups
    BY DEF NewRuntimeState, ConfiguredBackend, ResetBackend
  <2>2. SetState(h, s) /\ SetBackend(h, b) /\ UNCHANGED disk
    BY <1>3 DEF CreateClient
  <2> HIDE DEF s, b
  <2>3. Owned(s, b)
    BY <2>1 DEF Owned, NoGroups
  <2> QED BY <2>2, <2>3, OwnedFrame
<1>4. CASE CreateClientBadKey(h)
  <2>1. Owned(NewRuntimeState, ResetBackend)
    BY <1>2 DEF NewRuntimeState
  <2> QED BY <1>4, <2>1, OwnedFrame DEF CreateClientBadKey
<1>5. ASSUME NEW count \in 1 .. 2, CreateKeyPackages(h, count) PROVE OwnedInv'
  <2> DEFINE made == {[id |-> n, owner |-> backend[h].signer] : n \in fresh .. fresh + count - 1}
             records == {[data |-> key, uploaded |-> FALSE, consumed |-> FALSE] : key \in made}
             b == WithKeys(backend[h], made)
             s == [state[h] EXCEPT !.keyPackages = @ \cup records, !.counter = @ + count]
  <2>1. SetState(h, s) /\ SetBackend(h, b) /\ UNCHANGED disk
    BY <1>5 DEF CreateKeyPackages
  <2>2. /\ \A key \in made : key.owner = state[h].identity
        /\ \A record \in records : record.data \in made
    BY <1>1
  <2> HIDE DEF made, records
  <2>3. s.identity = state[h].identity /\ s.keyPackages = state[h].keyPackages \cup records
    BY <1>1 DEF RuntimeStates
  <2>4. b.keys = backend[h].keys \cup made /\ b.groups = backend[h].groups
    BY <1>1 DEF WithKeys, Backends
  <2> HIDE DEF s, b
  <2>5. Owned(s, b)
    BY <1>1, <2>2, <2>3, <2>4 DEF Owned
  <2> QED BY <2>1, <2>5, OwnedFrame
<1>6. ASSUME NEW bundle \in SUBSET PublishedKeys, MarkKeyPackagesUploaded(h, bundle)
      PROVE  OwnedInv'
  <2> DEFINE marked == {[r EXCEPT !.uploaded = @ \/ r.data \in bundle] : r \in state[h].keyPackages}
             s == [state[h] EXCEPT !.keyPackages = marked]
  <2>1. SetState(h, s) /\ SetBackend(h, backend[h]) /\ UNCHANGED disk
    BY <1>6 DEF MarkKeyPackagesUploaded, SetBackend, TypeInv, BackendOK
  <2>2. \A record \in marked : \E r \in state[h].keyPackages : record.data = r.data
    BY <1>1 DEF RuntimeStates, KeyPackageRecords
  <2> HIDE DEF marked
  <2>3. s.identity = state[h].identity /\ s.keyPackages = marked
    BY <1>1 DEF RuntimeStates
  <2> HIDE DEF s
  <2>4. Owned(s, backend[h])
    BY <1>1, <2>2, <2>3 DEF Owned
  <2> QED BY <2>1, <2>4, OwnedFrame
<1> QED BY <1>3, <1>4, <1>5, <1>6 DEF Setup

LEMMA PersistenceOwned ==
    ASSUME TypeInv, LayersInv, OwnedInv, NEW h \in Handles,
           Persistence(h) \/ RestoreWithoutDump(h)
    PROVE  OwnedInv'
<1>1. \A s : s.keyPackages = {} => Owned(s, ResetBackend)
  BY DEF Owned, ResetBackend, NoGroups
<1>2. CASE ExportClientState(h)
  <2> DEFINE loaded == Loaded(state[h].identity, Dump(backend[h]), KnownGroups(state[h]))
  <2>1. disk' = [disk EXCEPT ![h] = Exported(state[h], backend[h])]
        /\ UNCHANGED <<state, backend>>
    BY <1>2 DEF ExportClientState
  <2>2. state[h] \in RuntimeStates /\ backend[h] \in Backends /\ Owned(state[h], backend[h])
    BY DEF TypeInv, StateOK, BackendOK, SoundBackends, OwnedInv
  <2>3. ASSUME NEW g \in Groups, loaded.groups[g] # NoGroup
        PROVE  loaded.groups[g].me = state[h].identity
    <3>1. loaded.groups[g] = backend[h].stored[g] /\ Known(state[h], g)
      BY <2>3 DEF Loaded, Dump, KnownGroups
    <3>2. HasGroup(backend[h], g)
      BY <3>1 DEF LayersInv, InStep, GroupInStep, Known, HasGroup
    <3>3. backend[h].stored[g].me = Mls(h, g).me
      BY <3>2, InStepFacts, Mirrored
    <3> QED BY <2>2, <3>1, <3>2, <3>3 DEF Owned, HasGroup, Mls
  <2>4. Owned(state[h], loaded)
    <3>1. loaded.keys = backend[h].keys
      BY DEF Loaded, Dump
    <3> HIDE DEF loaded
    <3> QED BY <2>2, <2>3, <3>1 DEF Owned
  <2>5. ASSUME NEW k \in Handles, disk'[k] # NoSnap
        PROVE  Owned(Saved(k), BlobLoaded(k))'
    <3>1. CASE k = h
      <4>1. disk'[h].runtime = state[h] /\ disk'[h].dump = Dump(backend[h])
        BY <2>1 DEF Exported, TypeInv, DiskOK
      <4> QED BY <2>4, <3>1, <4>1 DEF BlobLoaded, SavedGroups, Saved
    <3>2. CASE k # h
      <4>1. disk'[k] = disk[k]
        BY <2>1, <3>2 DEF TypeInv, DiskOK
      <4> QED BY <2>5, <4>1 DEF OwnedInv, BlobLoaded, SavedGroups, Saved
    <3> QED BY <3>1, <3>2
  <2> QED BY <2>1, <2>5 DEF OwnedInv
<1>3. CASE NewHandle(h)
  <2>1. Owned(NewRuntimeState, ResetBackend)
    BY <1>1 DEF NewRuntimeState
  <2> QED BY <1>3, <2>1, OwnedFrame DEF NewHandle
<1>4. CASE RestoreClient(h)
  BY <1>4, OwnedFrame DEF RestoreClient, OwnedInv, BlobLoaded
<1>5. CASE RestoreWithoutDump(h)
  <2>1. Owned(Saved(h), BlobLoaded(h))
    BY <1>5 DEF RestoreWithoutDump, OwnedInv
  <2>2. Reconfigured(h).keys = {} /\ Reconfigured(h).groups = NoGroups
    BY DEF Reconfigured, ConfiguredBackend, ResetBackend
  <2>3. Owned(Saved(h), Reconfigured(h))
    BY <2>1, <2>2 DEF Owned, NoGroups
  <2> QED BY <1>5, <2>3, OwnedFrame DEF RestoreWithoutDump
<1> QED BY <1>2, <1>3, <1>4, <1>5 DEF Persistence

LEMMA StepOwned == TypeInv /\ LayersInv /\ OwnedInv /\ [CleanNext]_vars => OwnedInv'
<1> SUFFICES ASSUME TypeInv, LayersInv, OwnedInv, [CleanNext]_vars PROVE OwnedInv'
  OBVIOUS
<1>1. /\ \A key \in PublishedKeys : key \in KeyPackages
      /\ \A m \in Arrived("welcome") : m \in WelcomeMsgs
      /\ \A m \in Arrived("commit") : m \in CommitMsgs /\ m.group \in Groups
      /\ \A m \in Arrived("application") : m \in ApplicationMsgs /\ m.group \in Groups
  BY ArrivedTypes DEF CommitMsgs, ApplicationMsgs
<1>2. ASSUME NEW h \in Handles, Lifecycle(h) PROVE OwnedInv'
  BY <1>1, <1>2, OwnedChanges, OwnedBegins DEF Lifecycle
<1>3. ASSUME NEW h \in Handles, Messaging(h) \/ Recovery(h) PROVE OwnedInv'
  BY <1>1, <1>3, OwnedChanges DEF Messaging, Recovery
<1>4. ASSUME NEW h \in Handles, CleanStep(h) PROVE OwnedInv'
  BY <1>2, <1>3, <1>4, SetupOwned, PersistenceOwned DEF CleanStep
<1>5. CASE UNCHANGED vars
  BY <1>5 DEF vars, OwnedInv, BlobLoaded, SavedGroups, Saved
<1> QED BY <1>4, <1>5 DEF CleanNext

\* After a re-init of the handle, and after any restore, every key package record, every
\* private key and every group is of the identity now in place (OwnedByIdentity):
\* create_client and restore_client leave nothing of an earlier one.
THEOREM OwnedByIdentityCorrect == CleanSpec => []OwnedByIdentity
<1>1. Init => OwnedInv
  BY DEF Init, OwnedInv, Owned, NewRuntimeState, ResetBackend, NoGroups
<1>2. TypeInv /\ OwnedInv => OwnedByIdentity
  BY DEF OwnedInv, Owned, OwnedByIdentity, Identity, HasGroup, Mls
<1>3. TypeInv /\ LayersInv /\ OwnedInv /\ [CleanNext]_vars => OwnedInv'
  BY StepOwned
<1> QED BY <1>1, <1>2, <1>3, InStepAlways, PTL DEF CleanSpec

\* A re-init, or a restore that succeeds, leaves the two layers in agreement whatever
\* had failed before in the session or on the disk (Resynchronises): a session split by
\* a failed restore_client is repaired by the next call of either.
THEOREM ResynchronisesCorrect == Spec => Resynchronises
<1>1. ASSUME TypeInv, NEW h \in Handles,
             RestoreClient(h) \/ \E client \in Accounts[h] : CreateClient(h, client)
      PROVE  /\ backend'[h].signer = state'[h].identity
             /\ \A g \in Groups : Known(state'[h], g) <=> HasGroup(backend'[h], g)
  <2>1. CASE RestoreClient(h)
    <3>1. state'[h] = Saved(h)
      BY <1>1, <2>1 DEF RestoreClient, SetState, TypeInv, StateOK
    <3>2. backend'[h] = BlobLoaded(h)
      BY <1>1, <2>1 DEF RestoreClient, SetBackend, BlobLoaded, TypeInv, BackendOK
    <3>3. ASSUME NEW g \in Groups PROVE Known(Saved(h), g) <=> HasGroup(BlobLoaded(h), g)
      BY <2>1 DEF RestoreClient, CanLoad, BlobLoaded, Loaded, HasGroup, SavedGroups, KnownGroups
    <3>4. BlobLoaded(h).signer = Saved(h).identity
      BY DEF BlobLoaded, Loaded
    <3> QED BY <3>1, <3>2, <3>3, <3>4
  <2>2. ASSUME NEW client \in Accounts[h], CreateClient(h, client)
        PROVE  /\ backend'[h].signer = state'[h].identity
               /\ \A g \in Groups : Known(state'[h], g) <=> HasGroup(backend'[h], g)
    <3>1. state'[h] = [NewRuntimeState EXCEPT !.identity = client]
      BY <1>1, <2>2 DEF CreateClient, SetState, TypeInv, StateOK
    <3>2. backend'[h] = ConfiguredBackend(client)
      BY <1>1, <2>2 DEF CreateClient, SetBackend, TypeInv, BackendOK
    <3> QED BY <3>1, <3>2, ResetFacts DEF Known, HasGroup, NoGroups
  <2> QED BY <1>1, <2>1, <2>2
<1> DEFINE A == \A h \in Handles :
                  RestoreClient(h) \/ (\E client \in Accounts[h] : CreateClient(h, client)) =>
                    /\ backend'[h].signer = state'[h].identity
                    /\ \A g \in Groups : Known(state'[h], g) <=> HasGroup(backend'[h], g)
<1>2. TypeInv /\ [Next]_vars => A
  BY <1>1
<1>3. Init => TypeInv
  BY InitTypes
<1>4. TypeInv /\ [Next]_vars => TypeInv'
  BY StepTypes
<1> QED BY <1>2, <1>3, <1>4, PTL DEF Spec, Resynchronises
=============================================================================
