--------------------------- MODULE MessengerRosters ---------------------------
(***************************************************************************)
(* Every record the service keeps of a group has a roster that agrees with *)
(* itself, a queue that agrees with its offset and an offset that never    *)
(* restarts: for every value of the constants, whatever fails, and after   *)
(* any restore.  The record of a founder that alone commits agrees with    *)
(* the ratchet tree, too.                                                  *)
(*                                                                         *)
(* The properties speak of the live records only; a restore brings the     *)
(* records of the disk back, so the invariants speak of those too.         *)
(***************************************************************************)
EXTENDS MessengerLayers, FiniteSetTheorems

\* The member list and the member map, as in RosterConsistent.
RosterOK(members, map) ==
    /\ {entry[2] : entry \in map} = members
    /\ \A one, other \in map : one[1] = other[1] \/ one[2] = other[2] => one = other

\* The queue and the offset, as in QueueTracksOffset.
QueueOK(queue, offset) == Len(queue) = IF offset <= MaxQueue THEN offset ELSE MaxQueue

SoundRecord(rg) == RosterOK(rg.members, rg.memberMap) /\ QueueOK(rg.queue, rg.offset)

SoundRecords(s) == \A g \in Groups : Known(s, g) => SoundRecord(s.groups[g])

RecordsInv ==
    \A h \in Handles : SoundRecords(state[h]) /\ (disk[h] # NoSnap => SoundRecords(Saved(h)))
-----------------------------------------------------------------------------
(* Rosters and queues. *)

LEMMA RosterGrows ==
    ASSUME NEW members, NEW map \in SUBSET (Indices \X Clients), RosterOK(members, map),
           NEW client \in Clients, client \notin members,
           NEW index \in Indices, NextIndex(map, index)
    PROVE  RosterOK(members \cup {client}, map \cup {<<index, client>>})
<1> DEFINE grown == map \cup {<<index, client>>}
<1>1. {entry[2] : entry \in grown} = members \cup {client}
  <2>1. \A pair : {entry[2] : entry \in map \cup {pair}}
                    = {entry[2] : entry \in map} \cup {pair[2]}
    OBVIOUS
  <2>2. <<index, client>>[2] = client
    OBVIOUS
  <2> QED BY <2>1, <2>2 DEF RosterOK
<1>2. \A entry \in map : entry[1] # index /\ entry[2] # client
  <2>1. \A entry \in map : entry[1] < index
    BY DEF NextIndex
  <2>2. \A entry \in map : entry[1] \in Nat
    BY IndexAssumption DEF Indices
  <2>3. \A entry \in map : entry[2] \in members
    BY DEF RosterOK
  <2> QED BY <2>1, <2>2, <2>3
<1>3. ASSUME NEW one \in grown, NEW other \in grown, one[1] = other[1] \/ one[2] = other[2]
      PROVE  one = other
  BY <1>2, <1>3 DEF RosterOK
<1> QED BY <1>1, <1>3 DEF RosterOK

LEMMA RosterShrinks ==
    ASSUME NEW members, NEW map, RosterOK(members, map), NEW client,
           NEW less, less = {other \in map : other[2] # client}
    PROVE  RosterOK(members \ {client}, less)
BY DEF RosterOK

LEMMA QueueGrows ==
    ASSUME NEW queue \in Seq(Nat), NEW offset \in Nat, QueueOK(queue, offset), NEW item \in Nat
    PROVE  QueueOK(Enqueued(queue, item), offset + 1)
<1> DEFINE longer == Append(queue, item)
<1>1. longer \in Seq(Nat) /\ Len(longer) = Len(queue) + 1 /\ longer # <<>> /\ Len(queue) \in Nat
  OBVIOUS
<1>2. Len(Tail(longer)) = Len(queue)
  BY <1>1
<1>3. Len(Enqueued(queue, item)) = IF Len(queue) + 1 > MaxQueue THEN Len(queue) ELSE Len(queue) + 1
  <2> HIDE DEF longer
  <2>1. Enqueued(queue, item) = IF Len(longer) > MaxQueue THEN Tail(longer) ELSE longer
    BY DEF Enqueued, longer
  <2> QED BY <1>1, <1>2, <2>1
<1> QED BY <1>1, <1>3, QueueAssumption DEF QueueOK
-----------------------------------------------------------------------------
(* Frames. *)

\* A step that gives one handle a state with sound records, and exports nothing.
LEMMA StateFrame ==
    ASSUME TypeInv, RecordsInv, NEW h \in Handles, NEW s, SetState(h, s), SoundRecords(s),
           UNCHANGED disk
    PROVE  RecordsInv'
<1>1. ASSUME NEW k \in Handles PROVE SoundRecords(state'[k])
  BY DEF SetState, TypeInv, StateOK, RecordsInv
<1> QED BY <1>1 DEF RecordsInv, Saved

\* A step that sets or forgets one record.
LEMMA RecordFrame ==
    ASSUME TypeInv, RecordsInv, NEW h \in Handles, NEW g \in Groups, NEW rg,
           SetGroup(h, g, rg), rg = NoGroup \/ SoundRecord(rg), UNCHANGED disk
    PROVE  RecordsInv'
<1> DEFINE s == [state[h] EXCEPT !.groups[g] = rg]
<1>1. s.groups = [state[h].groups EXCEPT ![g] = rg] /\ state[h].groups \in [Groups -> MaybeRuntimeGroups]
  BY DEF TypeInv, StateOK, RuntimeStates
<1>2. SetState(h, s)
  BY DEF SetGroup, SetState
<1>3. SoundRecords(state[h])
  BY DEF RecordsInv
<1> HIDE DEF s
<1>4. ASSUME NEW k \in Groups, Known(s, k) PROVE SoundRecord(s.groups[k])
  <2>1. CASE k = g
    BY <1>1, <1>4, <2>1 DEF Known
  <2>2. CASE k # g
    BY <1>1, <1>3, <1>4, <2>2 DEF Known, SoundRecords
  <2> QED BY <2>1, <2>2
<1>5. SoundRecords(s)
  BY <1>4 DEF SoundRecords
<1> QED BY <1>2, <1>5, StateFrame

\* A step that leaves the service alone.
LEMMA IdleFrame ==
    ASSUME RecordsInv, UNCHANGED <<state, disk>>
    PROVE  RecordsInv'
BY DEF RecordsInv, Saved

LEMMA SoundFacts ==
    ASSUME TypeInv, RecordsInv, NEW h \in Handles, NEW g \in Groups, Known(state[h], g)
    PROVE  Runtime(h, g) \in RuntimeGroups /\ SoundRecord(Runtime(h, g))
BY Read DEF RecordsInv, SoundRecords, Runtime

\* A snapshot changes neither.
LEMMA SnapshotSound ==
    ASSUME NEW rg \in RuntimeGroups, NEW group
    PROVE  /\ ApplySnapshot(rg, group).members = rg.members
           /\ ApplySnapshot(rg, group).memberMap = rg.memberMap
           /\ ApplySnapshot(rg, group).queue = rg.queue
           /\ ApplySnapshot(rg, group).offset = rg.offset
BY DEF ApplySnapshot, RuntimeGroups

LEMMA NewRecordSound ==
    ASSUME NEW client PROVE SoundRecord(NewRuntimeGroup(client))
<1> DEFINE rg == NewRuntimeGroup(client)
<1>1. rg.members = {client} /\ rg.memberMap = {<<0, client>>} /\ rg.queue = <<>> /\ rg.offset = 0
  BY DEF NewRuntimeGroup
<1>2. RosterOK({client}, {<<0, client>>})
  BY DEF RosterOK
<1>3. QueueOK(<<>>, 0)
  BY QueueAssumption DEF QueueOK
<1> HIDE DEF rg
<1> QED BY <1>1, <1>2, <1>3 DEF SoundRecord, rg
-----------------------------------------------------------------------------
(* The actions. *)

LEMMA SetupSound ==
    ASSUME TypeInv, RecordsInv, NEW h \in Handles, Setup(h)
    PROVE  RecordsInv'
<1>1. state[h] \in RuntimeStates /\ SoundRecords(state[h])
  BY DEF TypeInv, StateOK, RecordsInv
<1>2. ASSUME NEW s, s.groups = NoGroups PROVE SoundRecords(s)
  BY <1>2 DEF SoundRecords, Known, NoGroups
<1>3. ASSUME NEW s, s.groups = state[h].groups PROVE SoundRecords(s)
  BY <1>1, <1>3 DEF SoundRecords, Known
<1>4. ASSUME NEW client \in Accounts[h], CreateClient(h, client) PROVE RecordsInv'
  <2> DEFINE s == [NewRuntimeState EXCEPT !.identity = client]
  <2>1. s.groups = NoGroups
    BY DEF NewRuntimeState
  <2>2. SetState(h, s) /\ UNCHANGED disk
    BY <1>4 DEF CreateClient
  <2> HIDE DEF s
  <2> QED BY <1>2, <2>1, <2>2, StateFrame
<1>5. CASE CreateClientBadKey(h)
  <2>1. NewRuntimeState.groups = NoGroups
    BY DEF NewRuntimeState
  <2> QED BY <1>2, <1>5, <2>1, StateFrame DEF CreateClientBadKey
<1>6. ASSUME NEW count \in 1 .. 2, CreateKeyPackages(h, count) PROVE RecordsInv'
  <2>1. \A records, counter :
          [state[h] EXCEPT !.keyPackages = records, !.counter = counter].groups = state[h].groups
    BY <1>1 DEF RuntimeStates
  <2>2. PICK records, counter :
          SetState(h, [state[h] EXCEPT !.keyPackages = records, !.counter = counter])
    BY <1>6 DEF CreateKeyPackages
  <2>3. UNCHANGED disk
    BY <1>6 DEF CreateKeyPackages
  <2> QED BY <1>3, <2>1, <2>2, <2>3, StateFrame
<1>7. ASSUME NEW bundle \in SUBSET PublishedKeys, MarkKeyPackagesUploaded(h, bundle)
      PROVE  RecordsInv'
  <2>1. \A records : [state[h] EXCEPT !.keyPackages = records].groups = state[h].groups
    BY <1>1 DEF RuntimeStates
  <2>2. PICK records : SetState(h, [state[h] EXCEPT !.keyPackages = records])
    BY <1>7 DEF MarkKeyPackagesUploaded
  <2>3. UNCHANGED disk
    BY <1>7 DEF MarkKeyPackagesUploaded
  <2> QED BY <1>3, <2>1, <2>2, <2>3, StateFrame
<1> QED BY <1>4, <1>5, <1>6, <1>7 DEF Setup

LEMMA CommitSound ==
    ASSUME TypeInv, RecordsInv, NEW h \in Handles, NEW g \in Groups,
           \/ \E key \in KeyPackages : Invite(h, g, key)
           \/ \E client \in Clients : Remove(h, g, client)
           \/ SelfUpdate(h, g)
    PROVE  RecordsInv'
<1>1. Known(state[h], g) /\ UNCHANGED disk
  BY DEF Invite, Remove, SelfUpdate, StageCommit
<1> DEFINE had == Runtime(h, g)
           taken == ApplySnapshot(had, Mls(h, g))
<1>2. had \in RuntimeGroups /\ SoundRecord(had)
  BY <1>1, SoundFacts
<1>3. /\ taken.members = had.members /\ taken.memberMap = had.memberMap
      /\ taken.queue = had.queue /\ taken.offset = had.offset
  BY <1>2, SnapshotSound
<1>4. DOMAIN taken = DOMAIN had
  BY <1>2 DEF ApplySnapshot, RuntimeGroups
<1>5. ASSUME NEW members, NEW map, RosterOK(members, map), NEW active, NEW leaf
      PROVE  /\ SoundRecord([taken EXCEPT !.pending = TRUE, !.members = members, !.memberMap = map])
             /\ SoundRecord([[taken EXCEPT !.pending = TRUE, !.members = members, !.memberMap = map]
                               EXCEPT !.active = active, !.selfLeaf = leaf])
  <2> HIDE DEF taken
  <2>1. {"pending", "members", "memberMap", "active", "selfLeaf", "queue", "offset"} \subseteq DOMAIN taken
    BY <1>2, <1>4 DEF RuntimeGroups
  <2> DEFINE one == [taken EXCEPT !.pending = TRUE, !.members = members, !.memberMap = map]
             two == [one EXCEPT !.active = active, !.selfLeaf = leaf]
  <2>2. /\ one.members = members /\ one.memberMap = map
        /\ one.queue = taken.queue /\ one.offset = taken.offset /\ DOMAIN one = DOMAIN taken
    BY <2>1
  <2>3. /\ two.members = one.members /\ two.memberMap = one.memberMap
        /\ two.queue = one.queue /\ two.offset = one.offset
    <3> HIDE DEF one
    <3> QED BY <2>1, <2>2
  <2> HIDE DEF one, two
  <2>4. QueueOK(taken.queue, taken.offset)
    BY <1>2, <1>3 DEF SoundRecord
  <2>5. SoundRecord(one) /\ SoundRecord(two)
    BY <1>5, <2>2, <2>3, <2>4 DEF SoundRecord
  <2> QED BY <2>5 DEF one, two
<1>6. ASSUME NEW key \in KeyPackages, Invite(h, g, key) PROVE RecordsInv'
  <2>1. PICK index \in Indices :
          /\ NextIndex(had.memberMap, index)
          /\ SetGroup(h, g, [taken EXCEPT !.pending = TRUE,
                                          !.members = @ \cup {key.owner},
                                          !.memberMap = @ \cup {<<index, key.owner>>}])
    BY <1>6 DEF Invite, StageCommit
  <2>2. key.owner \in Clients /\ key.owner \notin had.members
    BY <1>6 DEF Invite, KeyPackages
  <2>3. RosterOK(had.members \cup {key.owner}, had.memberMap \cup {<<index, key.owner>>})
    <3>1. had.memberMap \in SUBSET (Indices \X Clients) /\ RosterOK(had.members, had.memberMap)
      BY <1>2 DEF SoundRecord, RuntimeGroups
    <3> HIDE DEF had
    <3> QED BY <2>1, <2>2, <3>1, RosterGrows
  <2>4. RosterOK(taken.members \cup {key.owner}, taken.memberMap \cup {<<index, key.owner>>})
    BY <1>3, <2>3
  <2> HIDE DEF had, taken
  <2>5. SoundRecord([taken EXCEPT !.pending = TRUE, !.members = taken.members \cup {key.owner},
                                  !.memberMap = taken.memberMap \cup {<<index, key.owner>>}])
    BY <1>5, <2>4
  <2> QED BY <1>1, <2>1, <2>5, RecordFrame
<1>7. ASSUME NEW client \in Clients, Remove(h, g, client) PROVE RecordsInv'
  <2> DEFINE removed == [taken EXCEPT !.pending = TRUE, !.members = @ \ {client},
                                      !.memberMap = {other \in @ : other[2] # client}]
             left == [removed EXCEPT !.active = FALSE, !.selfLeaf = NoLeaf]
  <2>1. SetGroup(h, g, removed) \/ SetGroup(h, g, left)
    BY <1>7 DEF Remove, StageCommit
  <2>2. RosterOK(had.members \ {client}, {other \in had.memberMap : other[2] # client})
    <3>1. RosterOK(had.members, had.memberMap)
      BY <1>2 DEF SoundRecord
    <3> HIDE DEF had
    <3> DEFINE less == {other \in had.memberMap : other[2] # client}
    <3>2. less = {other \in had.memberMap : other[2] # client}
      OBVIOUS
    <3> HIDE DEF less
    <3>3. RosterOK(had.members \ {client}, less)
      BY <3>1, <3>2, RosterShrinks
    <3> QED BY <3>3 DEF less
  <2>3. RosterOK(taken.members \ {client}, {other \in taken.memberMap : other[2] # client})
    BY <1>3, <2>2
  <2>4. SoundRecord(removed) /\ SoundRecord(left)
    <3> HIDE DEF taken
    <3> QED BY <1>5, <2>3
  <2> HIDE DEF removed, left
  <2> QED BY <1>1, <2>1, <2>4, RecordFrame
<1>8. CASE SelfUpdate(h, g)
  <2> DEFINE rg == [taken EXCEPT !.pending = TRUE]
  <2>1. SetGroup(h, g, rg)
    BY <1>8 DEF SelfUpdate, StageCommit
  <2>2. /\ rg.members = taken.members /\ rg.memberMap = taken.memberMap
        /\ rg.queue = taken.queue /\ rg.offset = taken.offset
    <3> HIDE DEF taken
    <3> QED BY <1>2, <1>4 DEF RuntimeGroups
  <2> HIDE DEF rg
  <2>3. SoundRecord(rg)
    BY <1>2, <1>3, <2>2 DEF SoundRecord
  <2> QED BY <1>1, <2>1, <2>3, RecordFrame
<1> QED BY <1>6, <1>7, <1>8

LEMMA GroupSound ==
    ASSUME TypeInv, RecordsInv, NEW h \in Handles, NEW g \in Groups,
           \/ CreateGroup(h, g)
           \/ MergePendingCommit(h, g)
           \/ ClearPendingCommit(h, g)
           \/ DropGroup(h, g)
    PROVE  RecordsInv'
<1>1. ASSUME NEW rg \in RuntimeGroups, SoundRecord(rg), NEW group
      PROVE  SoundRecord(ApplySnapshot(rg, group))
  BY <1>1, SnapshotSound DEF SoundRecord
<1>2. ASSUME NEW rg \in RuntimeGroups, SoundRecord(rg), NEW group
      PROVE  /\ SoundRecord([rg EXCEPT !.pending = FALSE])
             /\ SoundRecord([ApplySnapshot(rg, group) EXCEPT !.pending = FALSE])
  <2> DEFINE taken == ApplySnapshot(rg, group)
  <2>1. /\ taken.members = rg.members /\ taken.memberMap = rg.memberMap
        /\ taken.queue = rg.queue /\ taken.offset = rg.offset
    BY SnapshotSound
  <2>2. {"members", "memberMap", "queue", "offset"} \subseteq DOMAIN taken
    BY DEF ApplySnapshot, RuntimeGroups
  <2> HIDE DEF taken
  <2>3. \A record : {"members", "memberMap", "queue", "offset"} \subseteq DOMAIN record =>
          LET cleared == [record EXCEPT !.pending = FALSE]
          IN /\ cleared.members = record.members /\ cleared.memberMap = record.memberMap
             /\ cleared.queue = record.queue /\ cleared.offset = record.offset
    OBVIOUS
  <2>4. {"members", "memberMap", "queue", "offset"} \subseteq DOMAIN rg
    BY DEF RuntimeGroups
  <2>5. SoundRecord([rg EXCEPT !.pending = FALSE])
    BY <1>2, <2>3, <2>4 DEF SoundRecord
  <2>6. SoundRecord([taken EXCEPT !.pending = FALSE])
    BY <1>2, <2>1, <2>2, <2>3 DEF SoundRecord
  <2> QED BY <2>5, <2>6 DEF taken
<1>3. CASE CreateGroup(h, g)
  <2>1. NewRuntimeGroup(Identity(h)) \in RuntimeGroups
    BY <1>3, Read, RuntimeMade DEF CreateGroup, HasIdentity
  <2>2. PICK group : SetGroup(h, g, ApplySnapshot(NewRuntimeGroup(Identity(h)), group))
    BY <1>3 DEF CreateGroup
  <2>3. SoundRecord(ApplySnapshot(NewRuntimeGroup(Identity(h)), group))
    BY <1>1, <2>1, NewRecordSound
  <2> QED BY <1>3, <2>2, <2>3, RecordFrame DEF CreateGroup
<1>4. CASE MergePendingCommit(h, g)
  <2>1. Runtime(h, g) \in RuntimeGroups /\ SoundRecord(Runtime(h, g))
    BY <1>4, SoundFacts DEF MergePendingCommit
  <2>2. SoundRecord([ApplySnapshot(Runtime(h, g), MergedOwn(Mls(h, g))) EXCEPT !.pending = FALSE])
    BY <1>2, <2>1
  <2> QED BY <1>4, <2>2, RecordFrame DEF MergePendingCommit
<1>5. CASE ClearPendingCommit(h, g)
  <2>1. Runtime(h, g) \in RuntimeGroups /\ SoundRecord(Runtime(h, g))
    BY <1>5, SoundFacts DEF ClearPendingCommit
  <2>2. SoundRecord([Runtime(h, g) EXCEPT !.pending = FALSE])
    BY <1>2, <2>1
  <2> QED BY <1>5, <2>2, RecordFrame DEF ClearPendingCommit
<1>6. CASE DropGroup(h, g)
  BY <1>6, RecordFrame DEF DropGroup
<1> QED BY <1>3, <1>4, <1>5, <1>6

LEMMA MessageSound ==
    ASSUME TypeInv, RecordsInv, NEW h \in Handles,
           \/ \E m \in WelcomeMsgs : JoinFromWelcome(h, m)
           \/ \E m \in CommitMsgs : HandleCommit(h, m)
           \/ \E m \in ApplicationMsgs : HandleApplication(h, m)
    PROVE  RecordsInv'
<1>1. ASSUME NEW m \in WelcomeMsgs, JoinFromWelcome(h, m) PROVE RecordsInv'
  <2> DEFINE rg == JoinedRecord(h, m.group)
  <2>1. m.group \in Groups
    BY DEF WelcomeMsgs
  <2>2. rg \in RuntimeGroups /\ SoundRecord(rg)
    <3>1. CASE Known(state[h], m.group)
      BY <2>1, <3>1, SoundFacts DEF JoinedRecord
    <3>2. CASE ~ Known(state[h], m.group)
      <4>1. Identity(h) \in Clients
        BY <1>1, <2>1, Read DEF JoinFromWelcome, HasIdentity
      <4> QED BY <3>2, <4>1, NewRecordSound, RuntimeMade DEF JoinedRecord
    <3> QED BY <3>1, <3>2
  <2>3. PICK group : SetGroup(h, m.group, ApplySnapshot(rg, group))
    BY <1>1 DEF JoinFromWelcome
  <2> HIDE DEF rg
  <2>4. SoundRecord(ApplySnapshot(rg, group))
    BY <2>2, SnapshotSound DEF SoundRecord
  <2> QED BY <1>1, <2>1, <2>3, <2>4, RecordFrame DEF JoinFromWelcome
<1>2. ASSUME NEW m \in CommitMsgs \cup ApplicationMsgs, RecordIncoming(h, m), UNCHANGED disk
      PROVE  RecordsInv'
  <2>1. m.group \in Groups /\ m.id \in Nat
    BY DEF CommitMsgs, ApplicationMsgs
  <2>2. CASE Known(state[h], m.group)
    <3> DEFINE had == Runtime(h, m.group)
               queue == Enqueued(had.queue, m.id)
               rg == [had EXCEPT !.offset = @ + 1, !.queue = Enqueued(@, m.id)]
    <3>1. had \in RuntimeGroups /\ SoundRecord(had)
      BY <2>1, <2>2, SoundFacts
    <3>2. SetGroup(h, m.group, rg)
      BY <1>2, <2>2 DEF RecordIncoming
    <3>3. /\ rg.members = had.members /\ rg.memberMap = had.memberMap
          /\ rg.queue = queue /\ rg.offset = had.offset + 1
      BY <3>1 DEF RuntimeGroups
    <3>4. QueueOK(queue, had.offset + 1)
      <4>1. had.queue \in Seq(Nat) /\ had.offset \in Nat /\ QueueOK(had.queue, had.offset)
        BY <3>1 DEF SoundRecord, RuntimeGroups
      <4> HIDE DEF had
      <4> QED BY <2>1, <4>1, QueueGrows
    <3> HIDE DEF had, queue, rg
    <3>5. SoundRecord(rg)
      BY <3>1, <3>3, <3>4 DEF SoundRecord
    <3> QED BY <1>2, <2>1, <3>2, <3>5, RecordFrame
  <2>3. CASE ~ Known(state[h], m.group)
    BY <1>2, <2>3, IdleFrame DEF RecordIncoming
  <2> QED BY <2>2, <2>3
<1> QED BY <1>1, <1>2 DEF HandleCommit, HandleApplication

LEMMA PersistenceSound ==
    ASSUME TypeInv, RecordsInv, NEW h \in Handles, Persistence(h) \/ RestoreWithoutDump(h)
    PROVE  RecordsInv'
<1>1. CASE ExportClientState(h)
  <2>1. disk' = [disk EXCEPT ![h] = Exported(state[h], backend[h])] /\ UNCHANGED state
    BY <1>1 DEF ExportClientState
  <2>2. ASSUME NEW k \in Handles
        PROVE  disk'[k].runtime = state[k] \/ disk'[k] = disk[k]
    BY <2>1 DEF Exported, TypeInv, DiskOK
  <2> QED BY <2>1, <2>2 DEF RecordsInv, Saved
<1>2. CASE NewHandle(h)
  <2>1. SoundRecords(NewRuntimeState)
    BY DEF SoundRecords, Known, NewRuntimeState, NoGroups
  <2> QED BY <1>2, <2>1, StateFrame DEF NewHandle
<1>3. CASE RestoreClient(h)
  BY <1>3, StateFrame DEF RestoreClient, RecordsInv
<1>4. CASE RestoreWithoutDump(h)
  BY <1>4, StateFrame DEF RestoreWithoutDump, RecordsInv
<1> QED BY <1>1, <1>2, <1>3, <1>4 DEF Persistence
-----------------------------------------------------------------------------
(* The invariant and the theorems. *)

LEMMA InitSound == Init => RecordsInv
BY DEF Init, RecordsInv, SoundRecords, Known, NewRuntimeState, NoGroups

LEMMA StepSound == TypeInv /\ RecordsInv /\ [Next]_vars => RecordsInv'
<1> SUFFICES ASSUME TypeInv, RecordsInv, [Next]_vars PROVE RecordsInv'
  OBVIOUS
<1>1. ASSUME NEW h \in Handles, Lifecycle(h) PROVE RecordsInv'
  <2>1. \A key \in PublishedKeys : key \in KeyPackages
    BY ArrivedTypes
  <2>2. (\A m \in Arrived("welcome") : m \in WelcomeMsgs) /\ (\A m \in Arrived("commit") : m \in CommitMsgs)
    BY ArrivedTypes
  <2>3. ASSUME NEW m, JoinRefused(h, m) PROVE RecordsInv'
    BY <2>3, IdleFrame DEF JoinRefused
  <2> QED BY <1>1, <2>1, <2>2, <2>3, CommitSound, GroupSound, MessageSound DEF Lifecycle
<1>2. ASSUME NEW h \in Handles, Messaging(h) PROVE RecordsInv'
  <2>1. \A m \in Arrived("application") : m \in ApplicationMsgs
    BY ArrivedTypes
  <2>2. ASSUME NEW g \in Groups, EncryptMessage(h, g) PROVE RecordsInv'
    BY <2>2, IdleFrame DEF EncryptMessage
  <2> QED BY <1>2, <2>1, <2>2, MessageSound DEF Messaging
<1>3. ASSUME NEW h \in Handles, Failure(h) PROVE RecordsInv'
  BY <1>3, IdleFrame DEF Failure, SelfUpdateUnknown, RestoreGroupsWithoutDump, RestoreDamagedDump,
                         RestoreBadKey, RestoreMissingGroup, FailRestore
<1>4. ASSUME NEW h \in Handles, CleanStep(h) PROVE RecordsInv'
  BY <1>1, <1>2, <1>4, SetupSound, GroupSound, PersistenceSound DEF CleanStep, Recovery
<1>5. CASE UNCHANGED vars
  BY <1>5, IdleFrame DEF vars
<1> QED BY <1>3, <1>4, <1>5 DEF Next

LEMMA RecordsAlways == Spec => [](TypeInv /\ RecordsInv)
<1>1. Init => TypeInv /\ RecordsInv
  BY InitTypes, InitSound
<1>2. (TypeInv /\ RecordsInv) /\ [Next]_vars => (TypeInv /\ RecordsInv)'
  BY StepTypes, StepSound
<1> QED BY <1>1, <1>2, PTL DEF Spec

\* remove() finds one leaf, and only one, for every member list_members shows.
THEOREM RosterConsistentCorrect == Spec => []RosterConsistent
<1>1. RecordsInv => RosterConsistent
  BY DEF RecordsInv, SoundRecords, SoundRecord, RosterOK, RosterConsistent, Runtime
<1> QED BY <1>1, RecordsAlways, PTL

\* The queue never loses count of the offset nor passes its bound.
THEOREM QueueTracksOffsetCorrect == Spec => []QueueTracksOffset
<1>1. RecordsInv => QueueTracksOffset
  BY DEF RecordsInv, SoundRecords, SoundRecord, QueueOK, QueueTracksOffset, Runtime
<1> QED BY <1>1, RecordsAlways, PTL
-----------------------------------------------------------------------------
(* The offset, from one state to the next. *)

\* What OffsetMonotone says of a step.
OffsetStep ==
    \A h \in Handles, g \in Groups :
        Known(state[h], g) /\ Known(state'[h], g)
                /\ (disk[h] = NoSnap \/ state'[h] # Saved(h)) =>
            state'[h].groups[g].offset \in {Runtime(h, g).offset, Runtime(h, g).offset + 1}

\* A handle's call leaves the records of the others alone.
LEMMA OffsetFrame ==
    ASSUME TypeInv, NEW h \in Handles, NEW s, SetState(h, s),
           \/ s.groups = NoGroups
           \/ s.groups = state[h].groups
           \/ disk[h] # NoSnap /\ s = Saved(h)
    PROVE  OffsetStep
<1> SUFFICES ASSUME NEW k \in Handles, NEW g \in Groups,
                    Known(state[k], g), Known(state'[k], g),
                    disk[k] = NoSnap \/ state'[k] # Saved(k)
             PROVE  state'[k].groups[g].offset \in {Runtime(k, g).offset, Runtime(k, g).offset + 1}
  BY DEF OffsetStep
<1>1. state'[k] = IF k = h THEN s ELSE state[k]
  BY DEF SetState, TypeInv, StateOK
<1> QED BY <1>1 DEF Known, Runtime, NoGroups

\* The same for a call that sets one record.
LEMMA OffsetGroupFrame ==
    ASSUME TypeInv, NEW h \in Handles, NEW g \in Groups, NEW rg, SetGroup(h, g, rg),
           \/ rg = NoGroup
           \/ ~ Known(state[h], g)
           \/ rg.offset \in {Runtime(h, g).offset, Runtime(h, g).offset + 1}
    PROVE  OffsetStep
<1> SUFFICES ASSUME NEW k \in Handles, NEW i \in Groups, Known(state[k], i), Known(state'[k], i)
             PROVE  state'[k].groups[i].offset \in {Runtime(k, i).offset, Runtime(k, i).offset + 1}
  BY DEF OffsetStep
<1>1. state[k] \in RuntimeStates
  BY DEF TypeInv, StateOK
<1>2. state'[k].groups[i] = IF k = h /\ i = g THEN rg ELSE state[k].groups[i]
  BY <1>1 DEF SetGroup, TypeInv, StateOK, RuntimeStates
<1> QED BY <1>2 DEF Known, Runtime

LEMMA OffsetIdle ==
    ASSUME UNCHANGED state
    PROVE  OffsetStep
BY DEF OffsetStep, Runtime

LEMMA SetupOffset ==
    ASSUME TypeInv, NEW h \in Handles, Setup(h)
    PROVE  OffsetStep
<1>1. state[h] \in RuntimeStates
  BY DEF TypeInv, StateOK
<1>2. ASSUME NEW client, CreateClient(h, client) PROVE OffsetStep
  <2> DEFINE s == [NewRuntimeState EXCEPT !.identity = client]
  <2>1. SetState(h, s) /\ s.groups = NoGroups
    BY <1>2 DEF CreateClient, NewRuntimeState
  <2> HIDE DEF s
  <2> QED BY <2>1, OffsetFrame
<1>3. CASE CreateClientBadKey(h)
  <2>1. SetState(h, NewRuntimeState) /\ NewRuntimeState.groups = NoGroups
    BY <1>3 DEF CreateClientBadKey, NewRuntimeState
  <2> QED BY <2>1, OffsetFrame
<1>4. ASSUME NEW count, CreateKeyPackages(h, count) PROVE OffsetStep
  <2>1. PICK records, counter :
          SetState(h, [state[h] EXCEPT !.keyPackages = records, !.counter = counter])
    BY <1>4 DEF CreateKeyPackages
  <2>2. [state[h] EXCEPT !.keyPackages = records, !.counter = counter].groups = state[h].groups
    BY <1>1 DEF RuntimeStates
  <2> QED BY <2>1, <2>2, OffsetFrame
<1>5. ASSUME NEW bundle, MarkKeyPackagesUploaded(h, bundle) PROVE OffsetStep
  <2>1. PICK records : SetState(h, [state[h] EXCEPT !.keyPackages = records])
    BY <1>5 DEF MarkKeyPackagesUploaded
  <2>2. [state[h] EXCEPT !.keyPackages = records].groups = state[h].groups
    BY <1>1 DEF RuntimeStates
  <2> QED BY <2>1, <2>2, OffsetFrame
<1> QED BY <1>2, <1>3, <1>4, <1>5 DEF Setup

\* Only a message taken in counts; the other calls on a group known keep the offset.
LEMMA CommitOffset ==
    ASSUME TypeInv, NEW h \in Handles, NEW g \in Groups,
           \/ \E key \in KeyPackages : Invite(h, g, key)
           \/ \E client \in Clients : Remove(h, g, client)
           \/ SelfUpdate(h, g)
           \/ CreateGroup(h, g)
           \/ MergePendingCommit(h, g)
           \/ ClearPendingCommit(h, g)
           \/ DropGroup(h, g)
    PROVE  OffsetStep
<1>1. CASE CreateGroup(h, g)
  BY <1>1, OffsetGroupFrame DEF CreateGroup
<1>2. CASE DropGroup(h, g)
  BY <1>2, OffsetGroupFrame DEF DropGroup
<1>3. ASSUME ~ CreateGroup(h, g), ~ DropGroup(h, g) PROVE OffsetStep
  <2> DEFINE had == Runtime(h, g)
  <2>1. had \in RuntimeGroups
    BY <1>3, Read DEF Invite, Remove, SelfUpdate, MergePendingCommit, ClearPendingCommit
  <2>2. ASSUME NEW group, NEW members, NEW map, NEW flag
        PROVE  LET taken == ApplySnapshot(had, group)
                   changed == [taken EXCEPT !.pending = flag, !.members = members, !.memberMap = map]
               IN /\ [taken EXCEPT !.pending = flag].offset = had.offset
                  /\ changed.offset = had.offset
                  /\ [changed EXCEPT !.active = FALSE, !.selfLeaf = NoLeaf].offset = had.offset
    <3> DEFINE taken == ApplySnapshot(had, group)
               changed == [taken EXCEPT !.pending = flag, !.members = members, !.memberMap = map]
    <3>1. taken.offset = had.offset /\ DOMAIN taken = DOMAIN had
      BY <2>1 DEF ApplySnapshot, RuntimeGroups
    <3>2. "offset" \in DOMAIN had
      BY <2>1 DEF RuntimeGroups
    <3> HIDE DEF taken
    <3>3. changed.offset = had.offset /\ DOMAIN changed = DOMAIN had
      BY <3>1, <3>2
    <3>4. [taken EXCEPT !.pending = flag].offset = had.offset
      BY <3>1, <3>2
    <3> HIDE DEF changed
    <3>5. [changed EXCEPT !.active = FALSE, !.selfLeaf = NoLeaf].offset = had.offset
      BY <3>2, <3>3
    <3> QED BY <3>3, <3>4, <3>5 DEF taken, changed
  <2>3. ASSUME NEW rg, SetGroup(h, g, rg), rg.offset = had.offset PROVE OffsetStep
    BY <2>3, OffsetGroupFrame
  <2>4. ASSUME NEW key \in KeyPackages, Invite(h, g, key) PROVE OffsetStep
    <3>1. PICK members, map, rg :
            /\ SetGroup(h, g, rg)
            /\ rg = [ApplySnapshot(had, Mls(h, g)) EXCEPT
                       !.pending = TRUE, !.members = members, !.memberMap = map]
      BY <2>4 DEF Invite, StageCommit
    <3> HIDE DEF had
    <3>2. rg.offset = had.offset
      BY <2>2, <3>1
    <3> QED BY <2>3, <3>1, <3>2
  <2>5. ASSUME NEW client \in Clients, Remove(h, g, client) PROVE OffsetStep
    <3>1. PICK members, map, removed, rg :
            /\ removed = [ApplySnapshot(had, Mls(h, g)) EXCEPT
                            !.pending = TRUE, !.members = members, !.memberMap = map]
            /\ rg \in {removed, [removed EXCEPT !.active = FALSE, !.selfLeaf = NoLeaf]}
            /\ SetGroup(h, g, rg)
      BY <2>5 DEF Remove, StageCommit
    <3> HIDE DEF had
    <3>2. /\ removed.offset = had.offset
          /\ [removed EXCEPT !.active = FALSE, !.selfLeaf = NoLeaf].offset = had.offset
      BY <2>2, <3>1
    <3>3. rg.offset = had.offset
      BY <3>1, <3>2
    <3> QED BY <2>3, <3>1, <3>3
  <2>6. CASE SelfUpdate(h, g)
    <3>1. SetGroup(h, g, [ApplySnapshot(had, Mls(h, g)) EXCEPT !.pending = TRUE])
      BY <2>6 DEF SelfUpdate, StageCommit
    <3> HIDE DEF had
    <3> QED BY <2>2, <2>3, <3>1
  <2>7. CASE MergePendingCommit(h, g)
    <3>1. SetGroup(h, g, [ApplySnapshot(had, MergedOwn(Mls(h, g))) EXCEPT !.pending = FALSE])
      BY <2>7 DEF MergePendingCommit
    <3> HIDE DEF had
    <3> QED BY <2>2, <2>3, <3>1
  <2>8. CASE ClearPendingCommit(h, g)
    <3>1. SetGroup(h, g, [had EXCEPT !.pending = FALSE])
      BY <2>8 DEF ClearPendingCommit
    <3>2. [had EXCEPT !.pending = FALSE].offset = had.offset
      BY <2>1 DEF RuntimeGroups
    <3> HIDE DEF had
    <3> QED BY <2>3, <3>1, <3>2
  <2> QED BY <1>3, <2>4, <2>5, <2>6, <2>7, <2>8
<1> QED BY <1>1, <1>2, <1>3

LEMMA MessageOffset ==
    ASSUME TypeInv, NEW h \in Handles, NEW m, m.group \in Groups,
           JoinFromWelcome(h, m) \/ HandleCommit(h, m) \/ HandleApplication(h, m)
    PROVE  OffsetStep
<1> DEFINE had == Runtime(h, m.group)
<1>1. Known(state[h], m.group) => had \in RuntimeGroups
  BY Read
<1>2. CASE JoinFromWelcome(h, m)
  <2>1. PICK group : SetGroup(h, m.group, ApplySnapshot(JoinedRecord(h, m.group), group))
    BY <1>2 DEF JoinFromWelcome
  <2>2. Known(state[h], m.group) =>
          ApplySnapshot(JoinedRecord(h, m.group), group).offset = had.offset
    BY <1>1 DEF JoinedRecord, ApplySnapshot, RuntimeGroups
  <2> QED BY <2>1, <2>2, OffsetGroupFrame
<1>3. CASE RecordIncoming(h, m)
  <2>1. CASE Known(state[h], m.group)
    <3> DEFINE rg == [had EXCEPT !.offset = @ + 1, !.queue = Enqueued(@, m.id)]
    <3>1. SetGroup(h, m.group, rg)
      BY <1>3, <2>1 DEF RecordIncoming
    <3>2. rg.offset = had.offset + 1
      BY <1>1, <2>1 DEF RuntimeGroups
    <3> HIDE DEF rg
    <3> QED BY <3>1, <3>2, OffsetGroupFrame
  <2>2. CASE ~ Known(state[h], m.group)
    BY <1>3, <2>2, OffsetIdle DEF RecordIncoming
  <2> QED BY <2>1, <2>2
<1> QED BY <1>2, <1>3 DEF HandleCommit, HandleApplication

LEMMA PersistenceOffset ==
    ASSUME TypeInv, NEW h \in Handles, Persistence(h) \/ RestoreWithoutDump(h)
    PROVE  OffsetStep
<1>1. CASE ExportClientState(h)
  BY <1>1, OffsetIdle DEF ExportClientState
<1>2. CASE NewHandle(h)
  <2>1. SetState(h, NewRuntimeState) /\ NewRuntimeState.groups = NoGroups
    BY <1>2 DEF NewHandle, NewRuntimeState
  <2> QED BY <2>1, OffsetFrame
<1>3. CASE RestoreClient(h) \/ RestoreWithoutDump(h)
  BY <1>3, OffsetFrame DEF RestoreClient, RestoreWithoutDump
<1> QED BY <1>1, <1>2, <1>3 DEF Persistence

LEMMA StepOffset == TypeInv /\ [Next]_vars => OffsetStep
<1> SUFFICES ASSUME TypeInv, [Next]_vars PROVE OffsetStep
  OBVIOUS
<1>1. /\ \A key \in PublishedKeys : key \in KeyPackages
      /\ \A m \in Arrived("welcome") : m.group \in Groups
      /\ \A m \in Arrived("commit") : m.group \in Groups
      /\ \A m \in Arrived("application") : m.group \in Groups
  BY ArrivedTypes DEF WelcomeMsgs, CommitMsgs, ApplicationMsgs
<1>2. ASSUME NEW h \in Handles, Lifecycle(h) PROVE OffsetStep
  <2>1. ASSUME NEW m, JoinRefused(h, m) PROVE OffsetStep
    BY <2>1, OffsetIdle DEF JoinRefused
  <2> QED BY <1>1, <1>2, <2>1, CommitOffset, MessageOffset DEF Lifecycle
<1>3. ASSUME NEW h \in Handles, Messaging(h) \/ Recovery(h) PROVE OffsetStep
  <2>1. ASSUME NEW g, EncryptMessage(h, g) PROVE OffsetStep
    BY <2>1, OffsetIdle DEF EncryptMessage
  <2> QED BY <1>1, <1>3, <2>1, CommitOffset, MessageOffset DEF Messaging, Recovery
<1>4. ASSUME NEW h \in Handles, Failure(h) PROVE OffsetStep
  BY <1>4, OffsetIdle DEF Failure, SelfUpdateUnknown, RestoreGroupsWithoutDump,
                          RestoreDamagedDump, RestoreBadKey, RestoreMissingGroup, FailRestore
<1>5. CASE UNCHANGED vars
  BY <1>5, OffsetIdle DEF vars
<1> QED BY <1>2, <1>3, <1>4, <1>5, SetupOffset, PersistenceOffset DEF Next, CleanStep

\* transport_last_offset never jumps and never restarts while the group is known: no
\* call but a restore sets it back (OffsetMonotone), whatever failed before.
THEOREM OffsetMonotoneCorrect == Spec => OffsetMonotone
<1>1. Spec => []TypeInv
  BY RecordsAlways, PTL
<1>2. TypeInv /\ [Next]_vars => [OffsetStep]_vars
  BY StepOffset
<1>3. OffsetStep <=> \A h \in Handles, g \in Groups :
           Known(state[h], g) /\ Known(state'[h], g)
                   /\ (disk[h] = NoSnap \/ state'[h] # Saved(h)) =>
               state'[h].groups[g].offset \in {Runtime(h, g).offset, Runtime(h, g).offset + 1}
  BY DEF OffsetStep
<1>4. Spec => [][OffsetStep]_vars
  BY <1>1, <1>2, PTL DEF Spec
<1> QED BY <1>3, <1>4, PTL DEF OffsetMonotone
-----------------------------------------------------------------------------
(* The roster of a founder that alone commits.  DenseMapExact is not inductive: a      *)
(* removal opens a hole in the map that a later removal of the entries above may close,*)
(* and the map must be exact then.  What holds in between is said of the part of the   *)
(* map below its first hole.                                                           *)

\* The entries below the first hole.
Prefix(map) == {entry \in map : \A i \in 0 .. entry[1] : \E other \in map : other[1] = i}

\* The ratchet tree the pending or last commit leads to.
Led(group) == IF group.pending = NoCommit THEN group.tree ELSE group.pending.tree

\* As many entries as occupied leaves, and each entry below the first hole is at its leaf.
Traces(map, tree) ==
    /\ IsFiniteSet(map) /\ IsFiniteSet(tree) /\ Cardinality(map) = Cardinality(tree)
    /\ \A one, other \in tree : one[1] = other[1] => one = other
    /\ Prefix(map) \subseteq tree

FounderTraces(rg, group) ==
    group # NoGroup /\ group.own = 0 =>
        <<0, group.me>> \in Led(group) /\ Traces(rg.memberMap, Led(group))

TracesAll(s, b) == \A g \in Groups : FounderTraces(s.groups[g], b.groups[g])

TracesInv ==
    \A h \in Handles :
        /\ TracesAll(state[h], backend[h])
        /\ disk[h] # NoSnap => TracesAll(Saved(h), BlobLoaded(h))

\* The first leaf is never offered to a joiner.
WelcomesInv == \A m \in net : m.kind = "welcome" => m.leaf # 0

\* Assumed of a behaviour, and true of AdminSpec of MCMessenger: every commit
\* transmitted is the founder's, who sits at the first leaf.
FoundersCommit == \A m \in net : m.kind = "commit" => m.leaf = 0

LEMMA TracesGrow ==
    ASSUME NEW map \in SUBSET (Indices \X Clients), NEW tree \in Trees, Traces(map, tree),
           NEW client \in Clients, NEW leaf \in Leaves, NEW index \in Indices,
           LeftmostFree(tree, leaf), NextIndex(map, index)
    PROVE  Traces(map \cup {<<index, client>>}, WithLeaf(tree, leaf, client))
<1> DEFINE grown == map \cup {<<index, client>>}
           full == WithLeaf(tree, leaf, client)
<1>1. /\ \A entry \in map : /\ entry = <<entry[1], entry[2]>>
                            /\ entry[1] \in Nat /\ entry[2] \in Clients /\ entry[1] < index
      /\ \A entry \in tree : /\ entry = <<entry[1], entry[2]>>
                             /\ entry[1] \in Leaves /\ entry[2] \in Clients
      /\ index \in Nat /\ leaf \in Nat
  BY MaxLeafAssumption, IndexAssumption DEF Indices, Trees, Leaves, NextIndex
<1>2. <<index, client>> \notin map
  BY <1>1
<1>3. \A entry \in tree : entry[1] # leaf
  BY <1>1 DEF LeftmostFree, IsFree
<1>4. IsFiniteSet(grown) /\ IsFiniteSet(full) /\ Cardinality(grown) = Cardinality(full)
  <2>1. <<leaf, client>> \notin tree
    BY <1>3
  <2>2. IsFiniteSet(grown) /\ Cardinality(grown) = Cardinality(map) + 1
    BY <1>2, FS_AddElement DEF Traces
  <2>3. IsFiniteSet(full) /\ Cardinality(full) = Cardinality(tree) + 1
    BY <2>1, FS_AddElement DEF Traces, WithLeaf
  <2> QED BY <2>2, <2>3 DEF Traces
<1>5. ASSUME NEW one \in full, NEW other \in full, one[1] = other[1] PROVE one = other
  BY <1>3, <1>5 DEF Traces, WithLeaf
<1>6. ASSUME NEW entry \in map, entry \in Prefix(grown) PROVE entry \in tree
  <2>1. ASSUME NEW i \in 0 .. entry[1] PROVE \E other \in map : other[1] = i
    <3>1. PICK other \in grown : other[1] = i
      BY <1>6, <2>1 DEF Prefix
    <3>2. i < index
      BY <1>1
    <3> QED BY <3>1, <3>2, <1>1
  <2> QED BY <2>1 DEF Prefix, Traces
<1>7. ASSUME <<index, client>> \in Prefix(grown) PROVE leaf = index
  <2>1. ASSUME NEW i \in 0 .. index, i # index PROVE \E other \in map : other[1] = i
    <3>1. PICK other \in grown : other[1] = i
      BY <1>7 DEF Prefix
    <3> QED BY <2>1, <3>1
  <2>2. map \subseteq Prefix(map)
    <3> SUFFICES ASSUME NEW entry \in map, NEW i \in 0 .. entry[1]
                 PROVE  \E other \in map : other[1] = i
      BY DEF Prefix
    <3>1. i \in 0 .. index /\ i # index
      BY <1>1
    <3> QED BY <2>1, <3>1
  <2>3. map = tree
    BY <2>2, FS_Subset DEF Traces
  <2>4. ~ leaf < index
    <3> SUFFICES ASSUME leaf < index PROVE FALSE
      OBVIOUS
    <3>1. leaf \in 0 .. index /\ leaf # index
      BY <1>1
    <3> QED BY <1>3, <2>1, <2>3, <3>1
  <2>5. ~ index < leaf
    <3> SUFFICES ASSUME index < leaf PROVE FALSE
      OBVIOUS
    <3>1. index \in Leaves
      BY <1>1, MaxLeafAssumption DEF Leaves
    <3>2. ~ IsFree(tree, index)
      BY <3>1 DEF LeftmostFree
    <3>3. PICK one \in Clients : <<index, one>> \in tree
      BY <3>2 DEF IsFree
    <3> QED BY <1>1, <2>3, <3>3
  <2> QED BY <1>1, <2>4, <2>5
<1>8. Prefix(grown) \subseteq full
  <2> SUFFICES ASSUME NEW entry \in Prefix(grown) PROVE entry \in full
    OBVIOUS
  <2>1. entry \in map \/ entry = <<index, client>>
    BY DEF Prefix
  <2> QED BY <1>6, <1>7, <2>1 DEF WithLeaf
<1> HIDE DEF grown, full
<1>9. Traces(grown, full)
  BY <1>4, <1>5, <1>8 DEF Traces
<1> QED BY <1>9 DEF grown, full

LEMMA TracesShrink ==
    ASSUME NEW map, NEW members, NEW tree \in Trees, Traces(map, tree), RosterOK(members, map),
           NEW entry \in map, ~ IsFree(tree, entry[1]),
           NEW less, less = {other \in map : other[2] # entry[2]}
    PROVE  Traces(less, WithoutLeaf(tree, entry[1]))
<1> DEFINE bare == WithoutLeaf(tree, entry[1])
<1>1. less = map \ {entry}
  BY DEF RosterOK
<1>2. PICK leaf \in tree : leaf[1] = entry[1] /\ bare = tree \ {leaf}
  <2>1. PICK one \in Clients : <<entry[1], one>> \in tree
    BY DEF IsFree
  <2>2. bare = tree \ {<<entry[1], one>>}
    BY <2>1 DEF WithoutLeaf, Traces
  <2> QED BY <2>1, <2>2
<1>3. IsFiniteSet(less) /\ IsFiniteSet(bare) /\ Cardinality(less) = Cardinality(bare)
  <2>1. IsFiniteSet(less) /\ Cardinality(less) = Cardinality(map) - 1
    BY <1>1, FS_RemoveElement DEF Traces
  <2>2. IsFiniteSet(bare) /\ Cardinality(bare) = Cardinality(tree) - 1
    BY <1>2, FS_RemoveElement DEF Traces
  <2> QED BY <2>1, <2>2 DEF Traces
<1>4. \A one, other \in bare : one[1] = other[1] => one = other
  BY <1>2 DEF Traces
<1>5. Prefix(less) \subseteq Prefix(map)
  BY <1>1 DEF Prefix
<1>6. \A other \in less : other[1] # entry[1]
  BY <1>1 DEF RosterOK
<1>7. Prefix(less) \subseteq bare
  BY <1>5, <1>6 DEF Traces, WithoutLeaf, Prefix
<1> HIDE DEF bare
<1>8. Traces(less, bare)
  BY <1>3, <1>4, <1>7 DEF Traces
<1> QED BY <1>8 DEF bare

LEMMA TracesOne ==
    ASSUME NEW client
    PROVE  Traces({<<0, client>>}, {<<0, client>>})
<1>1. IsFiniteSet({<<0, client>>}) /\ Cardinality({<<0, client>>}) = 1
  BY FS_Singleton
<1> QED BY <1>1 DEF Traces, Prefix

\* A map without a hole is the tree.
LEMMA TracesDense ==
    ASSUME NEW map \in SUBSET (Indices \X Clients), NEW tree, Traces(map, tree),
           NEW indices, indices = {entry[1] : entry \in map},
           indices = 0 .. Cardinality(indices) - 1
    PROVE  map = tree
<1>1. indices \subseteq 0 .. MaxIndex
  BY DEF Indices
<1>2. IsFiniteSet(0 .. MaxIndex)
  BY IndexAssumption, FS_Interval
<1>3. Cardinality(indices) \in Nat
  BY <1>1, <1>2, FS_Subset, FS_CardinalityType
<1>4. map \subseteq Prefix(map)
  <2> SUFFICES ASSUME NEW entry \in map, NEW i \in 0 .. entry[1]
               PROVE  \E other \in map : other[1] = i
    BY DEF Prefix
  <2> DEFINE n == Cardinality(indices)
  <2>1. entry[1] \in 0 .. n - 1
    OBVIOUS
  <2>2. i \in 0 .. n - 1
    <3>1. n \in Nat
      BY <1>3
    <3> HIDE DEF n
    <3> QED BY <2>1, <3>1
  <2>3. i \in indices
    BY <2>2
  <2> QED BY <2>3
<1> QED BY <1>4, FS_Subset DEF Traces

FounderInv == TypeInv /\ LayersInv /\ RecordsInv /\ TracesInv /\ WelcomesInv

\* A step that gives one handle a pair of layers whose maps trace, and exports nothing.
LEMMA TracesFrame ==
    ASSUME TypeInv, TracesInv, NEW h \in Handles, NEW s, NEW b,
           SetState(h, s), SetBackend(h, b), UNCHANGED disk, TracesAll(s, b)
    PROVE  TracesInv'
<1>1. ASSUME NEW k \in Handles PROVE TracesAll(state'[k], backend'[k])
  <2>1. CASE k = h
    BY <2>1 DEF SetState, SetBackend, TypeInv, StateOK, BackendOK
  <2>2. CASE k # h
    <3>1. state'[k] = state[k] /\ backend'[k] = backend[k]
      BY <2>2 DEF SetState, SetBackend, TypeInv, StateOK, BackendOK
    <3> QED BY <3>1 DEF TracesInv
  <2> QED BY <2>1, <2>2
<1>2. ASSUME NEW k \in Handles
      PROVE  (disk[k] # NoSnap => TracesAll(Saved(k), BlobLoaded(k)))'
  BY DEF TracesInv, SavedGroups, Saved, BlobLoaded
<1> QED BY <1>1, <1>2 DEF TracesInv

\* The record the step leaves of the group.
RecordLeft(h, g, rg) == SetGroup(h, g, rg) \/ (UNCHANGED state /\ rg = Runtime(h, g))

\* A step that changes one group, and leaves its map tracing its tree.
LEMMA TracesGroupFrame ==
    ASSUME TypeInv, TracesInv, NEW h \in Handles, NEW g \in Groups, NEW b, NEW rg,
           SetBackend(h, b), UNCHANGED disk,
           \A k \in Groups \ {g} : b.groups[k] = backend[h].groups[k],
           RecordLeft(h, g, rg),
           FounderTraces(rg, b.groups[g])
    PROVE  TracesInv'
<1>1. PICK s : SetState(h, s) /\ \A k \in Groups : s.groups[k] = IF k = g THEN rg ELSE state[h].groups[k]
  <2>1. state[h] \in RuntimeStates /\ state = [state EXCEPT ![h] = state[h]]
    BY DEF TypeInv, StateOK
  <2>2. CASE SetGroup(h, g, rg)
    <3> DEFINE s == [state[h] EXCEPT !.groups[g] = rg]
    <3>1. \A k \in Groups : s.groups[k] = IF k = g THEN rg ELSE state[h].groups[k]
      BY <2>1 DEF RuntimeStates
    <3>2. SetState(h, s)
      BY <2>2 DEF SetGroup, SetState
    <3> QED BY <3>1, <3>2
  <2>3. CASE UNCHANGED state /\ rg = Runtime(h, g)
    BY <2>1, <2>3 DEF SetState, Runtime
  <2> QED BY <2>2, <2>3 DEF RecordLeft
<1>2. TracesAll(s, b)
  BY <1>1 DEF TracesInv, TracesAll
<1> QED BY <1>1, <1>2, TracesFrame

\* What is known of a group that is there.
LEMMA FounderFacts ==
    ASSUME FounderInv, NEW h \in Handles, NEW g \in Groups, HasGroup(backend[h], g)
    PROVE  /\ Known(state[h], g) /\ Runtime(h, g) \in RuntimeGroups
           /\ Mls(h, g) \in MlsGroups /\ Mls(h, g) = backend[h].groups[g]
           /\ backend[h] \in Backends
           /\ FounderTraces(Runtime(h, g), Mls(h, g))
           /\ RosterOK(Runtime(h, g).members, Runtime(h, g).memberMap)
<1>1. Known(state[h], g) /\ Runtime(h, g) \in RuntimeGroups /\ Mls(h, g) \in MlsGroups
  BY InStepFacts DEF FounderInv
<1>2. SoundRecord(Runtime(h, g))
  BY <1>1, SoundFacts DEF FounderInv
<1>3. FounderTraces(Runtime(h, g), Mls(h, g))
  BY DEF FounderInv, TracesInv, TracesAll, Runtime, Mls
<1>4. backend[h] \in Backends
  BY DEF FounderInv, TypeInv, BackendOK, SoundBackends
<1> QED BY <1>1, <1>2, <1>3, <1>4 DEF SoundRecord, Mls

\* Staging a commit whose tree the changed map traces.
LEMMA StageTraces ==
    ASSUME FounderInv, NEW h \in Handles, NEW g \in Groups, HasGroup(backend[h], g),
           NEW rg, NEW tree \in Trees, NEW welcomes, StageCommit(h, g, rg, tree, welcomes),
           <<0, Mls(h, g).me>> \in tree, Traces(rg.memberMap, tree)
    PROVE  TracesInv'
<1> DEFINE group == Mls(h, g)
           b == WithStaged(backend[h], g, fresh, tree)
<1>1. group \in MlsGroups /\ group = backend[h].groups[g] /\ backend[h] \in Backends
  BY FounderFacts
<1>2. OneGroup(backend[h], b, g) /\ b.groups[g] = Staged(group, fresh, tree)
  BY <1>1, OneGroupChanged
<1>3. Staged(group, fresh, tree).me = group.me /\ Led(Staged(group, fresh, tree)) = tree
  <2>1. [id |-> fresh, tree |-> tree] \in Commits
    BY DEF FounderInv, TypeInv, FreshOK, Commits
  <2>2. Staged(group, fresh, tree).pending = [id |-> fresh, tree |-> tree]
        /\ Staged(group, fresh, tree).me = group.me
    BY <1>1 DEF Staged, MlsGroups
  <2> QED BY <2>1, <2>2, NoCommitAssumption DEF Led
<1>4. SetBackend(h, b) /\ SetGroup(h, g, rg) /\ UNCHANGED disk
  BY DEF StageCommit
<1> HIDE DEF group, b
<1>5. FounderTraces(rg, b.groups[g])
  BY <1>2, <1>3 DEF FounderTraces, group
<1>6. \A k \in Groups \ {g} : b.groups[k] = backend[h].groups[k]
  BY <1>2 DEF OneGroup
<1>7. TypeInv /\ TracesInv
  BY DEF FounderInv
<1>8. RecordLeft(h, g, rg)
  BY <1>4 DEF RecordLeft
<1> QED BY <1>4, <1>5, <1>6, <1>7, <1>8, TracesGroupFrame

\* The member that stages a commit, where founders alone commit.
LEMMA FounderAlone ==
    ASSUME NEW h \in Handles, NEW g \in Groups, NEW rg, NEW tree, NEW welcomes,
           StageCommit(h, g, rg, tree, welcomes), FoundersCommit'
    PROVE  Mls(h, g).own = 0
<1>1. CommitMsg(g, Mls(h, g), tree) \in net'
  BY DEF StageCommit, Return
<1> QED BY <1>1 DEF FoundersCommit, CommitMsg

\* The frame of the welcomes.
LEMMA WelcomesFrame ==
    ASSUME WelcomesInv, \A m \in net' \ net : m.kind # "welcome" \/ m.leaf # 0
    PROVE  WelcomesInv'
BY DEF WelcomesInv

LEMMA InviteTraces ==
    ASSUME FounderInv, NEW h \in Handles, NEW g \in Groups, NEW key \in KeyPackages,
           Invite(h, g, key), FoundersCommit'
    PROVE  TracesInv' /\ WelcomesInv'
<1> DEFINE group == Mls(h, g)
           had == Runtime(h, g)
           taken == ApplySnapshot(had, group)
<1>1. /\ HasGroup(backend[h], g) /\ group.pending = NoCommit /\ key.owner \in Clients
  BY DEF Invite, CanAdd, Operational, KeyPackages
<1>2. /\ had \in RuntimeGroups /\ group \in MlsGroups /\ FounderTraces(had, group)
      /\ group = backend[h].groups[g]
  BY <1>1, FounderFacts
<1>3. PICK leaf \in Leaves, index \in Indices :
        /\ LeftmostFree(group.tree, leaf)
        /\ NextIndex(had.memberMap, index)
        /\ LET welcome == [kind |-> "welcome", group |-> g, key |-> key, id |-> fresh,
                           epoch |-> group.epoch + 1, leaf |-> leaf,
                           tree |-> WithLeaf(group.tree, leaf, key.owner)]
           IN StageCommit(h, g, [taken EXCEPT !.pending = TRUE,
                                              !.members = @ \cup {key.owner},
                                              !.memberMap = @ \cup {<<index, key.owner>>}],
                          WithLeaf(group.tree, leaf, key.owner), {welcome})
  BY DEF Invite
<1> DEFINE full == WithLeaf(group.tree, leaf, key.owner)
           rg == [taken EXCEPT !.pending = TRUE, !.members = @ \cup {key.owner},
                               !.memberMap = @ \cup {<<index, key.owner>>}]
           welcome == [kind |-> "welcome", group |-> g, key |-> key, id |-> fresh,
                       epoch |-> group.epoch + 1, leaf |-> leaf, tree |-> full]
<1>4. StageCommit(h, g, rg, full, {welcome})
  BY <1>3
<1>5. rg.memberMap = had.memberMap \cup {<<index, key.owner>>}
  <2>1. taken.memberMap = had.memberMap /\ DOMAIN taken = DOMAIN had
    BY <1>2 DEF ApplySnapshot, RuntimeGroups
  <2>2. {"pending", "members", "memberMap"} \subseteq DOMAIN had
    BY <1>2 DEF RuntimeGroups
  <2> HIDE DEF taken
  <2> QED BY <2>1, <2>2
<1>6. group.tree \in Trees /\ group.me \in Clients /\ had.memberMap \in SUBSET (Indices \X Clients)
  BY <1>2 DEF MlsGroups, RuntimeGroups
<1>7. group.own = 0
  BY <1>4, FounderAlone
<1>8. /\ <<0, group.me>> \in group.tree /\ Traces(had.memberMap, group.tree)
  <2>1. group # NoGroup
    BY <1>1, <1>2 DEF HasGroup
  <2> QED BY <1>1, <1>2, <1>7, <2>1 DEF FounderTraces, Led
<1>9. leaf # 0
  BY <1>3, <1>6, <1>8 DEF LeftmostFree, IsFree
<1>10. full \in Trees
  BY <1>1, <1>6, TreeOps
<1>11. <<0, group.me>> \in full
  BY <1>8 DEF WithLeaf
<1>12. Traces(rg.memberMap, full)
  <2> HIDE DEF group, had, rg
  <2> QED BY <1>1, <1>3, <1>5, <1>6, <1>8, TracesGrow
<1>13. TracesInv'
  <2> HIDE DEF full, rg, welcome
  <2> QED BY <1>1, <1>4, <1>10, <1>11, <1>12, StageTraces
<1>14. net' = net \cup {CommitMsg(g, group, full), welcome}
  <2> HIDE DEF group, full, rg, welcome
  <2> QED BY <1>4 DEF StageCommit, Return, group
<1>15. WelcomesInv'
  <2>1. CommitMsg(g, group, full).kind = "commit" /\ welcome.leaf = leaf
    BY DEF CommitMsg
  <2> HIDE DEF group, full, welcome
  <2> QED BY <1>9, <1>14, <2>1, WelcomesFrame DEF FounderInv
<1> QED BY <1>13, <1>15

LEMMA RemoveTraces ==
    ASSUME FounderInv, NEW h \in Handles, NEW g \in Groups, NEW client \in Clients,
           Remove(h, g, client), FoundersCommit'
    PROVE  TracesInv' /\ WelcomesInv'
<1> DEFINE group == Mls(h, g)
           had == Runtime(h, g)
           less == {other \in had.memberMap : other[2] # client}
           taken == ApplySnapshot(had, group)
           removed == [taken EXCEPT !.pending = TRUE, !.members = @ \ {client},
                                    !.memberMap = {other \in @ : other[2] # client}]
           left == [removed EXCEPT !.active = FALSE, !.selfLeaf = NoLeaf]
           rg == IF client = Identity(h) THEN left ELSE removed
<1>1. HasGroup(backend[h], g)
  BY DEF Remove
<1>2. /\ had \in RuntimeGroups /\ group \in MlsGroups /\ FounderTraces(had, group)
      /\ group = backend[h].groups[g] /\ RosterOK(had.members, had.memberMap)
  BY <1>1, FounderFacts
<1>3. PICK entry \in had.memberMap :
        /\ entry[2] = client
        /\ CanRemove(group, entry[1])
        /\ StageCommit(h, g, rg, WithoutLeaf(group.tree, entry[1]), {})
  BY DEF Remove
<1> DEFINE bare == WithoutLeaf(group.tree, entry[1])
<1>4. rg.memberMap = less
  <2>1. taken.memberMap = had.memberMap /\ DOMAIN taken = DOMAIN had
    BY <1>2 DEF ApplySnapshot, RuntimeGroups
  <2>2. {"pending", "members", "memberMap", "active", "selfLeaf"} \subseteq DOMAIN had
    BY <1>2 DEF RuntimeGroups
  <2> HIDE DEF taken
  <2>3. removed.memberMap = less /\ DOMAIN removed = DOMAIN had
    BY <2>1, <2>2
  <2> HIDE DEF removed, less
  <2>4. left.memberMap = less
    BY <2>2, <2>3
  <2> HIDE DEF left
  <2> QED BY <2>3, <2>4
<1> HIDE DEF rg
<1>5. group.own = 0 /\ group.pending = NoCommit /\ entry[1] # 0 /\ ~ IsFree(group.tree, entry[1])
  BY <1>3, FounderAlone DEF CanRemove, Operational
<1>6. /\ <<0, group.me>> \in group.tree /\ Traces(had.memberMap, group.tree)
      /\ group.tree \in Trees
  <2>1. group # NoGroup
    BY <1>1, <1>2 DEF HasGroup
  <2> QED BY <1>2, <1>5, <2>1 DEF FounderTraces, Led, MlsGroups
<1>7. bare \in Trees /\ <<0, group.me>> \in bare
  BY <1>5, <1>6 DEF WithoutLeaf, Trees
<1>8. less = {other \in had.memberMap : other[2] # entry[2]}
  BY <1>3
<1>9. Traces(less, bare)
  <2> HIDE DEF group, had, less
  <2> QED BY <1>2, <1>3, <1>5, <1>6, <1>8, TracesShrink
<1>10. StageCommit(h, g, rg, bare, {})
  BY <1>3
<1> HIDE DEF bare, less
<1>11. TracesInv'
  BY <1>1, <1>4, <1>7, <1>9, <1>10, StageTraces
<1>12. net' = net \cup {CommitMsg(g, group, bare)}
  BY <1>10 DEF StageCommit, Return
<1>13. WelcomesInv'
  BY <1>12, WelcomesFrame DEF FounderInv, CommitMsg
<1> QED BY <1>11, <1>13

LEMMA SelfUpdateTraces ==
    ASSUME FounderInv, NEW h \in Handles, NEW g \in Groups, SelfUpdate(h, g), FoundersCommit'
    PROVE  TracesInv' /\ WelcomesInv'
<1> DEFINE group == Mls(h, g)
           had == Runtime(h, g)
           rg == [ApplySnapshot(had, group) EXCEPT !.pending = TRUE]
<1>1. HasGroup(backend[h], g) /\ group.pending = NoCommit /\ StageCommit(h, g, rg, group.tree, {})
  BY DEF SelfUpdate, Operational
<1>2. /\ had \in RuntimeGroups /\ group \in MlsGroups /\ FounderTraces(had, group)
      /\ group = backend[h].groups[g]
  BY <1>1, FounderFacts
<1>3. rg.memberMap = had.memberMap
  BY <1>2 DEF ApplySnapshot, RuntimeGroups
<1> HIDE DEF rg
<1>4. group.own = 0
  BY <1>1, FounderAlone
<1>5. <<0, group.me>> \in group.tree /\ Traces(had.memberMap, group.tree) /\ group.tree \in Trees
  <2>1. group # NoGroup
    BY <1>1, <1>2 DEF HasGroup
  <2> QED BY <1>1, <1>2, <1>4, <2>1 DEF FounderTraces, Led, MlsGroups
<1>6. TracesInv'
  BY <1>1, <1>3, <1>5, StageTraces
<1>7. net' = net \cup {CommitMsg(g, group, group.tree)}
  BY <1>1 DEF StageCommit, Return
<1>8. WelcomesInv'
  BY <1>7, WelcomesFrame DEF FounderInv, CommitMsg
<1> QED BY <1>6, <1>8

LEMMA CreateTraces ==
    ASSUME FounderInv, NEW h \in Handles, NEW g \in Groups, CreateGroup(h, g)
    PROVE  TracesInv' /\ WelcomesInv'
<1> DEFINE client == backend[h].signer
           group == NewGroup(client, fresh)
           rg == ApplySnapshot(NewRuntimeGroup(Identity(h)), group)
           b == Written(backend[h], g, group)
<1>1. backend[h] \in Backends /\ client = Identity(h)
  BY DEF FounderInv, TypeInv, BackendOK, SoundBackends, LayersInv, InStep, Identity
<1>2. SetBackend(h, b) /\ SetGroup(h, g, rg) /\ UNCHANGED <<disk, net>>
  BY DEF CreateGroup, ReturnNothing
<1>3. group.me = client /\ group.tree = {<<0, client>>} /\ group.pending = NoCommit
  BY DEF NewGroup, MemberAt
<1>4. rg.memberMap = {<<0, client>>}
  BY <1>1 DEF ApplySnapshot, NewRuntimeGroup
<1> HIDE DEF group
<1>5. OneGroup(backend[h], b, g) /\ b.groups[g] = group
  BY <1>1, OneGroupChanged
<1> HIDE DEF b, rg, client
<1>6. FounderTraces(rg, group)
  BY <1>3, <1>4, TracesOne DEF FounderTraces, Led
<1>7. RecordLeft(h, g, rg) /\ TypeInv /\ TracesInv
  BY <1>2 DEF RecordLeft, FounderInv
<1>8. TracesInv'
  BY <1>2, <1>5, <1>6, <1>7, TracesGroupFrame DEF OneGroup
<1> QED BY <1>2, <1>8 DEF FounderInv, WelcomesInv

\* Neither a merge nor a message sent or received changes where the founder's tree leads,
\* and another member's commit never reaches a founder.
LEMMA LedKept ==
    ASSUME NEW group \in MlsGroups
    PROVE  /\ Led(MergedOwn(group)) = Led(group) /\ MergedOwn(group).own = group.own
           /\ Led(Sent(group)) = Led(group) /\ Sent(group).own = group.own
           /\ \A leaf, gen : /\ Led(Consumed(group, leaf, gen)) = Led(group)
                             /\ Consumed(group, leaf, gen).own = group.own
           /\ \A id, tree : MergedIncoming(group, id, tree).own = group.own
<1>1. Led(MergedOwn(group)) = Led(group) /\ MergedOwn(group).own = group.own
  BY DEF Led, MergedOwn, AtNextEpoch, MemberAt
<1>2. Led(Sent(group)) = Led(group) /\ Sent(group).own = group.own
  BY DEF Led, Sent, MlsGroups
<1>3. ASSUME NEW leaf, NEW gen
      PROVE  /\ Led(Consumed(group, leaf, gen)) = Led(group)
             /\ Consumed(group, leaf, gen).own = group.own
  BY DEF Led, Consumed, MlsGroups
<1>4. ASSUME NEW id, NEW tree PROVE MergedIncoming(group, id, tree).own = group.own
  BY DEF MergedIncoming, AtNextEpoch, MemberAt
<1> QED BY <1>1, <1>2, <1>3, <1>4

\* A record whose message was counted has the map it had.
LEMMA RecordedMap ==
    ASSUME FounderInv, NEW h \in Handles, NEW m, m.group \in Groups, RecordIncoming(h, m),
           HasGroup(backend[h], m.group)
    PROVE  \E rg : RecordLeft(h, m.group, rg) /\ rg.memberMap = Runtime(h, m.group).memberMap
<1> DEFINE had == Runtime(h, m.group)
           rg == [had EXCEPT !.offset = @ + 1, !.queue = Enqueued(@, m.id)]
<1>1. had \in RuntimeGroups /\ Known(state[h], m.group)
  BY FounderFacts
<1>2. SetGroup(h, m.group, rg)
  BY <1>1 DEF RecordIncoming
<1>3. rg.memberMap = had.memberMap
  BY <1>1 DEF RuntimeGroups
<1> HIDE DEF had, rg
<1> QED BY <1>2, <1>3 DEF RecordLeft, had

LEMMA ChangeTraces ==
    ASSUME FounderInv, NEW h \in Handles, NEW g \in Groups,
           \/ MergePendingCommit(h, g) \/ DropGroup(h, g) \/ EncryptMessage(h, g)
           \/ \E m : m.group = g /\ HandleApplication(h, m)
           \/ \E m \in net : m.kind = "commit" /\ m.group = g /\ HandleCommit(h, m),
           FoundersCommit
    PROVE  TracesInv'
<1> DEFINE b == backend[h]
           group == Mls(h, g)
           had == Runtime(h, g)
<1>1. HasGroup(b, g) /\ UNCHANGED disk
  BY DEF MergePendingCommit, DropGroup, EncryptMessage, HandleApplication, HandleCommit, CanProcess
<1>2. /\ had \in RuntimeGroups /\ group \in MlsGroups /\ FounderTraces(had, group)
      /\ group = b.groups[g] /\ b \in Backends
  BY <1>1, FounderFacts
<1>3. TypeInv /\ TracesInv /\ group # NoGroup
  BY <1>1, <1>2 DEF FounderInv, HasGroup
<1>4. ASSUME NEW c, NEW rg, SetBackend(h, c), OneGroup(b, c, g), RecordLeft(h, g, rg),
             FounderTraces(rg, c.groups[g])
      PROVE  TracesInv'
  BY <1>1, <1>3, <1>4, TracesGroupFrame DEF OneGroup
<1>5. ASSUME NEW one, NEW rg, one.own = group.own, one.me = group.me, Led(one) = Led(group),
             rg.memberMap = had.memberMap
      PROVE  FounderTraces(rg, one)
  BY <1>2, <1>3, <1>5 DEF FounderTraces
<1>6. CASE MergePendingCommit(h, g)
  <2> DEFINE one == MergedOwn(group)
             rg == [ApplySnapshot(had, one) EXCEPT !.pending = FALSE]
  <2>1. SetBackend(h, WithMerged(b, g)) /\ SetGroup(h, g, rg)
    BY <1>6 DEF MergePendingCommit
  <2>2. OneGroup(b, WithMerged(b, g), g) /\ WithMerged(b, g).groups[g] = one
    BY <1>2, OneGroupChanged
  <2>3. rg.memberMap = had.memberMap
    BY <1>2 DEF ApplySnapshot, RuntimeGroups
  <2> HIDE DEF rg
  <2>4. FounderTraces(rg, one)
    BY <1>2, <1>5, <2>3, LedKept, OwnerKept
  <2>5. RecordLeft(h, g, rg)
    BY <2>1 DEF RecordLeft
  <2> QED BY <1>4, <2>1, <2>2, <2>4, <2>5
<1>7. CASE DropGroup(h, g)
  <2>1. SetBackend(h, Dropped(b, g)) /\ RecordLeft(h, g, NoGroup)
    BY <1>7 DEF DropGroup, RecordLeft
  <2>2. OneGroup(b, Dropped(b, g), g) /\ Dropped(b, g).groups[g] = NoGroup
    BY <1>2, OneGroupChanged
  <2>3. FounderTraces(NoGroup, NoGroup)
    BY DEF FounderTraces
  <2> QED BY <1>4, <2>1, <2>2, <2>3
<1>8. CASE EncryptMessage(h, g)
  <2>1. SetBackend(h, Written(b, g, Sent(group))) /\ RecordLeft(h, g, had)
    BY <1>8 DEF EncryptMessage, RecordLeft
  <2>2. OneGroup(b, Written(b, g, Sent(group)), g)
        /\ Written(b, g, Sent(group)).groups[g] = Sent(group)
    BY <1>2, OneGroupChanged
  <2>3. FounderTraces(had, Sent(group))
    BY <1>2, <1>5, LedKept, OwnerKept
  <2> QED BY <1>4, <2>1, <2>2, <2>3
<1>9. ASSUME NEW m, m.group = g, HandleApplication(h, m) PROVE TracesInv'
  <2>1. PICK kept : SetBackend(h, WithConsumed(b, g, m.leaf, m.gen, kept))
    BY <1>9 DEF HandleApplication
  <2> DEFINE one == Consumed(group, m.leaf, m.gen)
             c == WithConsumed(b, g, m.leaf, m.gen, kept)
  <2>2. OneGroup(b, c, g) /\ c.groups[g] = one
    BY <1>2, OneGroupChanged
  <2>3. PICK rg : RecordLeft(h, g, rg) /\ rg.memberMap = had.memberMap
    BY <1>1, <1>9, RecordedMap DEF HandleApplication
  <2>4. FounderTraces(rg, one)
    BY <1>2, <1>5, <2>3, LedKept, OwnerKept
  <2> HIDE DEF one, c
  <2> QED BY <1>4, <2>1, <2>2, <2>3, <2>4 DEF c
<1>10. ASSUME NEW m \in net, m.kind = "commit", m.group = g, HandleCommit(h, m) PROVE TracesInv'
  <2> DEFINE one == MergedIncoming(group, m.id, m.tree)
             c == Written(b, g, one)
  <2>1. SetBackend(h, c)
    BY <1>10 DEF HandleCommit
  <2>2. one.own # 0
    BY <1>2, <1>10, LedKept DEF HandleCommit, CanProcess, FoundersCommit
  <2>3. PICK rg : RecordLeft(h, g, rg)
    BY <1>1, <1>10, RecordedMap DEF HandleCommit
  <2> HIDE DEF one
  <2>4. OneGroup(b, c, g) /\ c.groups[g] = one
    BY <1>2, OneGroupChanged
  <2>5. FounderTraces(rg, one)
    BY <2>2 DEF FounderTraces
  <2> HIDE DEF c
  <2> QED BY <1>4, <2>1, <2>3, <2>4, <2>5
<1> QED BY <1>6, <1>7, <1>8, <1>9, <1>10

\* A welcome never seats a founder.
LEMMA JoinTraces ==
    ASSUME FounderInv, NEW h \in Handles, NEW m \in WelcomeMsgs, m \in net,
           JoinFromWelcome(h, m) \/ JoinRefused(h, m)
    PROVE  TracesInv' /\ WelcomesInv'
<1> DEFINE g == m.group
           c == WithoutKey(backend[h], m.key)
           group == MemberAt(m.key.owner, m.leaf, m.id, m.epoch, m.tree)
           rg == ApplySnapshot(JoinedRecord(h, g), group)
<1>1. g \in Groups /\ backend[h] \in Backends /\ m.leaf # 0
  BY DEF WelcomeMsgs, FounderInv, TypeInv, BackendOK, SoundBackends, WelcomesInv
<1>2. c \in Backends /\ c.groups = backend[h].groups
  BY <1>1 DEF WithoutKey, Backends
<1>3. TypeInv /\ TracesInv /\ UNCHANGED <<disk, net>>
  BY DEF FounderInv, JoinFromWelcome, JoinRefused, ReturnNothing
<1>4. ASSUME JoinFromWelcome(h, m) PROVE TracesInv'
  <2>1. SetBackend(h, Written(c, g, group)) /\ RecordLeft(h, g, rg)
    BY <1>4 DEF JoinFromWelcome, RecordLeft
  <2>2. group.own # 0
    BY <1>1 DEF MemberAt
  <2> HIDE DEF g, c, group, rg
  <2>3. OneGroup(c, Written(c, g, group), g) /\ Written(c, g, group).groups[g] = group
    BY <1>1, <1>2, OneGroupChanged
  <2>4. FounderTraces(rg, group)
    BY <2>2 DEF FounderTraces
  <2>5. \A k \in Groups \ {g} : Written(c, g, group).groups[k] = backend[h].groups[k]
    BY <1>2, <2>3 DEF OneGroup
  <2> QED BY <1>1, <1>3, <2>1, <2>3, <2>4, <2>5, TracesGroupFrame
<1>5. ASSUME JoinRefused(h, m) PROVE TracesInv'
  <2>1. SetBackend(h, c) /\ RecordLeft(h, g, Runtime(h, g))
    BY <1>5 DEF JoinRefused, RecordLeft
  <2>2. FounderTraces(Runtime(h, g), c.groups[g])
    BY <1>1, <1>2, <1>3 DEF TracesInv, TracesAll, Runtime
  <2> HIDE DEF g, c
  <2> QED BY <1>1, <1>2, <1>3, <2>1, <2>2, TracesGroupFrame
<1>6. WelcomesInv'
  BY <1>3 DEF FounderInv, WelcomesInv
<1> QED BY <1>4, <1>5, <1>6

\* No group in memory, and nothing to trace.
LEMMA EmptyTraces ==
    ASSUME NEW s, NEW b, b.groups = NoGroups
    PROVE  TracesAll(s, b)
BY DEF TracesAll, FounderTraces, NoGroups

LEMMA SetupTraces ==
    ASSUME FounderInv, NEW h \in Handles, Setup(h)
    PROVE  TracesInv' /\ WelcomesInv'
<1>1. /\ state[h] \in RuntimeStates /\ backend[h] \in Backends /\ TypeInv /\ TracesInv
      /\ TracesAll(state[h], backend[h])
  BY DEF FounderInv, TypeInv, StateOK, BackendOK, SoundBackends, TracesInv
<1>2. ASSUME NEW s, NEW b, SetState(h, s), SetBackend(h, b), UNCHANGED disk,
             b.groups = NoGroups \/ (s.groups = state[h].groups /\ b.groups = backend[h].groups)
      PROVE  TracesInv'
  <2>1. TracesAll(s, b)
    BY <1>1, <1>2, EmptyTraces DEF TracesAll
  <2> QED BY <1>1, <1>2, <2>1, TracesFrame
<1>3. ASSUME UNCHANGED net PROVE WelcomesInv'
  BY <1>3 DEF FounderInv, WelcomesInv
<1>4. ASSUME NEW client, CreateClient(h, client) PROVE TracesInv' /\ WelcomesInv'
  BY <1>2, <1>3, <1>4, ResetFacts DEF CreateClient, ReturnNothing
<1>5. ASSUME CreateClientBadKey(h) PROVE TracesInv' /\ WelcomesInv'
  BY <1>2, <1>3, <1>5, ResetFacts DEF CreateClientBadKey, ReturnNothing
<1>6. ASSUME NEW count, CreateKeyPackages(h, count) PROVE TracesInv' /\ WelcomesInv'
  <2>1. PICK records, counter, made :
          /\ SetState(h, [state[h] EXCEPT !.keyPackages = records, !.counter = counter])
          /\ SetBackend(h, WithKeys(backend[h], made))
          /\ Return(h, {[kind |-> "keypackage", key |-> key] : key \in made})
          /\ UNCHANGED disk
    BY <1>6 DEF CreateKeyPackages
  <2>2. /\ [state[h] EXCEPT !.keyPackages = records, !.counter = counter].groups = state[h].groups
        /\ WithKeys(backend[h], made).groups = backend[h].groups
    BY <1>1 DEF RuntimeStates, WithKeys, Backends
  <2>3. TracesInv'
    BY <1>2, <2>1, <2>2
  <2>4. \A m \in net' \ net : m.kind = "keypackage"
    BY <2>1 DEF Return
  <2> QED BY <2>3, <2>4, WelcomesFrame DEF FounderInv
<1>7. ASSUME NEW bundle, MarkKeyPackagesUploaded(h, bundle) PROVE TracesInv' /\ WelcomesInv'
  <2>1. PICK records : SetState(h, [state[h] EXCEPT !.keyPackages = records])
    BY <1>7 DEF MarkKeyPackagesUploaded
  <2>2. [state[h] EXCEPT !.keyPackages = records].groups = state[h].groups
    BY <1>1 DEF RuntimeStates
  <2>3. SetBackend(h, backend[h]) /\ UNCHANGED <<disk, net>>
    BY <1>7 DEF MarkKeyPackagesUploaded, ReturnNothing, SetBackend, TypeInv, FounderInv, BackendOK
  <2> QED BY <1>2, <1>3, <2>1, <2>2, <2>3
<1> QED BY <1>4, <1>5, <1>6, <1>7 DEF Setup

\* An export keeps the groups in memory with copies that lead to the same trees.
LEMMA PersistenceTraces ==
    ASSUME FounderInv, NEW h \in Handles, Persistence(h) \/ RestoreWithoutDump(h)
    PROVE  TracesInv' /\ WelcomesInv'
<1>1. TypeInv /\ LayersInv /\ TracesInv
  BY DEF FounderInv
<1>2. ASSUME ExportClientState(h) PROVE TracesInv'
  <2> DEFINE loaded == Loaded(state[h].identity, Dump(backend[h]), KnownGroups(state[h]))
  <2>1. disk' = [disk EXCEPT ![h] = Exported(state[h], backend[h])]
        /\ UNCHANGED <<state, backend>>
    BY <1>2 DEF ExportClientState
  <2>2. ASSUME NEW g \in Groups PROVE FounderTraces(state[h].groups[g], loaded.groups[g])
    <3>1. loaded.groups[g] = IF Known(state[h], g) THEN backend[h].stored[g] ELSE NoGroup
      BY DEF Loaded, Dump, KnownGroups
    <3>2. CASE Known(state[h], g)
      <4>1. HasGroup(backend[h], g)
        BY <1>1, <3>2 DEF LayersInv, InStep, GroupInStep, Known, HasGroup
      <4> DEFINE stored == backend[h].stored[g]
                 group == Mls(h, g)
      <4>2. /\ stored.own = group.own /\ stored.me = group.me
            /\ stored.tree = group.tree /\ stored.pending = group.pending
        <5>1. /\ stored \in MlsGroups /\ group \in MlsGroups
              /\ [stored EXCEPT !.seen = {}] = [group EXCEPT !.seen = {}]
          BY <1>1, <4>1, InStepFacts
        <5> HIDE DEF stored, group
        <5> QED BY <5>1, Mirrored
      <4>3. FounderTraces(Runtime(h, g), group) /\ group # NoGroup
        BY <4>1, FounderFacts DEF HasGroup
      <4> HIDE DEF stored, group
      <4>4. FounderTraces(Runtime(h, g), stored)
        BY <4>2, <4>3 DEF FounderTraces, Led
      <4> QED BY <3>1, <3>2, <4>4 DEF stored, Runtime
    <3>3. CASE ~ Known(state[h], g)
      BY <3>1, <3>3 DEF FounderTraces
    <3> QED BY <3>2, <3>3
  <2>3. ASSUME NEW k \in Handles, disk'[k] # NoSnap
        PROVE  TracesAll(Saved(k), BlobLoaded(k))'
    <3>1. CASE k = h
      <4>1. disk'[h].runtime = state[h] /\ disk'[h].dump = Dump(backend[h])
        BY <1>1, <2>1 DEF Exported, TypeInv, DiskOK
      <4> QED BY <2>2, <3>1, <4>1 DEF TracesAll, BlobLoaded, SavedGroups, Saved
    <3>2. CASE k # h
      <4>1. disk'[k] = disk[k]
        BY <1>1, <2>1, <3>2 DEF TypeInv, DiskOK
      <4> QED BY <1>1, <2>3, <4>1 DEF TracesInv, BlobLoaded, SavedGroups, Saved
    <3> QED BY <3>1, <3>2
  <2> QED BY <1>1, <2>1, <2>3 DEF TracesInv
<1>3. ASSUME NewHandle(h) PROVE TracesInv'
  <2>1. TracesAll(NewRuntimeState, ResetBackend)
    BY ResetFacts, EmptyTraces
  <2> QED BY <1>1, <1>3, <2>1, TracesFrame DEF NewHandle
<1>4. ASSUME RestoreClient(h) PROVE TracesInv'
  <2>1. TracesAll(Saved(h), BlobLoaded(h))
    BY <1>1, <1>4 DEF RestoreClient, TracesInv
  <2> QED BY <1>1, <1>4, <2>1, TracesFrame DEF RestoreClient, BlobLoaded
<1>5. ASSUME RestoreWithoutDump(h) PROVE TracesInv'
  <2>1. Reconfigured(h).groups = NoGroups
    BY ResetFacts DEF Reconfigured
  <2>2. TracesAll(Saved(h), Reconfigured(h))
    BY <2>1, EmptyTraces
  <2> QED BY <1>1, <1>5, <2>2, TracesFrame DEF RestoreWithoutDump
<1>6. net' \subseteq net
  BY DEF Persistence, ExportClientState, NewHandle, RestoreClient, RestoreWithoutDump, LoseSession
<1>7. WelcomesInv'
  BY <1>6 DEF FounderInv, WelcomesInv
<1> QED BY <1>2, <1>3, <1>4, <1>5, <1>7 DEF Persistence

LEMMA StepTraces ==
    FounderInv /\ FoundersCommit /\ FoundersCommit' /\ [KeepingNext]_vars => FounderInv'
<1> SUFFICES ASSUME FounderInv, FoundersCommit, FoundersCommit', [KeepingNext]_vars
             PROVE  FounderInv'
  OBVIOUS
<1>1. [CleanNext]_vars /\ [Next]_vars
  BY DEF KeepingNext, KeepingStep, CleanNext, CleanStep, Next, Recovery
<1>2. TypeInv' /\ LayersInv' /\ RecordsInv'
  BY <1>1, StepTypes, StepInStep, StepSound DEF FounderInv
<1>3. /\ \A key \in PublishedKeys : key \in KeyPackages
      /\ \A m \in Arrived("welcome") : m \in WelcomeMsgs /\ m \in net
      /\ \A m \in Arrived("commit") : m.group \in Groups /\ m \in net /\ m.kind = "commit"
      /\ \A m \in Arrived("application") : m.group \in Groups
  BY ArrivedTypes DEF FounderInv, CommitMsgs, ApplicationMsgs, Arrived
<1>4. ASSUME UNCHANGED net PROVE WelcomesInv'
  BY <1>4 DEF FounderInv, WelcomesInv
<1>5. ASSUME NEW h \in Handles, Lifecycle(h) PROVE TracesInv' /\ WelcomesInv'
  <2>1. ASSUME NEW g \in Groups, MergePendingCommit(h, g) PROVE TracesInv' /\ WelcomesInv'
    BY <1>4, <2>1, ChangeTraces DEF MergePendingCommit, ReturnNothing
  <2>2. ASSUME NEW m \in Arrived("commit"), HandleCommit(h, m) PROVE TracesInv' /\ WelcomesInv'
    BY <1>3, <1>4, <2>2, ChangeTraces DEF HandleCommit, ReturnNothing
  <2> QED BY <1>3, <1>5, <2>1, <2>2, CreateTraces, SelfUpdateTraces, InviteTraces, RemoveTraces,
             JoinTraces DEF Lifecycle
<1>6. ASSUME NEW h \in Handles, Messaging(h) PROVE TracesInv' /\ WelcomesInv'
  <2>1. ASSUME NEW g \in Groups, EncryptMessage(h, g) PROVE TracesInv' /\ WelcomesInv'
    <3>1. \A m \in net' \ net : m.kind = "application"
      BY <2>1 DEF EncryptMessage, Return
    <3> QED BY <2>1, <3>1, ChangeTraces, WelcomesFrame DEF FounderInv
  <2>2. ASSUME NEW m \in Arrived("application"), HandleApplication(h, m)
        PROVE  TracesInv' /\ WelcomesInv'
    BY <1>3, <1>4, <2>2, ChangeTraces DEF HandleApplication, ReturnNothing
  <2> QED BY <1>6, <2>1, <2>2 DEF Messaging
<1>7. ASSUME NEW h \in Handles, NEW g \in Groups, DropGroup(h, g)
      PROVE  TracesInv' /\ WelcomesInv'
  BY <1>4, <1>7, ChangeTraces DEF DropGroup, ReturnNothing
<1>8. CASE UNCHANGED vars
  BY <1>2, <1>8 DEF vars, FounderInv, TracesInv, WelcomesInv, BlobLoaded, SavedGroups, Saved
<1> QED BY <1>2, <1>5, <1>6, <1>7, <1>8, SetupTraces, PersistenceTraces
        DEF KeepingNext, KeepingStep, FounderInv

\* Where a group's founder alone commits and clears none of its commits, the member map
\* the service keeps is the ratchet tree whenever it has no hole (DenseMapExact): for any
\* number of members, invitations and removals, restored or not, remove() then looks up
\* the leaf OpenMLS seated the member at.
THEOREM DenseMapExactCorrect == KeepingSpec /\ []FoundersCommit => []DenseMapExact
<1>1. Init => FounderInv
  <2>1. Init => TracesInv
    BY ResetFacts, EmptyTraces DEF Init, TracesInv
  <2>2. Init => WelcomesInv
    BY DEF Init, WelcomesInv
  <2> QED BY <2>1, <2>2, InitTypes, InitInStep, InitSound DEF FounderInv
<1>2. FounderInv => DenseMapExact
  <2> SUFFICES ASSUME FounderInv, NEW h \in Handles, NEW g \in Groups,
                      Known(state[h], g), Founded(h, g),
                      NEW map, map = Runtime(h, g).memberMap,
                      NEW indices, indices = {entry[1] : entry \in map},
                      indices = 0 .. Cardinality(indices) - 1
               PROVE  map = Led(Mls(h, g))
    BY DEF DenseMapExact, Led
  <2>1. HasGroup(backend[h], g) /\ Mls(h, g).own = 0
    BY DEF Founded
  <2>2. /\ Runtime(h, g) \in RuntimeGroups /\ FounderTraces(Runtime(h, g), Mls(h, g))
        /\ Mls(h, g) # NoGroup
    BY <2>1, FounderFacts DEF HasGroup
  <2>3. map \in SUBSET (Indices \X Clients) /\ Traces(map, Led(Mls(h, g)))
    BY <2>1, <2>2 DEF FounderTraces, RuntimeGroups
  <2> QED BY <2>3, TracesDense
<1> QED BY <1>1, <1>2, StepTraces, PTL DEF KeepingSpec
=============================================================================
