# A TLA+ verification of chat_core

chat_core is the MLS (RFC 9420) client core of a messenger: a Rust service over the OpenMLS
library, exported through a C ABI and a Flutter bridge, with C++, Go and Dart clients on top and
a build hook that brings the native library along. This directory holds TLA+ modules that model
it, TLC configurations that check them, and theorems that TLAPS proves. `PROJECT.json` maps
every definition to the lines it models.

## 1. The system

| Component | Code | State | Operations |
|---|---|---|---|
| Service | `src/src/service.rs` | a runtime projection of each group (epoch, active, members, member map, pending flag, offset, queue), key package records, identity | create/restore/export client, key packages, create/invite/remove/self-update/merge/clear/drop group, join, encrypt, handle incoming |
| Backend | `src/src/backend.rs` | signer, credential, the OpenMLS groups in memory, the provider's storage | one method per service operation; dump and restore of storage |
| Storage dump | `src/src/backend.rs` | none: a byte string between an export and a restore | `encode_storage`, `decode_storage` |
| State types | `src/src/state.rs`, `types.rs` | `RuntimeState`, `GroupRuntimeState`, `KeyPackageRecord`, `PersistedClientState` | construction, conversion to and from the persisted form |
| C ABI handle | `src/src/ffi.rs` | a mutex around one service, a second around `last_error`, output buffers owned by the caller | one function per operation, `last_error`, `new`, `free`, `buffer_free` |
| Flutter bridge | `src/src/frb_api.rs` | a mutex around one service | the same operations; a panic becomes a status |
| SDK clients | rendered by `src/src/bin/sdk_codegen.rs` | C++, Go and Dart objects that own a handle | construction, move, close, finalizer, one method per operation |
| Dart facade | `flutter/.../messenger_mls.dart` | a process-wide initialisation future, a closed flag per client | `ensureInitialized`, `create`, `close`, the operations, synchronous and scheduled |
| Build hook | `flutter/.../hook/build.dart` | libraries in a shared output directory | choose, download, checksum, rename, cargo build, copy |
| SDK generator | `src/src/bin/sdk_codegen.rs` | none | text generation from `api/sdk_api.json` |
| OpenMLS | external | the MLS groups and the storage | as used by `backend.rs` |

Interactions. An application calls a client object; the object passes its handle to the native
surface; the surface locks the service; the service asks the backend first, in nearly every
operation, and then updates its own projection, mostly by `apply_snapshot`. What a call returns
(commits, welcomes, messages, key packages, the exported blob) the application transmits or
writes to disk: chat_core has no network and no disk of its own, so a delivery service and a
disk surround it in the models.

What is hard here:

- **Two layers, one truth.** The service keeps a second copy of what OpenMLS knows. Any call
  that changes one layer and fails before the other, or that forgets the snapshot, splits them.
- **Optimism.** `invite` and `remove` change the member list when the commit is created, not
  when it is merged; a competing commit, a cleared commit or a rejoin then leaves it behind.
- **Delivery.** Messages are lost, repeated and reordered; two members commit on one epoch.
- **Persistence.** The client is a blob exported from time to time. A crash loses what follows
  it, and what was already transmitted cannot be taken back. The blob may come back torn.
- **Re-use of a handle** by another identity, and failed restores over a live session.
- **Threads** on one handle: a call is many steps, `last_error` has a lock of its own, and on
  the bridge a panic poisons the mutex.
- **Owners.** A handle is freed by a destructor, a `close` or a collector, whichever language.
- **One output directory** for every configuration of the build, and builds that are cut off.

The hazards, each at its line and with the properties aimed at it, are listed in
`PROJECT.json`.

## 2. Modules

```
MlsGroup              one client's copy of a group, as OpenMLS keeps it (external)
  OpenMlsBackend      the backend: memory, storage, dump and restore
    RuntimeState      the service's projection and its persisted form
      MessengerMls    the service: one action per call; transport, disk, application
        MessengerProperties   what it should guarantee
            (INSTANCE CommitLifecycle: what the service promises about epochs)
          MCMessenger         instances for TLC
          MessengerTypes      proof of type correctness
            MessengerLayers   proofs: the two layers in step, sessions of one identity
              MessengerRosters    proofs: the records, and a founder's member map
              MessengerLineage    proofs: generations and own commits across crashes
              MessengerLifecycle  proof that the service implements CommitLifecycle

ServiceHandle         the C ABI handle and the bridge, step by step
    (INSTANCE AtomicHandle: a call takes effect at one instant, or is refused)
  SdkClients          the objects that own handles, in five languages
    MCSdkClients      instances for TLC
    SdkProofs         proofs: types, the text of errors, the refinement, and the
                      ownership of handles and buffers

StorageDump           the dump format, and a dump that comes back damaged
  MCStorageDump
  DumpFormat          proofs about what is read of a dump
NativeAssets          the build hook
  MCNativeAssets
  AssetFiles          proofs about what a build bundles
```

### The service (`MessengerMls` and the modules under it)

- **One action is one call.** Every entry point takes the handle's mutex and keeps it until it
  returns (`run_void`, `run_out`, `with_service`); that this makes calls atomic is what
  `ServiceHandle` shows. `state[h]` and `backend[h]` are the two fields of `MessengerMls` on
  handle `h`. Error returns that change nothing are stutters. Those that change something are
  actions: `CreateClientBadKey` (both layers are reset before the key is parsed),
  `MarkKeyPackagesUploaded` (marks the known packages and then reports the missing ones),
  `JoinRefused` (the key package is spent before the id is refused), `SelfUpdateUnknown` (the
  commit is staged for a group the runtime does not know), the second disjunct of
  `RecordIncoming` (the backend moved, the runtime has no record), and
  `RestoreBadKey`, `RestoreGroupsWithoutDump`, `RestoreDamagedDump`, `RestoreMissingGroup`
  (backend replaced, runtime kept; one for each place where `restore_client` gives up).
- **`MlsGroup`** abstracts OpenMLS. A commit is a number; the number of the last commit
  applied (`tip`) stands for the transcript, so two copies talk exactly when their tips agree.
  The ratchet tree is its occupied leaves; an added member takes the leftmost blank leaf. A
  commit is staged as `pending`, changes nothing until merged, is discarded by another
  member's commit, and blocks a second one. `gen` and `seen` are the sending generation and
  the consumed ones of the epoch.
- **`OpenMlsBackend`** keeps each group twice: in `groups` (memory) and `stored` (the
  provider's storage, which is what a dump contains). OpenMLS writes storage with every
  change. Two facts of OpenMLS no code here settles are left open and both checked:
  `ReplaceStored` (does building a group over a stored one of the same id succeed?) and
  `kept` (does receiving a message persist the receiving ratchet?).
- **`RuntimeState`** is the projection. `member_map` is a set of index and client pairs;
  `members` leaves out `is_self`, which marks the entry of the identity. Fields that follow
  the epoch (`serialized_state`, `ratchet_tree_cache`, `secret_material`) and fields no code
  sets (`staged_state`, `revoked`, `expired`) are left out.
- **`MessengerMls`** adds the surroundings. `net` is everything any call returned; a step
  receives any member of it, in any order, any number of times or never. `disk[h]` is the last
  exported blob. An application in `Persisting` exports before it transmits: what it has yet
  to transmit is in `unsaved[h]` and is lost with the session.
- **Inputs** are those of a caller that passes what the calls returned: an invitation names
  the owner of the key package it carries. A commit message carries its tree in the model
  where the code carries the proposals that lead to it.
- **`CommitLifecycle`** is what the root README's chapter on pending commits promises, without
  layers, rosters or trees. A held copy of a group moves in three ways only: to its own waiting
  commit (`Merge`), to a commit that *another* member made *on the epoch of the copy* (`Advance`),
  or to where an invitation to one of the handle's unused key packages says (`Join`, which may throw
  it back: nothing in the code guards against an old welcome). One commit waits at a time and a
  discarded one does not come back; each key package serves once; a restore brings back exactly
  the copies and key packages exported. `ImplementsLifecycle` maps `groups` to the copies, the
  private key packages to `keys`, what the blob on the disk would load to `saved`, and the commits
  and welcomes in `net` to `sent`.

### The native surfaces and the objects (`ServiceHandle`, `SdkClients`)

- **A call is its steps**: `called` (null checks, `read_input`, parsing), `locked`, `running`
  (the service is read, then written: `ran`), `reporting` (`set_last_error`, its own lock, taken
  and released in one step as the code does nothing else under it), `unlocking`, `returned`. On
  the C ABI the service's mutex is held while the error is reported; on the bridge the text goes
  back with the status. A panic poisons the bridge's mutex; on the C ABI it aborts the
  process and is no step. The entry points differ in how they read input and whether
  they write output (`ShapeOf`), and each is one of `Operations`.
- **`turn`** numbers the calls in the order they got the mutex, and stands for the text of a
  failure. `slot[a]` is `last_error`.
- **`AtomicHandle`** runs a call at one instant, or refuses it. `ran` is the witness: calls
  that overlapped inside the service would have read the same number.
- **`SdkClients`** puts an owner on each handle. `lang` is the language of the application.
  C++ may construct, move-construct, move-assign and destroy; Go closes; Dart closes or leaves
  the object to the collector; the facade's calls are synchronous or scheduled as microtasks in
  `queue`. `buffers` are outputs and error texts not yet given to `buffer_free`.
- **Assumed of callers**, as `messenger_mls_free` and the header ask: an object is not
  closed, moved or destroyed during a call on it (`Quiet`). Dart objects live in one isolate,
  so on one thread, and a scheduled call runs after the code that scheduled it. Freeing a handle
  twice is undefined: `Collect` does not go on past it, and `FinalizedOnce` asks about it.

### The dump format (`StorageDump`)

A cell stands for eight bytes. `Encodings` writes the entries in every order a hash map may
give; `Decoded` is the reader with its cursor, its saturating additions and its conversions
from 64-bit lengths to `usize` (`Widths`). Between export and restore the application's blob may be
cut, extended by a cell, or changed in one cell, once per export (a bound). No byte string is as
long as `usize::MAX` (`Fits`): Rust's allocations end at half of it, and a write past the memory
aborts the process rather than return. A damaged dump that
is still well-formed is accepted, as it carries no checksum; what is accepted then is
`FormatExact`, not what was exported.

### The build hook (`NativeAssets`)

One target, one shared output directory; each step of a build is an action and may be its last.
A file is the library it was written from and how many blocks of it are there. How long
libraries are is left open (`ReleaseLength`, `LocalLength`): two releases, two local builds, or a
release and a local build may have one length, which is all that `_copyIfNeeded` looks at besides
the times. The configuration, and the sources cargo compiles, change between builds. The hook
runner is assumed to run one build of a directory at a time, as it locks it.

## 3. Runs

The runs of `MCMessenger` use specifications that restrict `Next` to the calls a question is
about. Most start from `ReadyInit`, where every client exists and has made, exported and
published its key packages: the state those calls lead to, started from so that the bound on
commits is spent on groups. `reinit` starts from `Init`.

| Run | Question | Instance |
|---|---|---|
| `protocol` | is the projection sound under loss, repetition, reordering, competing commits and recovery calls? | 2 clients, 1 group id, 2 key packages each, 5 commits or messages |
| `crash` | do crashes between any two calls strand a committer, reuse a generation, or lose part of the client; is every call a step of the lifecycle? | 2 persisting clients, 4 commits or messages, crash and restore at any point, `ReplaceStored = FALSE` |
| `reinit` | does anything of one identity survive into the next? | 2 accounts on one handle, every call, from `Init` |
| `degraded` | what still holds after a failed restore, and what repairs it? | handle 2 starts with the layers split; 2 group ids |
| `admin` | with one committer, is its member map exact, and do the members reach its epoch when messages arrive in the end? | 3 clients, 2 key packages each, 7 commits and creations, leaves 0 to 4 |
| `clients` | do threads, languages, closes and panics leave a handle with one owner, a buffer freed, an error text its own, a call atomic, and every call finished? | 2 threads, 2 objects, 2 handles, 3 calls, both surfaces, 5 languages |
| `dump` | is the dump read back as written, and a torn one refused? | 2 keys, 3 values, one damage per export, `usize` 32 and 64 |
| `assets` | is what a build bundles what it is configured to bundle, and does it recover? | 2 tags, one published, 3 versions of cargo's output, 2 faults; two of the versions have one length, and so have the third and the release |

Why the bounds are enough for the interesting cases:

- *Service.* Two members suffice for competing commits, eviction, rejoin (two key packages each)
  and a stale map; five commits cover create, invite, merge, a competing pair and a rejoin; the
  queue bound is passed within `MaxOffset` in `protocol`, which asks about the queue (no
  other run does). In `admin` three clients let a removal
  leave a hole below the last leaf and a later invitation fill it, and a removed member be
  invited again. `MaxFresh`, `MaxGen`, `MaxOffset`, `MaxLeaf` and `MaxIndex` bound the model
  only; `MaxQueue` is the code's `MAX_INCOMING_QUEUE`.
- *Clients.* Two threads and three calls give a failure of one call, another call between it
  and the question for its text, and a call after a panic; two objects give every move. The
  entry points are one with a JSON input and no output, and one with no input and a byte output:
  the others read or write in one of these ways. `Addresses` are not used twice.
- *Dump.* The empty key and value are among the few; `Cells` holds lengths in range,
  at `usize::MAX` and past it, so that the additions saturate and the conversion truncates.
- *Assets.* Two faults let a build be cut off while another's leftovers are there; two tags
  let a checksum be another release's. With two versions of one length a stale local build can
  pass for the present one, were it not for the times; with a release as long as the third, the
  release does. `MaxFaults` and `MaxBuilt` bound the model only.

Each property is shown able to fail by a mutant of the code (operators whose comment begins
with "Mutant of"). Runs of `MCMessenger` and `MCSdkClients` say `CHECK_DEADLOCK FALSE`: the
system is driven by its callers and stops when the numbered commits, messages or calls are used
up. That threads do not stop on locks is `CallsComplete`. The dump and the build hook
never stop, and their runs check deadlock.

The type invariant of the service is checked on `crash`; it holds of every run, by the theorem
below.

### What the runs refute

Four statements of the repository fail. Each has a property and a run whose counterexample is a
short sequence of ordinary calls; those of the service have `ReplaceStored = FALSE`, so that none
depends on reusing a group id.

| Run | Documented | What happens |
|---|---|---|
| `stale_epoch` | `GroupState.epoch` is the current epoch (types.rs:97) | `handle_incoming` merges another's commit and applies no snapshot; an evicted member still reports itself active, too |
| `remove_target` | `removed_client` is the member removed (types.rs:201) | a joiner's `member_map` holds only itself, at leaf 0: a joiner that removes itself evicts the member at leaf 0 |
| `failed_restore` | restore after export restores the client (README.md:166) | after a failed restore the session exports a blob that cannot be restored |
| `closed_finalizer` | a freed handle is not used again (ffi.rs:242) | the rendered Dart client attaches its finalizer without a detach key, so after `close()` the collector frees the handle a second time |

Seen while modelling, and not given a run:

- `pending_commit` of a group (state.rs:76) stays set when another member's commit discarded the
  own one; and the roster changed by `invite` or `remove` stays changed after
  `clear_pending_commit` (service.rs:524).
- `join_from_welcome` takes any welcome the client has a key for: an old one that arrives after
  a newer one throws the member back to a copy the group has left (assumed away in `admin`).
- Nothing sets `KeyPackageRecord.consumed` (state.rs:55), so the exported inventory offers
  packages whose private half a join has spent.
- The build hook runs cargo even when the release has the asset (build.dart:34): on a
  desktop a checkout needs a Rust toolchain, although the package's README says libraries are taken
  from releases by default.
- `_copyIfNeeded` keeps a file of the length of cargo's output that is newer (build.dart:432), and
  that file may be a release: downloaded after cargo wrote its output, while `prefer_local_build`
  was not set, it is bundled once it is set, although the package's README says that local
  builds can be forced. `LocalCurrent` says that this is the only exception; stated without it, as
  `bundled.via = "local" => bundled.file = Whole(Local(bundled.built))`, TLC refutes it in the
  instance of `assets`.
- The output file is named after the tag alone (build.dart:402): without a checksum a release
  build bundles an earlier local build of that tag, and builds from forks share it. `ReleaseWhole`
  says only that a *release* is bundled whole; `ChecksumHolds` needs the checksum.
- When a C caller passes no place for the output the call is refused before the lock, and the
  text of the handle may be an older call's; `TextNotOlder` is about calls that got the lock.

### Fairness and liveness

The service has no scheduler; a call happens when the application makes it. Three runs check
liveness, each under fairness that belongs to somebody:

- `admin`, `Converges`: weak fairness of the administrator's `MergePendingCommit` (the
  application merges what it committed, as the root README asks) and of each member's `Joins` and
  `Follows` (the transport delivers in the end, in any order, with repetition). Assumed further:
  each key package is handed out once, the founder alone commits and clears nothing, and a welcome older than
  the copy it would replace is not delivered. Without the last, welcomes out of order strand a
  member that was removed and invited again.
- `clients`, `CallsComplete`: weak fairness of each thread inside a call (`Proceed`) and
  of the isolate's microtasks. Nothing is assumed of a mutex: the calls are bounded, so each
  waiting thread's lock is in the end free and stays so.
- `assets`, `Recovers`: weak fairness of `Build`. Faults are bounded, so what is shown is
  convergence once faults stop; a configuration may still change at any time unless it settles.

## 4. Proofs

The theorems hold for every value of the constants that satisfies the named `ASSUME`s: the
clients, handles, threads, objects and groups are any sets (group ids any numbers), the bounds
any numbers.

**`MessengerTypes!TypeCorrect`: `Spec => []TypeOK`**, failing calls included. `TypeOK` is not
inductive: a call that changes a group in memory changes its stored copy as well, and an
`EXCEPT` on a copy that is not there leaves the type. `SoundBackends` adds that a group in
memory has a stored copy. A dropped group keeps its copy, and a restore loads memory from
storage, so every action preserves it.

**`MessengerLayers`: `CleanSpec => []LayersAgree`, `[]PendingFlagged`, `[]NeverAhead`,
`[]ExportRestorable`, `[]OwnedByIdentity`**, where `CleanSpec` has every call but the failing
restores and `SelfUpdateUnknown` (with a failed restore `LayersAgree` and `ExportRestorable` are
false: run `failed_restore`). A restore replaces both layers by what the disk
holds, so the invariant must say that whatever is on the disk loads into layers in step; that
is true because at the export the stored copy of each group mirrored the one in memory except
for its consumed generations. `InStep` says of one pair of layers that the groups are the
same, that stored copies mirror, that a pending commit is flagged and that the projection is
not ahead; `LayersInv` says it of the live pair of each handle and of the pair its blob loads
into. One lemma per action shows it preserved; `ExportedInStep` is the heart, and gives
`ExportRestorable` almost at once. `OwnedInv` adds whose the records, private keys and groups are, again
of both pairs. It rests on `LayersInv`: a group is created with the backend's signer, and joined with
a private key of the backend, while `OwnedByIdentity` speaks of the service's identity.

**`MessengerLayers`: `Spec => Resynchronises`**, failing calls included. It needs types alone: a re-init
sets both layers, and a restore that succeeds sets them from a blob that lists exactly the groups it
loads, whatever they were before.

**`MessengerRosters`: `Spec => []RosterConsistent`, `[]QueueTracksOffset`, `OffsetMonotone`**, failing
calls included. `RosterGrows` shows that an index past the largest, for a client not in the list,
keeps the map injective; `QueueGrows` that one push and at most one pop keep the length at the
smaller of offset and bound. The invariant speaks of live records and of those on disk. For
the offset one lemma per action says what it leaves of it (`OffsetStep`); a rejoin is the case that could
go wrong, as it replaces the record.

**`MessengerRosters`: `KeepingSpec /\ []FoundersCommit => []DenseMapExact`.** `KeepingSpec` is
`CleanSpec` without `clear_pending_commit`, which leaves the roster of the cleared commit behind;
`FoundersCommit` says that every commit in transit came from leaf 0, as in `admin`. The two are what
`admin` has of its scheduling. `DenseMapExact` is not inductive:
the map may have a hole, of which it says nothing, and a later removal of everything above the
hole makes the map dense again. `Traces` therefore speaks of the part of the map below its
first hole, which is in the tree, and says that map and tree have equally many entries.
`TracesGrow` is the step that matters: an invitation takes the index past the largest and the leftmost
free leaf, and these are the same number exactly when there is no hole. `TracesDense` gives the
property by counting. A founder never leaves leaf 0 and nobody joins there (`WelcomesInv`).

**`MessengerLineage`: `CleanSpec => []GenerationsUnique` when `Persisting = Handles`, and
`KeepingSpec => []NotStranded`.** Both compare a member's copy with messages it sent, perhaps in
a session that crashed. The leaf in a message does not say who sent it, as a blanked leaf is
given to the next who joins, who starts with fresh generations; so the
invariant `LineageInv` speaks of seats. It says that there is a past `P`: for each commit number its
group, and for each leaf the seat taken there, which is the key package that was spent to
take it (a founder's seat is a name not used for a key package). A key package is spent once, and
each seat has a home, the one handle that holds or held its private half. A *view* of a handle is its live
session with all messages in `net`, or the session its blob would load with the messages in
`net` but those in `unsaved[h]`, which were never transmitted. In each view a copy `Covers` the
messages from its own seat: none is from a later epoch, those of its own epoch have
generations below its own, and a commit from its own epoch waits in it. A private half not spent
yet has no message from its seat (`KeyWaits`), which is what a joiner needs. An
export turns the first view into the second, a crash or restore the second into the first, and that
is why the application must export before it transmits. `GenerationsUnique` follows for each new message,
rather than from the invariant alone: two old messages were unique already. `LineageInv` has a parameter,
`keep`, for the part about waiting commits: it is false once commits are cleared, and
`GenerationsUnique` does not need it. Without `Persisting = Handles` a client that does not
export would repeat its generations after a restore, so the hypothesis is needed; in
`NotStranded` only persisting clients are spoken of.

**`MessengerLifecycle`: `CleanSpec => ImplementsLifecycle`.** One lemma per action says which
action of `CommitLifecycle` it is, or that nothing of it shows. Most follows from the call itself: the
guards of `merge_pending_commit` and `handle_incoming` are those of `Merge` and `Advance`. Two things
do not. `KeysInv` is needed where a key package is spent: private key packages kept in one place,
in the backend or on the disk, have different numbers, so that spending one takes exactly its
number out of what the handle can still be invited by. `LayersInv` is needed at the export: the
groups the blob lists are the ones in memory, and their stored copies are at the same commits
(`ExportSeen`). A restore is then by definition the saved copies. With failing restores the
refinement would need an abstract action for each, so it is stated for `CleanSpec`, as the run
checks it.

**`SdkProofs`: `Spec => []TypeOK`, `[]TextNotOlder`, `ImplementsAtomic`.** `CallInv` has five
parts: `HoldInv`, a thread between lock and unlock is the one holder, has the last turn given, and
the service is as it found it; `StageInv`, what a frame has at each stage; `TurnsInv`, no two
calls of a handle share a turn; `SlotInv`, `last_error` is the call's own text while it unlocks,
and after that its own, a later call's, or none; `ShownInv`, the same of the text it was shown.
For the refinement, a running call read `ran` and, being the only one, still reads the same when
it writes it; the abstract call takes effect there. Each action is then a step of `AtomicHandle`
or a stutter. Liveness of the abstract handle is not stated: `AtomicHandle!Spec` has none.

**`SdkProofs`: `Spec => []HandleOwnedOnce`, `[]BuffersOwned`.** `OwnerInv` says that live handles
and the objects holding them correspond one to one (`Held`), that a call's object still holds the
call's handle (`Called`), and which handles finalizers have (`Finalized`); `BufferInv` at which
stages of a call memory of the library is allocated. Cardinality comes in only at the end.

**`AssetFiles`: `Spec => []ChecksumHolds`, `[]ReleaseWhole`, `[]LocalCurrent`.** `FilesInv` says what
is in the output directory between builds: a release whole under its tag or not at all
(`ReleaseInv`); a file of cargo's length and newer than its output is a copy of it, or a release of that length
(`CopyInv`); which branch a step belongs to (`PathInv`); and what a finished build found (`DoneInv`).
The lengths are any numbers but zero: a local build that finds an earlier version or half a copy
never keeps it, and what it may keep wrongly is one thing only, the tag's own release.

**`DumpFormat`: `Spec => []RoundTrip`, `[]TornRefused`, `[]FormatExact`**, for any
keys and values that are sequences of numbers, any numbers in damaged cells and any width in
which the dump of an empty storage fits. Writing and reading are both recursions over the entries, and tlapm
cannot use an induction theorem, whose hypothesis is an operator. The set of the numbers of
entries of which a claim holds is no operator, though: such a set has every number if no number
outside it can be the least (`NumbersFrom`). `FlattenWrites` and `WrittenStays` say so of the
encoding, that entry `i` lies in it where the `i - 1` before it end; `EntriesRead` and
`ReadEntryExact` of the reader, that each entry is read from where the last one ended, and that in
a dump shorter than `usize::MAX` no sum saturates to a cursor that passes for a place in
it. `WholeDecoded` brings both together: of a dump that agrees with an encoding as far as both go, the
whole storage is read if they are equally long, and it is refused if not: a shorter one ends
within an entry, and a longer one after the last. The invariant `DumpInv` is the rest: an intact dump
encodes what was saved, a torn one agrees with an encoding of another length, and all of `storage`,
`saved` and `dump` are such that the lemmas apply, which a restore of a damaged dump
preserves because whatever the reader accepts is a map (`DecodedMap`). For `FormatExact`, the
cursors of an accepted dump are the cuts the format asks for (`ReadIsFormat`), and the cuts of a
well-formed one are met one after the other (`FormatIsRead`). `FormatExact` is about what is read: the
allocation of `count` entries before the first is read, which may panic, is not in the model.

Model-checked only: the liveness properties `Converges`, `CallsComplete` and `Recovers`. Liveness under
fairness and `ENABLED` are out of the prover's reach. Every invariant and every action property of a
passing run, and both refinements, are proved.

## 5. Not modelled

Cryptography and credentials (a message that decrypts is one of the receiver's epoch);
validation of empty or malformed arguments, beyond that it refuses; reads, except through the
properties; JSON and TLS encodings; proposals by reference and external commits, which no call
makes. Of the dump, the allocation sized by the count it begins with (`HashMap::with_capacity`).
Of the bridge and the facade, `ensureInitialized`, whose cached future keeps a failure for good, and the stub for
other platforms. Of the build hook, the table of asset names, the
static-linking switch and the hook runner's own lock. The SDK generator's work is reading,
checking and writing text; only what the rendered clients do is modelled. The code generated by
flutter_rust_bridge only marshals. Tests and CI were read, not modelled.

## 6. Plan

1. *Done*: the service and its backend with loss, reordering, crashes, failing calls and
   re-use; the native surfaces and their clients; the dump format; the build hook; two abstract
   specifications and their refinements; liveness under stated fairness; the proofs above.
2. *Left, proofs*: the safety facts that the liveness arguments rest on: in `clients`, that
   a thread inside a call can proceed or waits for one that can; in `admin`, that a member behind
   the administrator has its next commit or welcome in `net`.
3. *Left, models*: the composition of `MessengerMls` with `SdkClients`, in which the application
   itself is one of several threads that export and transmit; today the atomicity of calls is
   the interface between them, proved on one side and assumed on the other.
