---------------------------- MODULE OpenMlsBackend ----------------------------
(***************************************************************************)
(* OpenMlsBackend of src/src/backend.rs: the signer and credential, the    *)
(* groups held in memory and the provider's storage, which is what         *)
(* export_backend_snapshot dumps.  Each operator is the backend a call     *)
(* leaves behind, or the condition under which the call succeeds.          *)
(*                                                                         *)
(* Storage is two parts: the private halves of key packages and the        *)
(* persisted copy of each group.  OpenMLS writes the persisted copy on     *)
(* every change it makes to a group; whether it also writes the consumed   *)
(* receiving generations is left open (`kept` below).                      *)
(***************************************************************************)
EXTENDS MlsGroup

CONSTANTS
    Groups,         \* group ids; numbers, because restore loads in id order
    NoClient,       \* no identity, no signer
    NoGroup,        \* no group under an id
    ReplaceStored   \* may a group be built over a stored one of the same id?

ASSUME GroupsAssumption == Groups \subseteq Nat
ASSUME NoClientAssumption == NoClient \notin Clients
ASSUME NoGroupAssumption == NoGroup \notin MlsGroups
ASSUME ReplaceStoredAssumption == ReplaceStored \in BOOLEAN

KeyPackages == [id: Nat, owner: Clients]
MaybeMlsGroups == MlsGroups \cup {NoGroup}

Backends ==
    [signer: Clients \cup {NoClient},
     groups: [Groups -> MaybeMlsGroups],        \* self.groups
     keys: SUBSET KeyPackages,                  \* storage: private key packages
     stored: [Groups -> MaybeMlsGroups]]        \* storage: persisted groups

NoGroups == [g \in Groups |-> NoGroup]

\* reset(): a fresh provider, hence empty storage.
ResetBackend == [signer |-> NoClient, groups |-> NoGroups, keys |-> {}, stored |-> NoGroups]

\* configure_client() resets again, then installs the signer and credential; it is
\* not called for a persisted state without an identity.
ConfiguredBackend(client) == [ResetBackend EXCEPT !.signer = client]

HasGroup(b, g) == b.groups[g] # NoGroup

\* OpenMLS may refuse to build a group whose id is still in storage.
CanBuild(b, g) == ReplaceStored \/ b.stored[g] = NoGroup

\* A whole group written to memory and to storage.
Written(b, g, group) == [b EXCEPT !.groups[g] = group, !.stored[g] = group]

\* Mutant of WithStaged: the staged commit is not persisted.
WithStagedInMemory(b, g, id, tree) == [b EXCEPT !.groups[g] = Staged(@, id, tree)]

\* Changes of the commit state alone: the persisted receiving ratchet stays as it is.
WithStaged(b, g, id, tree) ==
    [b EXCEPT !.groups[g] = Staged(@, id, tree), !.stored[g] = Staged(@, id, tree)]
WithMerged(b, g) == [b EXCEPT !.groups[g] = MergedOwn(@), !.stored[g] = MergedOwn(@)]
WithCleared(b, g) == [b EXCEPT !.groups[g] = Cleared(@), !.stored[g] = Cleared(@)]

WithKeys(b, packages) == [b EXCEPT !.keys = @ \cup packages]
WithoutKey(b, package) == [b EXCEPT !.keys = @ \ {package}]

\* An incoming application message; kept: was the receiving ratchet persisted?
WithConsumed(b, g, leaf, gen, kept) ==
    IF kept THEN Written(b, g, Consumed(b.groups[g], leaf, gen))
    ELSE [b EXCEPT !.groups[g] = Consumed(@, leaf, gen)]

\* drop_group() forgets the memory copy only: storage keeps the group.
Dropped(b, g) == [b EXCEPT !.groups[g] = NoGroup]

(***************************************************************************)
(* export_backend_snapshot() and restore_backend_snapshot().  The dump is  *)
(* the whole storage; restoring loads the listed groups in id order and    *)
(* stops at the first that is not there, keeping those before it.          *)
(***************************************************************************)
Dumps == [keys: SUBSET KeyPackages, stored: [Groups -> MaybeMlsGroups]]

Dump(b) == [keys |-> b.keys, stored |-> b.stored]

CanLoad(dump, ids) == \A g \in ids : dump.stored[g] # NoGroup

LoadedPrefix(dump, ids) ==
    {g \in ids : \A below \in ids : below <= g => dump.stored[below] # NoGroup}

\* Mutants of Loaded: pending commits are dropped; the sending ratchet starts anew.
LoadedCleared(client, dump, ids) ==
    [signer |-> client,
     groups |-> [g \in Groups |-> IF g \in ids THEN Cleared(dump.stored[g]) ELSE NoGroup],
     keys |-> dump.keys,
     stored |-> dump.stored]
LoadedRatchetReset(client, dump, ids) ==
    [signer |-> client,
     groups |-> [g \in Groups |-> IF g \in ids THEN [dump.stored[g] EXCEPT !.gen = 0] ELSE NoGroup],
     keys |-> dump.keys,
     stored |-> dump.stored]

Loaded(client, dump, ids) ==
    [signer |-> client,
     groups |-> [g \in Groups |-> IF g \in ids THEN dump.stored[g] ELSE NoGroup],
     keys |-> dump.keys,
     stored |-> dump.stored]
=============================================================================
