------------------------------- MODULE MlsGroup -------------------------------
(***************************************************************************)
(* One client's copy of an MLS group, as src/src/backend.rs uses the type  *)
(* `MlsGroup` of the external OpenMLS library.  Everything here is         *)
(* external: it says what the calls of backend.rs return and change.       *)
(*                                                                         *)
(* Abstractions.  A commit is a number, unique in a behaviour; the number  *)
(* of the last commit applied (`tip`) stands for the group's transcript,   *)
(* hence for its epoch secrets: two copies with the same tip can talk.     *)
(* The ratchet tree is the set of its occupied leaves.  Key material,      *)
(* proposals by reference and external commits do not appear: no call of   *)
(* backend.rs makes one.                                                   *)
(***************************************************************************)
EXTENDS Naturals, FiniteSets

CONSTANTS
    Clients,    \* the logical clients (user and device)
    MaxLeaf,    \* bound: the last leaf of a ratchet tree
    NoCommit    \* stands for the absence of a pending commit

ASSUME MaxLeafAssumption == MaxLeaf \in Nat

Leaves == 0 .. MaxLeaf
Trees == SUBSET (Leaves \X Clients)
Commits == [id: Nat, tree: Trees]

ASSUME NoCommitAssumption == NoCommit \notin Commits

\* pending: the own commit not merged yet; gen: the next generation of the own
\* sending ratchet; seen: the sender generations of this epoch already consumed.
MlsGroups ==
    [tip: Nat, epoch: Nat, tree: Trees, own: Leaves, me: Clients, active: BOOLEAN,
     pending: Commits \cup {NoCommit}, gen: Nat, seen: SUBSET (Leaves \X Nat)]

Occupants(tree) == {entry[2] : entry \in tree}

IsFree(tree, leaf) == \A client \in Clients : <<leaf, client>> \notin tree

\* An added member takes the leftmost blank leaf, not the leaf after the last.
LeftmostFree(tree, leaf) ==
    IsFree(tree, leaf) /\ \A left \in Leaves : left < leaf => ~ IsFree(tree, left)

\* A member's copy at the start of an epoch.
MemberAt(client, leaf, id, epoch, tree) ==
    [tip |-> id, epoch |-> epoch, tree |-> tree, own |-> leaf, me |-> client,
     active |-> TRUE, pending |-> NoCommit, gen |-> 0, seen |-> {}]

\* Mutant of NewGroup: the leaf and its occupant swapped.
NewGroupSwapped(client, id) == MemberAt(client, 0, id, 0, {<<client, 0>>})

NewGroup(client, id) == MemberAt(client, 0, id, 0, {<<0, client>>})

\* A commit can be created only in the Operational state.
Operational(group) == group.active /\ group.pending = NoCommit

\* Two members of a tree never share a signature key.
CanAdd(group, client) == Operational(group) /\ client \notin Occupants(group.tree)

\* A member cannot commit its own removal, nor remove a blank leaf.
CanRemove(group, leaf) ==
    Operational(group) /\ leaf # group.own /\ ~ IsFree(group.tree, leaf)

WithLeaf(tree, leaf, client) == tree \cup {<<leaf, client>>}
WithoutLeaf(tree, leaf) == {entry \in tree : entry[1] # leaf}

\* The epoch is left alone until the commit is merged.
Staged(group, id, tree) == [group EXCEPT !.pending = [id |-> id, tree |-> tree]]

\* Only an active member gets here.
AtNextEpoch(group, id, tree) == MemberAt(group.me, group.own, id, group.epoch + 1, tree)

\* merge_pending_commit succeeds and changes nothing when nothing is pending.
MergedOwn(group) ==
    IF group.pending = NoCommit THEN group
    ELSE AtNextEpoch(group, group.pending.id, group.pending.tree)

\* merge_staged_commit discards an own pending commit, and evicts a member whose
\* leaf the commit removes.
MergedIncoming(group, id, tree) ==
    [AtNextEpoch(group, id, tree) EXCEPT !.active = <<group.own, group.me>> \in tree]

\* clear_pending_commit succeeds and changes nothing when nothing is pending.
Cleared(group) == [group EXCEPT !.pending = NoCommit]

Sent(group) == [group EXCEPT !.gen = @ + 1]
Consumed(group, leaf, gen) == [group EXCEPT !.seen = @ \cup {<<leaf, gen>>}]
=============================================================================
