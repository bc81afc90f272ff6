---------------------------- MODULE MessengerLineage ----------------------------
(***************************************************************************)
(* What a persisting application can count on after a crash, for every     *)
(* value of the constants: no generation of a sending ratchet is used      *)
(* twice, and no member is stranded at the epoch its own commit left.      *)
(*                                                                         *)
(* Both properties compare a member's copy of a group with the messages    *)
(* that member sent, possibly in an earlier session.  The invariant needs  *)
(* to know which messages those are: a leaf is not enough, for a leaf that *)
(* is blanked is given to the next who joins.  So it says there is a past: *)
(* for each commit number, the group it belongs to and who is seated at    *)
(* each leaf after it.  A seat is the key package spent to take it, or,    *)
(* for the founder of a group, one of its own; every seat has a home, the  *)
(* handle that holds or held its private half.  A view (the session of a   *)
(* handle, or the one its blob loads) covers the messages of its seats     *)
(* that were not lost with a session: all of them for the live session,    *)
(* those already transmitted for the blob.                                 *)
(***************************************************************************)
EXTENDS MessengerLayers

Vacant == [id |-> 0, owner |-> NoClient]
Rows == [Leaves -> KeyPackages \cup {Vacant}]
Pasts == [Nat -> [group: Nat, seat: Rows]]
Homes == [KeyPackages -> Handles \cup {NoClient}]

TreeOf(row) == {entry \in Leaves \X Clients : row[entry[1]].owner = entry[2]}

\* A commit adds and removes; it does not give a leaf that is taken to another.
Keeps(one, other) ==
    \A leaf \in Leaves : one[leaf] # Vacant /\ other[leaf] # Vacant => other[leaf] = one[leaf]

\* Commit `id` of group g was made at commit `on`, and led to `tree`.
Leads(P, n, g, on, id, tree) ==
    /\ on < id /\ id < n
    /\ P[on].group = g /\ P[id].group = g
    /\ tree = TreeOf(P[id].seat)
    /\ Keeps(P[on].seat, P[id].seat)

Sends(m) == m.kind = "commit" \/ m.kind = "application"

\* The seat a message was sent from, and the seat of a member's copy.
SeatOf(P, m) == P[m.on].seat[m.leaf]
OwnSeat(P, group) == P[group.tip].seat[group.own]

\* The member at the copy's leaf is still the same after commit `id`.
Stays(P, group, id) == P[id].seat[group.own] = OwnSeat(P, group)

MessageSits(P, n, m) ==
    /\ m.kind = "commit" =>
         Leads(P, n, m.group, m.on, m.id, m.tree) /\ SeatOf(P, m) # Vacant
    /\ m.kind = "application" =>
         m.on < n /\ m.id < n /\ P[m.on].group = m.group /\ SeatOf(P, m) # Vacant
    /\ m.kind = "welcome" =>
         /\ m.id < n
         /\ P[m.id].group = m.group /\ P[m.id].seat[m.leaf] = m.key
         /\ m.tree = TreeOf(P[m.id].seat)
    /\ m.kind = "keypackage" => m.key.id < n

GroupSits(P, home, n, h, g, group) ==
    group # NoGroup =>
        /\ group.tip < n
        /\ ~ group.active => OwnSeat(P, group) = Vacant
        /\ group.active =>
             /\ P[group.tip].group = g /\ group.tree = TreeOf(P[group.tip].seat)
             /\ OwnSeat(P, group) # Vacant
             /\ OwnSeat(P, group).owner = group.me /\ home[OwnSeat(P, group)] = h
             /\ group.pending # NoCommit =>
                  /\ Leads(P, n, g, group.tip, group.pending.id, group.pending.tree)
                  /\ Stays(P, group, group.pending.id)

\* keep: commits are never cleared, and a commit sent from the copy's epoch waits in it.
Covers(P, keep, g, group, m) ==
    /\ group # NoGroup /\ group.active
    /\ Sends(m) /\ m.group = g /\ SeatOf(P, m) = OwnSeat(P, group)
    =>
    /\ m.on <= group.tip
    /\ m.on = group.tip /\ m.leaf = group.own =>
         /\ m.kind = "application" => m.gen < group.gen
         /\ keep /\ m.kind = "commit" => group.pending = [id |-> m.id, tree |-> m.tree]

\* A private half not spent yet: nobody sits there, and nothing was sent from there.
KeyWaits(P, home, n, h, groups, sent, key) ==
    /\ key.id < n /\ home[key] = h
    /\ \A g \in Groups : groups[g] # NoGroup /\ groups[g].active => OwnSeat(P, groups[g]) # key
    /\ h \in Persisting => \A m \in sent : Sends(m) => SeatOf(P, m) # key

\* A copy of group g on handle h, among the messages sent.
Settled(P, home, n, keep, h, g, group, sent) ==
    /\ GroupSits(P, home, n, h, g, group)
    /\ h \in Persisting => \A m \in sent : Covers(P, keep, g, group, m)

View(P, home, n, keep, h, b, sent) ==
    /\ \A key \in b.keys : KeyWaits(P, home, n, h, b.groups, sent, key)
    /\ \A g \in Groups : Settled(P, home, n, keep, h, g, b.groups[g], sent)

Bounded(P, n) == \A i \in Nat, leaf \in Leaves : i < n => P[i].seat[leaf].id < n

Descends(P, home, n, keep) ==
    /\ Bounded(P, n)
    /\ \A m \in net : MessageSits(P, n, m)
    /\ \A h \in Handles : View(P, home, n, keep, h, backend[h], net)
    /\ \A h \in Handles : disk[h] # NoSnap =>
         View(P, home, n, keep, h, BlobLoaded(h), net \ unsaved[h])

LineageInv(keep) == \E P \in Pasts, home \in Homes : Descends(P, home, fresh, keep)
-----------------------------------------------------------------------------
(* The past grows. *)

LEMMA VacantFacts ==
    /\ Vacant \notin KeyPackages
    /\ \A P \in Pasts, i \in Nat, leaf \in Leaves :
         P[i].group \in Nat /\ P[i].seat \in Rows /\ P[i].seat[leaf] \in KeyPackages \cup {Vacant}
<1>1. Vacant \notin KeyPackages
  BY NoClientAssumption DEF Vacant, KeyPackages
<1>2. ASSUME NEW P \in Pasts, NEW i \in Nat, NEW leaf \in Leaves
      PROVE  P[i].group \in Nat /\ P[i].seat \in Rows /\ P[i].seat[leaf] \in KeyPackages \cup {Vacant}
  <2>1. P[i] \in [group: Nat, seat: Rows]
    BY DEF Pasts
  <2>2. P[i].seat \in Rows /\ P[i].group \in Nat
    BY <2>1
  <2> QED BY <2>2 DEF Rows
<1> QED BY <1>1, <1>2

\* What each kind of message has.
LEMMA MessageTypes ==
    ASSUME NEW m \in Messages
    PROVE  /\ m.kind \in {"commit", "welcome", "application", "keypackage"}
           /\ m.kind = "commit" => m \in CommitMsgs
           /\ m.kind = "welcome" => m \in WelcomeMsgs
           /\ m.kind = "application" => m \in ApplicationMsgs
           /\ m.kind = "keypackage" => m \in KeyPackageMsgs
           /\ Sends(m) => m.group \in Groups /\ m.on \in Nat /\ m.id \in Nat /\ m.leaf \in Leaves
BY DEF Messages, CommitMsgs, WelcomeMsgs, ApplicationMsgs, KeyPackageMsgs, Sends

\* The past Q with its homes agrees with P on the numbers below n, and tells those below k.
Grown(P, home, n, Q, house, k) ==
    /\ n <= k
    /\ \A i \in Nat : i < n => Q[i] = P[i]
    /\ \A seat \in KeyPackages : seat.id < n => house[seat] = home[seat]
    /\ Bounded(P, n) /\ Bounded(Q, k)

LEMMA MessageGrows ==
    ASSUME NEW P \in Pasts, NEW home \in Homes, NEW n \in Nat,
           NEW Q \in Pasts, NEW house \in Homes, NEW k \in Nat, Grown(P, home, n, Q, house, k),
           NEW m \in Messages, MessageSits(P, n, m)
    PROVE  MessageSits(Q, k, m) /\ (Sends(m) => SeatOf(Q, m) = SeatOf(P, m))
<1>1. \A i \in Nat : i < n => Q[i] = P[i] /\ i < k
  BY DEF Grown
<1>2. CASE m.kind = "commit"
  <2>1. m.on \in Nat /\ m.id \in Nat
    BY <1>2, MessageTypes DEF CommitMsgs
  <2>2. Leads(P, n, m.group, m.on, m.id, m.tree) /\ SeatOf(P, m) # Vacant
    BY <1>2 DEF MessageSits
  <2>3. m.on < n /\ m.id < n
    BY <2>1, <2>2 DEF Leads
  <2>4. Q[m.on] = P[m.on] /\ Q[m.id] = P[m.id] /\ m.id < k
    BY <1>1, <2>1, <2>3
  <2>5. Leads(Q, k, m.group, m.on, m.id, m.tree) /\ SeatOf(Q, m) = SeatOf(P, m)
    BY <2>2, <2>4 DEF Leads, SeatOf
  <2> QED BY <1>2, <2>2, <2>5 DEF MessageSits
<1>3. CASE m.kind = "application"
  <2>1. m.on \in Nat /\ m.id \in Nat
    BY <1>3, MessageTypes DEF ApplicationMsgs
  <2>2. m.on < n /\ m.id < n /\ P[m.on].group = m.group /\ SeatOf(P, m) # Vacant
    BY <1>3 DEF MessageSits
  <2>3. Q[m.on] = P[m.on] /\ m.on < k /\ m.id < k
    BY <1>1, <2>1, <2>2
  <2>4. SeatOf(Q, m) = SeatOf(P, m)
    BY <2>3 DEF SeatOf
  <2> QED BY <1>3, <2>2, <2>3, <2>4 DEF MessageSits
<1>4. CASE m.kind = "welcome"
  <2>1. m.id \in Nat
    BY <1>4, MessageTypes DEF WelcomeMsgs
  <2>2. Q[m.id] = P[m.id] /\ m.id < k
    BY <1>1, <1>4, <2>1 DEF MessageSits
  <2> QED BY <1>4, <2>2 DEF MessageSits, Sends
<1>5. CASE m.kind = "keypackage"
  <2>1. m.key.id \in Nat
    BY <1>5, MessageTypes DEF KeyPackageMsgs, KeyPackages
  <2> QED BY <1>1, <1>5, <2>1 DEF MessageSits, Sends
<1> QED BY <1>2, <1>3, <1>4, <1>5, MessageTypes

LEMMA SettledGrows ==
    ASSUME NEW P \in Pasts, NEW home \in Homes, NEW n \in Nat,
           NEW Q \in Pasts, NEW house \in Homes, NEW k \in Nat, Grown(P, home, n, Q, house, k),
           NEW keep, NEW h, NEW g, NEW group \in MaybeMlsGroups,
           NEW sent \in SUBSET Messages, \A m \in sent : MessageSits(P, n, m),
           Settled(P, home, n, keep, h, g, group, sent)
    PROVE  /\ Settled(Q, house, k, keep, h, g, group, sent)
           /\ group # NoGroup => OwnSeat(Q, group) = OwnSeat(P, group)
<1> SUFFICES ASSUME group # NoGroup
             PROVE  /\ Settled(Q, house, k, keep, h, g, group, sent)
                    /\ OwnSeat(Q, group) = OwnSeat(P, group)
  BY DEF Settled, GroupSits, Covers
<1>1. /\ group \in MlsGroups /\ group.tip \in Nat /\ group.own \in Leaves
      /\ group.pending # NoCommit => group.pending.id \in Nat
  BY DEF MaybeMlsGroups, MlsGroups, Commits
<1>2. group.tip < n /\ group.tip < k /\ Q[group.tip] = P[group.tip]
  BY <1>1 DEF Settled, GroupSits, Grown
<1>3. OwnSeat(Q, group) = OwnSeat(P, group)
  BY <1>2 DEF OwnSeat
<1>4. OwnSeat(P, group) # Vacant => house[OwnSeat(P, group)] = home[OwnSeat(P, group)]
  <2>1. OwnSeat(P, group) \in KeyPackages \cup {Vacant} /\ OwnSeat(P, group).id < n
    BY <1>1, <1>2, VacantFacts DEF OwnSeat, Grown, Bounded
  <2> QED BY <2>1 DEF Grown
<1>5. ASSUME group.active, group.pending # NoCommit
      PROVE  /\ Leads(Q, k, g, group.tip, group.pending.id, group.pending.tree)
             /\ Stays(Q, group, group.pending.id)
  <2>1. /\ Leads(P, n, g, group.tip, group.pending.id, group.pending.tree)
        /\ Stays(P, group, group.pending.id)
    BY <1>5 DEF Settled, GroupSits
  <2>2. Q[group.pending.id] = P[group.pending.id] /\ group.pending.id < k
    BY <1>1, <1>5, <2>1 DEF Leads, Grown
  <2> QED BY <1>2, <1>3, <2>1, <2>2 DEF Leads, Stays
<1>6. GroupSits(Q, house, k, h, g, group)
  BY <1>2, <1>3, <1>4, <1>5 DEF Settled, GroupSits
<1>7. ASSUME NEW m \in sent, Covers(P, keep, g, group, m) PROVE Covers(Q, keep, g, group, m)
  <2>1. Sends(m) => SeatOf(Q, m) = SeatOf(P, m)
    BY MessageGrows
  <2> QED BY <1>3, <1>7, <2>1 DEF Covers
<1> QED BY <1>3, <1>6, <1>7 DEF Settled

LEMMA ViewGrows ==
    ASSUME NEW P \in Pasts, NEW home \in Homes, NEW n \in Nat,
           NEW Q \in Pasts, NEW house \in Homes, NEW k \in Nat, Grown(P, home, n, Q, house, k),
           NEW keep, NEW h, NEW b \in Backends,
           NEW sent \in SUBSET Messages, \A m \in sent : MessageSits(P, n, m),
           View(P, home, n, keep, h, b, sent)
    PROVE  View(Q, house, k, keep, h, b, sent)
<1>1. \A g \in Groups : b.groups[g] \in MaybeMlsGroups
  BY DEF Backends
<1>2. ASSUME NEW g \in Groups
      PROVE  /\ Settled(Q, house, k, keep, h, g, b.groups[g], sent)
             /\ b.groups[g] # NoGroup => OwnSeat(Q, b.groups[g]) = OwnSeat(P, b.groups[g])
  <2>1. Settled(P, home, n, keep, h, g, b.groups[g], sent)
    BY DEF View
  <2> QED BY <1>1, <2>1, SettledGrows
<1>3. ASSUME NEW key \in b.keys PROVE KeyWaits(Q, house, k, h, b.groups, sent, key)
  <2>1. KeyWaits(P, home, n, h, b.groups, sent, key)
    BY DEF View
  <2>2. key \in KeyPackages /\ key.id \in Nat
    BY DEF Backends, KeyPackages
  <2>3. key.id < k /\ house[key] = home[key]
    BY <2>1, <2>2 DEF KeyWaits, Grown
  <2>4. \A m \in sent : Sends(m) => SeatOf(Q, m) = SeatOf(P, m)
    BY MessageGrows
  <2> QED BY <1>2, <2>1, <2>3, <2>4 DEF KeyWaits
<1> QED BY <1>2, <1>3 DEF View

\* What the type invariant says of the sessions, the blobs and the messages.
LEMMA Sessions ==
    ASSUME TypeInv, NEW h \in Handles
    PROVE  /\ backend[h] \in Backends
           /\ disk[h] # NoSnap => BlobLoaded(h) \in Backends
           /\ net \in SUBSET Messages /\ net \ unsaved[h] \in SUBSET Messages
           /\ fresh \in Nat
<1>1. disk[h] # NoSnap => BlobLoaded(h) \in Backends
  <2>1. ASSUME disk[h] # NoSnap PROVE BlobLoaded(h) \in Backends
    <3>1. disk[h].runtime \in RuntimeStates /\ disk[h].dump \in Dumps
      BY <2>1 DEF TypeInv, DiskOK, Snapshots
    <3>2. Saved(h).identity \in Clients \cup {NoClient} /\ SavedGroups(h) \in SUBSET Groups
      BY <3>1 DEF Saved, SavedGroups, KnownGroups, RuntimeStates
    <3> QED BY <3>1, <3>2, BackendMade DEF BlobLoaded, SoundBackends
  <2> QED BY <2>1
<1>2. backend[h] \in Backends
  BY DEF TypeInv, BackendOK, SoundBackends
<1>3. net \in SUBSET Messages /\ fresh \in Nat
  BY DEF TypeInv, NetOK, FreshOK
<1> QED BY <1>1, <1>2, <1>3

LEMMA PastGrows ==
    ASSUME TypeInv, NEW P \in Pasts, NEW home \in Homes, NEW keep,
           Descends(P, home, fresh, keep),
           NEW Q \in Pasts, NEW house \in Homes, NEW k \in Nat,
           Grown(P, home, fresh, Q, house, k)
    PROVE  Descends(Q, house, k, keep)
<1>1. fresh \in Nat /\ net \in SUBSET Messages
  BY DEF TypeInv, NetOK, FreshOK
<1>2. \A m \in net : MessageSits(P, fresh, m)
  BY DEF Descends
<1>3. \A m \in net : MessageSits(Q, k, m)
  BY <1>1, <1>2, MessageGrows
<1>4. ASSUME NEW h \in Handles
      PROVE  /\ View(Q, house, k, keep, h, backend[h], net)
             /\ disk[h] # NoSnap => View(Q, house, k, keep, h, BlobLoaded(h), net \ unsaved[h])
  <2>1. /\ backend[h] \in Backends
        /\ disk[h] # NoSnap => BlobLoaded(h) \in Backends
        /\ net \ unsaved[h] \in SUBSET Messages
    BY Sessions
  <2>2. /\ View(P, home, fresh, keep, h, backend[h], net)
        /\ disk[h] # NoSnap => View(P, home, fresh, keep, h, BlobLoaded(h), net \ unsaved[h])
    BY DEF Descends
  <2>3. View(Q, house, k, keep, h, backend[h], net)
    BY <1>1, <1>2, <2>1, <2>2, ViewGrows
  <2>4. ASSUME disk[h] # NoSnap
        PROVE  View(Q, house, k, keep, h, BlobLoaded(h), net \ unsaved[h])
    <3>1. \A m \in net \ unsaved[h] : MessageSits(P, fresh, m)
      BY <1>2
    <3> QED BY <1>1, <2>1, <2>2, <2>4, <3>1, ViewGrows
  <2> QED BY <2>3, <2>4
<1> QED BY <1>3, <1>4 DEF Descends, Grown

\* The next number is given a group and a row of seats.
LEMMA RowAdded ==
    ASSUME TypeInv, NEW P \in Pasts, NEW home \in Homes, NEW keep,
           Descends(P, home, fresh, keep),
           NEW g \in Nat, NEW row \in Rows, \A leaf \in Leaves : row[leaf].id <= fresh,
           NEW house \in Homes,
           \A seat \in KeyPackages : seat.id < fresh => house[seat] = home[seat]
    PROVE  \E Q \in Pasts :
             /\ Q[fresh] = [group |-> g, seat |-> row]
             /\ \A i \in Nat : i < fresh => Q[i] = P[i]
             /\ Descends(Q, house, fresh + 1, keep)
<1> DEFINE Q == [P EXCEPT ![fresh] = [group |-> g, seat |-> row]]
<1>1. fresh \in Nat
  BY DEF TypeInv, FreshOK
<1>2. /\ Q \in Pasts /\ Q[fresh] = [group |-> g, seat |-> row]
      /\ \A i \in Nat : i < fresh => Q[i] = P[i]
  BY <1>1 DEF Pasts
<1> HIDE DEF Q
<1>3. Bounded(P, fresh)
  BY DEF Descends
<1>4. Bounded(Q, fresh + 1)
  <2> SUFFICES ASSUME NEW i \in Nat, NEW leaf \in Leaves, i < fresh + 1
               PROVE  Q[i].seat[leaf].id < fresh + 1
    BY DEF Bounded
  <2>1. row[leaf].id \in Nat /\ P[i].seat[leaf].id \in Nat
    BY VacantFacts DEF Rows, KeyPackages, Vacant
  <2>2. CASE i = fresh
    BY <1>1, <1>2, <2>1, <2>2
  <2>3. CASE i # fresh
    <3>1. i < fresh /\ P[i].seat[leaf].id < fresh /\ Q[i] = P[i]
      BY <1>1, <1>2, <1>3, <2>3 DEF Bounded
    <3> QED BY <1>1, <2>1, <3>1
  <2> QED BY <2>2, <2>3
<1>5. Grown(P, home, fresh, Q, house, fresh + 1)
  BY <1>1, <1>2, <1>3, <1>4 DEF Grown
<1>6. Descends(Q, house, fresh + 1, keep)
  BY <1>1, <1>2, <1>5, PastGrows
<1> QED BY <1>2, <1>6
-----------------------------------------------------------------------------
(* Frames. *)

\* A view keeps while messages are lost, and while others are sent from the seats of
\* other handles.
LEMMA ViewKept ==
    ASSUME NEW P, NEW home, NEW n, NEW keep, NEW h, NEW b, NEW sent, NEW more,
           View(P, home, n, keep, h, b, sent),
           h \in Persisting => \A m \in more \ sent : Sends(m) => home[SeatOf(P, m)] # h
    PROVE  View(P, home, n, keep, h, b, more)
<1>1. ASSUME NEW g \in Groups PROVE Settled(P, home, n, keep, h, g, b.groups[g], more)
  <2>1. Settled(P, home, n, keep, h, g, b.groups[g], sent)
    BY DEF View
  <2>2. ASSUME h \in Persisting, NEW m \in more PROVE Covers(P, keep, g, b.groups[g], m)
    <3>1. CASE m \in sent
      BY <2>1, <2>2, <3>1 DEF Settled
    <3>2. CASE m \notin sent
      <4>1. Sends(m) => home[SeatOf(P, m)] # h
        BY <2>2, <3>2
      <4>2. b.groups[g] # NoGroup /\ b.groups[g].active => home[OwnSeat(P, b.groups[g])] = h
        BY <2>1 DEF Settled, GroupSits
      <4> QED BY <4>1, <4>2 DEF Covers
    <3> QED BY <3>1, <3>2
  <2> QED BY <2>1, <2>2 DEF Settled
<1>2. ASSUME NEW key \in b.keys PROVE KeyWaits(P, home, n, h, b.groups, more, key)
  <2>1. KeyWaits(P, home, n, h, b.groups, sent, key)
    BY DEF View
  <2>2. ASSUME h \in Persisting, NEW m \in more, Sends(m) PROVE SeatOf(P, m) # key
    <3>1. CASE m \in sent
      BY <2>1, <2>2, <3>1 DEF KeyWaits
    <3>2. CASE m \notin sent
      BY <2>1, <2>2, <3>2 DEF KeyWaits
    <3> QED BY <3>1, <3>2
  <2> QED BY <2>1, <2>2 DEF KeyWaits
<1> QED BY <1>1, <1>2 DEF View

\* A step that gives one handle a session with a view, sends only from seats of that
\* handle, and exports nothing.
LEMMA LineageFrame ==
    ASSUME TypeInv, NEW P \in Pasts, NEW home \in Homes, NEW keep,
           Descends(P, home, fresh', keep),
           NEW h \in Handles, NEW b, SetBackend(h, b), UNCHANGED disk,
           View(P, home, fresh', keep, h, b, net'),
           \A m \in net' \ net :
             MessageSits(P, fresh', m) /\ (Sends(m) => home[SeatOf(P, m)] = h),
           \A k \in Handles \ {h} : unsaved'[k] = unsaved[k],
           h \in Persisting => net' \ unsaved'[h] \subseteq net \ unsaved[h]
    PROVE  LineageInv(keep)'
<1>1. \A m \in net' : MessageSits(P, fresh', m)
  BY DEF Descends
<1>2. ASSUME NEW k \in Handles
      PROVE  /\ View(P, home, fresh', keep, k, backend'[k], net')
             /\ disk'[k] # NoSnap =>
                  View(P, home, fresh', keep, k, BlobLoaded(k)', net' \ unsaved'[k])
  <2>1. disk'[k] # NoSnap =>
          View(P, home, fresh', keep, k, BlobLoaded(k)', net \ unsaved[k])
    BY DEF Descends, BlobLoaded, SavedGroups, Saved
  <2>2. CASE k = h
    <3>1. backend'[k] = b
      BY <2>2 DEF SetBackend, TypeInv, BackendOK
    <3>2. k \in Persisting => \A m \in (net' \ unsaved'[k]) \ (net \ unsaved[k]) :
                                Sends(m) => home[SeatOf(P, m)] # k
      BY <2>2
    <3>3. disk'[k] # NoSnap =>
            View(P, home, fresh', keep, k, BlobLoaded(k)', net' \ unsaved'[k])
      BY <2>1, <3>2, ViewKept
    <3> QED BY <2>2, <3>1, <3>3
  <2>3. CASE k # h
    <3>1. backend'[k] = backend[k] /\ unsaved'[k] = unsaved[k]
      BY <2>3 DEF SetBackend, TypeInv, BackendOK
    <3>2. \A m \in net' \ net : Sends(m) => home[SeatOf(P, m)] # k
      BY <2>3
    <3>3. View(P, home, fresh', keep, k, backend[k], net)
      BY DEF Descends
    <3>4. View(P, home, fresh', keep, k, backend'[k], net')
      BY <3>1, <3>2, <3>3, ViewKept
    <3>5. k \in Persisting => \A m \in (net' \ unsaved'[k]) \ (net \ unsaved[k]) :
                                Sends(m) => home[SeatOf(P, m)] # k
      BY <3>1, <3>2
    <3>6. disk'[k] # NoSnap =>
            View(P, home, fresh', keep, k, BlobLoaded(k)', net' \ unsaved'[k])
      BY <2>1, <3>5, ViewKept
    <3> QED BY <3>4, <3>6
  <2> QED BY <2>2, <2>3
<1>3. Bounded(P, fresh')
  BY DEF Descends
<1>4. Descends(P, home, fresh, keep)'
  BY <1>1, <1>2, <1>3 DEF Descends
<1> QED BY <1>4 DEF LineageInv

\* A step that sends nothing, and may lose the session of the handle.
LEMMA LineageQuiet ==
    ASSUME TypeInv, NEW P \in Pasts, NEW home \in Homes, NEW keep,
           Descends(P, home, fresh, keep),
           NEW h \in Handles, NEW b, SetBackend(h, b), UNCHANGED <<disk, fresh>>,
           ReturnNothing \/ LoseSession(h),
           View(P, home, fresh, keep, h, b, net')
    PROVE  LineageInv(keep)'
<1>1. /\ net' \ net = {} /\ net' \ unsaved'[h] \subseteq net \ unsaved[h]
      /\ \A k \in Handles \ {h} : unsaved'[k] = unsaved[k]
  BY DEF ReturnNothing, LoseSession, TypeInv, NetOK
<1>2. Descends(P, home, fresh', keep) /\ View(P, home, fresh', keep, h, b, net') /\ UNCHANGED disk
  OBVIOUS
<1> QED BY <1>1, <1>2, LineageFrame

\* A message sent from the seat of the copy.
FromCopy(P, g, group, m) ==
    Sends(m) => /\ group # NoGroup /\ group.active
                /\ m.group = g /\ SeatOf(P, m) = OwnSeat(P, group)

\* One group of a session is replaced, and messages are sent from its seat at most.
LEMMA ViewGroup ==
    ASSUME NEW P, NEW home, NEW n, NEW keep, NEW h, NEW b, NEW c, NEW g \in Groups,
           NEW sent, NEW more,
           View(P, home, n, keep, h, b, sent),
           c.keys \subseteq b.keys,
           \A k \in Groups \ {g} : c.groups[k] = b.groups[k],
           Settled(P, home, n, keep, h, g, c.groups[g], more),
           c.groups[g] # NoGroup /\ c.groups[g].active =>
             \A key \in c.keys : OwnSeat(P, c.groups[g]) # key,
           \A m \in more \ sent : FromCopy(P, g, b.groups[g], m)
    PROVE  View(P, home, n, keep, h, c, more)
<1>1. ASSUME NEW k \in Groups PROVE Settled(P, home, n, keep, h, k, c.groups[k], more)
  <2>1. CASE k = g
    BY <2>1
  <2>2. CASE k # g
    <3>1. c.groups[k] = b.groups[k]
      BY <2>2
    <3>2. Settled(P, home, n, keep, h, k, b.groups[k], sent)
      BY DEF View
    <3>3. ASSUME NEW m \in more, h \in Persisting PROVE Covers(P, keep, k, b.groups[k], m)
      <4>1. CASE m \in sent
        BY <3>2, <3>3, <4>1 DEF Settled
      <4>2. CASE m \notin sent
        <5>1. Sends(m) => m.group # k
          BY <2>2, <4>2 DEF FromCopy
        <5> QED BY <5>1 DEF Covers
      <4> QED BY <4>1, <4>2
    <3> QED BY <3>1, <3>2, <3>3 DEF Settled
  <2> QED BY <2>1, <2>2
<1>2. ASSUME NEW key \in c.keys PROVE KeyWaits(P, home, n, h, c.groups, more, key)
  <2>1. KeyWaits(P, home, n, h, b.groups, sent, key)
    BY DEF View
  <2>2. ASSUME NEW k \in Groups, c.groups[k] # NoGroup, c.groups[k].active
        PROVE  OwnSeat(P, c.groups[k]) # key
    <3>1. CASE k = g
      BY <2>2, <3>1
    <3>2. CASE k # g
      <4>1. c.groups[k] = b.groups[k]
        BY <3>2
      <4> QED BY <2>1, <2>2, <4>1 DEF KeyWaits
    <3> QED BY <3>1, <3>2
  <2>3. ASSUME h \in Persisting, NEW m \in more, Sends(m) PROVE SeatOf(P, m) # key
    <3>1. CASE m \in sent
      BY <2>1, <2>3, <3>1 DEF KeyWaits
    <3>2. CASE m \notin sent
      <4>1. /\ b.groups[g] # NoGroup /\ b.groups[g].active
            /\ SeatOf(P, m) = OwnSeat(P, b.groups[g])
        BY <2>3, <3>2 DEF FromCopy
      <4> QED BY <2>1, <4>1 DEF KeyWaits
    <3> QED BY <3>1, <3>2
  <2> QED BY <2>1, <2>2, <2>3 DEF KeyWaits
<1> QED BY <1>1, <1>2 DEF View

\* A session without groups or keys, and one with the same groups and fewer keys.
LEMMA ViewEmpty ==
    ASSUME NEW P, NEW home, NEW n, NEW keep, NEW h, NEW sent
    PROVE  /\ \A b : b.groups = NoGroups /\ b.keys = {} => View(P, home, n, keep, h, b, sent)
           /\ \A b, c : /\ View(P, home, n, keep, h, b, sent)
                        /\ c.groups = b.groups /\ c.keys \subseteq b.keys
                        => View(P, home, n, keep, h, c, sent)
BY DEF View, Settled, GroupSits, Covers, NoGroups
-----------------------------------------------------------------------------
(* One group, changed. *)

\* What is said of a copy depends on these fields alone.
Alike(c, group) ==
    /\ c.tip = group.tip /\ c.tree = group.tree /\ c.own = group.own /\ c.me = group.me
    /\ c.active = group.active /\ c.pending = group.pending /\ c.gen = group.gen

LEMMA SettledAlike ==
    ASSUME NEW P, NEW home, NEW n, NEW keep, NEW h, NEW g, NEW sent,
           NEW group, NEW c, group # NoGroup, Alike(c, group),
           Settled(P, home, n, keep, h, g, group, sent)
    PROVE  Settled(P, home, n, keep, h, g, c, sent) /\ OwnSeat(P, c) = OwnSeat(P, group)
<1>1. OwnSeat(P, c) = OwnSeat(P, group)
  BY DEF OwnSeat, Alike
<1>2. GroupSits(P, home, n, h, g, c)
  BY <1>1 DEF Settled, GroupSits, Stays, Alike
<1>3. ASSUME NEW m \in sent, Covers(P, keep, g, group, m) PROVE Covers(P, keep, g, c, m)
  BY <1>1, <1>3 DEF Covers, Alike
<1> QED BY <1>1, <1>2, <1>3 DEF Settled

\* The copy moves on to a commit number not sent from yet, keeping its seat.
LEMMA SettledMoves ==
    ASSUME NEW P \in Pasts, NEW home, NEW n \in Nat, NEW keep, NEW h, NEW g,
           NEW sent \in SUBSET Messages,
           NEW group \in MlsGroups, group.active, Settled(P, home, n, keep, h, g, group, sent),
           NEW id \in Nat, NEW tree, Leads(P, n, g, group.tip, id, tree),
           Stays(P, group, id)
    PROVE  LET c == AtNextEpoch(group, id, tree)
           IN Settled(P, home, n, keep, h, g, c, sent) /\ OwnSeat(P, c) = OwnSeat(P, group)
<1> DEFINE c == AtNextEpoch(group, id, tree)
<1>1. /\ c.tip = id /\ c.tree = tree /\ c.own = group.own /\ c.me = group.me
      /\ c.active = TRUE /\ c.pending = NoCommit
  BY DEF AtNextEpoch, MemberAt
<1> HIDE DEF c
<1>2. OwnSeat(P, c) = OwnSeat(P, group)
  BY <1>1 DEF OwnSeat, Stays
<1>3. group # NoGroup /\ group.tip \in Nat
  BY NoGroupAssumption DEF MlsGroups
<1>4. /\ id < n /\ group.tip < id /\ P[id].group = g /\ tree = TreeOf(P[id].seat)
  BY DEF Leads
<1>5. GroupSits(P, home, n, h, g, c)
  BY <1>1, <1>2, <1>3, <1>4 DEF Settled, GroupSits
<1>6. ASSUME NEW m \in sent, h \in Persisting PROVE Covers(P, keep, g, c, m)
  <2> SUFFICES ASSUME Sends(m), m.group = g, SeatOf(P, m) = OwnSeat(P, group)
               PROVE  m.on < id
    BY <1>1, <1>2, MessageTypes DEF Covers
  <2>1. m.on <= group.tip /\ m.on \in Nat
    BY <1>3, <1>6, MessageTypes DEF Settled, Covers
  <2> QED BY <1>3, <1>4, <2>1
<1>7. Settled(P, home, n, keep, h, g, c, sent) /\ OwnSeat(P, c) = OwnSeat(P, group)
  BY <1>2, <1>5, <1>6 DEF Settled
<1> QED BY <1>7 DEF c

LEMMA SettledMerged ==
    ASSUME NEW P \in Pasts, NEW home, NEW n \in Nat, NEW keep, NEW h, NEW g,
           NEW sent \in SUBSET Messages,
           NEW group \in MlsGroups, group.active, Settled(P, home, n, keep, h, g, group, sent)
    PROVE  /\ Settled(P, home, n, keep, h, g, MergedOwn(group), sent)
           /\ OwnSeat(P, MergedOwn(group)) = OwnSeat(P, group)
<1>1. CASE group.pending = NoCommit
  BY <1>1 DEF MergedOwn
<1>2. CASE group.pending # NoCommit
  <2>1. group # NoGroup /\ group.pending.id \in Nat
    BY <1>2, NoGroupAssumption DEF MlsGroups, Commits
  <2>2. /\ Leads(P, n, g, group.tip, group.pending.id, group.pending.tree)
        /\ Stays(P, group, group.pending.id)
    BY <1>2, <2>1 DEF Settled, GroupSits
  <2>3. MergedOwn(group) = AtNextEpoch(group, group.pending.id, group.pending.tree)
    BY <1>2 DEF MergedOwn
  <2> QED BY <2>1, <2>2, <2>3, SettledMoves
<1> QED BY <1>1, <1>2

\* A member whose seat the commit took is evicted; its copy is seated nowhere.
LEMMA SettledFollows ==
    ASSUME NEW P \in Pasts, NEW home, NEW n \in Nat, NEW keep, NEW h, NEW g,
           NEW sent \in SUBSET Messages,
           NEW group \in MlsGroups, group.active, Settled(P, home, n, keep, h, g, group, sent),
           NEW m \in CommitMsgs, m.group = g, m.on = group.tip, MessageSits(P, n, m)
    PROVE  LET c == MergedIncoming(group, m.id, m.tree)
           IN /\ Settled(P, home, n, keep, h, g, c, sent)
              /\ c.active => OwnSeat(P, c) = OwnSeat(P, group)
<1> DEFINE next == AtNextEpoch(group, m.id, m.tree)
           c == MergedIncoming(group, m.id, m.tree)
<1>1. /\ c.tip = m.id /\ c.own = group.own /\ c.tree = m.tree /\ c.me = group.me
      /\ c.pending = NoCommit /\ c.gen = 0
      /\ c.active = (<<group.own, group.me>> \in m.tree)
      /\ next.tip = m.id /\ next.own = group.own /\ next.tree = m.tree /\ next.me = group.me
      /\ next.pending = NoCommit /\ next.gen = 0 /\ next.active = TRUE
  BY DEF MergedIncoming, AtNextEpoch, MemberAt
<1>2. /\ m.id \in Nat /\ m.on \in Nat /\ m.kind = "commit"
      /\ group.own \in Leaves /\ group.me \in Clients
  BY DEF CommitMsgs, MlsGroups
<1>3. Leads(P, n, g, group.tip, m.id, m.tree)
  BY <1>2 DEF MessageSits
<1>4. /\ OwnSeat(P, group) # Vacant /\ OwnSeat(P, group).owner = group.me
      /\ OwnSeat(P, group) = P[m.on].seat[group.own]
  BY NoGroupAssumption DEF Settled, GroupSits, OwnSeat
<1> DEFINE seat == P[m.id].seat[group.own]
<1>5. /\ seat # Vacant => seat = OwnSeat(P, group)
      /\ m.tree = TreeOf(P[m.id].seat)
  BY <1>2, <1>3, <1>4 DEF Leads, Keeps
<1> HIDE DEF c, next
<1>6. CASE <<group.own, group.me>> \in m.tree
  <2>1. seat.owner = group.me
    BY <1>5, <1>6 DEF TreeOf
  <2>2. seat # Vacant
    BY <1>2, <2>1, NoClientAssumption DEF Vacant
  <2>3. Settled(P, home, n, keep, h, g, next, sent) /\ OwnSeat(P, next) = OwnSeat(P, group)
    BY <1>2, <1>3, <1>5, <2>2, SettledMoves DEF next, Stays
  <2>4. next # NoGroup
    <3>1. group.epoch + 1 \in Nat /\ m.tree \in Trees
      BY DEF MlsGroups, CommitMsgs
    <3> QED BY <1>2, <3>1, GroupMade, NoGroupAssumption DEF next, AtNextEpoch
  <2>5. c.active = TRUE
    BY <1>1, <1>6
  <2>6. Settled(P, home, n, keep, h, g, c, sent) /\ OwnSeat(P, c) = OwnSeat(P, next)
    <3>1. Alike(c, next)
      BY <1>1, <2>5 DEF Alike
    <3>2. Settled(P, home, n, keep, h, g, next, sent)
      BY <2>3
    <3> QED BY <2>4, <3>1, <3>2, SettledAlike
  <2> QED BY <2>3, <2>6 DEF c
<1>7. CASE <<group.own, group.me>> \notin m.tree
  <2>1. seat = Vacant
    BY <1>2, <1>4, <1>5, <1>7 DEF TreeOf
  <2>2. OwnSeat(P, c) = Vacant /\ ~ c.active /\ c.tip < n
    BY <1>1, <1>3, <1>7, <2>1 DEF OwnSeat, Leads
  <2>3. Settled(P, home, n, keep, h, g, c, sent)
    BY <2>2 DEF Settled, GroupSits, Covers
  <2> QED BY <2>2, <2>3 DEF c
<1> QED BY <1>6, <1>7

\* Clearing a commit forgets that it was sent: the weaker view keeps.
LEMMA SettledCleared ==
    ASSUME NEW P, NEW home, NEW n, NEW keep, NEW h, NEW g, NEW sent,
           NEW group \in MlsGroups, Settled(P, home, n, keep, h, g, group, sent), ~ keep
    PROVE  /\ Settled(P, home, n, keep, h, g, Cleared(group), sent)
           /\ OwnSeat(P, Cleared(group)) = OwnSeat(P, group)
<1> DEFINE c == Cleared(group)
<1>1. /\ c.tip = group.tip /\ c.tree = group.tree /\ c.own = group.own /\ c.me = group.me
      /\ c.active = group.active /\ c.gen = group.gen /\ c.pending = NoCommit
  BY DEF Cleared, MlsGroups
<1> HIDE DEF c
<1>2. OwnSeat(P, c) = OwnSeat(P, group) /\ group # NoGroup
  BY <1>1, NoGroupAssumption DEF OwnSeat
<1>3. GroupSits(P, home, n, h, g, c)
  BY <1>1, <1>2 DEF Settled, GroupSits, Stays
<1>4. ASSUME NEW m \in sent, Covers(P, keep, g, group, m) PROVE Covers(P, keep, g, c, m)
  BY <1>1, <1>2, <1>4 DEF Covers
<1>5. Settled(P, home, n, keep, h, g, c, sent) /\ OwnSeat(P, c) = OwnSeat(P, group)
  BY <1>2, <1>3, <1>4 DEF Settled
<1> QED BY <1>5 DEF c

LEMMA SettledConsumes ==
    ASSUME NEW P, NEW home, NEW n, NEW keep, NEW h, NEW g, NEW sent, NEW leaf, NEW gen,
           NEW group \in MlsGroups, Settled(P, home, n, keep, h, g, group, sent)
    PROVE  /\ Settled(P, home, n, keep, h, g, Consumed(group, leaf, gen), sent)
           /\ OwnSeat(P, Consumed(group, leaf, gen)) = OwnSeat(P, group)
<1>1. Alike(Consumed(group, leaf, gen), group)
  BY DEF Alike, Consumed, MlsGroups
<1> QED BY <1>1, SettledAlike, NoGroupAssumption

LEMMA SettledMirrors ==
    ASSUME NEW P, NEW home, NEW n, NEW keep, NEW h, NEW g, NEW sent,
           NEW group \in MlsGroups, Settled(P, home, n, keep, h, g, group, sent),
           NEW stored \in MlsGroups, [stored EXCEPT !.seen = {}] = [group EXCEPT !.seen = {}]
    PROVE  /\ Settled(P, home, n, keep, h, g, stored, sent)
           /\ OwnSeat(P, stored) = OwnSeat(P, group)
           /\ stored.active = group.active
<1>1. Alike(stored, group)
  BY Mirrored DEF Alike
<1>2. Settled(P, home, n, keep, h, g, stored, sent) /\ OwnSeat(P, stored) = OwnSeat(P, group)
  BY <1>1, SettledAlike, NoGroupAssumption
<1> QED BY <1>1, <1>2 DEF Alike

\* A copy that begins at a seat.
Begins(P, n, g, group, seat) ==
    /\ group.active /\ group.pending = NoCommit
    /\ group.tip < n /\ P[group.tip].group = g /\ group.tree = TreeOf(P[group.tip].seat)
    /\ OwnSeat(P, group) = seat /\ seat.owner = group.me

\* A copy begins at a seat of the handle from which nothing was sent.
LEMMA SettledBegins ==
    ASSUME NEW P, NEW home, NEW n, NEW keep, NEW h, NEW g, NEW group, NEW seat, NEW sent,
           Begins(P, n, g, group, seat), seat # Vacant, home[seat] = h,
           h \in Persisting => \A m \in sent : Sends(m) => SeatOf(P, m) # seat
    PROVE  Settled(P, home, n, keep, h, g, group, sent)
BY DEF Begins, Settled, GroupSits, Covers

\* A message is sent with the next generation of the ratchet.
LEMMA SettledSends ==
    ASSUME NEW P \in Pasts, NEW home, NEW n \in Nat, NEW keep, NEW h, NEW g,
           NEW sent \in SUBSET Messages,
           NEW group \in MlsGroups, group.active, Settled(P, home, n, keep, h, g, group, sent),
           NEW m \in ApplicationMsgs, m.group = g, m.on = group.tip, m.leaf = group.own,
           m.gen = group.gen
    PROVE  /\ Settled(P, home, n, keep, h, g, Sent(group), sent \cup {m})
           /\ OwnSeat(P, Sent(group)) = OwnSeat(P, group)
           /\ SeatOf(P, m) = OwnSeat(P, group)
<1> DEFINE c == Sent(group)
<1>1. /\ c.tip = group.tip /\ c.tree = group.tree /\ c.own = group.own /\ c.me = group.me
      /\ c.active = group.active /\ c.pending = group.pending /\ c.gen = group.gen + 1
  BY DEF Sent, MlsGroups
<1> HIDE DEF c
<1>2. OwnSeat(P, c) = OwnSeat(P, group) /\ SeatOf(P, m) = OwnSeat(P, group) /\ group # NoGroup
  BY <1>1, NoGroupAssumption DEF OwnSeat, SeatOf
<1>3. GroupSits(P, home, n, h, g, c)
  BY <1>1, <1>2 DEF Settled, GroupSits, Stays
<1>4. m.kind = "application" /\ m.gen \in Nat /\ group.gen \in Nat /\ m.on \in Nat
  BY DEF ApplicationMsgs, MlsGroups
<1>5. Covers(P, keep, g, c, m)
  BY <1>1, <1>4 DEF Covers
<1>6. ASSUME NEW other \in sent, Covers(P, keep, g, group, other)
      PROVE  Covers(P, keep, g, c, other)
  <2>1. other.kind = "application" => other.gen \in Nat
    BY MessageTypes DEF ApplicationMsgs
  <2> QED BY <1>1, <1>2, <1>4, <1>6, <2>1 DEF Covers
<1>7. Settled(P, home, n, keep, h, g, c, sent \cup {m})
  BY <1>3, <1>5, <1>6 DEF Settled
<1> QED BY <1>2, <1>7 DEF c

\* A commit is staged, and sent: it waits in the copy.  No other can have been sent from
\* there if none is ever cleared, for a commit is made only when none waits.
LEMMA SettledStages ==
    ASSUME NEW P \in Pasts, NEW home, NEW n \in Nat, NEW keep, NEW h, NEW g,
           NEW sent \in SUBSET Messages,
           NEW group \in MlsGroups, group.active, group.pending = NoCommit,
           Settled(P, home, n, keep, h, g, group, sent),
           NEW m \in CommitMsgs, m.group = g, m.on = group.tip, m.leaf = group.own,
           NEW id, NEW tree, m.id = id, m.tree = tree,
           Leads(P, n, g, group.tip, id, tree), Stays(P, group, id),
           NEW more, \A other \in more : other \in sent \/ other = m \/ ~ Sends(other)
    PROVE  Settled(P, home, n, keep, h, g, Staged(group, id, tree), more)
<1> DEFINE c == Staged(group, id, tree)
<1>1. /\ c.tip = group.tip /\ c.tree = group.tree /\ c.own = group.own /\ c.me = group.me
      /\ c.active = group.active /\ c.gen = group.gen
      /\ c.pending = [id |-> m.id, tree |-> m.tree]
  BY DEF Staged, MlsGroups
<1> HIDE DEF c
<1>2. OwnSeat(P, c) = OwnSeat(P, group) /\ SeatOf(P, m) = OwnSeat(P, group) /\ group # NoGroup
  BY <1>1, NoGroupAssumption DEF OwnSeat, SeatOf
<1>3. GroupSits(P, home, n, h, g, c)
  BY <1>1, <1>2 DEF Settled, GroupSits, Stays
<1>4. m.kind = "commit" /\ m.on \in Nat
  BY DEF CommitMsgs
<1>5. Covers(P, keep, g, c, m)
  BY <1>1, <1>4 DEF Covers
<1>6. ASSUME NEW other \in sent, Covers(P, keep, g, group, other)
      PROVE  Covers(P, keep, g, c, other)
  <2>1. other.kind = "commit" => [id |-> other.id, tree |-> other.tree] # NoCommit
    BY MessageTypes, NoCommitAssumption DEF CommitMsgs, Commits
  <2> QED BY <1>1, <1>2, <1>6, <2>1 DEF Covers
<1>7. ASSUME NEW other, ~ Sends(other) PROVE Covers(P, keep, g, c, other)
  BY <1>7 DEF Covers
<1>8. Settled(P, home, n, keep, h, g, c, more)
  BY <1>3, <1>5, <1>6, <1>7 DEF Settled
<1> QED BY <1>8 DEF c
-----------------------------------------------------------------------------
(* The calls. *)

\* What the invariant says of the session a call works on.
LEMMA OwnView ==
    ASSUME TypeInv, NEW P \in Pasts, NEW home \in Homes, NEW n, NEW keep,
           Descends(P, home, n, keep), NEW h \in Handles
    PROVE  /\ backend[h] \in Backends
           /\ View(P, home, n, keep, h, backend[h], net)
           /\ \A g \in Groups : HasGroup(backend[h], g) =>
                /\ Mls(h, g) \in MlsGroups /\ Mls(h, g) = backend[h].groups[g]
                /\ Settled(P, home, n, keep, h, g, Mls(h, g), net)
                /\ Mls(h, g).active => \A key \in backend[h].keys : OwnSeat(P, Mls(h, g)) # key
<1>1. backend[h] \in Backends
  BY DEF TypeInv, BackendOK, SoundBackends
<1>2. View(P, home, n, keep, h, backend[h], net)
  BY DEF Descends
<1>3. \A g \in Groups : HasGroup(backend[h], g) => Mls(h, g) \in MlsGroups
  BY Read
<1> QED BY <1>1, <1>2, <1>3 DEF View, KeyWaits, HasGroup, Mls

\* The calls that change a copy and send nothing.
LEMMA ChangesLineage ==
    ASSUME TypeInv, NEW P \in Pasts, NEW home \in Homes, NEW keep,
           Descends(P, home, fresh, keep), NEW h \in Handles, NEW g \in Groups,
           \/ MergePendingCommit(h, g) \/ DropGroup(h, g)
           \/ ~ keep /\ ClearPendingCommit(h, g)
           \/ \E m \in Arrived("commit") : m.group = g /\ HandleCommit(h, m)
           \/ \E m \in Arrived("application") : m.group = g /\ HandleApplication(h, m)
    PROVE  LineageInv(keep)'
<1> DEFINE b == backend[h]
           group == Mls(h, g)
           fits(c) == /\ Settled(P, home, fresh, keep, h, g, c, net)
                      /\ c # NoGroup /\ c.active => group.active /\ OwnSeat(P, c) = OwnSeat(P, group)
<1>1. HasGroup(b, g) /\ UNCHANGED <<disk, fresh>> /\ ReturnNothing
  BY DEF MergePendingCommit, DropGroup, ClearPendingCommit, HandleCommit, HandleApplication, CanProcess
<1>2. /\ b \in Backends /\ View(P, home, fresh, keep, h, b, net)
      /\ group \in MlsGroups /\ group = b.groups[g]
      /\ Settled(P, home, fresh, keep, h, g, group, net)
      /\ group.active => \A key \in b.keys : OwnSeat(P, group) # key
      /\ fresh \in Nat /\ net \in SUBSET Messages
  BY <1>1, OwnView, Sessions
<1>3. ASSUME NEW c, SetBackend(h, c), OneGroup(b, c, g), fits(c.groups[g])
      PROVE  LineageInv(keep)'
  <2>1. /\ c.keys \subseteq b.keys /\ \A k \in Groups \ {g} : c.groups[k] = b.groups[k]
        /\ Settled(P, home, fresh, keep, h, g, c.groups[g], net)
        /\ c.groups[g] # NoGroup /\ c.groups[g].active =>
             \A key \in c.keys : OwnSeat(P, c.groups[g]) # key
    BY <1>2, <1>3 DEF OneGroup
  <2> HIDE DEF b, group, fits
  <2>2. View(P, home, fresh, keep, h, c, net)
    BY <1>2, <2>1, ViewGroup
  <2>3. net' = net
    BY <1>1 DEF ReturnNothing
  <2> QED BY <1>1, <1>3, <2>2, <2>3, LineageQuiet
<1>4. CASE MergePendingCommit(h, g)
  <2>1. group.active /\ SetBackend(h, WithMerged(b, g))
    BY <1>4 DEF MergePendingCommit
  <2>2. fits(MergedOwn(group))
    BY <1>2, <2>1, SettledMerged
  <2> HIDE DEF fits
  <2> QED BY <1>2, <1>3, <2>1, <2>2, OneGroupChanged
<1>5. CASE DropGroup(h, g)
  <2>1. SetBackend(h, Dropped(b, g))
    BY <1>5 DEF DropGroup
  <2>2. fits(NoGroup)
    BY DEF Settled, GroupSits, Covers
  <2> HIDE DEF fits
  <2> QED BY <1>2, <1>3, <2>1, <2>2, OneGroupChanged
<1>6. CASE ~ keep /\ ClearPendingCommit(h, g)
  <2>1. SetBackend(h, WithCleared(b, g))
    BY <1>6 DEF ClearPendingCommit
  <2>2. fits(Cleared(group))
    <3>1. Cleared(group).active = group.active
      BY <1>2 DEF Cleared, MlsGroups
    <3> QED BY <1>2, <1>6, <3>1, SettledCleared
  <2> HIDE DEF fits
  <2> QED BY <1>2, <1>3, <2>1, <2>2, OneGroupChanged
<1>7. ASSUME NEW m \in Arrived("commit"), m.group = g, HandleCommit(h, m) PROVE LineageInv(keep)'
  <2>1. /\ SetBackend(h, Written(b, g, MergedIncoming(group, m.id, m.tree)))
        /\ group.active /\ m.on = group.tip
    BY <1>7 DEF HandleCommit, CanProcess
  <2>2. m \in CommitMsgs /\ MessageSits(P, fresh, m)
    BY ArrivedTypes DEF Arrived, Descends
  <2>3. fits(MergedIncoming(group, m.id, m.tree))
    <3> HIDE DEF group
    <3> QED BY <1>2, <1>7, <2>1, <2>2, SettledFollows
  <2> HIDE DEF fits
  <2> QED BY <1>2, <1>3, <2>1, <2>3, OneGroupChanged
<1>8. ASSUME NEW m \in Arrived("application"), m.group = g, HandleApplication(h, m)
      PROVE  LineageInv(keep)'
  <2>1. PICK kept \in BOOLEAN : SetBackend(h, WithConsumed(b, g, m.leaf, m.gen, kept))
    BY <1>8 DEF HandleApplication
  <2>2. fits(Consumed(group, m.leaf, m.gen))
    <3>1. Consumed(group, m.leaf, m.gen).active = group.active
      BY <1>2 DEF Consumed, MlsGroups
    <3> HIDE DEF group
    <3>2. /\ Settled(P, home, fresh, keep, h, g, Consumed(group, m.leaf, m.gen), net)
          /\ OwnSeat(P, Consumed(group, m.leaf, m.gen)) = OwnSeat(P, group)
      BY <1>2, SettledConsumes
    <3> QED BY <3>1, <3>2
  <2> HIDE DEF fits
  <2> QED BY <1>2, <1>3, <2>1, <2>2, OneGroupChanged
<1> QED BY <1>4, <1>5, <1>6, <1>7, <1>8

\* A message is sent: it takes a number of its own.
LEMMA EncryptLineage ==
    ASSUME TypeInv, NEW P \in Pasts, NEW home \in Homes, NEW keep,
           Descends(P, home, fresh, keep), NEW h \in Handles, NEW g \in Groups,
           EncryptMessage(h, g)
    PROVE  LineageInv(keep)'
<1> DEFINE b == backend[h]
           group == Mls(h, g)
           m == [kind |-> "application", group |-> g, on |-> group.tip, id |-> fresh,
                 leaf |-> group.own, gen |-> group.gen]
           c == Written(b, g, Sent(group))
<1>1. /\ HasGroup(b, g) /\ group.active /\ UNCHANGED disk /\ fresh' = fresh + 1
      /\ SetBackend(h, c) /\ Return(h, {m})
  BY DEF EncryptMessage, Mint
<1>2. fresh \in Nat /\ fresh' \in Nat /\ net \in SUBSET Messages /\ fresh < fresh'
  BY <1>1, Sessions
<1>3. PICK Q \in Pasts : Descends(Q, home, fresh + 1, keep)
  <2>1. [leaf \in Leaves |-> Vacant] \in Rows
    BY DEF Rows
  <2>2. \A leaf \in Leaves : [other \in Leaves |-> Vacant][leaf].id <= fresh
    BY <1>2 DEF Vacant
  <2> QED BY <1>2, <2>1, <2>2, RowAdded
<1>5. Descends(Q, home, fresh', keep)
  BY <1>1, <1>3
<1>6. /\ b \in Backends /\ View(Q, home, fresh', keep, h, b, net)
      /\ group \in MlsGroups /\ group = b.groups[g]
      /\ Settled(Q, home, fresh', keep, h, g, group, net)
      /\ \A key \in b.keys : OwnSeat(Q, group) # key
  BY <1>1, <1>5, OwnView
<1>7. /\ m \in ApplicationMsgs /\ m.group = g /\ m.on = group.tip /\ m.leaf = group.own
      /\ m.gen = group.gen /\ m.id = fresh /\ m.kind = "application"
  BY <1>2, <1>6 DEF ApplicationMsgs, MlsGroups
<1> HIDE DEF m, group, b
<1>8. /\ Settled(Q, home, fresh', keep, h, g, Sent(group), net \cup {m})
      /\ OwnSeat(Q, Sent(group)) = OwnSeat(Q, group)
      /\ SeatOf(Q, m) = OwnSeat(Q, group)
  BY <1>1, <1>2, <1>6, <1>7, SettledSends
<1>9. OneGroup(b, c, g) /\ c.groups[g] = Sent(group)
  BY <1>6, OneGroupChanged
<1> HIDE DEF c
<1>10. net' = net \cup {m} /\ group # NoGroup
  BY <1>1, <1>6, NoGroupAssumption DEF Return
<1>11. View(Q, home, fresh', keep, h, c, net')
  <2>1. /\ c.keys \subseteq b.keys /\ \A k \in Groups \ {g} : c.groups[k] = b.groups[k]
        /\ Settled(Q, home, fresh', keep, h, g, c.groups[g], net')
        /\ \A key \in c.keys : OwnSeat(Q, c.groups[g]) # key
        /\ \A other \in net' \ net : FromCopy(Q, g, b.groups[g], other)
    BY <1>1, <1>6, <1>7, <1>8, <1>9, <1>10 DEF OneGroup, FromCopy
  <2> QED BY <1>6, <2>1, ViewGroup
<1>12. /\ MessageSits(Q, fresh', m) /\ home[SeatOf(Q, m)] = h
  <2>1. /\ group.tip < fresh' /\ Q[group.tip].group = g
        /\ OwnSeat(Q, group) # Vacant /\ home[OwnSeat(Q, group)] = h
    BY <1>1, <1>6, <1>10 DEF Settled, GroupSits
  <2> QED BY <1>2, <1>7, <1>8, <2>1 DEF MessageSits
<1>13. /\ \A k \in Handles \ {h} : unsaved'[k] = unsaved[k]
       /\ h \in Persisting => net' \ unsaved'[h] \subseteq net \ unsaved[h]
  BY <1>1 DEF Return, TypeInv, NetOK
<1> QED BY <1>1, <1>5, <1>10, <1>11, <1>12, <1>13, LineageFrame

\* Emptying a leaf is what OpenMLS does to the tree.
LEMMA SeatsAndTrees ==
    ASSUME NEW row \in Rows, NEW leaf \in Leaves
    PROVE  /\ TreeOf(row) \in Trees
           /\ LET out == [row EXCEPT ![leaf] = Vacant]
              IN /\ out \in Rows /\ TreeOf(out) = WithoutLeaf(TreeOf(row), leaf)
                 /\ Keeps(row, out)
           /\ IsFree(TreeOf(row), leaf) => row[leaf] = Vacant
<1>1. TreeOf(row) \in Trees
  BY DEF TreeOf, Trees
<1>2. NoClient \notin Clients
  BY NoClientAssumption
<1>3. LET out == [row EXCEPT ![leaf] = Vacant]
      IN out \in Rows /\ TreeOf(out) = WithoutLeaf(TreeOf(row), leaf) /\ Keeps(row, out)
  <2> DEFINE out == [row EXCEPT ![leaf] = Vacant]
  <2>1. out \in Rows /\ out[leaf] = Vacant /\ \A k \in Leaves \ {leaf} : out[k] = row[k]
    BY DEF Rows
  <2> HIDE DEF out
  <2>2. TreeOf(out) = WithoutLeaf(TreeOf(row), leaf)
    <3>1. ASSUME NEW entry \in Leaves \X Clients
          PROVE  entry \in TreeOf(out) <=> entry \in WithoutLeaf(TreeOf(row), leaf)
      <4>1. CASE entry[1] = leaf
        BY <1>2, <2>1, <4>1 DEF TreeOf, WithoutLeaf, Vacant
      <4>2. CASE entry[1] # leaf
        BY <2>1, <4>2 DEF TreeOf, WithoutLeaf
      <4> QED BY <4>1, <4>2
    <3>2. TreeOf(out) \subseteq Leaves \X Clients
          /\ WithoutLeaf(TreeOf(row), leaf) \subseteq Leaves \X Clients
      BY DEF TreeOf, WithoutLeaf
    <3> QED BY <3>1, <3>2
  <2>3. Keeps(row, out)
    BY <2>1 DEF Keeps
  <2> QED BY <2>1, <2>2, <2>3 DEF out
<1>4. IsFree(TreeOf(row), leaf) => row[leaf] = Vacant
  <2> SUFFICES ASSUME row[leaf] # Vacant PROVE ~ IsFree(TreeOf(row), leaf)
    OBVIOUS
  <2>1. row[leaf].owner \in Clients
    BY DEF Rows, KeyPackages
  <2>2. <<leaf, row[leaf].owner>> \in TreeOf(row)
    BY <2>1 DEF TreeOf
  <2> QED BY <2>1, <2>2 DEF IsFree
<1> QED BY <1>1, <1>3, <1>4

\* So is seating a key package at an empty one.
LEMMA KeySeated ==
    ASSUME NEW row \in Rows, NEW leaf \in Leaves, row[leaf] = Vacant, NEW key \in KeyPackages
    PROVE  LET new == [row EXCEPT ![leaf] = key]
           IN /\ new \in Rows /\ TreeOf(new) = WithLeaf(TreeOf(row), leaf, key.owner)
              /\ Keeps(row, new)
<1> DEFINE new == [row EXCEPT ![leaf] = key]
<1>1. new \in Rows /\ new[leaf] = key /\ \A k \in Leaves \ {leaf} : new[k] = row[k]
  BY DEF Rows
<1>2. key.owner \in Clients
  BY DEF KeyPackages
<1> HIDE DEF new
<1>3. TreeOf(new) = WithLeaf(TreeOf(row), leaf, key.owner)
  <2>1. ASSUME NEW entry \in Leaves \X Clients
        PROVE  entry \in TreeOf(new) <=> entry \in WithLeaf(TreeOf(row), leaf, key.owner)
    <3>1. CASE entry[1] = leaf
      <4>1. entry \notin TreeOf(row)
        BY NoClientAssumption, <3>1 DEF TreeOf, Vacant
      <4>2. entry \in TreeOf(new) <=> entry[2] = key.owner
        BY <1>1, <3>1 DEF TreeOf
      <4> QED BY <3>1, <4>1, <4>2 DEF WithLeaf
    <3>2. CASE entry[1] # leaf
      BY <1>1, <3>2 DEF TreeOf, WithLeaf
    <3> QED BY <3>1, <3>2
  <2>2. TreeOf(new) \subseteq Leaves \X Clients
        /\ WithLeaf(TreeOf(row), leaf, key.owner) \subseteq Leaves \X Clients
    BY <1>2 DEF TreeOf, WithLeaf
  <2> QED BY <2>1, <2>2
<1>4. Keeps(row, new)
  BY <1>1 DEF Keeps
<1> QED BY <1>1, <1>3, <1>4 DEF new

\* A call that stages a commit, once the past has its number.
LEMMA StageFrame ==
    ASSUME TypeInv, NEW P \in Pasts, NEW home \in Homes, NEW keep,
           Descends(P, home, fresh', keep), NEW h \in Handles, NEW g \in Groups,
           HasGroup(backend[h], g), Operational(Mls(h, g)),
           NEW tree \in Trees, Leads(P, fresh', g, Mls(h, g).tip, fresh, tree),
           Stays(P, Mls(h, g), fresh),
           NEW welcomes \in SUBSET WelcomeMsgs, \A w \in welcomes : MessageSits(P, fresh', w),
           NEW rg, StageCommit(h, g, rg, tree, welcomes)
    PROVE  LineageInv(keep)'
<1> DEFINE b == backend[h]
           group == Mls(h, g)
           m == CommitMsg(g, group, tree)
           c == WithStaged(b, g, fresh, tree)
<1>1. /\ group.active /\ group.pending = NoCommit
      /\ SetBackend(h, c) /\ Return(h, {m} \cup welcomes)
      /\ fresh' = fresh + 1 /\ UNCHANGED disk
  BY DEF Operational, StageCommit, Mint
<1>2. fresh \in Nat /\ fresh' \in Nat /\ net \in SUBSET Messages
  BY <1>1, Sessions
<1>3. /\ b \in Backends /\ View(P, home, fresh', keep, h, b, net)
      /\ group \in MlsGroups /\ group = b.groups[g]
      /\ Settled(P, home, fresh', keep, h, g, group, net)
      /\ \A key \in b.keys : OwnSeat(P, group) # key
  BY <1>1, OwnView
<1>4. group.tip \in Nat /\ group.own \in Leaves /\ group # NoGroup
  BY <1>3, NoGroupAssumption DEF MlsGroups
<1>5. /\ m \in CommitMsgs /\ m.group = g /\ m.on = group.tip /\ m.leaf = group.own
      /\ m.id = fresh /\ m.tree = tree /\ m.kind = "commit"
  BY <1>2, <1>4 DEF CommitMsg, CommitMsgs
<1> HIDE DEF m, group, b
<1>6. Leads(P, fresh', g, group.tip, fresh, tree) /\ Stays(P, group, fresh)
  BY DEF group
<1>7. net' = net \cup {m} \cup welcomes
  BY <1>1 DEF Return
<1>8. \A w \in welcomes : w.kind = "welcome" /\ ~ Sends(w)
  BY DEF WelcomeMsgs, Sends
<1>9. /\ Settled(P, home, fresh', keep, h, g, Staged(group, fresh, tree), net')
      /\ OwnSeat(P, Staged(group, fresh, tree)) = OwnSeat(P, group)
      /\ SeatOf(P, m) = OwnSeat(P, group)
  <2>1. \A other \in net' : other \in net \/ other = m \/ ~ Sends(other)
    BY <1>7, <1>8
  <2>2. Settled(P, home, fresh', keep, h, g, Staged(group, fresh, tree), net')
    BY <1>1, <1>2, <1>3, <1>5, <1>6, <2>1, SettledStages
  <2>3. OwnSeat(P, Staged(group, fresh, tree)) = OwnSeat(P, group)
    BY <1>3 DEF OwnSeat, Staged, MlsGroups
  <2>4. SeatOf(P, m) = OwnSeat(P, group)
    BY <1>5 DEF OwnSeat, SeatOf
  <2> QED BY <2>2, <2>3, <2>4
<1>10. OneGroup(b, c, g) /\ c.groups[g] = Staged(group, fresh, tree)
  BY <1>3, <1>5, OneGroupChanged DEF group
<1> HIDE DEF c
<1>11. View(P, home, fresh', keep, h, c, net')
  <2>1. /\ c.keys \subseteq b.keys /\ \A k \in Groups \ {g} : c.groups[k] = b.groups[k]
        /\ Settled(P, home, fresh', keep, h, g, c.groups[g], net')
        /\ \A key \in c.keys : OwnSeat(P, c.groups[g]) # key
    BY <1>3, <1>9, <1>10 DEF OneGroup
  <2>2. \A other \in net' \ net : FromCopy(P, g, b.groups[g], other)
    BY <1>1, <1>3, <1>4, <1>5, <1>7, <1>8, <1>9 DEF FromCopy
  <2> QED BY <1>3, <2>1, <2>2, ViewGroup
<1>12. MessageSits(P, fresh', m) /\ home[SeatOf(P, m)] = h
  <2>1. OwnSeat(P, group) # Vacant /\ home[OwnSeat(P, group)] = h
    BY <1>1, <1>3, <1>4 DEF Settled, GroupSits
  <2> QED BY <1>5, <1>6, <1>9, <2>1 DEF MessageSits
<1>13. \A other \in net' \ net :
         MessageSits(P, fresh', other) /\ (Sends(other) => home[SeatOf(P, other)] = h)
  BY <1>7, <1>8, <1>12
<1>14. /\ \A k \in Handles \ {h} : unsaved'[k] = unsaved[k]
       /\ h \in Persisting => net' \ unsaved'[h] \subseteq net \ unsaved[h]
  BY <1>1 DEF Return, TypeInv, NetOK
<1> QED BY <1>1, <1>11, <1>13, <1>14, LineageFrame

\* A call that stages a commit: its number gets the seats the commit leads to.
LEMMA StageLineage ==
    ASSUME TypeInv, NEW P \in Pasts, NEW home \in Homes, NEW keep,
           Descends(P, home, fresh, keep), NEW h \in Handles, NEW g \in Groups,
           HasGroup(backend[h], g), Operational(Mls(h, g)),
           NEW row \in Rows, \A leaf \in Leaves : row[leaf].id <= fresh,
           Keeps(P[Mls(h, g).tip].seat, row),
           row[Mls(h, g).own] = OwnSeat(P, Mls(h, g)),
           NEW welcomes \in SUBSET WelcomeMsgs,
           \A w \in welcomes : /\ w.id = fresh /\ w.group = g
                               /\ w.tree = TreeOf(row) /\ row[w.leaf] = w.key,
           NEW rg, StageCommit(h, g, rg, TreeOf(row), welcomes)
    PROVE  LineageInv(keep)'
<1> DEFINE group == Mls(h, g)
<1>1. fresh \in Nat /\ fresh' = fresh + 1 /\ fresh' \in Nat
  BY Sessions DEF StageCommit, Mint
<1>2. g \in Nat /\ TreeOf(row) \in Trees
  BY GroupsAssumption, LeafIndex, SeatsAndTrees
<1>3. PICK Q \in Pasts : /\ Q[fresh] = [group |-> g, seat |-> row]
                         /\ \A i \in Nat : i < fresh => Q[i] = P[i]
                         /\ Descends(Q, home, fresh', keep)
  BY <1>1, <1>2, RowAdded
<1>4. /\ group.tip \in Nat /\ group.tip < fresh /\ P[group.tip].group = g
  <2>1. Settled(P, home, fresh, keep, h, g, group, net) /\ group \in MlsGroups
    BY OwnView
  <2>2. group.active /\ group # NoGroup
    BY <2>1, NoGroupAssumption DEF Operational
  <2> QED BY <2>1, <2>2 DEF Settled, GroupSits, MlsGroups
<1>5. /\ Q[group.tip] = P[group.tip] /\ Q[fresh].seat = row /\ Q[fresh].group = g
      /\ fresh < fresh' /\ group.tip < fresh'
  BY <1>1, <1>3, <1>4
<1>6. Leads(Q, fresh', g, group.tip, fresh, TreeOf(row))
  BY <1>4, <1>5 DEF Leads
<1>7. Stays(Q, group, fresh)
  BY <1>5 DEF OwnSeat, Stays
<1>8. \A w \in welcomes : MessageSits(Q, fresh', w)
  <2>1. \A w \in welcomes : w.kind = "welcome"
    BY DEF WelcomeMsgs
  <2> QED BY <1>5, <2>1 DEF MessageSits
<1> QED BY <1>2, <1>3, <1>6, <1>7, <1>8, StageFrame

\* What the seats of the copy's epoch are, for a call that stages a commit.
LEMMA OwnRow ==
    ASSUME TypeInv, NEW P \in Pasts, NEW home \in Homes, NEW keep,
           Descends(P, home, fresh, keep), NEW h \in Handles, NEW g \in Groups,
           HasGroup(backend[h], g), Operational(Mls(h, g))
    PROVE  LET row == P[Mls(h, g).tip].seat
           IN /\ row \in Rows /\ \A leaf \in Leaves : row[leaf].id <= fresh
              /\ Mls(h, g).tree = TreeOf(row) /\ Mls(h, g).own \in Leaves
              /\ row[Mls(h, g).own] = OwnSeat(P, Mls(h, g)) /\ row[Mls(h, g).own] # Vacant
<1> DEFINE group == Mls(h, g)
           row == P[group.tip].seat
<1>1. group \in MlsGroups /\ Settled(P, home, fresh, keep, h, g, group, net) /\ fresh \in Nat
  BY OwnView, Sessions
<1>2. group # NoGroup /\ group.active /\ group.tip \in Nat /\ group.own \in Leaves
  BY <1>1, NoGroupAssumption DEF Operational, MlsGroups
<1> HIDE DEF group
<1>3. group.tip < fresh /\ group.tree = TreeOf(row) /\ OwnSeat(P, group) # Vacant
  BY <1>1, <1>2 DEF Settled, GroupSits
<1>4. row \in Rows
  BY <1>2, VacantFacts
<1>5. ASSUME NEW leaf \in Leaves PROVE row[leaf].id <= fresh
  <2>1. row[leaf].id < fresh
    BY <1>2, <1>3 DEF Descends, Bounded
  <2>2. row[leaf].id \in Nat
    BY <1>2, VacantFacts DEF KeyPackages, Vacant
  <2> QED BY <1>1, <2>1, <2>2
<1>6. row[group.own] = OwnSeat(P, group)
  BY DEF OwnSeat
<1> HIDE DEF row
<1>7. /\ row \in Rows /\ \A leaf \in Leaves : row[leaf].id <= fresh
      /\ group.tree = TreeOf(row) /\ group.own \in Leaves
      /\ row[group.own] = OwnSeat(P, group) /\ row[group.own] # Vacant
  BY <1>2, <1>3, <1>4, <1>5, <1>6
<1> QED BY <1>7 DEF group, row

LEMMA CommitsLineage ==
    ASSUME TypeInv, NEW P \in Pasts, NEW home \in Homes, NEW keep,
           Descends(P, home, fresh, keep), NEW h \in Handles, NEW g \in Groups,
           \/ \E key \in PublishedKeys : Invite(h, g, key)
           \/ \E client \in Clients : Remove(h, g, client)
           \/ SelfUpdate(h, g)
    PROVE  LineageInv(keep)'
<1> DEFINE group == Mls(h, g)
           row == P[group.tip].seat
<1>1. HasGroup(backend[h], g) /\ Operational(group)
  BY DEF Invite, Remove, SelfUpdate, CanAdd, CanRemove
<1>2. /\ row \in Rows /\ \A leaf \in Leaves : row[leaf].id <= fresh
      /\ group.tree = TreeOf(row) /\ group.own \in Leaves
      /\ row[group.own] = OwnSeat(P, group) /\ row[group.own] # Vacant
  BY <1>1, OwnRow
<1>3. fresh \in Nat
  BY Sessions
<1> HIDE DEF row
<1>4. ASSUME NEW new \in Rows, \A leaf \in Leaves : new[leaf].id <= fresh,
             Keeps(row, new), new[group.own] = row[group.own],
             NEW welcomes \in SUBSET WelcomeMsgs,
             \A w \in welcomes : /\ w.id = fresh /\ w.group = g
                                 /\ w.tree = TreeOf(new) /\ new[w.leaf] = w.key,
             NEW rg, StageCommit(h, g, rg, TreeOf(new), welcomes)
      PROVE  LineageInv(keep)'
  <2>1. Keeps(P[group.tip].seat, new) /\ new[group.own] = OwnSeat(P, group)
    BY <1>2, <1>4 DEF row
  <2> QED BY <1>1, <1>4, <2>1, StageLineage
<1>5. ASSUME NEW key \in PublishedKeys, Invite(h, g, key) PROVE LineageInv(keep)'
  <2>1. key \in KeyPackages /\ key.id \in Nat /\ key.id < fresh
    <3>1. PICK m \in Arrived("keypackage") : key = m.key
      BY DEF PublishedKeys
    <3>2. m.kind = "keypackage" /\ MessageSits(P, fresh, m)
      BY DEF Arrived, Descends
    <3>3. key \in KeyPackages
      BY ArrivedTypes
    <3> QED BY <3>1, <3>2, <3>3 DEF MessageSits, KeyPackages
  <2>2. PICK leaf \in Leaves, index \in Indices :
          /\ LeftmostFree(group.tree, leaf)
          /\ \E rg : StageCommit(h, g, rg, WithLeaf(group.tree, leaf, key.owner),
                       {[kind |-> "welcome", group |-> g, key |-> key, id |-> fresh,
                         epoch |-> group.epoch + 1, leaf |-> leaf,
                         tree |-> WithLeaf(group.tree, leaf, key.owner)]})
    BY <1>5 DEF Invite
  <2> DEFINE new == [row EXCEPT ![leaf] = key]
             welcome == [kind |-> "welcome", group |-> g, key |-> key, id |-> fresh,
                         epoch |-> group.epoch + 1, leaf |-> leaf, tree |-> TreeOf(new)]
  <2>3. row[leaf] = Vacant
    BY <1>2, <2>2, SeatsAndTrees DEF LeftmostFree
  <2>4. new \in Rows /\ TreeOf(new) = WithLeaf(group.tree, leaf, key.owner) /\ Keeps(row, new)
    BY <1>2, <2>1, <2>3, KeySeated
  <2>5. /\ new[leaf] = key /\ new[group.own] = row[group.own]
        /\ \A other \in Leaves : new[other].id <= fresh
    <3>1. leaf # group.own
      BY <1>2, <2>3
    <3>2. new[leaf] = key /\ \A other \in Leaves \ {leaf} : new[other] = row[other]
      BY <1>2 DEF Rows
    <3> HIDE DEF new
    <3> QED BY <1>2, <1>3, <2>1, <3>1, <3>2
  <2>6. TreeOf(new) \in Trees /\ group.epoch + 1 \in Nat
    <3>1. group \in MlsGroups
      BY <1>1, Read
    <3>2. group.epoch + 1 \in Nat
      BY <3>1 DEF MlsGroups
    <3> QED BY <2>4, <3>2, LeafIndex, SeatsAndTrees
  <2> HIDE DEF new
  <2>7. welcome \in WelcomeMsgs
    BY <1>3, <2>1, <2>6 DEF WelcomeMsgs
  <2>8. \A w \in {welcome} : /\ w.id = fresh /\ w.group = g
                             /\ w.tree = TreeOf(new) /\ new[w.leaf] = w.key
    BY <2>5
  <2>9. PICK rg : StageCommit(h, g, rg, TreeOf(new), {welcome})
    BY <2>2, <2>4
  <2>10. {welcome} \in SUBSET WelcomeMsgs
    BY <2>7
  <2> HIDE DEF welcome
  <2> QED BY <1>4, <2>4, <2>5, <2>8, <2>9, <2>10
<1>6. ASSUME NEW client \in Clients, Remove(h, g, client) PROVE LineageInv(keep)'
  <2>1. PICK entry \in Runtime(h, g).memberMap :
          /\ CanRemove(group, entry[1])
          /\ \E rg : StageCommit(h, g, rg, WithoutLeaf(group.tree, entry[1]), {})
    BY <1>6 DEF Remove
  <2> DEFINE new == [row EXCEPT ![entry[1]] = Vacant]
  <2>2. entry[1] \in Leaves /\ entry[1] # group.own
    <3>1. PICK other \in Clients : <<entry[1], other>> \in group.tree
      BY <2>1 DEF CanRemove, IsFree
    <3> QED BY <1>2, <2>1, <3>1 DEF TreeOf, CanRemove
  <2>3. new \in Rows /\ TreeOf(new) = WithoutLeaf(group.tree, entry[1]) /\ Keeps(row, new)
    BY <1>2, <2>2, SeatsAndTrees
  <2>4. /\ new[group.own] = row[group.own]
        /\ \A other \in Leaves : new[other].id <= fresh
    <3>1. new[entry[1]] = Vacant /\ \A other \in Leaves \ {entry[1]} : new[other] = row[other]
      BY <1>2, <2>2 DEF Rows
    <3> HIDE DEF new
    <3> QED BY <1>2, <1>3, <2>2, <3>1 DEF Vacant
  <2>5. PICK rg : StageCommit(h, g, rg, TreeOf(new), {})
    BY <2>1, <2>3
  <2> HIDE DEF new
  <2> QED BY <1>4, <2>3, <2>4, <2>5
<1>7. CASE SelfUpdate(h, g)
  <2>1. PICK rg : StageCommit(h, g, rg, group.tree, {})
    BY <1>7 DEF SelfUpdate
  <2>2. Keeps(row, row)
    BY DEF Keeps
  <2>3. StageCommit(h, g, rg, TreeOf(row), {})
    BY <1>2, <2>1
  <2> QED BY <1>2, <1>4, <2>2, <2>3
<1> QED BY <1>5, <1>6, <1>7

\* A call that seats the handle in a group, sending nothing.
LEMMA BeginsLineage ==
    ASSUME TypeInv, NEW P \in Pasts, NEW home \in Homes, NEW keep,
           Descends(P, home, fresh', keep),
           NEW h \in Handles, NEW g \in Groups, NEW b, SetBackend(h, b),
           b.keys \subseteq backend[h].keys,
           \A k \in Groups \ {g} : b.groups[k] = backend[h].groups[k],
           NEW seat \in KeyPackages, Begins(P, fresh', g, b.groups[g], seat),
           home[seat] = h, seat \notin b.keys,
           h \in Persisting => \A m \in net : Sends(m) => SeatOf(P, m) # seat,
           ReturnNothing, UNCHANGED disk
    PROVE  LineageInv(keep)'
<1>1. seat # Vacant
  BY VacantFacts
<1>2. Settled(P, home, fresh', keep, h, g, b.groups[g], net)
  BY <1>1, SettledBegins
<1>3. \A key \in b.keys : OwnSeat(P, b.groups[g]) # key
  BY DEF Begins
<1>4. View(P, home, fresh', keep, h, backend[h], net)
  BY DEF Descends
<1>5. View(P, home, fresh', keep, h, b, net)
  <2>1. \A m \in net \ net : FromCopy(P, g, backend[h].groups[g], m)
    OBVIOUS
  <2> QED BY <1>2, <1>3, <1>4, <2>1, ViewGroup
<1>6. net' = net /\ unsaved' = unsaved
  BY DEF ReturnNothing
<1> QED BY <1>5, <1>6, LineageFrame

\* What was sent was sent from a commit that has its number.
LEMMA SentBelow ==
    ASSUME TypeInv, NEW P \in Pasts, NEW home, NEW keep, Descends(P, home, fresh, keep),
           NEW m \in net, Sends(m)
    PROVE  m.on \in Nat /\ m.leaf \in Leaves /\ m.on < fresh
<1>1. m \in Messages /\ MessageSits(P, fresh, m) /\ fresh \in Nat
  BY DEF TypeInv, NetOK, FreshOK, Descends
<1>2. m.on \in Nat /\ m.leaf \in Leaves /\ m.id \in Nat
  BY <1>1, MessageTypes
<1> QED BY <1>1, <1>2 DEF Sends, MessageSits, Leads

\* The founder of a group sits at its first leaf, as a key package of its own would.
LEMMA CreateGroupLineage ==
    ASSUME TypeInv, NEW P \in Pasts, NEW home \in Homes, NEW keep,
           Descends(P, home, fresh, keep), NEW h \in Handles, NEW g \in Groups,
           CreateGroup(h, g)
    PROVE  LineageInv(keep)'
<1> DEFINE b == backend[h]
           seat == [id |-> fresh, owner |-> b.signer]
           row == [leaf \in Leaves |-> IF leaf = 0 THEN seat ELSE Vacant]
           house == [home EXCEPT ![seat] = h]
           c == Written(b, g, NewGroup(b.signer, fresh))
<1>1. /\ fresh \in Nat /\ b \in Backends /\ b.signer \in Clients
  BY Sessions DEF CreateGroup, HasSigner, Backends
<1>2. /\ SetBackend(h, c) /\ fresh' = fresh + 1 /\ ReturnNothing /\ UNCHANGED disk
  BY DEF CreateGroup, Mint
<1>3. seat \in KeyPackages /\ seat.id = fresh /\ seat.owner = b.signer
  BY <1>1 DEF KeyPackages
<1> HIDE DEF seat
<1>4. row \in Rows /\ row[0] = seat /\ \A leaf \in Leaves : row[leaf].id <= fresh
  BY <1>1, <1>3, LeafIndex DEF Rows, Vacant
<1>5. /\ house \in Homes /\ house[seat] = h
      /\ \A other \in KeyPackages : other.id < fresh => house[other] = home[other]
  BY <1>1, <1>3 DEF Homes
<1> HIDE DEF house
<1>6. TreeOf(row) = {<<0, b.signer>>}
  <2>1. ASSUME NEW entry \in Leaves \X Clients
        PROVE  entry \in TreeOf(row) <=> entry = <<0, b.signer>>
    BY <1>3, NoClientAssumption DEF TreeOf, Vacant
  <2>2. TreeOf(row) \subseteq Leaves \X Clients /\ <<0, b.signer>> \in Leaves \X Clients
    BY <1>1, LeafIndex DEF TreeOf
  <2> QED BY <2>1, <2>2
<1> HIDE DEF row
<1>7. PICK Q \in Pasts : /\ Q[fresh] = [group |-> g, seat |-> row]
                         /\ \A i \in Nat : i < fresh => Q[i] = P[i]
                         /\ Descends(Q, house, fresh + 1, keep)
  BY <1>4, <1>5, GroupsAssumption, RowAdded
<1>8. Descends(Q, house, fresh', keep) /\ fresh < fresh' /\ fresh' \in Nat
  BY <1>1, <1>2, <1>7
<1>9. Q[fresh].group = g /\ Q[fresh].seat = row
  BY <1>7
<1>10. seat \notin b.keys
  <2>1. ASSUME NEW key \in b.keys PROVE key.id < fresh
    BY DEF Descends, View, KeyWaits
  <2> QED BY <1>1, <1>3, <2>1
<1>11. ASSUME NEW m \in net, Sends(m) PROVE SeatOf(Q, m) # seat
  <2>1. m.on \in Nat /\ m.leaf \in Leaves /\ m.on < fresh
    BY <1>11, SentBelow
  <2>2. Q[m.on].seat[m.leaf] = P[m.on].seat[m.leaf] /\ P[m.on].seat[m.leaf].id < fresh
    BY <1>7, <2>1 DEF Descends, Bounded
  <2> QED BY <1>1, <1>3, <2>2 DEF SeatOf
<1>12. OneGroup(b, c, g) /\ Begins(Q, fresh', g, c.groups[g], seat)
  <2> DEFINE group == NewGroup(b.signer, fresh)
  <2>1. Begins(Q, fresh', g, group, seat)
    BY <1>3, <1>4, <1>6, <1>8, <1>9 DEF NewGroup, MemberAt, Begins, OwnSeat
  <2> HIDE DEF group
  <2>2. OneGroup(b, Written(b, g, group), g) /\ Written(b, g, group).groups[g] = group
    BY <1>1, OneGroupChanged
  <2> QED BY <2>1, <2>2 DEF group
<1> HIDE DEF c
<1>13. /\ c.keys \subseteq b.keys /\ seat \notin c.keys
       /\ \A k \in Groups \ {g} : c.groups[k] = b.groups[k]
  BY <1>10, <1>12 DEF OneGroup
<1> QED BY <1>2, <1>3, <1>5, <1>8, <1>11, <1>12, <1>13, BeginsLineage

\* A join takes the seat of the key package it spends.
LEMMA JoinLineage ==
    ASSUME TypeInv, NEW P \in Pasts, NEW home \in Homes, NEW keep,
           Descends(P, home, fresh, keep), NEW h \in Handles, NEW m \in Arrived("welcome"),
           JoinFromWelcome(h, m) \/ JoinRefused(h, m)
    PROVE  LineageInv(keep)'
<1> DEFINE b == backend[h]
           c == WithoutKey(b, m.key)
           group == MemberAt(m.key.owner, m.leaf, m.id, m.epoch, m.tree)
<1>1. m \in WelcomeMsgs /\ m.kind = "welcome" /\ MessageSits(P, fresh, m)
  BY ArrivedTypes DEF Arrived, Descends
<1>2. /\ m.id < fresh /\ P[m.id].group = m.group /\ P[m.id].seat[m.leaf] = m.key
      /\ m.tree = TreeOf(P[m.id].seat) /\ m.group \in Groups /\ m.key \in KeyPackages
  BY <1>1 DEF MessageSits, WelcomeMsgs
<1>3. /\ m.key \in b.keys /\ UNCHANGED <<disk, fresh>> /\ ReturnNothing
  BY DEF JoinFromWelcome, JoinRefused
<1>4. fresh \in Nat /\ b \in Backends
  BY Sessions
<1>5. /\ KeyWaits(P, home, fresh, h, b.groups, net, m.key)
      /\ View(P, home, fresh, keep, h, b, net)
  BY <1>3 DEF Descends, View
<1>6. c \in Backends /\ c.groups = b.groups /\ c.keys = b.keys \ {m.key}
  BY <1>4 DEF WithoutKey, Backends
<1>7. CASE JoinFromWelcome(h, m)
  <2> DEFINE d == Written(c, m.group, group)
  <2>1. SetBackend(h, d)
    BY <1>7 DEF JoinFromWelcome
  <2> HIDE DEF c, group
  <2>2. OneGroup(c, d, m.group) /\ d.groups[m.group] = group
    BY <1>2, <1>6, OneGroupChanged
  <2> HIDE DEF d
  <2>3. Begins(P, fresh', m.group, d.groups[m.group], m.key)
    BY <1>2, <1>3, <2>2 DEF group, MemberAt, Begins, OwnSeat
  <2>4. /\ d.keys \subseteq b.keys /\ m.key \notin d.keys
        /\ \A k \in Groups \ {m.group} : d.groups[k] = b.groups[k]
    BY <1>6, <2>2 DEF OneGroup
  <2>5. /\ home[m.key] = h
        /\ h \in Persisting => \A other \in net : Sends(other) => SeatOf(P, other) # m.key
    BY <1>5 DEF KeyWaits
  <2>6. Descends(P, home, fresh', keep)
    BY <1>3
  <2> QED BY <1>2, <1>3, <2>1, <2>3, <2>4, <2>5, <2>6, BeginsLineage
<1>8. CASE JoinRefused(h, m)
  <2>1. SetBackend(h, c) /\ net' = net
    BY <1>3, <1>8 DEF JoinRefused, ReturnNothing
  <2> HIDE DEF c
  <2>2. View(P, home, fresh, keep, h, c, net')
    BY <1>5, <1>6, <2>1, ViewEmpty
  <2> QED BY <1>3, <2>1, <2>2, LineageQuiet
<1> QED BY <1>7, <1>8

\* A new identity, or none, and marks on the key packages.
LEMMA IdentityLineage ==
    ASSUME TypeInv, NEW P \in Pasts, NEW home \in Homes, NEW keep,
           Descends(P, home, fresh, keep), NEW h \in Handles,
           \/ \E client \in Accounts[h] : CreateClient(h, client)
           \/ CreateClientBadKey(h)
           \/ \E bundle \in SUBSET PublishedKeys : MarkKeyPackagesUploaded(h, bundle)
    PROVE  LineageInv(keep)'
<1>1. net' = net /\ ReturnNothing /\ UNCHANGED <<disk, fresh>>
  BY DEF CreateClient, CreateClientBadKey, MarkKeyPackagesUploaded, ReturnNothing
<1>2. CASE (\E client \in Accounts[h] : CreateClient(h, client)) \/ CreateClientBadKey(h)
  <2>1. PICK b : SetBackend(h, b) /\ b.groups = NoGroups /\ b.keys = {}
    <3>1. /\ ResetBackend.groups = NoGroups /\ ResetBackend.keys = {}
          /\ \A client : /\ ConfiguredBackend(client).groups = NoGroups
                         /\ ConfiguredBackend(client).keys = {}
      BY DEF ConfiguredBackend, ResetBackend
    <3> QED BY <1>2, <3>1 DEF CreateClient, CreateClientBadKey
  <2>2. View(P, home, fresh, keep, h, b, net')
    BY <2>1, ViewEmpty
  <2> QED BY <1>1, <2>1, <2>2, LineageQuiet
<1>3. CASE \E bundle \in SUBSET PublishedKeys : MarkKeyPackagesUploaded(h, bundle)
  <2>1. SetBackend(h, backend[h])
    BY <1>3 DEF MarkKeyPackagesUploaded, SetBackend, TypeInv, BackendOK
  <2>2. View(P, home, fresh, keep, h, backend[h], net')
    BY <1>1 DEF Descends
  <2> QED BY <1>1, <2>1, <2>2, LineageQuiet
<1> QED BY <1>2, <1>3

\* Key packages take numbers, and their homes are the handle.
LEMMA KeyPackagesLineage ==
    ASSUME TypeInv, NEW P \in Pasts, NEW home \in Homes, NEW keep,
           Descends(P, home, fresh, keep), NEW h \in Handles, NEW count \in 1 .. 2,
           CreateKeyPackages(h, count)
    PROVE  LineageInv(keep)'
<1> DEFINE b == backend[h]
           made == {[id |-> n, owner |-> b.signer] : n \in fresh .. fresh + count - 1}
           sent == {[kind |-> "keypackage", key |-> key] : key \in made}
           c == WithKeys(b, made)
           Q == [i \in Nat |-> IF i < fresh THEN P[i]
                               ELSE [group |-> 0, seat |-> [leaf \in Leaves |-> Vacant]]]
           house == [key \in KeyPackages |-> IF key \in made THEN h ELSE home[key]]
<1>1. /\ SetBackend(h, c) /\ Return(h, sent) /\ UNCHANGED disk /\ fresh' = fresh + count
  BY DEF CreateKeyPackages, Mint
<1>2. /\ fresh \in Nat /\ fresh' \in Nat /\ fresh <= fresh'
      /\ b \in Backends /\ b.signer \in Clients /\ net \in SUBSET Messages
  BY <1>1, Sessions DEF CreateKeyPackages, HasSigner, Backends
<1>3. /\ \A key \in made : key \in KeyPackages /\ fresh <= key.id /\ key.id < fresh'
      /\ \A m \in sent : m.kind = "keypackage" /\ m.key \in made
  BY <1>1, <1>2 DEF KeyPackages
<1> HIDE DEF made, sent
<1>4. /\ house \in Homes /\ \A key \in made : house[key] = h
      /\ \A seat \in KeyPackages : seat.id < fresh => house[seat] = home[seat]
  <2>1. house \in Homes
    BY DEF Homes
  <2>2. ASSUME NEW seat \in KeyPackages, seat.id < fresh PROVE house[seat] = home[seat]
    <3>1. seat \notin made
      <4>1. seat.id \in Nat
        BY DEF KeyPackages
      <4> QED BY <1>2, <1>3, <2>2, <4>1
    <3> QED BY <3>1
  <2> QED BY <1>3, <2>1, <2>2
<1>5. Q \in Pasts /\ \A i \in Nat : i < fresh => Q[i] = P[i]
  BY DEF Pasts, Rows
<1>6. Bounded(P, fresh)
  BY DEF Descends
<1>7. Bounded(Q, fresh')
  <2> SUFFICES ASSUME NEW i \in Nat, NEW leaf \in Leaves, i < fresh'
               PROVE  Q[i].seat[leaf].id < fresh'
    BY DEF Bounded
  <2>1. CASE i < fresh
    <3>1. Q[i].seat[leaf] = P[i].seat[leaf] /\ P[i].seat[leaf].id < fresh
      BY <1>5, <1>6, <2>1 DEF Bounded
    <3>2. P[i].seat[leaf].id \in Nat
      BY VacantFacts DEF KeyPackages, Vacant
    <3> QED BY <1>2, <3>1, <3>2
  <2>2. CASE ~ i < fresh
    <3>1. Q[i].seat[leaf] = Vacant
      BY <2>2
    <3> HIDE DEF Q
    <3> QED BY <1>1, <1>2, <3>1 DEF Vacant
  <2> QED BY <2>1, <2>2
<1> HIDE DEF Q, house
<1>8. Grown(P, home, fresh, Q, house, fresh')
  BY <1>2, <1>4, <1>5, <1>6, <1>7 DEF Grown
<1>9. Descends(Q, house, fresh', keep)
  BY <1>2, <1>4, <1>5, <1>8, PastGrows
<1>10. c.groups = b.groups /\ c.keys = b.keys \cup made
  BY <1>2 DEF WithKeys, Backends
<1> HIDE DEF c
<1>11. net' = net \cup sent /\ \A m \in sent : ~ Sends(m) /\ MessageSits(Q, fresh', m)
  BY <1>1, <1>3 DEF Return, Sends, MessageSits
<1>12. View(Q, house, fresh', keep, h, b, net')
  <2>1. View(Q, house, fresh', keep, h, b, net)
    BY <1>9 DEF Descends
  <2> QED BY <1>11, <2>1, ViewKept
<1>13. ASSUME NEW key \in made PROVE KeyWaits(Q, house, fresh', h, b.groups, net', key)
  <2>1. fresh <= key.id /\ key.id \in Nat /\ key.id < fresh' /\ house[key] = h
    BY <1>3, <1>4 DEF KeyPackages
  <2>2. ASSUME NEW g \in Groups, b.groups[g] # NoGroup PROVE OwnSeat(Q, b.groups[g]) # key
    <3>1. b.groups[g] \in MlsGroups /\ b.groups[g].tip < fresh
      BY <1>2, <2>2 DEF Descends, View, Settled, GroupSits, Backends, MaybeMlsGroups
    <3>2. b.groups[g].tip \in Nat /\ b.groups[g].own \in Leaves
      BY <3>1 DEF MlsGroups
    <3>3. Q[b.groups[g].tip] = P[b.groups[g].tip]
      BY <1>5, <3>1, <3>2
    <3>4. OwnSeat(Q, b.groups[g]).id < fresh
      BY <1>6, <3>1, <3>2, <3>3 DEF OwnSeat, Bounded
    <3> QED BY <1>2, <2>1, <3>4
  <2>3. ASSUME NEW m \in net', Sends(m) PROVE SeatOf(Q, m) # key
    <3>1. m \in net
      BY <1>11, <2>3
    <3>2. m.on \in Nat /\ m.leaf \in Leaves /\ m.on < fresh
      BY <2>3, <3>1, SentBelow
    <3>3. SeatOf(Q, m).id < fresh
      BY <1>5, <1>6, <3>2 DEF SeatOf, Bounded
    <3> QED BY <1>2, <2>1, <3>3
  <2> QED BY <2>1, <2>2, <2>3 DEF KeyWaits
<1>14. View(Q, house, fresh', keep, h, c, net')
  BY <1>10, <1>12, <1>13 DEF View
<1>15. /\ \A k \in Handles \ {h} : unsaved'[k] = unsaved[k]
       /\ h \in Persisting => net' \ unsaved'[h] \subseteq net \ unsaved[h]
  BY <1>1 DEF Return, TypeInv, NetOK
<1> QED BY <1>1, <1>4, <1>5, <1>9, <1>11, <1>14, <1>15, LineageFrame

\* The blob of an export loads what the session has, with nothing left to transmit.
LEMMA ExportedView ==
    ASSUME TypeInv, LayersInv, NEW P \in Pasts, NEW home \in Homes, NEW keep,
           Descends(P, home, fresh, keep), NEW h \in Handles
    PROVE  View(P, home, fresh, keep, h,
                Loaded(state[h].identity, Dump(backend[h]), KnownGroups(state[h])), net)
<1> DEFINE b == backend[h]
           loaded == Loaded(state[h].identity, Dump(b), KnownGroups(state[h]))
<1>1. View(P, home, fresh, keep, h, b, net)
  BY DEF Descends
<1>2. /\ loaded.keys = b.keys
      /\ \A g \in Groups : loaded.groups[g] = IF Known(state[h], g) THEN b.stored[g] ELSE NoGroup
  BY DEF Loaded, Dump, KnownGroups
<1> HIDE DEF loaded
<1>3. ASSUME NEW g \in Groups, loaded.groups[g] # NoGroup
      PROVE  /\ b.groups[g] # NoGroup
             /\ Settled(P, home, fresh, keep, h, g, loaded.groups[g], net)
             /\ OwnSeat(P, loaded.groups[g]) = OwnSeat(P, b.groups[g])
             /\ loaded.groups[g].active = b.groups[g].active
  <2>1. loaded.groups[g] = b.stored[g] /\ Known(state[h], g)
    BY <1>2, <1>3
  <2>2. HasGroup(b, g)
    BY <2>1 DEF LayersInv, InStep, GroupInStep, Known, HasGroup
  <2>3. /\ b.groups[g] \in MlsGroups /\ b.stored[g] \in MlsGroups
        /\ [b.stored[g] EXCEPT !.seen = {}] = [b.groups[g] EXCEPT !.seen = {}]
    BY <2>2, InStepFacts DEF Mls
  <2>4. Settled(P, home, fresh, keep, h, g, b.groups[g], net)
    BY <1>1 DEF View
  <2> HIDE DEF b
  <2>5. /\ Settled(P, home, fresh, keep, h, g, b.stored[g], net)
        /\ OwnSeat(P, b.stored[g]) = OwnSeat(P, b.groups[g])
        /\ b.stored[g].active = b.groups[g].active
    BY <2>3, <2>4, SettledMirrors
  <2> QED BY <2>1, <2>2, <2>5 DEF HasGroup
<1>4. ASSUME NEW g \in Groups PROVE Settled(P, home, fresh, keep, h, g, loaded.groups[g], net)
  BY <1>3 DEF Settled, GroupSits, Covers
<1>5. ASSUME NEW key \in loaded.keys
      PROVE  KeyWaits(P, home, fresh, h, loaded.groups, net, key)
  <2>1. KeyWaits(P, home, fresh, h, b.groups, net, key)
    BY <1>1, <1>2 DEF View
  <2>2. \A g \in Groups : loaded.groups[g] # NoGroup /\ loaded.groups[g].active =>
          OwnSeat(P, loaded.groups[g]) # key
    BY <1>3, <2>1 DEF KeyWaits
  <2> QED BY <2>1, <2>2 DEF KeyWaits
<1>6. View(P, home, fresh, keep, h, loaded, net)
  BY <1>4, <1>5 DEF View
<1> QED BY <1>6 DEF loaded

LEMMA PersistenceLineage ==
    ASSUME TypeInv, LayersInv, NEW P \in Pasts, NEW home \in Homes, NEW keep,
           Descends(P, home, fresh, keep), NEW h \in Handles,
           Persistence(h) \/ RestoreWithoutDump(h)
    PROVE  LineageInv(keep)'
<1>1. CASE ExportClientState(h)
  <2>1. /\ disk' = [disk EXCEPT ![h] = Exported(state[h], backend[h])]
        /\ unsaved' = [unsaved EXCEPT ![h] = {}]
        /\ UNCHANGED <<state, backend, net, fresh>>
    BY <1>1 DEF ExportClientState
  <2>2. ASSUME NEW k \in Handles, disk'[k] # NoSnap
        PROVE  View(P, home, fresh, keep, k, BlobLoaded(k)', net \ unsaved'[k])
    <3>1. CASE k = h
      <4>1. disk'[h].runtime = state[h] /\ disk'[h].dump = Dump(backend[h])
        BY <2>1 DEF Exported, TypeInv, DiskOK
      <4>2. BlobLoaded(h)' = Loaded(state[h].identity, Dump(backend[h]), KnownGroups(state[h]))
        BY <4>1 DEF BlobLoaded, SavedGroups, Saved
      <4>3. net \ unsaved'[h] = net
        BY <2>1 DEF TypeInv, NetOK
      <4> QED BY <3>1, <4>2, <4>3, ExportedView
    <3>2. CASE k # h
      <4>1. disk'[k] = disk[k] /\ unsaved'[k] = unsaved[k]
        BY <2>1, <3>2 DEF TypeInv, DiskOK, NetOK
      <4> QED BY <2>2, <4>1 DEF Descends, BlobLoaded, SavedGroups, Saved
    <3> QED BY <3>1, <3>2
  <2>3. Descends(P, home, fresh, keep)'
    BY <2>1, <2>2 DEF Descends
  <2> QED BY <2>3 DEF LineageInv
<1>2. CASE NewHandle(h)
  <2>1. SetBackend(h, ResetBackend) /\ LoseSession(h) /\ UNCHANGED <<disk, fresh>>
    BY <1>2 DEF NewHandle
  <2>2. View(P, home, fresh, keep, h, ResetBackend, net')
    BY ViewEmpty DEF ResetBackend
  <2> QED BY <2>1, <2>2, LineageQuiet
<1>3. CASE RestoreClient(h)
  <2>1. /\ SetBackend(h, BlobLoaded(h)) /\ LoseSession(h) /\ UNCHANGED <<disk, fresh>>
        /\ disk[h] # NoSnap
    BY <1>3 DEF RestoreClient, BlobLoaded
  <2>2. View(P, home, fresh, keep, h, BlobLoaded(h), net')
    BY <2>1 DEF Descends, LoseSession
  <2> QED BY <2>1, <2>2, LineageQuiet
<1>4. CASE RestoreWithoutDump(h)
  <2>1. SetBackend(h, Reconfigured(h)) /\ LoseSession(h) /\ UNCHANGED <<disk, fresh>>
    BY <1>4 DEF RestoreWithoutDump
  <2>2. Reconfigured(h).keys = {} /\ Reconfigured(h).groups = NoGroups
    BY DEF Reconfigured, ConfiguredBackend, ResetBackend
  <2>3. View(P, home, fresh, keep, h, Reconfigured(h), net')
    BY <2>2, ViewEmpty
  <2> QED BY <2>1, <2>3, LineageQuiet
<1> QED BY <1>1, <1>2, <1>3, <1>4 DEF Persistence
-----------------------------------------------------------------------------
(* The invariant. *)

LEMMA InitLineage == ASSUME NEW keep PROVE Init => LineageInv(keep)
<1> SUFFICES ASSUME Init PROVE LineageInv(keep)
  OBVIOUS
<1> DEFINE P == [i \in Nat |-> [group |-> 0, seat |-> [leaf \in Leaves |-> Vacant]]]
           home == [key \in KeyPackages |-> NoClient]
<1>1. P \in Pasts /\ home \in Homes
  BY DEF Pasts, Homes, Rows
<1> HIDE DEF P, home
<1>2. Bounded(P, fresh)
  BY DEF Init, Bounded
<1>3. \A h \in Handles : View(P, home, fresh, keep, h, backend[h], net)
  BY ViewEmpty DEF Init, ResetBackend
<1>4. Descends(P, home, fresh, keep)
  BY <1>2, <1>3 DEF Init, Descends
<1> QED BY <1>1, <1>4 DEF LineageInv

LEMMA StepLineage ==
    ASSUME NEW keep, TypeInv, LayersInv, LineageInv(keep), [CleanNext]_vars,
           keep => [KeepingNext]_vars
    PROVE  LineageInv(keep)'
<1>1. PICK P \in Pasts, home \in Homes : Descends(P, home, fresh, keep)
  BY DEF LineageInv
<1>2. /\ \A m \in Arrived("commit") : m.group \in Groups
      /\ \A m \in Arrived("application") : m.group \in Groups
  BY ArrivedTypes DEF CommitMsgs, ApplicationMsgs
<1>3. ASSUME NEW h \in Handles, Setup(h) PROVE LineageInv(keep)'
  BY <1>1, <1>3, IdentityLineage, KeyPackagesLineage DEF Setup
<1>4. ASSUME NEW h \in Handles, Lifecycle(h) PROVE LineageInv(keep)'
  BY <1>1, <1>2, <1>4, CreateGroupLineage, CommitsLineage, ChangesLineage, JoinLineage DEF Lifecycle
<1>5. ASSUME NEW h \in Handles, Messaging(h) PROVE LineageInv(keep)'
  BY <1>1, <1>2, <1>5, EncryptLineage, ChangesLineage DEF Messaging
<1>6. ASSUME NEW h \in Handles, Persistence(h) \/ RestoreWithoutDump(h) PROVE LineageInv(keep)'
  BY <1>1, <1>6, PersistenceLineage
<1>7. ASSUME NEW h \in Handles, NEW g \in Groups, DropGroup(h, g) PROVE LineageInv(keep)'
  BY <1>1, <1>7, ChangesLineage
<1>8. ASSUME NEW h \in Handles, NEW g \in Groups, ~ keep, ClearPendingCommit(h, g)
      PROVE  LineageInv(keep)'
  BY <1>1, <1>8, ChangesLineage
<1>9. CASE UNCHANGED vars
  <2>1. Descends(P, home, fresh, keep)'
    BY <1>1, <1>9 DEF vars, Descends, BlobLoaded, SavedGroups, Saved
  <2> QED BY <2>1 DEF LineageInv
<1>10. CASE keep /\ KeepingNext
  BY <1>3, <1>4, <1>5, <1>6, <1>7, <1>10 DEF KeepingNext, KeepingStep
<1>11. CASE ~ keep /\ CleanNext
  BY <1>3, <1>4, <1>5, <1>6, <1>7, <1>8, <1>11 DEF CleanNext, CleanStep, Recovery
<1> QED BY <1>9, <1>10, <1>11

LEMMA KeepingIsClean == [KeepingNext]_vars => [CleanNext]_vars
BY DEF KeepingNext, KeepingStep, CleanNext, CleanStep, Recovery

LEMMA LineageAlways ==
    /\ CleanSpec => [](TypeInv /\ LayersInv /\ LineageInv(FALSE))
    /\ KeepingSpec => [](TypeInv /\ LayersInv /\ LineageInv(TRUE))
<1>1. /\ Init => TypeInv /\ LayersInv
      /\ TypeInv /\ LayersInv /\ [CleanNext]_vars => (TypeInv /\ LayersInv)'
  <2>1. [CleanNext]_vars => [Next]_vars
    BY DEF CleanNext, Next
  <2> QED BY <2>1, InitTypes, InitInStep, StepTypes, StepInStep
<1>2. (Init => LineageInv(FALSE)) /\ (Init => LineageInv(TRUE))
  BY InitLineage
<1>3. /\ TypeInv /\ LayersInv /\ LineageInv(FALSE) /\ [CleanNext]_vars => LineageInv(FALSE)'
      /\ TypeInv /\ LayersInv /\ LineageInv(TRUE) /\ [KeepingNext]_vars => LineageInv(TRUE)'
  BY KeepingIsClean, StepLineage
<1>4. CleanSpec => [](TypeInv /\ LayersInv /\ LineageInv(FALSE))
  BY <1>1, <1>2, <1>3, PTL DEF CleanSpec
<1>5. KeepingSpec => [](TypeInv /\ LayersInv /\ LineageInv(TRUE))
  BY <1>1, <1>2, <1>3, KeepingIsClean, PTL DEF KeepingSpec
<1> QED BY <1>4, <1>5
-----------------------------------------------------------------------------
(* The theorems. *)

\* No call but encrypt_message sends an application message.
LEMMA OnlyEncryptSends ==
    ASSUME CleanNext, NEW m \in net', m.kind = "application", m \notin net
    PROVE  \E h \in Handles, g \in Groups : EncryptMessage(h, g)
<1>1. PICK h \in Handles : CleanStep(h)
  BY DEF CleanNext
<1>2. ASSUME NEW messages, \A other \in messages : other.kind # "application", Return(h, messages)
      PROVE  FALSE
  BY <1>2 DEF Return
<1>3. ~ ReturnNothing /\ ~ LoseSession(h) /\ net' # net
  BY DEF ReturnNothing, LoseSession
<1>4. ASSUME NEW g, NEW rg, NEW tree, StageCommit(h, g, rg, tree, {}) PROVE FALSE
  <2>1. \A other \in {CommitMsg(g, Mls(h, g), tree)} \cup {} : other.kind # "application"
    BY DEF CommitMsg
  <2> QED BY <1>2, <1>4, <2>1 DEF StageCommit
<1>5. ASSUME NEW g, NEW key, Invite(h, g, key) PROVE FALSE
  <2>1. PICK leaf, rg : leaf \in Leaves /\
          LET tree == WithLeaf(Mls(h, g).tree, leaf, key.owner)
              welcome == [kind |-> "welcome", group |-> g, key |-> key, id |-> fresh,
                          epoch |-> Mls(h, g).epoch + 1, leaf |-> leaf, tree |-> tree]
          IN StageCommit(h, g, rg, tree, {welcome})
    BY <1>5 DEF Invite
  <2> DEFINE tree == WithLeaf(Mls(h, g).tree, leaf, key.owner)
             welcome == [kind |-> "welcome", group |-> g, key |-> key, id |-> fresh,
                         epoch |-> Mls(h, g).epoch + 1, leaf |-> leaf, tree |-> tree]
  <2>2. \A other \in {CommitMsg(g, Mls(h, g), tree)} \cup {welcome} : other.kind # "application"
    BY DEF CommitMsg
  <2> HIDE DEF tree
  <2> QED BY <1>2, <2>1, <2>2 DEF StageCommit, tree
<1>6. ASSUME NEW count, CreateKeyPackages(h, count) PROVE FALSE
  <2>1. PICK made : Return(h, {[kind |-> "keypackage", key |-> key] : key \in made})
    BY <1>6 DEF CreateKeyPackages
  <2> QED BY <1>2, <2>1
<1>7. ~ Setup(h)
  BY <1>3, <1>6 DEF Setup, CreateClient, CreateClientBadKey, MarkKeyPackagesUploaded
<1>8. ~ Lifecycle(h)
  BY <1>3, <1>4, <1>5 DEF Lifecycle, CreateGroup, SelfUpdate, MergePendingCommit, Remove,
     JoinFromWelcome, JoinRefused, HandleCommit
<1>9. ~ Recovery(h) /\ ~ Persistence(h) /\ ~ RestoreWithoutDump(h)
  BY <1>3 DEF Recovery, ClearPendingCommit, DropGroup, Persistence, ExportClientState, NewHandle,
     RestoreClient, RestoreWithoutDump
<1>10. \A other : ~ HandleApplication(h, other)
  BY <1>3 DEF HandleApplication
<1> QED BY <1>1, <1>7, <1>8, <1>9, <1>10 DEF CleanStep, Messaging

LEMMA StepGenerations ==
    ASSUME Persisting = Handles, TypeInv, LineageInv(FALSE), GenerationsUnique, [CleanNext]_vars
    PROVE  GenerationsUnique'
<1>1. CASE \E h \in Handles, g \in Groups : EncryptMessage(h, g)
  <2>1. PICK h \in Handles, g \in Groups : EncryptMessage(h, g)
    BY <1>1
  <2>2. PICK P \in Pasts, home \in Homes : Descends(P, home, fresh, FALSE)
    BY DEF LineageInv
  <2> DEFINE group == Mls(h, g)
             m == [kind |-> "application", group |-> g, on |-> group.tip, id |-> fresh,
                   leaf |-> group.own, gen |-> group.gen]
  <2>3. HasGroup(backend[h], g) /\ group.active /\ net' = net \cup {m}
    BY <2>1 DEF EncryptMessage, Return
  <2>4. /\ group \in MlsGroups /\ group # NoGroup
        /\ Settled(P, home, fresh, FALSE, h, g, group, net)
    BY <2>2, <2>3, OwnView, NoGroupAssumption
  <2>5. m.on = group.tip /\ m.leaf = group.own /\ m.gen = group.gen
    OBVIOUS
  <2> HIDE DEF group, m
  <2>6. P[group.tip].group = g
    BY <2>3, <2>4 DEF Settled, GroupSits
  <2>7. ASSUME NEW other \in net, other.kind = "application", other.on = m.on,
               other.leaf = m.leaf, other.gen = m.gen
        PROVE  FALSE
    <3>1. Sends(other) /\ P[other.on].group = other.group
      BY <2>2, <2>7 DEF Sends, Descends, MessageSits
    <3>2. other.group = g /\ SeatOf(P, other) = OwnSeat(P, group)
      BY <2>5, <2>6, <2>7, <3>1 DEF SeatOf, OwnSeat
    <3>3. other.gen < group.gen
      BY <2>3, <2>4, <2>5, <2>7, <3>1, <3>2 DEF Settled, Covers
    <3> QED BY <2>4, <2>5, <2>7, <3>3 DEF MlsGroups
  <2>8. \A one, other \in net' :
          one.kind = "application" /\ other.kind = "application"
          /\ one.on = other.on /\ one.leaf = other.leaf /\ one.gen = other.gen => one = other
    BY <2>3, <2>7 DEF GenerationsUnique
  <2> QED BY <2>8 DEF GenerationsUnique
<1>2. CASE ~ \E h \in Handles, g \in Groups : EncryptMessage(h, g)
  <2>1. \A m \in net' : m.kind = "application" => m \in net
    BY <1>2, OnlyEncryptSends DEF vars
  <2> QED BY <2>1 DEF GenerationsUnique
<1> QED BY <1>1, <1>2

\* When every application exports before it transmits, no two messages ever carry the same
\* generation of the same sender's ratchet: neither a crash, nor a restore, nor a member
\* that leaves and comes back to the same leaf repeats one, so a receiver never takes a
\* new message for a replay.
THEOREM GenerationsUniqueCorrect ==
    ASSUME Persisting = Handles PROVE CleanSpec => []GenerationsUnique
<1>1. Init => GenerationsUnique
  BY DEF Init, GenerationsUnique
<1>2. TypeInv /\ LayersInv /\ LineageInv(FALSE) /\ GenerationsUnique /\ [CleanNext]_vars
        => GenerationsUnique'
  BY StepGenerations
<1> QED BY <1>1, <1>2, LineageAlways, PTL DEF CleanSpec

\* A member of a persisting application that is still at the epoch its own commit left,
\* the commit having reached the transport, holds that commit and can merge it, as long as
\* no call cleared a commit: a crash between the export and the transmission, or after
\* it, strands nobody.
THEOREM NotStrandedCorrect == KeepingSpec => []NotStranded
<1>1. TypeInv /\ LayersInv /\ LineageInv(TRUE) => NotStranded
  <2> SUFFICES ASSUME TypeInv, LayersInv, LineageInv(TRUE),
                      NEW h \in Persisting, NEW m \in Arrived("commit"),
                      HasGroup(backend[h], m.group), Mls(h, m.group).tip = m.on,
                      Mls(h, m.group).own = m.leaf
               PROVE  /\ Mls(h, m.group).pending = [id |-> m.id, tree |-> m.tree]
                      /\ Runtime(h, m.group).pending
    BY DEF NotStranded
  <2>1. PICK P \in Pasts, home \in Homes : Descends(P, home, fresh, TRUE)
    BY DEF LineageInv
  <2> DEFINE group == Mls(h, m.group)
  <2>2. h \in Handles /\ m \in CommitMsgs /\ m.group \in Groups /\ m \in net /\ m.kind = "commit"
    BY PersistingAssumption, ArrivedTypes DEF Arrived, CommitMsgs
  <2>3. /\ group \in MlsGroups /\ group # NoGroup
        /\ Settled(P, home, fresh, TRUE, h, m.group, group, net)
    BY <2>1, <2>2, OwnView, NoGroupAssumption
  <2>4. SeatOf(P, m) # Vacant /\ Sends(m)
    BY <2>1, <2>2 DEF Descends, MessageSits, Sends
  <2> HIDE DEF group
  <2>5. group.tip = m.on /\ group.own = m.leaf
    BY DEF group
  <2>6. SeatOf(P, m) = OwnSeat(P, group)
    BY <2>5 DEF SeatOf, OwnSeat
  <2>7. group.active
    BY <2>3, <2>4, <2>6 DEF Settled, GroupSits
  <2>8. group.pending = [id |-> m.id, tree |-> m.tree]
    BY <2>2, <2>3, <2>4, <2>5, <2>6, <2>7 DEF Settled, Covers
  <2>9. [id |-> m.id, tree |-> m.tree] # NoCommit
    BY <2>2, NoCommitAssumption DEF CommitMsgs, Commits
  <2> QED BY <2>2, <2>8, <2>9, InStepFacts DEF group
<1> QED BY <1>1, LineageAlways, PTL
=============================================================================
