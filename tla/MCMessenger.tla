------------------------------ MODULE MCMessenger ------------------------------
(***************************************************************************)
(* Instances of MessengerMls for TLC.  Handles are numbered; handle n      *)
(* belongs to the n-th client.                                             *)
(***************************************************************************)
EXTENDS MessengerProperties

CONSTANTS
    alice, bob, carol,
    KeysEach    \* key packages each handle has made before the behaviour starts

OneAccount == <<{alice}>>
TwoAccounts == <<{alice}, {bob}>>
ThreeAccounts == <<{alice}, {bob}, {carol}>>
SharedAccounts == <<{alice, bob}>>

Owner(h) == CHOOSE client \in Accounts[h] : TRUE
FirstKeys(h) == {[id |-> (h - 1) * KeysEach + n, owner |-> Owner(h)] : n \in 0 .. KeysEach - 1}

\* Every client created, its key packages made, exported and transmitted: where
\* create_client, create_key_packages, mark and export by each handle lead.
ReadyRuntime(h) ==
    [NewRuntimeState EXCEPT
        !.identity = Owner(h),
        !.counter = KeysEach,
        !.keyPackages = {[data |-> key, uploaded |-> TRUE, consumed |-> FALSE] : key \in FirstKeys(h)}]
ReadyBackend(h) == WithKeys(ConfiguredBackend(Owner(h)), FirstKeys(h))

ReadyInit ==
    /\ state = [h \in Handles |-> ReadyRuntime(h)]
    /\ backend = [h \in Handles |-> ReadyBackend(h)]
    /\ disk = [h \in Handles |-> Exported(ReadyRuntime(h), ReadyBackend(h))]
    /\ net = {[kind |-> "keypackage", key |-> key] : key \in UNION {FirstKeys(h) : h \in Handles}}
    /\ unsaved = [h \in Handles |-> {}]
    /\ fresh = KeysEach * Cardinality(Handles)

\* The protocol as README.md describes it, with recovery but without crashes.
ProtocolNext == \E h \in Handles : Lifecycle(h) \/ Messaging(h) \/ Recovery(h)
ProtocolSpec == ReadyInit /\ [][ProtocolNext]_vars

\* The documented lifecycle alone.
LifecycleSpec == ReadyInit /\ [][\E h \in Handles : Lifecycle(h)]_vars

\* The documented lifecycle, with crashes and restores.
CrashNext ==
    \E h \in Handles :
        \/ Lifecycle(h)
        \/ Messaging(h)
        \/ Persistence(h)
        \/ \E g \in Groups : DropGroup(h, g)
CrashSpec == ReadyInit /\ [][CrashNext]_vars

\* Handle 1 administers every group alone and clears no commit; the transport hands out
\* each key package once.
HandedOut == {m.key : m \in {m \in net : m.kind = "welcome"}}
AdminNext ==
    \/ \E g \in Groups, key \in PublishedKeys \ HandedOut : Invite(1, g, key)
    \/ \E g \in Groups, client \in Clients : Remove(1, g, client)
    \/ \E g \in Groups : \/ CreateGroup(1, g)
                         \/ SelfUpdate(1, g)
                         \/ MergePendingCommit(1, g)
\* The others join and follow: what the transport delivers, they take in.  A welcome that
\* is older than the copy it would replace is not delivered: joining is not guarded
\* against it, and a member that goes back is lost to the group.
Joins(h) == \E m \in Arrived("welcome") :
    /\ HasGroup(backend[h], m.group) => Mls(h, m.group).tip < m.id
    /\ JoinFromWelcome(h, m)
Follows(h) == \E m \in Arrived("commit") : HandleCommit(h, m)
Members == Handles \ {1}

\* The administrator merges what it committed, and every message is delivered in the end.
AdminFairness ==
    /\ \A g \in Groups : WF_vars(MergePendingCommit(1, g))
    /\ \A h \in Members : WF_vars(Joins(h)) /\ WF_vars(Follows(h))

AdminSpec ==
    /\ ReadyInit
    /\ [][AdminNext \/ \E h \in Members : Joins(h) \/ Follows(h)]_vars
    /\ AdminFairness

\* Handle 2 after a failed restore: its runtime knows group 2, its backend was
\* configured anew and has since made key packages.  Where create_client,
\* create_group, export, a restore of that blob without its dump, create_key_packages
\* and export lead.
DegradedRuntime ==
    [ReadyRuntime(2) EXCEPT !.groups[2] = NewRuntimeGroup(Owner(2))]

DegradedInit ==
    /\ state = [h \in Handles |-> IF h = 2 THEN DegradedRuntime ELSE ReadyRuntime(h)]
    /\ backend = [h \in Handles |-> ReadyBackend(h)]
    /\ disk = [h \in Handles |-> Exported(IF h = 2 THEN DegradedRuntime ELSE ReadyRuntime(h),
                                         ReadyBackend(h))]
    /\ net = {[kind |-> "keypackage", key |-> key] : key \in UNION {FirstKeys(h) : h \in Handles}}
    /\ unsaved = [h \in Handles |-> {}]
    /\ fresh = KeysEach * Cardinality(Handles)

DegradedNext ==
    \/ Lifecycle(1) \/ Messaging(1)
    \/ Lifecycle(2) \/ Messaging(2) \/ Persistence(2) \/ Failure(2)
    \/ CreateClient(2, Owner(2))
DegradedSpec == DegradedInit /\ [][DegradedNext]_vars

\* Restores that fail in an otherwise healthy session.
FailingNext == \E h \in Handles : Lifecycle(h) \/ Persistence(h) \/ Failure(h)
FailingSpec == ReadyInit /\ [][FailingNext]_vars
=============================================================================
