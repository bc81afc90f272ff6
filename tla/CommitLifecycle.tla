---------------------------- MODULE CommitLifecycle ----------------------------
(***************************************************************************)
(* What the service promises about the epochs of its groups, without its   *)
(* layers, trees, rosters and storage: each handle holds a copy of each    *)
(* group and the key packages by which it can be invited, and calls return *)
(* commits and invitations.                                                *)
(*                                                                         *)
(* README.md, "Lifecycle pending commit": an own commit is staged, then    *)
(* merged after delivery, or dropped; another member's commit discards it. *)
(* A copy enters a group where it makes it, or where an invitation to one  *)
(* of its key packages says.  Nothing guards that against an invitation    *)
(* older than the copy it replaces, but each key package serves once.      *)
(* Export and restore bring back exactly the copies and key packages that  *)
(* were exported.                                                          *)
(***************************************************************************)
EXTENDS Naturals

CONSTANTS Handles, Groups, Leaves

VARIABLES
    copy,   \* copy[h][g]: the copy of group g on handle h
    keys,   \* keys[h]: its key packages nobody has used
    saved,  \* saved[h]: the copies and key packages last exported
    sent,   \* the commits and invitations that calls returned
    made    \* commits, key packages and messages are numbered below it

lifecycleVars == <<copy, keys, saved, sent, made>>

Absent == [kind |-> "absent"]
Nothing == [there |-> FALSE]

\* A copy at the epoch commit `tip` began, with the own commit that waits, if any.
At(tip, epoch, leaf, active) ==
    [kind |-> "held", tip |-> tip, epoch |-> epoch, leaf |-> leaf, active |-> active,
     pending |-> {}]

\* Commit `id` of the member at a leaf, on the epoch commit `on` began.
Commit(g, on, id, leaf) ==
    [kind |-> "commit", group |-> g, on |-> on, id |-> id, leaf |-> leaf]

\* The owner of a key package is to sit at a leaf from commit `id` on.
Invitation(g, key, id, epoch, leaf) ==
    [kind |-> "welcome", group |-> g, key |-> key, id |-> id, epoch |-> epoch, leaf |-> leaf]

Blob(copies, unused) == [there |-> TRUE, copies |-> copies, keys |-> unused]
Empty == [g \in Groups |-> Absent]

Init ==
    /\ copy = [h \in Handles |-> Empty]
    /\ made \in Nat
    /\ keys \in [Handles -> SUBSET (0 .. made - 1)]
    /\ \/ saved = [h \in Handles |-> Nothing]
       \/ saved = [h \in Handles |-> Blob(Empty, keys[h])]
    /\ sent = {}

Held(h, g) == copy[h][g].kind = "held"

SetCopy(h, g, c) == copy' = [copy EXCEPT ![h][g] = c]

Enrol(h) ==
    /\ made' \in {made + 1, made + 2}
    /\ keys' = [keys EXCEPT ![h] = @ \cup made .. made' - 1]
    /\ UNCHANGED <<copy, saved, sent>>

\* A group is made where there is none.
Create(h, g) ==
    /\ ~ Held(h, g)
    /\ SetCopy(h, g, At(made, 0, 0, TRUE))
    /\ made' = made + 1
    /\ UNCHANGED <<keys, saved, sent>>

\* The invitations a handle has the key package for, which is used up.
Invited(h) == {m \in sent : m.kind = "welcome" /\ m.key \in keys[h]}
Use(h, m) == keys' = [keys EXCEPT ![h] = @ \ {m.key}]

Join(h) ==
    /\ \E m \in Invited(h) :
         SetCopy(h, m.group, At(m.id, m.epoch, m.leaf, TRUE)) /\ Use(h, m)
    /\ UNCHANGED <<saved, sent, made>>

\* An invitation that is refused is used up all the same.
Refuse(h) ==
    /\ \E m \in Invited(h) : Use(h, m)
    /\ UNCHANGED <<copy, saved, sent, made>>

\* One commit at a time, and by a member only.  It may invite.
Stage(h, g) ==
    /\ Held(h, g)
    /\ copy[h][g].active
    /\ copy[h][g].pending = {}
    /\ SetCopy(h, g, [copy[h][g] EXCEPT !.pending = {made}])
    /\ LET committed == sent \cup {Commit(g, copy[h][g].tip, made, copy[h][g].leaf)}
       IN \/ sent' = committed
          \/ \E key \in 0 .. made - 1, leaf \in Leaves :
               sent' = committed \cup {Invitation(g, key, made, copy[h][g].epoch + 1, leaf)}
    /\ made' = made + 1
    /\ UNCHANGED <<keys, saved>>

\* The own commit is applied: it, and no other.
Merge(h, g) ==
    /\ Held(h, g)
    /\ \E id \in copy[h][g].pending :
         SetCopy(h, g, At(id, copy[h][g].epoch + 1, copy[h][g].leaf, TRUE))
    /\ UNCHANGED <<keys, saved, sent, made>>

\* Another member's commit on the epoch of the copy is applied, and the own one gone; it
\* may evict the member.  A commit of its own never comes back this way.
Advance(h, g) ==
    /\ Held(h, g)
    /\ copy[h][g].active
    /\ \E m \in sent, active \in BOOLEAN :
         /\ m.kind = "commit" /\ m.group = g
         /\ m.on = copy[h][g].tip /\ m.leaf # copy[h][g].leaf
         /\ SetCopy(h, g, At(m.id, copy[h][g].epoch + 1, copy[h][g].leaf, active))
    /\ UNCHANGED <<keys, saved, sent, made>>

Discard(h, g) ==
    /\ Held(h, g)
    /\ SetCopy(h, g, [copy[h][g] EXCEPT !.pending = {}])
    /\ UNCHANGED <<keys, saved, sent, made>>

Leave(h, g) == SetCopy(h, g, Absent) /\ UNCHANGED <<keys, saved, sent, made>>

\* Where a session ends, what it returned and the application did not transmit is lost.
Lose == sent' \subseteq sent /\ UNCHANGED <<saved, made>>

Reset(h) ==
    /\ copy' = [copy EXCEPT ![h] = Empty]
    /\ keys' = [keys EXCEPT ![h] = {}]
    /\ Lose

Restore(h) ==
    /\ saved[h].there
    /\ copy' = [copy EXCEPT ![h] = saved[h].copies]
    /\ keys' = [keys EXCEPT ![h] = saved[h].keys]
    /\ Lose

Export(h) ==
    /\ saved' = [saved EXCEPT ![h] = Blob(copy[h], keys[h])]
    /\ UNCHANGED <<copy, keys, sent, made>>

\* An application message takes a number.
Talk == made' = made + 1 /\ UNCHANGED <<copy, keys, saved, sent>>

Next ==
    \/ \E h \in Handles, g \in Groups :
           \/ Create(h, g) \/ Stage(h, g) \/ Merge(h, g)
           \/ Advance(h, g) \/ Discard(h, g) \/ Leave(h, g)
    \/ \E h \in Handles :
           \/ Enrol(h) \/ Join(h) \/ Refuse(h)
           \/ Reset(h) \/ Restore(h) \/ Export(h)
    \/ Talk

Spec == Init /\ [][Next]_lifecycleVars
=============================================================================
