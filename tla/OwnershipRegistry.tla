------------------------- MODULE OwnershipRegistry --------------------------
(***************************************************************************)
(* What the ownership registry promises its callers: each operation is one *)
(* atomic step on the current file, an operation of a Conversation changes *)
(* that Conversation's entry only, and only a provider migration moves the *)
(* entries of several Conversations, all of them together.                 *)
(***************************************************************************)
EXTENDS OwnershipRecords

VARIABLE owners

Init == owners = [c \in Owners |-> NoRecord]

(* Write an entry that does not replace another live Episode and collides   *)
(* with no other Conversation's.                                            *)
Put(c, r) ==
  /\ Replaceable(owners[c], r)
  /\ owners' = [owners EXCEPT ![c] = r]
  /\ Unique(owners')

(* Drop an active task entry: its Episode is cleaned up. *)
Remove(c) ==
  /\ LiveTask(owners[c])
  /\ owners[c].status = "active"
  /\ owners' = [owners EXCEPT ![c] = NoRecord]

(* Move all live task entries to the other provider, or none. *)
Switch(p, q) ==
  /\ owners' \in Registry
  /\ MovesProvider(owners, owners', p, q)
  /\ Unique(owners')

(* Undo such a move. *)
Rollback(p, q) ==
  /\ owners' \in Registry
  /\ MovesProvider(owners', owners, p, q)
  /\ Unique(owners')

Next ==
  \/ \E c \in Owners : (\E r \in Record : Put(c, r)) \/ Remove(c)
  \/ \E p, q \in Providers : p # q /\ (Switch(p, q) \/ Rollback(p, q))

Spec == Init /\ [][Next]_owners

=============================================================================
