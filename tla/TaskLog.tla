------------------------------ MODULE TaskLog ------------------------------
(***************************************************************************)
(* What the task-history operations promise together: the published        *)
(* history only grows, and whatever an operation has reported as published *)
(* is in it and stays in it.                                               *)
(***************************************************************************)
VARIABLES
  published,  \* the commits of the published task history
  claimed     \* the commits some operation has reported as published

Init == claimed = {}

Publish ==
  /\ published \subseteq published'
  /\ UNCHANGED claimed

Claim ==
  /\ claimed \subseteq claimed' /\ claimed' \subseteq published
  /\ UNCHANGED published

(* A push that succeeds does both at once.                                  *)
PublishAndClaim ==
  /\ published \subseteq published'
  /\ claimed \subseteq claimed' /\ claimed' \subseteq published'

Next == Publish \/ Claim \/ PublishAndClaim

Spec == Init /\ [][Next]_<<published, claimed>>

=============================================================================
