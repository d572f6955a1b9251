------------------------------ MODULE Mailbox ------------------------------
(***************************************************************************)
(* What the notification path promises about the notifications table: an   *)
(* event shows up at most once in a recipient's list, is unread when it    *)
(* does, and stays read once it was read.                                  *)
(***************************************************************************)
CONSTANT Events    \* what may be notified: a recipient and an event

VARIABLE box       \* box[n]: "none" (no row), "unread" or "read"

MailboxInit == box = [n \in Events |-> "none"]

Turn(n, from, to) ==
  /\ box[n] = from
  /\ box' = [box EXCEPT ![n] = to]

Arrive(n) == Turn(n, "none", "unread")
Read(n)   == Turn(n, "unread", "read")

MailboxNext == \E n \in Events : Arrive(n) \/ Read(n)

MailboxSpec == MailboxInit /\ [][MailboxNext]_box
=============================================================================
