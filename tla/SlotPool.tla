------------------------------ MODULE SlotPool ------------------------------
(***************************************************************************)
(* What the order path promises about the slots of one group buy, without  *)
(* a lock, a cache, a queue or a table: at most MaxMembers users hold a    *)
(* slot, a user goes through the pool once, a reservation becomes an       *)
(* order, and a slot that was paid for is never taken back.                *)
(***************************************************************************)
EXTENDS GroupBuy

VARIABLE place   \* place[u]: where user u stands

\* free       never took a slot
\* reserved   holds one, the order is to come
\* ordered    holds one, the order waits for the payment
\* paid       holds one for good
\* leaving    the order is cancelled or closed, the slot is not back yet
\* left       the slot is back in the pool; the user may not return
Places == {"free", "reserved", "ordered", "paid", "leaving", "left"}

Holders == {u \in Users : place[u] \notin {"free", "left"}}

PoolTypeOK == place \in [Users -> Places]

PoolInit == place = [u \in Users |-> "free"]

Move(u, from, to) ==
  /\ place[u] = from
  /\ place' = [place EXCEPT ![u] = to]

Reserve(u)  == Cardinality(Holders) < MaxMembers /\ Move(u, "free", "reserved")
Confirm(u)  == Move(u, "reserved", "ordered")
Pay(u)      == Move(u, "ordered", "paid")
Leave(u)    == Move(u, "ordered", "leaving")
GiveBack(u) == Move(u, "leaving", "left")

PoolNext ==
  \E u \in Users : Reserve(u) \/ Confirm(u) \/ Pay(u) \/ Leave(u) \/ GiveBack(u)

PoolSpec == PoolInit /\ [][PoolNext]_place

\* Nobody who was told he has a slot waits for his order for ever.
PoolFairSpec == PoolSpec /\ \A u \in Users : WF_place(Confirm(u))

\* At most MaxMembers users hold a slot.
PoolNeverOversold == Cardinality(Holders) <= MaxMembers
=============================================================================
