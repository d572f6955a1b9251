--------------------------- MODULE GroupBuyTables ---------------------------
(***************************************************************************)
(* MySQL: the orders of the group buy, its sign-in book                    *)
(* (group_buy_members) and its own row (group_buys).  One operator per     *)
(* transaction or conditional UPDATE of internal/dao; each is atomic, and  *)
(* the WHERE clause of the code is the guard.                              *)
(***************************************************************************)
EXTENDS GroupBuy

VARIABLES
  orders,          \* orders[u]: status of u's order; uk_user_good allows one
  roster,          \* users with a row in group_buy_members
  currentMembers,  \* group_buys.current_members
  gbStatus,        \* group_buys.status
  deadlinePassed,  \* deadline < NOW()
  counted          \* history: users whose CreateOrderTx reported Counted

tables == <<orders, roster, currentMembers, gbStatus, deadlinePassed, counted>>

TablesTypeOK ==
  /\ orders \in [Users -> OrderStatus]
  /\ roster \subseteq Users
  /\ currentMembers \in Nat
  /\ gbStatus \in GroupBuyStatus
  /\ deadlinePassed \in BOOLEAN
  /\ counted \subseteq Users

TablesInit ==
  /\ orders = [u \in Users |-> "none"]
  /\ roster = {}
  /\ currentMembers = 0
  /\ gbStatus = "recruiting"
  /\ deadlinePassed = FALSE
  /\ counted = {}

-----------------------------------------------------------------------------
\* Error 1062: the order row or the sign-in row of u is already there.
DuplicateEntry(u) == orders[u] # "none" \/ u \in roster

\* Fault model: the flip to succeeded needs one member too many.
StatusWithOffByOne(n) ==
  IF gbStatus = "recruiting" /\ n > MinMembers THEN "succeeded" ELSE gbStatus

\* The status after the two conditional flips of the transaction that brought
\* current_members to n: both may happen in one transaction.
StatusWith(n) ==
  LET flipped == IF gbStatus = "recruiting" /\ n >= MinMembers
                 THEN "succeeded" ELSE gbStatus
  IN IF flipped = "succeeded" /\ n >= MaxMembers THEN "full" ELSE flipped

\* A row that reached a terminal status keeps its number of members.
Counts == gbStatus \in CountedStatus
CountWith == IF Counts THEN currentMembers + 1 ELSE currentMembers

\* Fault model: no unique key refuses a second order.
CreateOrderTxNoUniqueKey(u) ==
  /\ orders' = [orders EXCEPT ![u] = "pending_pay"]
  /\ roster' = roster \cup {u}
  /\ currentMembers' = CountWith
  /\ gbStatus' = StatusWith(CountWith)
  /\ counted' = IF Counts THEN counted \cup {u} ELSE counted
  /\ UNCHANGED deadlinePassed

\* Order, sign-in row, +1 and flips in one transaction.
CreateOrderTx(u) ==
  /\ ~DuplicateEntry(u)
  /\ orders' = [orders EXCEPT ![u] = "pending_pay"]
  /\ roster' = roster \cup {u}
  /\ currentMembers' = CountWith
  /\ gbStatus' = StatusWith(CountWith)
  /\ counted' = IF Counts THEN counted \cup {u} ELSE counted
  /\ UNCHANGED deadlinePassed

\* Payment: pending_pay -> paid by one conditional UPDATE.
UpdateOrderPaid(u) ==
  /\ orders[u] = "pending_pay"
  /\ orders' = [orders EXCEPT ![u] = "paid"]
  /\ UNCHANGED <<roster, currentMembers, gbStatus, deadlinePassed, counted>>

\* Fault model: the floor of current_members is dropped.
GiveUpSlotNoFloor(u, status) ==
  /\ orders[u] = "pending_pay"
  /\ orders' = [orders EXCEPT ![u] = status]
  /\ currentMembers' = currentMembers - 1
  /\ roster' = roster \ {u}
  /\ UNCHANGED <<gbStatus, deadlinePassed, counted>>

\* What CancelOrderTx and CloseExpiredOrder share: the order leaves the slot,
\* current_members goes down whatever the status of the group buy, and the
\* sign-in row goes.
GiveUpSlot(u, status) ==
  /\ orders[u] = "pending_pay"
  /\ orders' = [orders EXCEPT ![u] = status]
  /\ currentMembers' = IF currentMembers > 0 THEN currentMembers - 1 ELSE currentMembers
  /\ roster' = roster \ {u}
  /\ UNCHANGED <<gbStatus, deadlinePassed, counted>>

CancelOrderTx(u) == GiveUpSlot(u, "cancelled")

\* Fault models: the close forgets WHERE status = 'pending_pay', or leaves
\* the sign-in row behind.
CloseExpiredOrderUnguarded(u) ==
  /\ orders[u] \in ActiveStatus
  /\ orders' = [orders EXCEPT ![u] = "closed"]
  /\ currentMembers' = IF currentMembers > 0 THEN currentMembers - 1 ELSE currentMembers
  /\ roster' = roster \ {u}
  /\ UNCHANGED <<gbStatus, deadlinePassed, counted>>
CloseExpiredOrderKeepsRow(u) ==
  /\ orders[u] = "pending_pay"
  /\ orders' = [orders EXCEPT ![u] = "closed"]
  /\ currentMembers' = IF currentMembers > 0 THEN currentMembers - 1 ELSE currentMembers
  /\ UNCHANGED <<roster, gbStatus, deadlinePassed, counted>>

CloseExpiredOrder(u) == GiveUpSlot(u, "closed")

\* Fault model: the judge drops current_members < min_members.
JudgeExpiredGroupBuysUncounted ==
  /\ gbStatus \in {"recruiting", "succeeded"} /\ deadlinePassed
  /\ gbStatus' = "failed"
  /\ UNCHANGED <<orders, roster, currentMembers, deadlinePassed, counted>>

\* The deadline verdict: a conditional UPDATE on each side of min_members.
JudgeExpiredGroupBuys ==
  /\ gbStatus = "recruiting" /\ deadlinePassed
  /\ gbStatus' = IF currentMembers < MinMembers THEN "failed" ELSE "succeeded"
  /\ UNCHANGED <<orders, roster, currentMembers, deadlinePassed, counted>>

\* Time: the deadline goes by.
DeadlinePasses ==
  /\ ~deadlinePassed
  /\ deadlinePassed' = TRUE
  /\ UNCHANGED <<orders, roster, currentMembers, gbStatus, counted>>

-----------------------------------------------------------------------------
\* Whatever programs issue them, and in whatever order MySQL commits them,
\* these are the steps of the tables.
TablesStep ==
  \/ \E u \in Users : \/ CreateOrderTx(u) \/ UpdateOrderPaid(u)
                      \/ CancelOrderTx(u) \/ CloseExpiredOrder(u)
  \/ JudgeExpiredGroupBuys
  \/ DeadlinePasses

TablesSpec == TablesInit /\ [][TablesStep]_tables

-----------------------------------------------------------------------------
Sold == {u \in Users : orders[u] \in ActiveStatus}

\* The sign-in book lists exactly the users whose order holds the slot.
RosterMatchesOrders == roster = Sold

\* Until the group buy has failed, current_members counts the sign-in book.
CountMatchesRoster == gbStatus # "failed" => currentMembers = Cardinality(roster)

\* A recruiting group buy has not reached min_members: the flip to succeeded
\* was not missed, so that the deadline verdict can only be failed.
RecruitingBelowMin == gbStatus = "recruiting" => currentMembers < MinMembers

\* The error of a late order has one sign: what a latecomer does not add he may
\* take away, so that current_members never says more than the sign-in book.
CountNeverOverstates == currentMembers <= Cardinality(roster)

\* A group buy that failed never shows the members it would have needed, though
\* orders still come and go.
FailedStaysBelowMin == gbStatus = "failed" => currentMembers < MinMembers

\* A row says "full" for a reason: max_members orders have counted.
FullHasCounted == gbStatus = "full" => Cardinality(counted) >= MaxMembers
=============================================================================
