------------------------------ MODULE GroupBuy ------------------------------
(***************************************************************************)
(* The vocabulary shared by every module of the order path: one group buy  *)
(* of the campus community service, the users who may grab a slot of it    *)
(* (its publisher is not one of them) and the statuses its row and its     *)
(* orders may take.  One group buy is enough: every key, row and lock of   *)
(* the code is addressed by good_id, and nothing couples two of them.      *)
(***************************************************************************)
EXTENDS Integers, FiniteSets

CONSTANTS Users,        \* the users who may grab a slot
          MinMembers,   \* min_members: the group buy succeeds from here on
          MaxMembers    \* max_members: the number of slots

\* CreateGroupBuy refuses min > max; the request binding asks for positive
\* numbers.
ASSUME UsersFinite == IsFiniteSet(Users)
ASSUME LimitsAssumption ==
  /\ MinMembers \in Nat \ {0}
  /\ MaxMembers \in Nat \ {0}
  /\ MinMembers <= MaxMembers

\* The status of the one order a user can have ("none": no row).  The
\* completed status of the model package is never written by any code.
OrderStatus == {"none", "pending_pay", "paid", "cancelled", "closed"}

\* The orders that hold a slot.
ActiveStatus == {"pending_pay", "paid"}

\* The expired status of the model package is never written by any code.
GroupBuyStatus == {"recruiting", "succeeded", "full", "failed"}

\* CreateOrderTx counts a new member in these states only.
CountedStatus == {"recruiting", "succeeded", "full"}
=============================================================================
