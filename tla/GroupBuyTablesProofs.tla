------------------------ MODULE GroupBuyTablesProofs ------------------------
(***************************************************************************)
(* The facts about the MySQL tables that no program around them can break: *)
(* TablesInv is kept by each transaction of GroupBuyTables, in whatever    *)
(* order they commit.                                                      *)
(***************************************************************************)
EXTENDS GroupBuyTables, FiniteSetTheorems, TLAPS

TablesInv ==
  /\ TablesTypeOK
  /\ RosterMatchesOrders
  /\ CountMatchesRoster
  /\ RecruitingBelowMin

\* The sign-in book is finite, with a natural number of rows, and adding or
\* deleting one row changes that number by one.
LEMMA RosterCount ==
  ASSUME TablesTypeOK, NEW u \in Users
  PROVE  /\ IsFiniteSet(roster) /\ Cardinality(roster) \in Nat
         /\ u \notin roster => Cardinality(roster \cup {u}) = Cardinality(roster) + 1
         /\ u \in roster => /\ Cardinality(roster \ {u}) = Cardinality(roster) - 1
                            /\ Cardinality(roster) > 0
<1>1. IsFiniteSet(roster)
  BY UsersFinite, FS_Subset DEF TablesTypeOK
<1>2. Cardinality(roster) \in Nat
  BY <1>1, FS_CardinalityType
<1>3. u \notin roster => Cardinality(roster \cup {u}) = Cardinality(roster) + 1
  BY <1>1, FS_AddElement
<1>4. u \in roster => Cardinality(roster \ {u}) = Cardinality(roster) - 1
  BY <1>1, FS_RemoveElement
<1>5. u \in roster => Cardinality(roster) > 0
  BY <1>1, <1>2, FS_EmptySet
<1> QED BY <1>1, <1>2, <1>3, <1>4, <1>5

LEMMA TablesInitInv == TablesInit => TablesInv
<1> SUFFICES ASSUME TablesInit PROVE TablesInv
  OBVIOUS
<1>1. TablesTypeOK
  BY DEF TablesInit, TablesTypeOK, OrderStatus, GroupBuyStatus
<1>2. RosterMatchesOrders
  BY DEF TablesInit, RosterMatchesOrders, Sold, ActiveStatus
<1>3. CountMatchesRoster
  BY FS_EmptySet DEF TablesInit, CountMatchesRoster
<1>4. RecruitingBelowMin
  BY LimitsAssumption DEF TablesInit, RecruitingBelowMin
<1> QED BY <1>1, <1>2, <1>3, <1>4 DEF TablesInv

LEMMA CreateKeepsInv ==
  ASSUME TablesInv, NEW u \in Users, CreateOrderTx(u)
  PROVE  TablesInv'
<1> USE DEF TablesInv
<1>1. u \notin roster /\ Cardinality(roster') = Cardinality(roster) + 1 /\ Cardinality(roster) \in Nat
  BY RosterCount DEF CreateOrderTx, DuplicateEntry
<1>2. CountWith \in Nat
  BY DEF CountWith, TablesTypeOK
<1>3. TablesTypeOK'
  BY <1>2 DEF CreateOrderTx, TablesTypeOK, OrderStatus, GroupBuyStatus, StatusWith
<1>4. RosterMatchesOrders'
  BY DEF CreateOrderTx, DuplicateEntry, TablesTypeOK, RosterMatchesOrders, Sold, ActiveStatus
<1>5. CountMatchesRoster'
  BY <1>1 DEF CreateOrderTx, CountMatchesRoster, StatusWith, CountWith, Counts, CountedStatus,
              TablesTypeOK, GroupBuyStatus
<1>6. RecruitingBelowMin'
  BY <1>2, LimitsAssumption DEF CreateOrderTx, RecruitingBelowMin, StatusWith
<1> QED BY <1>3, <1>4, <1>5, <1>6

LEMMA GiveUpKeepsInv ==
  ASSUME TablesInv, NEW u \in Users, NEW s \in {"cancelled", "closed"}, GiveUpSlot(u, s)
  PROVE  TablesInv'
<1> USE DEF TablesInv
<1>1. u \in roster
  BY DEF GiveUpSlot, RosterMatchesOrders, Sold, ActiveStatus
<1>2. /\ Cardinality(roster') = Cardinality(roster) - 1
      /\ Cardinality(roster) \in Nat /\ Cardinality(roster) > 0
  BY <1>1, RosterCount DEF GiveUpSlot
<1>3. TablesTypeOK'
  BY DEF GiveUpSlot, TablesTypeOK, OrderStatus
<1>4. RosterMatchesOrders'
  BY DEF GiveUpSlot, TablesTypeOK, RosterMatchesOrders, Sold, ActiveStatus
<1>5. CountMatchesRoster'
  BY <1>2 DEF GiveUpSlot, CountMatchesRoster
<1>6. RecruitingBelowMin'
  BY LimitsAssumption DEF GiveUpSlot, RecruitingBelowMin, TablesTypeOK
<1> QED BY <1>3, <1>4, <1>5, <1>6

\* Payment, verdict and deadline leave the number of rows alone.
LEMMA OthersKeepInv ==
  ASSUME TablesInv,
         \/ \E u \in Users : UpdateOrderPaid(u)
         \/ JudgeExpiredGroupBuys \/ DeadlinePasses \/ UNCHANGED tables
  PROVE  TablesInv'
<1> USE DEF TablesInv
<1>1. ASSUME NEW u \in Users, UpdateOrderPaid(u) PROVE TablesInv'
  <2>1. TablesTypeOK'
    BY <1>1 DEF UpdateOrderPaid, TablesTypeOK, OrderStatus
  <2>2. RosterMatchesOrders'
    BY <1>1 DEF UpdateOrderPaid, TablesTypeOK, RosterMatchesOrders, Sold, ActiveStatus
  <2>3. CountMatchesRoster' /\ RecruitingBelowMin'
    BY <1>1 DEF UpdateOrderPaid, CountMatchesRoster, RecruitingBelowMin
  <2> QED BY <2>1, <2>2, <2>3
<1>2. CASE JudgeExpiredGroupBuys
  BY <1>2 DEF JudgeExpiredGroupBuys, TablesTypeOK, GroupBuyStatus, RosterMatchesOrders, Sold,
              CountMatchesRoster, RecruitingBelowMin
<1>3. CASE DeadlinePasses
  BY <1>3 DEF DeadlinePasses, TablesTypeOK, RosterMatchesOrders, Sold, CountMatchesRoster,
              RecruitingBelowMin
<1>4. CASE UNCHANGED tables
  BY <1>4 DEF tables, TablesTypeOK, RosterMatchesOrders, Sold, CountMatchesRoster,
              RecruitingBelowMin
<1> QED BY <1>1, <1>2, <1>3, <1>4

\* TablesInv is inductive for the steps of the tables.
THEOREM TablesStepKeepsInv ==
  ASSUME TablesInv, [TablesStep]_tables
  PROVE  TablesInv'
<1>1. ASSUME NEW u \in Users, CreateOrderTx(u) PROVE TablesInv'
  BY <1>1, CreateKeepsInv
<1>2. ASSUME NEW u \in Users, CancelOrderTx(u) \/ CloseExpiredOrder(u) PROVE TablesInv'
  BY <1>2, GiveUpKeepsInv DEF CancelOrderTx, CloseExpiredOrder
<1> QED
  BY <1>1, <1>2, OthersKeepInv DEF TablesStep

\* The tables alone, whatever programs run on them.
THEOREM TablesStayConsistent == TablesSpec => []TablesInv
<1>1. TablesInv /\ [TablesStep]_tables => TablesInv'
  BY TablesStepKeepsInv
<1> QED
  BY <1>1, TablesInitInv, PTL DEF TablesSpec

-----------------------------------------------------------------------------
(* What late orders can do to the counter, and what they cannot.            *)

\* Until the group buy fails, whoever is in the sign-in book has been counted.
BookIsCounted == gbStatus # "failed" => roster \subseteq counted

LateOrderInv ==
  TablesInv /\ CountNeverOverstates /\ FailedStaysBelowMin /\ FullHasCounted /\ BookIsCounted

LEMMA InitLateOrder == TablesInit => LateOrderInv
<1> SUFFICES ASSUME TablesInit PROVE LateOrderInv
  OBVIOUS
<1>1. TablesInv
  BY TablesInitInv
<1>2. Cardinality(roster) = 0
  BY FS_EmptySet DEF TablesInit
<1> QED
  BY <1>1, <1>2 DEF TablesInit, LateOrderInv, CountNeverOverstates, FailedStaysBelowMin,
                    FullHasCounted, BookIsCounted

\* The users that were counted are no fewer than any part of them.
LEMMA CountedCount ==
  ASSUME TablesTypeOK, NEW S \in SUBSET counted
  PROVE  Cardinality(S) <= Cardinality(counted) /\ Cardinality(counted) \in Nat
BY UsersFinite, FS_Subset, FS_CardinalityType DEF TablesTypeOK

LEMMA CreateKeepsLateOrder ==
  ASSUME LateOrderInv, NEW u \in Users, CreateOrderTx(u)
  PROVE  LateOrderInv'
<1> USE DEF LateOrderInv
<1>1. TablesInv'
  BY CreateKeepsInv
<1>2. /\ Cardinality(roster') = Cardinality(roster) + 1
      /\ Cardinality(roster) \in Nat /\ currentMembers \in Nat
  BY RosterCount DEF CreateOrderTx, DuplicateEntry, TablesInv, TablesTypeOK
<1>3. CountNeverOverstates'
  BY <1>2 DEF CreateOrderTx, CountNeverOverstates, CountWith
<1>4. FailedStaysBelowMin'
  BY <1>2 DEF CreateOrderTx, FailedStaysBelowMin, CountWith, Counts, CountedStatus, StatusWith
<1>5. BookIsCounted'
  BY DEF CreateOrderTx, BookIsCounted, Counts, CountedStatus, StatusWith, TablesInv,
         TablesTypeOK, GroupBuyStatus
<1>6. FullHasCounted'
  <2> SUFFICES ASSUME gbStatus' = "full" PROVE Cardinality(counted') >= MaxMembers
    BY DEF FullHasCounted
  <2>1. CASE gbStatus = "full"
    <3>1. Cardinality(counted) <= Cardinality(counted') /\ Cardinality(counted') \in Nat
      <4>1. counted \in SUBSET counted'
        BY DEF CreateOrderTx
      <4>2. counted' \subseteq Users
        BY <1>1 DEF TablesInv, TablesTypeOK
      <4> QED
        BY <4>1, <4>2, UsersFinite, FS_Subset, FS_CardinalityType
    <3>2. Cardinality(counted) \in Nat
      BY CountedCount DEF TablesInv
    <3> QED
      BY <2>1, <3>1, <3>2, LimitsAssumption DEF FullHasCounted
  <2>2. CASE gbStatus # "full"
    <3>1. Counts /\ CountWith >= MaxMembers
      BY <2>2 DEF CreateOrderTx, StatusWith, Counts, CountedStatus
    <3>2. CountWith = Cardinality(roster')
      BY <1>2, <3>1 DEF CountWith, Counts, CountedStatus, TablesInv, CountMatchesRoster
    <3>3. roster' \subseteq counted' /\ counted' \subseteq Users
      BY <1>1, <1>5 DEF BookIsCounted, TablesInv, TablesTypeOK
    <3>4. Cardinality(roster') <= Cardinality(counted') /\ Cardinality(counted') \in Nat
      BY <3>3, UsersFinite, FS_Subset, FS_CardinalityType
    <3> QED
      BY <1>2, <3>1, <3>2, <3>4, LimitsAssumption
  <2> QED
    BY <2>1, <2>2
<1> QED
  BY <1>1, <1>3, <1>4, <1>5, <1>6

LEMMA GiveUpKeepsLateOrder ==
  ASSUME LateOrderInv, NEW u \in Users, NEW s \in {"cancelled", "closed"}, GiveUpSlot(u, s)
  PROVE  LateOrderInv'
<1> USE DEF LateOrderInv
<1>1. TablesInv'
  BY GiveUpKeepsInv
<1>2. u \in roster
  BY DEF GiveUpSlot, TablesInv, RosterMatchesOrders, Sold, ActiveStatus
<1>3. /\ Cardinality(roster') = Cardinality(roster) - 1
      /\ Cardinality(roster) \in Nat /\ Cardinality(roster) > 0 /\ currentMembers \in Nat
  BY <1>2, RosterCount DEF GiveUpSlot, TablesInv, TablesTypeOK
<1>4. CountNeverOverstates'
  BY <1>3 DEF GiveUpSlot, CountNeverOverstates
<1>5. FailedStaysBelowMin'
  BY <1>3, LimitsAssumption DEF GiveUpSlot, FailedStaysBelowMin
<1>6. FullHasCounted' /\ BookIsCounted'
  BY DEF GiveUpSlot, FullHasCounted, BookIsCounted
<1> QED
  BY <1>1, <1>4, <1>5, <1>6

LEMMA OthersKeepLateOrder ==
  ASSUME LateOrderInv,
         \/ \E u \in Users : UpdateOrderPaid(u)
         \/ JudgeExpiredGroupBuys \/ DeadlinePasses \/ UNCHANGED tables
  PROVE  LateOrderInv'
<1> USE DEF LateOrderInv, CountNeverOverstates, FailedStaysBelowMin, FullHasCounted, BookIsCounted
<1>1. TablesInv'
  BY OthersKeepInv
<1>2. ASSUME NEW u \in Users, UpdateOrderPaid(u) PROVE LateOrderInv'
  BY <1>1, <1>2 DEF UpdateOrderPaid
<1>3. CASE JudgeExpiredGroupBuys
  BY <1>1, <1>3 DEF JudgeExpiredGroupBuys
<1>4. CASE DeadlinePasses \/ UNCHANGED tables
  BY <1>1, <1>4 DEF DeadlinePasses, tables
<1> QED
  BY <1>2, <1>3, <1>4

LEMMA TablesStepKeepsLateOrder ==
  ASSUME LateOrderInv, [TablesStep]_tables
  PROVE  LateOrderInv'
<1>1. ASSUME NEW u \in Users, CreateOrderTx(u) PROVE LateOrderInv'
  BY <1>1, CreateKeepsLateOrder
<1>2. ASSUME NEW u \in Users, CancelOrderTx(u) \/ CloseExpiredOrder(u) PROVE LateOrderInv'
  BY <1>2, GiveUpKeepsLateOrder DEF CancelOrderTx, CloseExpiredOrder
<1> QED
  BY <1>1, <1>2, OthersKeepLateOrder DEF TablesStep

\* Orders that come after the verdict, and their cancels, do no more harm than
\* this: the counter may fall behind the sign-in book, never run ahead of it; a
\* failed group buy never looks as if it had enough members; and "full" is only
\* written once max_members orders have counted.
THEOREM LateOrdersOnlyUndercount ==
  TablesSpec => [](CountNeverOverstates /\ FailedStaysBelowMin /\ FullHasCounted)
<1>1. LateOrderInv /\ [TablesStep]_tables => LateOrderInv'
  BY TablesStepKeepsLateOrder
<1>2. LateOrderInv => CountNeverOverstates /\ FailedStaysBelowMin /\ FullHasCounted
  BY DEF LateOrderInv
<1> QED
  BY <1>1, <1>2, InitLateOrder, PTL DEF TablesSpec
=============================================================================
