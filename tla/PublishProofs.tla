---------------------------- MODULE PublishProofs ----------------------------
(***************************************************************************)
(* What Publish promises, for every set of users, every pair of limits and *)
(* any number of faults and copies.                                        *)
(***************************************************************************)
EXTENDS Publish, FiniteSetTheorems, TLAPS

\* A consumer with a message in hand serves a user, and the order it has
\* created is there.
ConsumerServes ==
  /\ conPc # "idle" => conUser \in Users
  /\ conPc \in {"clearNew", "rank"} => conUser \in orders

\* How far CreateGroupBuy has come.
BirthInv ==
  /\ pubPc \in {"insert", "setStock"} => ~opened
  /\ pubPc \in {"delMembers", "rank"} => opened
  /\ pubPc \in {"insert", "setStock", "delMembers"} => wiped = {}
  /\ pubPc \in {"setStock", "delMembers", "rank"} => row = "open"
  /\ pubPc = "rollback" => faults > 0
  /\ pubPc # "done" => answer = "none"

\* members and wiped together remember every slot a user was given.
TakenInv ==
  \A u \in Users :
    taken[u] = (IF u \in members THEN 1 ELSE 0) + (IF u \in wiped THEN 1 ELSE 0)

\* The order whose point is still to be added.
Owed == IF conPc \in {"clearNew", "rank"} THEN 1 ELSE 0

\* A recount may have counted the order that is still owed a point, no other;
\* the orders never become fewer than a recount has found.
RankInv ==
  /\ score + Owed <= Cardinality(orders) + 1
  /\ recounted <= Cardinality(orders)
  /\ early \subseteq orders

\* Without faults nothing asks for a recount, and every order has its point or
\* is owed it, unless ZADD 0 came after.
FaultlessRank ==
  faults = 0 =>
    /\ recount = "none"
    /\ score + Owed \in Cardinality(orders \ early) .. Cardinality(orders)

\* The inductive invariant.
PublishInv ==
  /\ PublishTypeOK /\ ConsumerServes
  /\ BirthInv /\ AnswerTellsTruth
  /\ SlotsConservedFromBirth /\ TakenInv
  /\ RankInv /\ FaultlessRank

-----------------------------------------------------------------------------
(* Types.                                                                   *)

\* Before the row is inserted.
LEMMA InitPublishInv == Init => PublishInv
<1> SUFFICES ASSUME Init PROVE PublishInv
  OBVIOUS
<1> USE DEF Init
<1>1. PublishTypeOK /\ ConsumerServes
  <2>1. CacheTypeOK
    BY DEF CacheTypeOK
  <2>2. taken \in [Users -> Nat] /\ queue \in [Users -> Nat]
        /\ grab \in [Users -> {"idle", "checked"}]
    OBVIOUS
  <2> QED
    BY <2>1, <2>2 DEF PublishTypeOK, ConsumerServes
<1>2. BirthInv /\ AnswerTellsTruth
  BY DEF BirthInv, AnswerTellsTruth
<1>3. SlotsConservedFromBirth /\ TakenInv
  BY DEF SlotsConservedFromBirth, TakenInv
<1>4. RankInv /\ FaultlessRank
  <2>1. Cardinality(orders) = 0 /\ Cardinality(orders \ early) = 0
    BY FS_EmptySet
  <2> QED
    BY <2>1 DEF RankInv, FaultlessRank, Owed
<1> QED
  BY <1>1, <1>2, <1>3, <1>4 DEF PublishInv

\* The publisher's steps leave the consumer and the queue alone.
LEMMA PublisherKeepsTypes ==
  ASSUME PublishTypeOK, ConsumerServes, Publisher
  PROVE  PublishTypeOK' /\ ConsumerServes'
<1> USE LimitsAssumption
    DEF PublishTypeOK, CacheTypeOK, ConsumerServes, Fault, NoFault, PubGoes, PubAnswers,
        cache, birthVars, grabVars, consumerVars, rankVars
<1>1. CASE CreateRow
  BY <1>1 DEF CreateRow
<1>2. CASE InitStock
  <2>1. opened' \in BOOLEAN
    BY <1>2 DEF InitStock, SetStock
  <2>2. stock' \in Int /\ UNCHANGED <<members, pending, closeTasks, lock, released>>
    BY <1>2 DEF InitStock, SetStock
  <2>3. pubPc' \in {"delMembers", "rollback"} /\ faults' \in Nat /\ UNCHANGED <<answer, row, wiped>>
    BY <1>2 DEF InitStock
  <2> QED
    BY <1>2, <2>1, <2>2, <2>3 DEF InitStock
<1>3. CASE InitMembers
  BY <1>3 DEF InitMembers, DelMembers
<1>4. CASE Rollback
  BY <1>4 DEF Rollback
<1>5. CASE EnterRank
  BY <1>5 DEF EnterRank, ZAddHotRank
<1> QED
  BY <1>1, <1>2, <1>3, <1>4, <1>5 DEF Publisher

\* What the grab script does to the types.
LEMMA GrabScriptTypes ==
  ASSUME PublishTypeOK, NEW u \in Users, ExecGrabLua(u)
  PROVE  CacheTypeOK'
BY DEF PublishTypeOK, CacheTypeOK, ExecGrabLua, cache

\* The steps of users, consumer and pending scanner.
LEMMA OrderPathKeepsTypes ==
  ASSUME PublishTypeOK, ConsumerServes, NEW u \in Users,
         \/ GrabEntry(u) \/ GrabLua(u) \/ ReadGood(u) \/ Consumer
         \/ Republish(u) \/ RenewMark(u)
  PROVE  PublishTypeOK' /\ ConsumerServes'
<1> USE NoUserAssumption
    DEF PublishTypeOK, ConsumerServes, Fault, NoFault, Enqueued,
        birthVars, grabVars, consumerVars, rankVars
<1>1. CASE GrabEntry(u)
  BY <1>1 DEF GrabEntry, GrabGoes, CacheTypeOK, cache
<1>2. CASE GrabLua(u)
  <2>1. CacheTypeOK'
    BY <1>2, GrabScriptTypes DEF GrabLua, GivenSlot, CacheTypeOK, cache
  <2>2. given' \in Nat /\ taken' \in [Users -> Nat] /\ queue' \in [Users -> Nat]
    BY <1>2 DEF GrabLua, GivenSlot
  <2>3. grab' \in [Users -> {"idle", "checked"}] /\ faults' \in Nat
    BY <1>2 DEF GrabLua, GrabGoes
  <2> QED
    BY <1>2, <2>1, <2>2, <2>3 DEF GrabLua
<1>3. CASE ReadGood(u)
  BY <1>3 DEF ReadGood, CacheTypeOK, cache
<1>4. CASE CreateOrder
  BY <1>4 DEF CreateOrder, ConsumerGoes, Redelivered, ConsumerDone, CacheTypeOK, cache
<1>5. CASE ClearMark
  BY <1>5 DEF ClearMark, ConsumerGoes, Acked, ConsumerDone, RemoveGrabPending, CacheTypeOK, cache
<1>6. CASE ZIncrHotRank
  BY <1>6 DEF ZIncrHotRank, Acked, Redelivered, ConsumerDone, CacheTypeOK, cache
<1>7. CASE Republish(u)
  BY <1>7 DEF Republish, CacheTypeOK, cache
<1>8. CASE RenewMark(u)
  BY <1>8 DEF RenewMark, RenewGrabPending, CacheTypeOK, cache
<1> QED
  BY <1>1, <1>2, <1>3, <1>4, <1>5, <1>6, <1>7, <1>8 DEF Consumer

\* The orders can be counted.
LEMMA OrderCount ==
  ASSUME PublishTypeOK
  PROVE  /\ IsFiniteSet(orders) /\ Cardinality(orders) \in Nat
         /\ \A S \in SUBSET orders : IsFiniteSet(S) /\ Cardinality(S) \in Nat
                                     /\ Cardinality(S) <= Cardinality(orders)
BY UsersFinite, FS_Subset, FS_CardinalityType DEF PublishTypeOK

\* Recounts and crashes.
LEMMA OthersKeepTypes ==
  ASSUME PublishTypeOK, ConsumerServes, Recount \/ Crash \/ UNCHANGED vars
  PROVE  PublishTypeOK' /\ ConsumerServes'
<1> USE NoUserAssumption
    DEF PublishTypeOK, ConsumerServes, CacheTypeOK, Fault, NoFault,
        cache, birthVars, grabVars, consumerVars, rankVars
<1>1. CASE RecountReads
  BY <1>1, OrderCount DEF RecountReads
<1>2. CASE RecountWrites
  BY <1>2 DEF RecountWrites, ZAddHotRank
<1>3. CASE Crash
  BY <1>3 DEF Crash, Redelivered, ConsumerDone, Enqueued
<1>4. CASE UNCHANGED vars
  BY <1>4 DEF vars
<1> QED
  BY <1>1, <1>2, <1>3, <1>4 DEF Recount

\* Every step keeps the types.
LEMMA TypesKept ==
  ASSUME PublishTypeOK, ConsumerServes, [Next]_vars
  PROVE  PublishTypeOK' /\ ConsumerServes'
<1>1. ASSUME NEW u \in Users,
             \/ GrabEntry(u) \/ GrabLua(u) \/ ReadGood(u) \/ Republish(u) \/ RenewMark(u)
      PROVE  PublishTypeOK' /\ ConsumerServes'
  BY <1>1, OrderPathKeepsTypes
<1>2. CASE Consumer
  <2>1. conUser \in Users
    BY <1>2 DEF Consumer, CreateOrder, ClearMark, ZIncrHotRank, ConsumerServes
  <2> QED
    BY <1>2, <2>1, OrderPathKeepsTypes
<1> QED
  BY <1>1, <1>2, PublisherKeepsTypes, OthersKeepTypes DEF Next

-----------------------------------------------------------------------------
(* The birth of the group buy.                                              *)

\* CreateGroupBuy: its answer fits the row and the stock it leaves behind.
LEMMA BirthKept ==
  ASSUME PublishTypeOK, BirthInv, AnswerTellsTruth, [Next]_vars
  PROVE  BirthInv' /\ AnswerTellsTruth'
<1> USE DEF BirthInv, AnswerTellsTruth, PubGoes, PubAnswers, Fault, NoFault, birthVars
<1>0. faults \in Nat /\ opened \in BOOLEAN
  BY DEF PublishTypeOK
<1>1. CASE CreateRow
  BY <1>0, <1>1 DEF CreateRow
<1>2. CASE InitStock
  <2>1. pubPc = "setStock" /\ answer = "none" /\ wiped = {} /\ row = "open"
    BY <1>2 DEF InitStock
  <2>2. UNCHANGED <<row, wiped, answer>>
    BY <1>2 DEF InitStock
  <2>3. \/ opened' = TRUE /\ pubPc' = "delMembers"
        \/ pubPc' = "rollback" /\ faults' = faults + 1
    BY <1>2 DEF InitStock, SetStock
  <2> QED
    BY <1>0, <2>1, <2>2, <2>3
<1>3. CASE InitMembers
  BY <1>0, <1>3 DEF InitMembers, DelMembers
<1>4. CASE Rollback
  BY <1>0, <1>4 DEF Rollback
<1>5. CASE EnterRank
  BY <1>0, <1>5 DEF EnterRank
<1>6. CASE Crash
  BY <1>0, <1>6 DEF Crash
<1>7. ASSUME UNCHANGED birthVars, faults' \in {faults, faults + 1}
      PROVE  BirthInv' /\ AnswerTellsTruth'
  BY <1>0, <1>7
<1>8. ASSUME NEW u \in Users, \/ GrabEntry(u) \/ GrabLua(u) \/ ReadGood(u)
                              \/ Republish(u) \/ RenewMark(u)
      PROVE  UNCHANGED birthVars /\ faults' \in {faults, faults + 1}
  BY <1>8 DEF GrabEntry, GrabLua, ReadGood, Republish, RenewMark
<1>9. ASSUME Consumer \/ Recount \/ UNCHANGED vars
      PROVE  UNCHANGED birthVars /\ faults' \in {faults, faults + 1}
  BY <1>9 DEF Consumer, Recount, CreateOrder, ClearMark, ZIncrHotRank, RecountReads,
              RecountWrites, vars
<1> QED
  BY <1>1, <1>2, <1>3, <1>4, <1>5, <1>6, <1>7, <1>8, <1>9 DEF Next, Publisher

-----------------------------------------------------------------------------
(* Slots.                                                                   *)

\* What conserving the slots is about.
slotVars == <<stock, members, opened, wiped, given, taken>>

\* The script, SET stock and DEL members are all that touches the slots.
LEMMA SlotSteps ==
  ASSUME [Next]_vars
  PROVE  \/ UNCHANGED slotVars
         \/ InitStock /\ SetStock
         \/ InitMembers /\ DelMembers
         \/ \E u \in Users : GivenSlot(u) /\ UNCHANGED <<opened, wiped>>
<1> USE DEF cache, birthVars, grabVars, slotVars
<1>1. CASE Publisher
  <2>1. CASE InitStock
    <3>1. UNCHANGED <<wiped, given, taken>> /\ (SetStock \/ UNCHANGED <<cache, opened>>)
      BY <2>1 DEF InitStock
    <3> QED
      BY <2>1, <3>1
  <2>2. CASE InitMembers
    BY <2>2 DEF InitMembers, DelMembers
  <2> QED
    BY <1>1, <2>1, <2>2 DEF Publisher, CreateRow, Rollback, EnterRank
<1>2. ASSUME NEW u \in Users, \/ GrabEntry(u) \/ GrabLua(u) \/ ReadGood(u)
                              \/ Republish(u) \/ RenewMark(u)
      PROVE  UNCHANGED slotVars \/ (GivenSlot(u) /\ UNCHANGED <<opened, wiped>>)
  BY <1>2 DEF GrabEntry, GrabLua, ReadGood, Republish, RenewMark, RenewGrabPending
<1>3. CASE Consumer \/ Recount \/ Crash \/ UNCHANGED vars
  BY <1>3 DEF Consumer, Recount, CreateOrder, ClearMark, ZIncrHotRank, RecountReads,
              RecountWrites, RemoveGrabPending, Crash, vars
<1> QED
  BY <1>1, <1>2, <1>3 DEF Next

\* Stock and slots given out add up, and a user's slots are all remembered.
LEMMA SlotsKept ==
  ASSUME PublishTypeOK, BirthInv, SlotsConservedFromBirth, TakenInv, [Next]_vars
  PROVE  SlotsConservedFromBirth' /\ TakenInv'
<1> USE DEF SlotsConservedFromBirth, TakenInv
<1>0. stock \in Int /\ given \in Nat /\ taken \in [Users -> Nat]
  BY DEF PublishTypeOK, CacheTypeOK
<1>1. CASE InitStock /\ SetStock
  <2>1. ~opened /\ given = 0
    BY <1>0, <1>1 DEF BirthInv, InitStock
  <2>2. stock' = MaxMembers /\ opened' /\ UNCHANGED <<given, taken, members, wiped>>
    BY <1>1 DEF InitStock, SetStock, grabVars
  <2> QED
    BY <2>1, <2>2, LimitsAssumption
<1>2. CASE InitMembers /\ DelMembers
  <2>1. wiped = {}
    BY <1>2 DEF BirthInv, InitMembers
  <2>2. members' = {} /\ wiped' = members /\ UNCHANGED <<stock, opened, given, taken>>
    BY <1>2 DEF InitMembers, DelMembers, grabVars
  <2> QED
    BY <2>1, <2>2
<1>3. ASSUME NEW u \in Users, GivenSlot(u), UNCHANGED <<opened, wiped>>
      PROVE  SlotsConservedFromBirth' /\ TakenInv'
  <2>1. CASE GrabLuaResult(u) = "OK"
    <3>1. u \notin members /\ stock - 1 >= 0
      BY <1>0, <2>1 DEF GrabLuaResult
    <3>2. /\ stock' = stock - 1 /\ members' = members \cup {u}
          /\ given' = given + 1 /\ taken' = [taken EXCEPT ![u] = @ + 1]
      BY <1>3, <2>1 DEF GivenSlot, ExecGrabLua
    <3>3. SlotsConservedFromBirth'
      BY <1>0, <1>3, <3>1, <3>2, LimitsAssumption
    <3>4. ASSUME NEW v \in Users
          PROVE  taken'[v] = (IF v \in members' THEN 1 ELSE 0) + (IF v \in wiped' THEN 1 ELSE 0)
      <4>1. CASE v = u
        BY <1>0, <1>3, <3>1, <3>2, <4>1
      <4>2. CASE v # u
        BY <1>0, <1>3, <3>2, <4>2
      <4> QED
        BY <4>1, <4>2
    <3> QED
      BY <3>3, <3>4
  <2>2. CASE GrabLuaResult(u) # "OK"
    BY <1>3, <2>2 DEF GivenSlot, ExecGrabLua, cache
  <2> QED
    BY <2>1, <2>2
<1>4. CASE UNCHANGED slotVars
  BY <1>4 DEF slotVars
<1> QED
  BY <1>1, <1>2, <1>3, <1>4, SlotSteps

-----------------------------------------------------------------------------
(* The hot rank.                                                            *)

\* Steps that touch neither score nor orders nor the consumer's place.
LEMMA RankUntouched ==
  ASSUME RankInv, FaultlessRank, PublishTypeOK,
         UNCHANGED <<score, orders, recounted, early, Owed>>,
         faults' \in {faults, faults + 1}, faults' = faults => recount' = recount
  PROVE  RankInv' /\ FaultlessRank'
BY DEF RankInv, FaultlessRank, PublishTypeOK

\* The consumer adds the point of an order once, and owes it until it does.
LEMMA ConsumerKeepsRank ==
  ASSUME PublishTypeOK, ConsumerServes, RankInv, FaultlessRank, Consumer
  PROVE  RankInv' /\ FaultlessRank'
<1> USE DEF Fault, NoFault, rankVars, consumerVars
<1>0. score \in Nat /\ recounted \in Nat /\ faults \in Nat /\ orders \subseteq Users
  BY DEF PublishTypeOK
<1>1. CASE ClearMark
  <2>1. UNCHANGED <<score, orders, recounted, early, recount>>
    BY <1>1 DEF ClearMark
  <2>2. Owed' = Owed
    BY <1>1 DEF ClearMark, ConsumerGoes, Acked, ConsumerDone, Owed
  <2>3. faults' \in {faults, faults + 1}
    BY <1>1 DEF ClearMark
  <2> QED
    BY <2>1, <2>2, <2>3, RankUntouched
<1>2. CASE ZIncrHotRank
  <2>1. UNCHANGED <<orders, early, recounted>> /\ Owed = 1 /\ Owed' = 0
    BY <1>2 DEF ZIncrHotRank, Acked, Redelivered, ConsumerDone, Owed
  <2>2. \/ score' = score + 1 /\ recount' = recount
        \/ score' \in {score, score + 1} /\ faults' = faults + 1
    BY <1>2 DEF ZIncrHotRank
  <2>3. faults' \in {faults, faults + 1}
    BY <1>2 DEF ZIncrHotRank
  <2>4. score' + Owed' \in {score, score + Owed}
    BY <1>0, <2>1, <2>2
  <2>5. RankInv'
    BY <1>0, <2>1, <2>4, OrderCount DEF RankInv
  <2>6. FaultlessRank'
    BY <1>0, <2>1, <2>2, <2>3 DEF FaultlessRank
  <2> QED
    BY <2>5, <2>6
<1>3. CASE CreateOrder
  <2>1. UNCHANGED <<score, recounted, early, recount>> /\ Owed = 0 /\ conUser \in Users
    BY <1>3 DEF CreateOrder, Owed, ConsumerServes
  <2>2. CASE conUser \in orders
    <3>1. orders' = orders
      BY <1>3, <2>2 DEF CreateOrder
    <3>2. Owed' = 0
      BY <1>3, <2>2 DEF CreateOrder, ConsumerGoes, Redelivered, ConsumerDone, Owed
    <3>3. faults' \in {faults, faults + 1}
      BY <1>3 DEF CreateOrder
    <3> QED
      BY <2>1, <3>1, <3>2, <3>3, RankUntouched
  <2>3. CASE conUser \notin orders /\ orders' = orders \cup {conUser}
    <3>1. /\ Cardinality(orders') = Cardinality(orders) + 1
          /\ Cardinality(orders) \in Nat
      BY <2>3, OrderCount, FS_AddElement
    <3>2. conUser \notin early /\ early \subseteq orders
      BY <2>3 DEF RankInv
    <3>3. /\ Cardinality(orders' \ early') = Cardinality(orders \ early) + 1
          /\ Cardinality(orders \ early) \in Nat
      <4>1. orders' \ early' = (orders \ early) \cup {conUser}
        BY <2>1, <2>3, <3>2
      <4>2. IsFiniteSet(orders \ early) /\ Cardinality(orders \ early) \in Nat
        BY OrderCount
      <4> QED
        BY <2>3, <4>1, <4>2, FS_AddElement
    <3>4. \/ Owed' = 1 /\ faults' = faults
          \/ Owed' = 0 /\ faults' = faults + 1
      BY <1>3, <2>3 DEF CreateOrder, ConsumerGoes, Redelivered, ConsumerDone, Owed
    <3>5. RankInv'
      BY <1>0, <2>1, <2>3, <3>1, <3>2, <3>4 DEF RankInv
    <3>6. FaultlessRank'
      BY <1>0, <2>1, <3>1, <3>3, <3>4 DEF FaultlessRank
    <3> QED
      BY <3>5, <3>6
  <2>4. CASE conUser \notin orders /\ orders' = orders
    <3>1. Owed' = 0 /\ faults' = faults + 1
      BY <1>3, <2>4 DEF CreateOrder, Redelivered, ConsumerDone, Owed
    <3> QED
      BY <2>1, <2>4, <3>1, RankUntouched
  <2> QED
    BY <1>3, <2>2, <2>3, <2>4 DEF CreateOrder
<1> QED
  BY <1>1, <1>2, <1>3 DEF Consumer

\* ZADD 0 and the recount.
LEMMA ZAddKeepsRank ==
  ASSUME PublishTypeOK, ConsumerServes, RankInv, FaultlessRank, EnterRank \/ Recount
  PROVE  RankInv' /\ FaultlessRank'
<1> USE DEF Fault, NoFault, rankVars, consumerVars, ZAddHotRank
<1>0. score \in Nat /\ recounted \in Nat /\ faults \in Nat /\ Cardinality(orders) \in Nat
      /\ Owed \in {0, 1}
  BY OrderCount DEF PublishTypeOK, Owed
<1>1. CASE EnterRank
  <2>1. UNCHANGED <<orders, recounted, conPc, recount, Owed>> /\ faults' \in {faults, faults + 1}
    BY <1>1 DEF EnterRank, Owed
  <2>2. CASE score' = 0 /\ early' = orders
    <3>1. Owed <= Cardinality(orders)
      <4>1. Owed = 1 => orders # {}
        BY DEF Owed, ConsumerServes
      <4>2. orders # {} => Cardinality(orders) # 0
        BY OrderCount, FS_EmptySet
      <4> QED
        BY <1>0, <4>1, <4>2
    <3>2. Cardinality(orders' \ early') = 0
      <4>1. orders' \ early' = {}
        BY <2>1, <2>2
      <4> QED
        BY <4>1, FS_EmptySet
    <3> QED
      BY <1>0, <2>1, <2>2, <3>1, <3>2 DEF RankInv, FaultlessRank
  <2>3. CASE UNCHANGED <<score, early>>
    BY <2>1, <2>3, RankUntouched
  <2> QED
    BY <1>1, <2>2, <2>3 DEF EnterRank
<1>2. CASE RecountReads
  <2>1. /\ recount = "due" /\ recounted' = Cardinality(orders) /\ faults' = faults
        /\ UNCHANGED <<orders, score, early, Owed>>
    BY <1>2 DEF RecountReads, Owed
  <2> QED
    BY <1>0, <2>1 DEF RankInv, FaultlessRank
<1>3. CASE RecountWrites
  <2>1. /\ recount = "write" /\ score' \in {score, recounted} /\ recounted' = 0
        /\ faults' \in {faults, faults + 1} /\ UNCHANGED <<orders, early, Owed>>
    BY <1>3 DEF RecountWrites, Owed
  <2>2. faults # 0
    BY <2>1 DEF FaultlessRank
  <2> QED
    BY <1>0, <2>1, <2>2 DEF RankInv, FaultlessRank
<1> QED
  BY <1>1, <1>2, <1>3 DEF Recount

\* Every step keeps the rank.
LEMMA RankKept ==
  ASSUME PublishTypeOK, ConsumerServes, RankInv, FaultlessRank, [Next]_vars
  PROVE  RankInv' /\ FaultlessRank'
<1> USE DEF Fault, NoFault, rankVars, consumerVars
<1>1. CASE CreateRow \/ InitStock \/ InitMembers \/ Rollback \/ UNCHANGED vars
  BY <1>1, RankUntouched DEF CreateRow, InitStock, InitMembers, Rollback, vars, Owed
<1>2. ASSUME NEW u \in Users, GrabEntry(u) \/ GrabLua(u) \/ Republish(u) \/ RenewMark(u)
      PROVE  RankInv' /\ FaultlessRank'
  BY <1>2, RankUntouched DEF GrabEntry, GrabLua, Republish, RenewMark, Owed
<1>3. ASSUME NEW u \in Users, ReadGood(u)
      PROVE  RankInv' /\ FaultlessRank'
  BY <1>3, RankUntouched DEF ReadGood, Owed
<1>4. CASE Crash
  <2>1. /\ UNCHANGED <<score, orders, early>> /\ recounted' \in {recounted, 0}
        /\ Owed' <= Owed /\ Owed \in {0, 1} /\ Owed' \in {0, 1} /\ faults' = faults + 1
    BY <1>4 DEF Crash, Redelivered, ConsumerDone, Owed
  <2> QED
    BY <2>1, OrderCount DEF RankInv, FaultlessRank, PublishTypeOK
<1> QED
  BY <1>1, <1>2, <1>3, <1>4, ConsumerKeepsRank, ZAddKeepsRank DEF Next, Publisher

-----------------------------------------------------------------------------
(* The theorems.                                                            *)

\* The inductive invariant holds.
THEOREM PublishInvariance == Spec => []PublishInv
<1>1. PublishInv /\ [Next]_vars => PublishInv'
  BY TypesKept, BirthKept, SlotsKept, RankKept DEF PublishInv
<1> QED
  BY <1>1, InitPublishInv, PTL DEF Spec

\* Types.
THEOREM PublishTypeCorrect == Spec => []PublishTypeOK
<1>1. PublishInv => PublishTypeOK
  BY DEF PublishInv
<1> QED
  BY <1>1, PublishInvariance, PTL

\* Grabs that are faster than the stock neither oversell nor use up a slot.
THEOREM SlotsAreConservedFromBirth == Spec => []SlotsConservedFromBirth
<1>1. PublishInv => SlotsConservedFromBirth
  BY DEF PublishInv
<1> QED
  BY <1>1, PublishInvariance, PTL

\* DEL members after SET stock costs at most one slot per user, once.
THEOREM NobodyTakesThree == Spec => []OneSlotEach
<1>1. PublishInv => OneSlotEach
  BY DEF PublishInv, TakenInv, OneSlotEach
<1> QED
  BY <1>1, PublishInvariance, PTL

\* What the publisher is told fits what is there.
THEOREM PublisherIsToldTheTruth == Spec => []AnswerTellsTruth
<1>1. PublishInv => AnswerTellsTruth
  BY DEF PublishInv
<1> QED
  BY <1>1, PublishInvariance, PTL

\* Recounts, late points and redeliveries together overcount by one at most.
THEOREM RankIsAlmostRight == Spec => []RankOvercountsOne
<1>1. PublishInv => RankOvercountsOne
  <2> SUFFICES ASSUME PublishInv PROVE RankOvercountsOne
    OBVIOUS
  <2>1. score \in Nat /\ Owed \in {0, 1} /\ Cardinality(orders) \in Nat
    BY OrderCount DEF PublishInv, PublishTypeOK, Owed
  <2> QED
    BY <2>1 DEF PublishInv, RankInv, RankOvercountsOne
<1> QED
  BY <1>1, PublishInvariance, PTL

\* Without faults the rank misses the early orders at most.
THEOREM RankIsRightAtRest == Spec => []RankAtRest
<1>1. PublishInv => RankAtRest
  <2> SUFFICES ASSUME PublishInv, faults = 0, conPc = "idle"
               PROVE  score \in Cardinality(orders \ early) .. Cardinality(orders)
    BY DEF RankAtRest
  <2>1. score \in Nat /\ Owed = 0
    BY DEF PublishInv, PublishTypeOK, Owed
  <2> QED
    BY <2>1 DEF PublishInv, FaultlessRank
<1> QED
  BY <1>1, PublishInvariance, PTL
=============================================================================
