--------------------------- MODULE GrabFlowProofs ---------------------------
(***************************************************************************)
(* The invariants of the order path, for every set of users and requests,  *)
(* every pair of limits and any number of faults and copies.  IInv is the  *)
(* inductive invariant; its parts are kept by the lemmas of the same name. *)
(***************************************************************************)
EXTENDS GrabFlow, GroupBuyTablesProofs

\* A handler that is between two calls serves a user.
HandlersServe ==
  /\ \A r \in Requests : reqPc[r] # "idle" => reqUser[r] \in Users
  /\ conPc # "idle" => conUser \in Users

\* Whoever has a message, a mark or an order took a slot with the script.
OnlyMembersServed ==
  /\ GuardsAgree
  /\ \A u \in Users : queue[u] > 0 => u \in members
  /\ pending \subseteq members
  /\ renewing \subseteq members
  /\ \A r \in Requests : reqPc[r] = "publish" => reqUser[r] \in members
  /\ conPc # "idle" => conUser \in members

\* The consumer clears a mark only when the order is there.
MarkOutlivesGrab ==
  /\ NoLostGrab
  /\ conPc \in {"clearNew", "clearDup", "enqueue"} => orders[conUser] # "none"

\* A handler about to put a slot back is the first one to do so, and its order
\* has lost the slot; one about to drop a close task has a decided order.
SettleInv ==
  \A u \in Users :
    /\ settle[u] = "release" => orders[u] \in {"cancelled", "closed"} /\ u \notin released
    /\ settle[u] = "unschedule" => orders[u] \notin {"none", "pending_pay"}

IInv ==
  /\ TypeOK
  /\ TablesInv
  /\ HandlersServe
  /\ OnlyMembersServed
  /\ MarkOutlivesGrab
  /\ SettleInv
  /\ SlotsConserved

-----------------------------------------------------------------------------
LEMMA InitIInv == Init => IInv
<1> SUFFICES ASSUME Init PROVE IInv
  OBVIOUS
<1>1. TablesInv
  BY TablesInitInv DEF Init
<1>2. TypeOK
  BY <1>1, LimitsAssumption
  DEF TablesInv, Init, CacheInit, TypeOK, CacheTypeOK, HandlersTypeOK, RequestPc, ConsumerPc, SettlePc
<1>3. HandlersServe /\ OnlyMembersServed /\ MarkOutlivesGrab /\ SettleInv
  BY DEF Init, TablesInit, CacheInit, HandlersServe, OnlyMembersServed, GuardsAgree,
         MarkOutlivesGrab, NoLostGrab, SettleInv
<1>4. SlotsConserved
  <2>1. Cardinality(members \ released) = 0
    BY FS_EmptySet DEF Init, CacheInit
  <2> QED
    BY <2>1, LimitsAssumption DEF Init, CacheInit, SlotsConserved
<1> QED BY <1>1, <1>2, <1>3, <1>4 DEF IInv

-----------------------------------------------------------------------------
\* The tables only ever take the steps of GroupBuyTables.
LEMMA NextTables ==
  ASSUME HandlersServe, Next
  PROVE  [TablesStep]_tables
<1> USE DEF TablesStep
<1>1. ASSUME NEW r \in Requests, Request(r) PROVE UNCHANGED tables
  BY <1>1 DEF Request, GrabEntry, GrabLock, GrabLua, GrabPublish, GrabUnlock
<1>2. CASE Consumer
  <2>1. CASE ConsumeCreate
    BY <2>1 DEF ConsumeCreate, HandlersServe
  <2> QED
    BY <1>2, <2>1 DEF Consumer, Deliver, ConsumeClearMark, ConsumeDuplicate, ConsumeEnqueueClose
<1>3. ASSUME NEW u \in Users, Order(u) PROVE [TablesStep]_tables
  BY <1>3 DEF Order, PayOrder, CancelOrder, SettleRelease, SettleUnschedule, ScanFindsDue,
              ScanClose, CompensateOrderClose, CompensateOrderCloseLate
<1>4. ASSUME NEW u \in Users, Mark(u) PROVE UNCHANGED tables
  BY <1>4 DEF Mark, Republish, RenewMark
<1>5. CASE ScanJudge \/ TimePasses \/ Crash
  BY <1>5 DEF ScanJudge, TimePasses, Crash
<1> QED BY <1>1, <1>2, <1>3, <1>4, <1>5 DEF Next

\* An order that exists stays, and one that is decided stays as it is.
LEMMA OrdersOnlyAdvance ==
  ASSUME TablesTypeOK, [TablesStep]_tables, NEW u \in Users
  PROVE  /\ orders[u] # "none" => orders'[u] # "none"
         /\ orders[u] \notin {"none", "pending_pay"} => orders'[u] = orders[u]
BY DEF TablesStep, tables, TablesTypeOK, CreateOrderTx, DuplicateEntry, UpdateOrderPaid, CancelOrderTx,
       CloseExpiredOrder, GiveUpSlot, JudgeExpiredGroupBuys, DeadlinePasses

LEMMA TablesInvKept ==
  ASSUME IInv, Next
  PROVE  TablesInv'
BY NextTables, TablesStepKeepsInv DEF IInv

LEMMA CacheTypeKept ==
  ASSUME IInv, Next
  PROVE  CacheTypeOK'
<1> USE DEF IInv, TypeOK, CacheTypeOK, cache
<1>1. ASSUME NEW r \in Requests, Request(r) PROVE CacheTypeOK'
  <2>1. CASE GrabLock(r)
    BY <2>1 DEF GrabLock, AcquireLock
  <2>2. CASE GrabLua(r)
    BY <2>2 DEF GrabLua, ExecGrabLua, HandlersServe
  <2>3. CASE GrabUnlock(r)
    BY <2>3 DEF GrabUnlock, ReleaseLock
  <2> QED
    BY <1>1, <2>1, <2>2, <2>3 DEF Request, GrabEntry, GrabPublish
<1>2. CASE Consumer
  BY <1>2 DEF Consumer, Deliver, ConsumeCreate, ConsumeClearMark, ConsumeDuplicate,
              ConsumeEnqueueClose, RemoveGrabPending, EnqueueOrderClose, HandlersServe
<1>3. ASSUME NEW u \in Users, Order(u) PROVE CacheTypeOK'
  BY <1>3 DEF Order, PayOrder, CancelOrder, SettleRelease, SettleUnschedule, ScanFindsDue, ScanClose,
              CompensateOrderClose, CompensateOrderCloseLate, ReleaseGroupBuySlot, RemoveOrderClose,
              EnqueueOrderClose
<1>4. ASSUME NEW u \in Users, Mark(u) PROVE CacheTypeOK'
  BY <1>4 DEF Mark, Republish, RenewMark, RenewGrabPending
<1>5. CASE ScanJudge \/ TimePasses \/ Crash
  BY <1>5 DEF ScanJudge, TimePasses, LockExpires, Crash
<1> QED BY <1>1, <1>2, <1>3, <1>4, <1>5 DEF Next

LEMMA HandlersTypeKept ==
  ASSUME IInv, Next
  PROVE  HandlersTypeOK'
<1> USE DEF IInv, TypeOK, HandlersTypeOK, Fault, NoFault, requestVars, consumerVars, scannerVars,
            compVars
<1>1. ASSUME NEW r \in Requests, Request(r) PROVE HandlersTypeOK'
  <2>1. CASE \E u \in Users : GrabEntry(r, u)
    BY <2>1 DEF GrabEntry, RequestPc
  <2>2. CASE GrabLock(r)
    BY <2>2 DEF GrabLock, RequestGoes, RequestEnds, RequestPc
  <2>3. CASE GrabLua(r)
    BY <2>3 DEF GrabLua, RequestGoes, RequestPc
  <2>4. CASE GrabPublish(r)
    BY <2>4 DEF GrabPublish, RequestGoes, RequestPc, Enqueued
  <2>5. CASE GrabUnlock(r)
    BY <2>5 DEF GrabUnlock, RequestEnds, RequestPc
  <2> QED
    BY <1>1, <2>1, <2>2, <2>3, <2>4, <2>5 DEF Request
<1>2. CASE Consumer
  <2> USE DEF ConsumerPc, ConsumerDone, ConsumerGoes, Acked, Redelivered, Enqueued
  <2>1. ASSUME NEW u \in Users, Deliver(u) PROVE HandlersTypeOK'
    BY <2>1 DEF Deliver
  <2>2. CASE ConsumeCreate
    BY <2>2 DEF ConsumeCreate
  <2>3. CASE ConsumeClearMark \/ ConsumeDuplicate
    BY <2>3 DEF ConsumeClearMark, ConsumeDuplicate
  <2>4. CASE ConsumeEnqueueClose
    BY <2>4 DEF ConsumeEnqueueClose, HandlersServe
  <2> QED BY <1>2, <2>1, <2>2, <2>3, <2>4 DEF Consumer
<1>3. ASSUME NEW u \in Users, Order(u) PROVE HandlersTypeOK'
  BY <1>3 DEF Order, PayOrder, CancelOrder, SettleRelease, SettleUnschedule, SettleGoes, SettlePc,
              ScanFindsDue, ScanClose, CompensateOrderClose, CompensateOrderCloseLate, RowGoes, RowStays
<1>4. ASSUME NEW u \in Users, Mark(u) PROVE HandlersTypeOK'
  BY <1>4 DEF Mark, Republish, RenewMark, Enqueued
<1>5. CASE ScanJudge \/ TimePasses
  BY <1>5 DEF ScanJudge, TimePasses
<1>6. CASE Crash
  BY <1>6 DEF Crash, Redelivered, ConsumerDone, Enqueued, RequestPc, ConsumerPc, SettlePc
<1> QED BY <1>1, <1>2, <1>3, <1>4, <1>5, <1>6 DEF Next

LEMMA HandlersServeKept ==
  ASSUME IInv, Next
  PROVE  HandlersServe'
<1> USE DEF IInv, TypeOK, HandlersTypeOK, HandlersServe, requestVars, consumerVars
<1>1. ASSUME NEW r \in Requests, Request(r) PROVE HandlersServe'
  BY <1>1 DEF Request, GrabEntry, GrabLock, GrabLua, GrabPublish, GrabUnlock, RequestGoes, RequestEnds
<1>2. CASE Consumer
  BY <1>2 DEF Consumer, Deliver, ConsumeCreate, ConsumeClearMark, ConsumeDuplicate,
              ConsumeEnqueueClose, ConsumerDone, ConsumerGoes, Acked, Redelivered
<1>3. ASSUME NEW u \in Users, Order(u) \/ Mark(u) PROVE HandlersServe'
  BY <1>3 DEF Order, PayOrder, CancelOrder, SettleRelease, SettleUnschedule, ScanFindsDue, ScanClose,
              CompensateOrderClose, CompensateOrderCloseLate, Mark, Republish, RenewMark
<1>4. CASE ScanJudge \/ TimePasses \/ Crash
  BY <1>4 DEF ScanJudge, TimePasses, Crash, Redelivered, ConsumerDone
<1> QED BY <1>1, <1>2, <1>3, <1>4 DEF Next

\* Only the grab script adds an order-less user to members, and nobody leaves.
LEMMA OnlyMembersServedKept ==
  ASSUME IInv, Next
  PROVE  OnlyMembersServed'
<1> USE DEF IInv, TypeOK, TablesTypeOK, CacheTypeOK, HandlersTypeOK, OnlyMembersServed, GuardsAgree,
            tables, cache, requestVars, consumerVars, scannerVars, compVars
<1>1. ASSUME NEW r \in Requests, Request(r) PROVE OnlyMembersServed'
  <2>1. CASE \E u \in Users : GrabEntry(r, u)
    BY <2>1 DEF GrabEntry
  <2>2. CASE GrabLock(r)
    BY <2>2 DEF GrabLock, AcquireLock, RequestGoes, RequestEnds
  <2>3. CASE GrabLua(r)
    BY <2>3 DEF GrabLua, ExecGrabLua, GrabLuaResult, RequestGoes, HandlersServe
  <2>4. CASE GrabPublish(r)
    BY <2>4 DEF GrabPublish, RequestGoes, Enqueued
  <2>5. CASE GrabUnlock(r)
    BY <2>5 DEF GrabUnlock, ReleaseLock, RequestEnds
  <2> QED
    BY <1>1, <2>1, <2>2, <2>3, <2>4, <2>5 DEF Request
<1>2. CASE Consumer
  <2> USE DEF ConsumerDone, ConsumerGoes, Acked, Redelivered, Enqueued, HandlersServe
  <2>1. ASSUME NEW u \in Users, Deliver(u) PROVE OnlyMembersServed'
    BY <2>1 DEF Deliver
  <2>2. CASE ConsumeCreate
    BY <2>2 DEF ConsumeCreate, CreateOrderTx
  <2>3. CASE ConsumeClearMark \/ ConsumeDuplicate
    BY <2>3 DEF ConsumeClearMark, ConsumeDuplicate, RemoveGrabPending
  <2>4. CASE ConsumeEnqueueClose
    BY <2>4 DEF ConsumeEnqueueClose, EnqueueOrderClose
  <2> QED BY <1>2, <2>1, <2>2, <2>3, <2>4 DEF Consumer
<1>3. ASSUME NEW u \in Users, Order(u) PROVE OnlyMembersServed'
  BY <1>3 DEF Order, PayOrder, CancelOrder, SettleRelease, SettleUnschedule, ScanFindsDue, ScanClose,
              CompensateOrderClose, CompensateOrderCloseLate, UpdateOrderPaid, CancelOrderTx,
              CloseExpiredOrder, GiveUpSlot,
              ReleaseGroupBuySlot, RemoveOrderClose, EnqueueOrderClose
<1>4. ASSUME NEW u \in Users, Mark(u) PROVE OnlyMembersServed'
  BY <1>4 DEF Mark, Republish, RenewMark, RenewGrabPending, Enqueued
<1>5. CASE ScanJudge \/ TimePasses
  BY <1>5 DEF ScanJudge, JudgeExpiredGroupBuys, TimePasses, DeadlinePasses, LockExpires
<1>6. CASE Crash
  BY <1>6 DEF Crash, Redelivered, ConsumerDone, Enqueued
<1> QED BY <1>1, <1>2, <1>3, <1>4, <1>5, <1>6 DEF Next

LEMMA MarkOutlivesGrabKept ==
  ASSUME IInv, Next
  PROVE  MarkOutlivesGrab'
<1> USE DEF IInv, TypeOK, HandlersTypeOK, CacheTypeOK, MarkOutlivesGrab, NoLostGrab, cache, tables,
            consumerVars
<1>0. \A u \in Users : orders[u] # "none" => orders'[u] # "none"
  BY NextTables, OrdersOnlyAdvance
<1>1. ASSUME NEW r \in Requests, Request(r) PROVE MarkOutlivesGrab'
  BY <1>1 DEF Request, GrabEntry, GrabLock, AcquireLock, GrabLua, ExecGrabLua, GrabPublish,
              GrabUnlock, ReleaseLock
<1>2. CASE Consumer
  <2> USE DEF ConsumerDone, ConsumerGoes, Acked, Redelivered, HandlersServe
  <2>1. ASSUME NEW u \in Users, Deliver(u) PROVE MarkOutlivesGrab'
    BY <2>1 DEF Deliver
  <2>2. CASE ConsumeCreate
    <3>1. CreateOrderTx(conUser) => orders'[conUser] # "none"
      BY <2>2 DEF CreateOrderTx, TablesTypeOK, HandlersServe, ConsumeCreate
    <3>2. DuplicateEntry(conUser) => orders[conUser] # "none"
      BY <2>2 DEF DuplicateEntry, TablesInv, RosterMatchesOrders, Sold, ActiveStatus
    <3> QED BY <1>0, <2>2, <3>1, <3>2 DEF ConsumeCreate
  <2>3. CASE ConsumeClearMark \/ ConsumeDuplicate
    BY <2>3 DEF ConsumeClearMark, ConsumeDuplicate, RemoveGrabPending
  <2>4. CASE ConsumeEnqueueClose
    BY <2>4 DEF ConsumeEnqueueClose, EnqueueOrderClose
  <2> QED BY <1>2, <2>1, <2>2, <2>3, <2>4 DEF Consumer
<1>3. ASSUME NEW u \in Users, Order(u) PROVE MarkOutlivesGrab'
  <2>1. UNCHANGED <<members, pending, conPc, conUser>>
    BY <1>3 DEF Order, PayOrder, CancelOrder, SettleRelease, SettleUnschedule, ScanFindsDue, ScanClose,
                CompensateOrderClose, CompensateOrderCloseLate, ReleaseGroupBuySlot,
                RemoveOrderClose, EnqueueOrderClose
  <2> QED BY <1>0, <2>1 DEF HandlersServe, ConsumerPc
<1>4. ASSUME NEW u \in Users, Mark(u) PROVE MarkOutlivesGrab'
  BY <1>4 DEF Mark, Republish, RenewMark, RenewGrabPending
<1>5. CASE ScanJudge \/ TimePasses \/ Crash
  BY <1>5 DEF ScanJudge, JudgeExpiredGroupBuys, TimePasses, DeadlinePasses, LockExpires, Crash,
              Redelivered, ConsumerDone
<1> QED BY <1>1, <1>2, <1>3, <1>4, <1>5 DEF Next

LEMMA SettleInvKept ==
  ASSUME IInv, Next
  PROVE  SettleInv'
<1> USE DEF IInv, TypeOK, TablesTypeOK, CacheTypeOK, HandlersTypeOK, SettleInv, cache, tables
<1>0. \A u \in Users : orders[u] \notin {"none", "pending_pay"} => orders'[u] = orders[u]
  BY NextTables, OrdersOnlyAdvance
<1>1. ASSUME NEW r \in Requests, Request(r) PROVE SettleInv'
  BY <1>1 DEF Request, GrabEntry, GrabLock, AcquireLock, GrabLua, ExecGrabLua, GrabPublish,
              GrabUnlock, ReleaseLock
<1>2. CASE Consumer
  <2>1. UNCHANGED <<settle, released>>
    BY <1>2 DEF Consumer, Deliver, ConsumeCreate, ConsumeClearMark, ConsumeDuplicate,
                ConsumeEnqueueClose, RemoveGrabPending, EnqueueOrderClose
  <2> QED BY <1>0, <2>1
<1>3. ASSUME NEW u \in Users, Order(u) PROVE SettleInv'
  <2>1. CASE PayOrder(u)
    BY <2>1 DEF PayOrder, UpdateOrderPaid, SettleGoes
  <2>2. CASE CancelOrder(u) \/ ScanClose(u)
    BY <2>2 DEF CancelOrder, CancelOrderTx, ScanClose, CloseExpiredOrder, GiveUpSlot, RemoveOrderClose,
                SettleGoes, SlotsConserved
  <2>3. CASE SettleRelease(u)
    BY <2>3 DEF SettleRelease, ReleaseGroupBuySlot, SettleGoes
  <2>4. CASE SettleUnschedule(u)
    BY <2>4 DEF SettleUnschedule, RemoveOrderClose, SettleGoes
  <2>5. CASE ScanFindsDue(u) \/ CompensateOrderClose(u) \/ CompensateOrderCloseLate(u)
    BY <2>5 DEF ScanFindsDue, CompensateOrderClose, CompensateOrderCloseLate, EnqueueOrderClose
  <2> QED BY <1>3, <2>1, <2>2, <2>3, <2>4, <2>5 DEF Order
<1>4. ASSUME NEW u \in Users, Mark(u) PROVE SettleInv'
  BY <1>4 DEF Mark, Republish, RenewMark, RenewGrabPending
<1>5. CASE ScanJudge \/ TimePasses \/ Crash
  BY <1>5 DEF ScanJudge, JudgeExpiredGroupBuys, TimePasses, DeadlinePasses, LockExpires, Crash
<1> QED BY <1>1, <1>2, <1>3, <1>4, <1>5 DEF Next

-----------------------------------------------------------------------------
\* The users that took a slot and did not give it back.
Keepers == members \ released

\* A grab adds one keeper, a release removes one.
LEMMA KeepersCount ==
  ASSUME CacheTypeOK, NEW u \in Users
  PROVE  /\ IsFiniteSet(Keepers) /\ Cardinality(Keepers) \in Nat
         /\ u \notin Keepers => Cardinality(Keepers \cup {u}) = Cardinality(Keepers) + 1
         /\ u \in Keepers => Cardinality(Keepers \ {u}) = Cardinality(Keepers) - 1
<1>1. IsFiniteSet(Keepers)
  BY UsersFinite, FS_Subset DEF CacheTypeOK, Keepers
<1>2. Cardinality(Keepers) \in Nat
  BY <1>1, FS_CardinalityType
<1>3. u \notin Keepers => Cardinality(Keepers \cup {u}) = Cardinality(Keepers) + 1
  BY <1>1, FS_AddElement
<1>4. u \in Keepers => Cardinality(Keepers \ {u}) = Cardinality(Keepers) - 1
  BY <1>1, FS_RemoveElement
<1> QED BY <1>1, <1>2, <1>3, <1>4

\* The script that answers OK: a user without an order takes a free slot.
LEMMA GrabTakesSlot ==
  ASSUME IInv, NEW u \in Users, GrabLuaResult(u) = "OK", ExecGrabLua(u)
  PROVE  /\ u \notin members /\ u \notin released /\ orders[u] = "none"
         /\ stock > 0 /\ stock' = stock - 1
         /\ members' = members \cup {u} /\ released' = released
         /\ Cardinality(Keepers') = Cardinality(Keepers) + 1
<1>1. u \notin members /\ stock > 0
  BY DEF GrabLuaResult, IInv, TypeOK, CacheTypeOK
<1>2. orders[u] = "none" /\ u \notin released
  BY <1>1 DEF IInv, OnlyMembersServed, GuardsAgree, SlotsConserved
<1>3. stock' = stock - 1 /\ members' = members \cup {u} /\ released' = released
  BY DEF ExecGrabLua
<1>4. Keepers' = Keepers \cup {u} /\ u \notin Keepers
  BY <1>1, <1>2, <1>3 DEF Keepers
<1> QED BY <1>1, <1>2, <1>3, <1>4, KeepersCount DEF IInv, TypeOK

\* The release after a cancel or a close: the user gives his slot back once.
LEMMA ReleaseFreesSlot ==
  ASSUME IInv, NEW u \in Users, settle[u] = "release", ReleaseGroupBuySlot(u)
  PROVE  /\ u \in members /\ u \notin released /\ orders[u] \in {"cancelled", "closed"}
         /\ stock' = stock + 1 /\ members' = members /\ released' = released \cup {u}
         /\ Cardinality(Keepers') = Cardinality(Keepers) - 1
<1>1. orders[u] \in {"cancelled", "closed"} /\ u \notin released
  BY DEF IInv, SettleInv
<1>2. u \in members
  BY <1>1 DEF IInv, OnlyMembersServed, GuardsAgree
<1>3. stock' = stock + 1 /\ members' = members /\ released' = released \cup {u}
  BY DEF ReleaseGroupBuySlot
<1>4. Keepers' = Keepers \ {u} /\ u \in Keepers
  BY <1>1, <1>2, <1>3 DEF Keepers
<1> QED BY <1>1, <1>2, <1>3, <1>4, KeepersCount DEF IInv, TypeOK

\* Every step is a grab, a release, or leaves the slots where they are.
LEMMA SlotSteps ==
  ASSUME IInv, Next
  PROVE  \/ /\ \E u \in Users : GrabLuaResult(u) = "OK" /\ ExecGrabLua(u)
            /\ UNCHANGED tables
         \/ /\ \E u \in Users : settle[u] = "release" /\ ReleaseGroupBuySlot(u)
            /\ UNCHANGED tables
         \/ UNCHANGED <<stock, members, released>>
<1> DEFINE Slots == UNCHANGED <<stock, members, released>>
<1>1. ASSUME NEW r \in Requests, Request(r), ~Slots
      PROVE  /\ \E u \in Users : GrabLuaResult(u) = "OK" /\ ExecGrabLua(u)
             /\ UNCHANGED tables
  <2>1. GrabLua(r)
    BY <1>1 DEF Request, GrabEntry, GrabLock, AcquireLock, GrabPublish, GrabUnlock, ReleaseLock, cache
  <2>2. ExecGrabLua(reqUser[r]) /\ reqUser[r] \in Users
    BY <1>1, <2>1 DEF GrabLua, IInv, HandlersServe, cache
  <2>3. GrabLuaResult(reqUser[r]) = "OK"
    BY <1>1, <2>2 DEF ExecGrabLua, cache
  <2> QED BY <2>1, <2>2, <2>3 DEF GrabLua
<1>2. CASE Consumer
  BY <1>2 DEF Consumer, Deliver, ConsumeCreate, ConsumeClearMark, ConsumeDuplicate,
              ConsumeEnqueueClose, RemoveGrabPending, EnqueueOrderClose, cache
<1>3. ASSUME NEW u \in Users, Order(u), ~Slots
      PROVE  settle[u] = "release" /\ ReleaseGroupBuySlot(u) /\ UNCHANGED tables
  BY <1>3 DEF Order, PayOrder, CancelOrder, SettleRelease, SettleUnschedule, ScanFindsDue, ScanClose,
              CompensateOrderClose, CompensateOrderCloseLate, RemoveOrderClose, EnqueueOrderClose, cache
<1>4. ASSUME NEW u \in Users, Mark(u) PROVE Slots
  BY <1>4 DEF Mark, Republish, RenewMark, RenewGrabPending, cache
<1>5. CASE ScanJudge \/ TimePasses \/ Crash
  BY <1>5 DEF ScanJudge, TimePasses, LockExpires, Crash, cache
<1> QED BY <1>1, <1>2, <1>3, <1>4, <1>5 DEF Next

LEMMA SlotsConservedKept ==
  ASSUME IInv, Next
  PROVE  SlotsConserved'
<1> USE DEF IInv, TypeOK, CacheTypeOK, SlotsConserved
<1>0. \A u \in Users : orders[u] \notin {"none", "pending_pay"} => orders'[u] = orders[u]
  BY NextTables, OrdersOnlyAdvance
<1>1. /\ stock \in Int /\ Cardinality(Keepers) \in Int
      /\ stock + Cardinality(Keepers) = MaxMembers
  <2>1. IsFiniteSet(Keepers)
    BY UsersFinite, FS_Subset DEF Keepers
  <2> QED BY <2>1, FS_CardinalityType DEF Keepers
<1>2. ASSUME NEW u \in Users, GrabLuaResult(u) = "OK", ExecGrabLua(u), UNCHANGED tables
      PROVE  SlotsConserved'
  BY <1>1, <1>2, GrabTakesSlot DEF Keepers, tables
<1>3. ASSUME NEW u \in Users, settle[u] = "release", ReleaseGroupBuySlot(u), UNCHANGED tables
      PROVE  SlotsConserved'
  <2>1. /\ stock' = stock + 1 /\ released' = released \cup {u}
        /\ orders[u] \in {"cancelled", "closed"} /\ orders' = orders
        /\ Cardinality(Keepers') = Cardinality(Keepers) - 1
    BY <1>3, ReleaseFreesSlot DEF tables
  <2>2. stock' + Cardinality(Keepers') = MaxMembers /\ stock' >= 0
    BY <1>1, <2>1
  <2> QED BY <2>1, <2>2 DEF Keepers
<1>4. CASE UNCHANGED <<stock, members, released>>
  BY <1>0, <1>4
<1> QED BY <1>2, <1>3, <1>4, SlotSteps

-----------------------------------------------------------------------------
LEMMA NextIInv ==
  ASSUME IInv, [Next]_vars
  PROVE  IInv'
<1>1. CASE Next
  <2>1. TypeOK'
    BY <1>1, TablesInvKept, CacheTypeKept, HandlersTypeKept DEF TypeOK, TablesInv
  <2> QED
    BY <1>1, <2>1, TablesInvKept, HandlersServeKept, OnlyMembersServedKept, MarkOutlivesGrabKept,
       SettleInvKept, SlotsConservedKept DEF IInv
<1>2. CASE UNCHANGED vars
  BY <1>2 DEF vars, tables, cache, requestVars, consumerVars, scannerVars, compVars,
              IInv, TypeOK, TablesTypeOK,
              CacheTypeOK, HandlersTypeOK, TablesInv, RosterMatchesOrders, Sold, CountMatchesRoster,
              RecruitingBelowMin, HandlersServe, OnlyMembersServed, GuardsAgree, MarkOutlivesGrab,
              NoLostGrab, SettleInv, SlotsConserved
<1> QED BY <1>1, <1>2

\* IInv holds in every state the order path can reach.
THEOREM Invariance == Spec => []IInv
BY InitIInv, NextIInv, PTL DEF Spec

\* Every variable keeps its type.
THEOREM TypeCorrect == Spec => []TypeOK
BY Invariance, PTL DEF IInv

\* No slot is lost from the books and none is handed out twice.
THEOREM SlotsAlwaysConserved == Spec => []SlotsConserved
BY Invariance, PTL DEF IInv

\* A user whose grab succeeded has an order or a mark to get one from.
THEOREM GrabNeverLost == Spec => []NoLostGrab
<1>1. IInv => NoLostGrab
  BY DEF IInv, MarkOutlivesGrab
<1> QED BY <1>1, Invariance, PTL

\* The Redis duplicate check covers the unique key of the orders.
THEOREM GuardsAlwaysAgree == Spec => []GuardsAgree
<1>1. IInv => GuardsAgree
  BY DEF IInv, OnlyMembersServed
<1> QED BY <1>1, Invariance, PTL

\* Sign-in book, current_members and status of the group buy fit the orders.
THEOREM TablesAlwaysAgree ==
  Spec => [](RosterMatchesOrders /\ CountMatchesRoster /\ RecruitingBelowMin)
<1>1. IInv => RosterMatchesOrders /\ CountMatchesRoster /\ RecruitingBelowMin
  BY DEF IInv, TablesInv
<1> QED BY <1>1, Invariance, PTL

\* The counter of members counts the sign-in book until the group buy fails.
THEOREM CounterIsRight == Spec => []CountMatchesRoster
<1>1. IInv => CountMatchesRoster
  BY DEF IInv, TablesInv
<1> QED BY <1>1, Invariance, PTL

\* No group buy that reached min_members is still recruiting, so that the
\* deadline cannot fail it.
THEOREM FlipIsNotMissed == Spec => []RecruitingBelowMin
<1>1. IInv => RecruitingBelowMin
  BY DEF IInv, TablesInv
<1> QED BY <1>1, Invariance, PTL

\* An order that holds a slot belongs to a keeper, and there are at most
\* max_members keepers because the stock is never negative.
THEOREM NeverOversold == Spec => []NoOversell
<1>1. ASSUME IInv PROVE NoOversell
  <2> USE <1>1 DEF IInv, TypeOK, CacheTypeOK
  <2>1. Sold \subseteq Keepers
    BY DEF Sold, ActiveStatus, Keepers, OnlyMembersServed, GuardsAgree, SlotsConserved
  <2>2. IsFiniteSet(Keepers)
    BY UsersFinite, FS_Subset DEF Keepers
  <2>3. Cardinality(Sold) \in Nat /\ Cardinality(Keepers) \in Nat /\ Cardinality(Sold) <= Cardinality(Keepers)
    BY <2>1, <2>2, FS_Subset, FS_CardinalityType
  <2>4. Cardinality(Keepers) <= MaxMembers
    BY <2>3, LimitsAssumption DEF SlotsConserved, Keepers
  <2> QED BY <2>3, <2>4, LimitsAssumption DEF NoOversell
<1> QED BY <1>1, Invariance, PTL

\* The handlers, scanners, messages and faults of the order path do nothing to
\* the tables but run their transactions, so that what is true of the tables
\* alone is true of the order path.
THEOREM OrderPathRunsTheTables == Spec => TablesSpec
<1>1. Init => TablesInit
  BY DEF Init
<1>2. IInv /\ [Next]_vars => [TablesStep]_tables
  BY NextTables DEF IInv, vars
<1> QED
  BY <1>1, <1>2, Invariance, PTL DEF Spec, TablesSpec

\* Late orders and their cancels included, the number of members shown never
\* passes the users who hold a slot in the books, nor max_members, nor, once
\* the group buy has failed, the members it would have needed.
THEOREM CounterWithinLimits ==
  Spec => [](CountNeverOverstates /\ FailedStaysBelowMin /\ currentMembers <= MaxMembers)
<1>1. ASSUME IInv, NoOversell, CountNeverOverstates PROVE currentMembers <= MaxMembers
  <2>1. Cardinality(roster) \in Nat /\ Cardinality(roster) <= MaxMembers
    BY <1>1, UsersFinite, FS_Subset, FS_CardinalityType
    DEF IInv, TablesInv, TablesTypeOK, RosterMatchesOrders, NoOversell
  <2> QED
    BY <1>1, <2>1, LimitsAssumption DEF IInv, TablesInv, TablesTypeOK, CountNeverOverstates
<1> QED
  BY <1>1, OrderPathRunsTheTables, LateOrdersOnlyUndercount, NeverOversold, Invariance, PTL

-----------------------------------------------------------------------------
\* Payment, cancel and timeout close: the first one decides.
THEOREM OrderVerdictsAreFinal == Spec => OrderVerdictFinal
<1> DEFINE Final == \A u \in Users : orders[u] \notin {"none", "pending_pay"} => orders'[u] = orders[u]
<1>1. ASSUME IInv, [Next]_vars PROVE [Final]_vars
  BY <1>1, NextTables, OrdersOnlyAdvance DEF IInv, TypeOK
<1> QED BY <1>1, Invariance, PTL DEF Spec, OrderVerdictFinal

\* A group buy that failed or that reached min_members stays that way.
THEOREM GroupBuyVerdictsAreFinal == Spec => GroupBuyVerdictFinal
<1> DEFINE Final == /\ gbStatus = "failed" => gbStatus' = "failed"
                    /\ gbStatus \in {"succeeded", "full"} => gbStatus' \in {"succeeded", "full"}
<1>1. ASSUME [TablesStep]_tables PROVE Final
  BY <1>1 DEF TablesStep, tables, CreateOrderTx, StatusWith, UpdateOrderPaid, CancelOrderTx,
              CloseExpiredOrder, GiveUpSlot, JudgeExpiredGroupBuys, DeadlinePasses
<1>2. ASSUME IInv, [Next]_vars PROVE [Final]_vars
  BY <1>1, <1>2, NextTables DEF IInv
<1> QED BY <1>2, Invariance, PTL DEF Spec, GroupBuyVerdictFinal

\* Whoever removes a close task has seen the order decided.
THEOREM CloseTasksAreKept == Spec => CloseTaskKept
<1> DEFINE Kept == \A u \in Users : u \in closeTasks /\ u \notin closeTasks' => orders[u] # "pending_pay"
<1>1. ASSUME IInv, Next PROVE Kept
  <2>1. ASSUME NEW r \in Requests, Request(r) PROVE UNCHANGED closeTasks
    BY <2>1 DEF Request, GrabEntry, GrabLock, AcquireLock, GrabLua, ExecGrabLua, GrabPublish,
                GrabUnlock, ReleaseLock, cache
  <2>2. CASE Consumer
    BY <2>2 DEF Consumer, Deliver, ConsumeCreate, ConsumeClearMark, ConsumeDuplicate,
                ConsumeEnqueueClose, RemoveGrabPending, EnqueueOrderClose, cache
  <2>3. ASSUME NEW u \in Users, Order(u) PROVE Kept
    BY <1>1, <2>3 DEF Order, PayOrder, CancelOrder, SettleRelease, SettleUnschedule, ScanFindsDue,
                ScanClose, CompensateOrderClose, CompensateOrderCloseLate, ReleaseGroupBuySlot,
                RemoveOrderClose,
                EnqueueOrderClose, cache, IInv, SettleInv
  <2>4. ASSUME NEW u \in Users, Mark(u) PROVE UNCHANGED closeTasks
    BY <2>4 DEF Mark, Republish, RenewMark, RenewGrabPending, cache
  <2>5. CASE ScanJudge \/ TimePasses \/ Crash
    BY <2>5 DEF ScanJudge, TimePasses, LockExpires, Crash, cache
  <2> QED BY <1>1, <2>1, <2>2, <2>3, <2>4, <2>5 DEF Next
<1>2. ASSUME IInv, [Next]_vars PROVE [Kept]_vars
  BY <1>1, <1>2
<1> QED BY <1>2, Invariance, PTL DEF Spec, CloseTaskKept

\* The release of the lock compares the token: no request ends the turn of
\* another one.
THEOREM OnlyTheOwnerUnlocks == Spec => OnlyOwnerUnlocks
<1> DEFINE Owner == \A r \in Requests : reqPc[r] = "unlock" /\ reqPc'[r] = "idle" /\ lock # r => lock' = lock
<1>1. ASSUME IInv, Next PROVE Owner
  <2> USE DEF IInv, TypeOK, HandlersTypeOK, cache, requestVars
  <2>1. ASSUME NEW r \in Requests, Request(r) PROVE Owner
    <3>1. CASE GrabUnlock(r)
      BY <3>1 DEF GrabUnlock, ReleaseLock, RequestEnds
    <3>2. CASE reqPc[r] # "unlock" /\ \E pc : reqPc' = [reqPc EXCEPT ![r] = pc]
      BY <3>2
    <3>3. CASE GrabLua(r) \/ GrabPublish(r)
      BY <3>2, <3>3 DEF GrabLua, GrabPublish, RequestGoes
    <3>4. CASE GrabLock(r) \/ \E u \in Users : GrabEntry(r, u)
      BY <3>2, <3>4 DEF GrabLock, GrabEntry, RequestGoes, RequestEnds
    <3> QED BY <2>1, <3>1, <3>3, <3>4 DEF Request
  <2>2. CASE Consumer
    BY <2>2 DEF Consumer, Deliver, ConsumeCreate, ConsumeClearMark, ConsumeDuplicate, ConsumeEnqueueClose
  <2>3. ASSUME NEW u \in Users, Order(u) \/ Mark(u) PROVE Owner
    BY <2>3 DEF Order, PayOrder, CancelOrder, SettleRelease, SettleUnschedule, ScanFindsDue, ScanClose,
                CompensateOrderClose, CompensateOrderCloseLate, Mark, Republish, RenewMark
  <2>4. CASE ScanJudge \/ TimePasses \/ Crash
    BY <2>4 DEF ScanJudge, TimePasses, Crash
  <2> QED BY <1>1, <2>1, <2>2, <2>3, <2>4 DEF Next
<1>2. ASSUME IInv, [Next]_vars PROVE [Owner]_vars
  BY <1>1, <1>2
<1> QED BY <1>2, Invariance, PTL DEF Spec, OnlyOwnerUnlocks

-----------------------------------------------------------------------------
(* Orphans: unpaid orders whose close nobody has enqueued or will.          *)

\* The effect of a step on the orphans: none is added without a fault, and at
\* most one with it.
FewOrphans ==
  \/ faults' = faults /\ Orphans' \subseteq Orphans
  \/ faults' = faults + 1 /\ \E u \in Users : Orphans' \subseteq Orphans \cup {u}
  \/ faults' = faults + 1 /\ Orphans' \subseteq Orphans

LEMMA RequestOrphans ==
  ASSUME NEW r \in Requests, Request(r)
  PROVE  FewOrphans
<1>1. UNCHANGED <<orders, conPc, conUser, closeTasks, closeComp>>
  BY DEF Request, GrabEntry, GrabLock, AcquireLock, GrabLua, ExecGrabLua, GrabPublish, GrabUnlock,
         ReleaseLock, tables, cache, consumerVars, scannerVars, compVars
<1>2. faults' = faults \/ faults' = faults + 1
  BY DEF Request, GrabEntry, GrabLock, GrabLua, GrabPublish, GrabUnlock, Fault, NoFault
<1>3. Orphans' \subseteq Orphans
  BY <1>1 DEF Orphans, Reminded
<1> QED BY <1>2, <1>3 DEF FewOrphans

\* The consumer carries the reminder from the transaction to the ZADD.
LEMMA ConsumerOrphans ==
  ASSUME IInv, Consumer
  PROVE  FewOrphans
<1> USE DEF ConsumerDone, ConsumerGoes, Acked, Redelivered, Fault, NoFault, scannerVars, compVars,
            IInv, TypeOK, HandlersTypeOK, TablesTypeOK, CacheTypeOK, HandlersServe
<1>1. ASSUME NEW u \in Users, Deliver(u) PROVE FewOrphans
  BY <1>1 DEF Deliver, FewOrphans, Orphans, Reminded, tables, cache
<1>2. CASE ConsumeCreate
  <2>1. /\ conPc = "create" /\ conUser \in Users
        /\ UNCHANGED <<closeTasks, closeComp>>
    BY <1>2 DEF ConsumeCreate, cache
  <2>2. \A u \in Users \ {conUser} : orders'[u] = orders[u]
    BY <1>2, <2>1 DEF ConsumeCreate, CreateOrderTx, tables
  <2>3. CASE /\ NoFault /\ conPc' = "clearNew" /\ conUser' = conUser
    BY <2>1, <2>2, <2>3 DEF FewOrphans, Orphans, Reminded
  <2>4. CASE NoFault /\ UNCHANGED tables
    BY <2>1, <2>4 DEF FewOrphans, Orphans, Reminded, tables
  <2>5. CASE Fault
    <3>1. Orphans' \subseteq Orphans \cup {conUser}
      BY <2>1, <2>2 DEF Orphans, Reminded
    <3> QED BY <2>1, <2>5, <3>1 DEF FewOrphans
  <2> QED BY <1>2, <2>3, <2>4, <2>5 DEF ConsumeCreate
<1>3. CASE ConsumeClearMark
  <2>1. /\ UNCHANGED <<orders, conUser, closeTasks, closeComp>>
        /\ conPc = "clearNew" /\ conPc' = "enqueue"
    BY <1>3 DEF ConsumeClearMark, RemoveGrabPending, tables, cache
  <2>2. Orphans' \subseteq Orphans
    BY <2>1 DEF Orphans, Reminded
  <2>3. faults' = faults \/ faults' = faults + 1
    BY <1>3 DEF ConsumeClearMark
  <2> QED BY <2>2, <2>3 DEF FewOrphans
<1>4. CASE ConsumeDuplicate
  <2>1. /\ UNCHANGED <<orders, closeTasks, closeComp>>
        /\ conPc = "clearDup"
    BY <1>4 DEF ConsumeDuplicate, RemoveGrabPending, tables, cache
  <2>2. Orphans' \subseteq Orphans
    BY <2>1 DEF Orphans, Reminded
  <2>3. faults' = faults \/ faults' = faults + 1
    BY <1>4 DEF ConsumeDuplicate
  <2> QED BY <2>2, <2>3 DEF FewOrphans
<1>5. CASE ConsumeEnqueueClose
  <2>1. /\ UNCHANGED orders
        /\ conUser \in Users
        /\ closeTasks \subseteq closeTasks' /\ closeComp \subseteq closeComp'
    BY <1>5 DEF ConsumeEnqueueClose, EnqueueOrderClose, tables, cache
  <2>2. Orphans' \subseteq Orphans \cup {conUser}
    BY <2>1 DEF Orphans, Reminded
  <2>3. NoFault => conUser \in closeTasks'
    BY <1>5 DEF ConsumeEnqueueClose, EnqueueOrderClose
  <2>4. NoFault => Orphans' \subseteq Orphans
    BY <2>2, <2>3 DEF Orphans, Reminded
  <2>5. NoFault \/ faults' = faults + 1
    BY <1>5 DEF ConsumeEnqueueClose
  <2> QED BY <2>1, <2>2, <2>4, <2>5 DEF FewOrphans
<1> QED BY <1>1, <1>2, <1>3, <1>4, <1>5 DEF Consumer

\* A close task is dropped when the order is decided, and a compensation task
\* for its close when it is enqueued, or by a fault.
LEMMA OrderOrphans ==
  ASSUME IInv, NEW u \in Users, Order(u)
  PROVE  FewOrphans
<1> USE DEF Fault, NoFault, scannerVars, compVars, consumerVars, tables, cache,
            IInv, TypeOK, HandlersTypeOK, TablesTypeOK, CacheTypeOK
<1>0. UNCHANGED <<conPc, conUser>> /\ (faults' = faults \/ faults' = faults + 1)
  BY DEF Order, PayOrder, CancelOrder, SettleRelease, SettleUnschedule, ScanFindsDue, ScanClose,
         CompensateOrderClose, CompensateOrderCloseLate
<1>1. CASE PayOrder(u) \/ CancelOrder(u) \/ ScanClose(u)
  <2>1. /\ closeComp' = closeComp
        /\ \A v \in Users \ {u} : v \in closeTasks => v \in closeTasks'
        /\ \A v \in Users \ {u} : orders'[v] = orders[v]
    BY <1>1 DEF PayOrder, UpdateOrderPaid, CancelOrder, CancelOrderTx, ScanClose, CloseExpiredOrder,
                GiveUpSlot, RemoveOrderClose
  <2>2. \/ orders'[u] # "pending_pay"
        \/ orders' = orders /\ closeTasks' = closeTasks
    BY <1>1 DEF PayOrder, UpdateOrderPaid, CancelOrder, CancelOrderTx, ScanClose, CloseExpiredOrder,
                GiveUpSlot, RemoveOrderClose
  <2>3. Orphans' \subseteq Orphans
    BY <1>0, <2>1, <2>2 DEF Orphans, Reminded
  <2> QED BY <1>0, <2>3 DEF FewOrphans
<1>2. CASE SettleRelease(u) \/ SettleUnschedule(u) \/ ScanFindsDue(u)
  <2>1. /\ UNCHANGED <<orders, closeComp>>
        /\ \A v \in Users : v \in closeTasks => v \in closeTasks' \/ orders[v] # "pending_pay"
    BY <1>2 DEF SettleRelease, ReleaseGroupBuySlot, SettleUnschedule, RemoveOrderClose, ScanFindsDue,
                SettleInv
  <2>2. Orphans' \subseteq Orphans
    BY <1>0, <2>1 DEF Orphans, Reminded
  <2> QED BY <1>0, <2>2 DEF FewOrphans
<1>3. CASE CompensateOrderClose(u) \/ CompensateOrderCloseLate(u)
  <2>1. /\ UNCHANGED orders /\ closeTasks \subseteq closeTasks'
        /\ \A v \in Users \ {u} : v \in closeComp => v \in closeComp'
        /\ NoFault => u \in closeTasks'
    BY <1>3 DEF CompensateOrderClose, CompensateOrderCloseLate, RowGoes, RowStays, EnqueueOrderClose
  <2>2. Orphans' \subseteq Orphans \cup {u} /\ (NoFault => Orphans' \subseteq Orphans)
    BY <1>0, <2>1 DEF Orphans, Reminded
  <2> QED BY <1>0, <2>2 DEF FewOrphans
<1> QED BY <1>1, <1>2, <1>3 DEF Order

LEMMA OtherOrphans ==
  ASSUME IInv, (\E u \in Users : Mark(u)) \/ ScanJudge \/ TimePasses \/ Crash
  PROVE  FewOrphans
<1> USE DEF Fault, NoFault, scannerVars, compVars, consumerVars, tables, cache
<1>1. ASSUME NEW u \in Users, Mark(u) PROVE FewOrphans
  BY <1>1 DEF Mark, Republish, RenewMark, RenewGrabPending, FewOrphans, Orphans, Reminded
<1>2. CASE ScanJudge \/ TimePasses
  BY <1>2 DEF ScanJudge, JudgeExpiredGroupBuys, TimePasses, DeadlinePasses, LockExpires,
              FewOrphans, Orphans, Reminded
<1>3. CASE Crash
  <2>1. UNCHANGED <<orders, closeTasks, closeComp>> /\ faults' = faults + 1
    BY <1>3 DEF Crash
  <2>2. CASE conPc = "idle"
    <3>1. Orphans' \subseteq Orphans
      BY <2>1, <2>2 DEF Orphans, Reminded
    <3> QED BY <2>1, <3>1 DEF FewOrphans
  <2>3. CASE conPc # "idle"
    <3>1. Orphans' \subseteq Orphans \cup {conUser}
      BY <2>1 DEF Orphans, Reminded
    <3> QED BY <2>1, <2>3, <3>1 DEF FewOrphans, IInv, HandlersServe
  <2> QED BY <2>2, <2>3
<1> QED BY <1>1, <1>2, <1>3

\* So many orphans, so many faults.
LEMMA OrphansKept ==
  ASSUME IInv, OrphansCostFaults, FewOrphans
  PROVE  OrphansCostFaults'
<1>1. IsFiniteSet(Orphans) /\ Cardinality(Orphans) \in Nat /\ faults \in Nat
  BY UsersFinite, FS_Subset, FS_CardinalityType DEF Orphans, IInv, TypeOK, HandlersTypeOK
<1>2. ASSUME NEW S, IsFiniteSet(S), Orphans' \subseteq S
      PROVE  Cardinality(Orphans') <= Cardinality(S) /\ Cardinality(Orphans') \in Nat
  BY <1>2, FS_Subset, FS_CardinalityType
<1>3. CASE Orphans' \subseteq Orphans /\ (faults' = faults \/ faults' = faults + 1)
  BY <1>1, <1>2, <1>3 DEF OrphansCostFaults
<1>4. ASSUME NEW u \in Users, Orphans' \subseteq Orphans \cup {u}, faults' = faults + 1
      PROVE  OrphansCostFaults'
  <2>1. /\ IsFiniteSet(Orphans \cup {u}) /\ Cardinality(Orphans \cup {u}) \in Nat
        /\ Cardinality(Orphans \cup {u}) <= Cardinality(Orphans) + 1
    BY <1>1, FS_AddElement, FS_CardinalityType
  <2>2. Cardinality(Orphans') <= Cardinality(Orphans \cup {u}) /\ Cardinality(Orphans') \in Nat
    BY <1>2, <1>4, <2>1
  <2> QED BY <1>1, <1>4, <2>1, <2>2 DEF OrphansCostFaults
<1> QED BY <1>3, <1>4 DEF FewOrphans

\* Whatever the interleaving, an order is orphaned only by a fault, and one
\* fault orphans no second one.
THEOREM OrphansAlwaysCostFaults == Spec => []OrphansCostFaults
<1>1. Init => OrphansCostFaults
  <2> SUFFICES ASSUME Init PROVE OrphansCostFaults
    OBVIOUS
  <2>1. Orphans = {}
    BY DEF Init, TablesInit, Orphans
  <2> QED BY <2>1, FS_EmptySet DEF Init, OrphansCostFaults
<1>2. IInv /\ OrphansCostFaults /\ [Next]_vars => OrphansCostFaults'
  <2> SUFFICES ASSUME IInv, OrphansCostFaults, [Next]_vars PROVE OrphansCostFaults'
    OBVIOUS
  <2>1. CASE Next
    BY <2>1, RequestOrphans, ConsumerOrphans, OrderOrphans, OtherOrphans, OrphansKept DEF Next
  <2>2. CASE UNCHANGED vars
    <3>1. Orphans' = Orphans /\ faults' = faults
      BY <2>2 DEF vars, tables, cache, consumerVars, scannerVars, compVars, Orphans, Reminded
    <3> QED BY <3>1 DEF OrphansCostFaults
  <2> QED BY <2>1, <2>2
<1> QED BY <1>1, <1>2, Invariance, PTL DEF Spec
=============================================================================
