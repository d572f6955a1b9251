------------------------------ MODULE GrabFlow ------------------------------
(***************************************************************************)
(* The life of a slot, from the grab request to the end of its order: the  *)
(* grab handler (internal/logic/grab.go), the consumer that turns a grab   *)
(* message into an order (logic/order.go, cmd/main.go, mq/consumer.go),    *)
(* the pay and cancel handlers, the delay scanner (logic/delay.go) and the *)
(* pending scanner (logic/pending.go), over MySQL (GroupBuyTables), Redis  *)
(* (SlotCache) and the RabbitMQ queue of grab messages.                    *)
(*                                                                         *)
(* A handler takes one step per call to a store, so that any other handler *)
(* may run between two of its calls.  The scanners may handle several      *)
(* entries at once, as they do when two instances of the process run.  A   *)
(* fault is a call that fails, a call that takes effect and loses its      *)
(* answer, a lost message, a lost ack or a crash of the process; MaxFaults *)
(* bounds how many of them a behaviour has.  Notifications and the hot     *)
(* rank are derived data that no step of this module reads.                *)
(***************************************************************************)
EXTENDS GroupBuyTables, SlotCache

CONSTANTS NoUser,      \* a handler that serves nobody
          MaxFaults,   \* bound on the faults of a behaviour
          MaxCopies    \* bound on the copies of a message the pending scanner
                       \* adds to: it waits while that many are queued

ASSUME NoUserAssumption == NoUser \notin Users
ASSUME BoundsAssumption == MaxFaults \in Nat /\ MaxCopies \in Nat \ {0}

VARIABLES
  queue,        \* queue[u]: copies of the message {good_id, u}
  reqPc,        \* reqPc[r]: next call of grab request r
  reqUser,      \* reqUser[r]: the user request r serves
  conPc,        \* next call of the consumer
  conUser,      \* the user of the message in its hand
  settle,       \* settle[u]: next call after u's order was paid, cancelled or
                \* closed, by whoever changed it
  scanBatch,    \* due close tasks the delay scanner has read and not reached
  renewing,     \* marks the pending scanner has republished and not renewed
  closeComp,    \* orders with a compensation task that will enqueue the close
  lateReplays,  \* such tasks whose row is gone, loaded before by another instance
  faults        \* faults so far

requestVars  == <<reqPc, reqUser>>
consumerVars == <<conPc, conUser>>
compVars     == <<closeComp, lateReplays>>
scannerVars  == <<scanBatch, renewing, compVars>>
vars == <<tables, cache, queue, requestVars, consumerVars, settle, scannerVars, faults>>

RequestPc  == {"idle", "lock", "lua", "publish", "unlock"}
ConsumerPc == {"idle", "create", "clearNew", "clearDup", "enqueue"}
SettlePc   == {"none", "release", "unschedule"}

HandlersTypeOK ==
  /\ queue \in [Users -> Nat]
  /\ reqPc \in [Requests -> RequestPc]
  /\ reqUser \in [Requests -> Users \cup {NoUser}]
  /\ conPc \in ConsumerPc
  /\ conUser \in Users \cup {NoUser}
  /\ settle \in [Users -> SettlePc]
  /\ scanBatch \subseteq Users
  /\ renewing \subseteq Users
  /\ closeComp \subseteq Users
  /\ lateReplays \subseteq Users
  /\ faults \in Nat

TypeOK == TablesTypeOK /\ CacheTypeOK /\ HandlersTypeOK

Init ==
  /\ TablesInit
  /\ CacheInit
  /\ queue = [u \in Users |-> 0]
  /\ reqPc = [r \in Requests |-> "idle"]
  /\ reqUser = [r \in Requests |-> NoUser]
  /\ conPc = "idle"
  /\ conUser = NoUser
  /\ settle = [u \in Users |-> "none"]
  /\ scanBatch = {}
  /\ renewing = {}
  /\ closeComp = {}
  /\ lateReplays = {}
  /\ faults = 0

Fault   == faults < MaxFaults /\ faults' = faults + 1
NoFault == UNCHANGED faults

-----------------------------------------------------------------------------
(* The grab request: POST /group-buy/:id/grab.                             *)

\* The answer of the checks that precede the lock.
EntryVerdict ==
  IF gbStatus = "full" THEN "SOLD_OUT"
  ELSE IF gbStatus # "recruiting" \/ deadlinePassed THEN "EXPIRED" ELSE "PASS"

\* A request the checks turn away changes nothing.
GrabEntry(r, u) ==
  /\ reqPc[r] = "idle"
  /\ EntryVerdict = "PASS"
  /\ reqPc' = [reqPc EXCEPT ![r] = "lock"]
  /\ reqUser' = [reqUser EXCEPT ![r] = u]
  /\ NoFault
  /\ UNCHANGED <<tables, cache, queue, consumerVars, settle, scannerVars>>

RequestEnds(r) ==
  /\ reqPc' = [reqPc EXCEPT ![r] = "idle"]
  /\ reqUser' = [reqUser EXCEPT ![r] = NoUser]

RequestGoes(r, pc) ==
  /\ reqPc' = [reqPc EXCEPT ![r] = pc]
  /\ UNCHANGED reqUser

\* A lock that is taken ends the request (busy); so does an error, before the
\* release is deferred, even if Redis did set the lock.
GrabLock(r) ==
  /\ reqPc[r] = "lock"
  /\ \/ AcquireLock(r) /\ RequestGoes(r, "lua") /\ NoFault
     \/ lock # NoRequest /\ RequestEnds(r) /\ UNCHANGED cache /\ NoFault
     \/ Fault /\ RequestEnds(r) /\ (AcquireLock(r) \/ UNCHANGED cache)
  /\ UNCHANGED <<tables, queue, consumerVars, settle, scannerVars>>

\* An error of the script ends the request even when Redis ran it.
GrabLua(r) ==
  /\ reqPc[r] = "lua"
  /\ \/ /\ ExecGrabLua(reqUser[r])
        /\ RequestGoes(r, IF GrabLuaResult(reqUser[r]) = "OK" THEN "publish" ELSE "unlock")
        /\ NoFault
     \/ Fault /\ RequestGoes(r, "unlock") /\ (ExecGrabLua(reqUser[r]) \/ UNCHANGED cache)
  /\ UNCHANGED <<tables, queue, consumerVars, settle, scannerVars>>

Enqueued(u) == queue' = [queue EXCEPT ![u] = @ + 1]

\* The message may be lost with or without an error, and the reservation
\* stands either way.
GrabPublish(r) ==
  /\ reqPc[r] = "publish"
  /\ RequestGoes(r, "unlock")
  /\ \/ Enqueued(reqUser[r]) /\ NoFault
     \/ Fault /\ UNCHANGED queue
  /\ UNCHANGED <<tables, cache, consumerVars, settle, scannerVars>>

GrabUnlock(r) ==
  /\ reqPc[r] = "unlock"
  /\ RequestEnds(r)
  /\ \/ ReleaseLock(r) /\ NoFault
     \/ Fault /\ UNCHANGED cache
  /\ UNCHANGED <<tables, queue, consumerVars, settle, scannerVars>>

-----------------------------------------------------------------------------
(* The consumer of the grab queue: one message at a time, manual ack.      *)

ConsumerDone == conPc' = "idle" /\ conUser' = NoUser
ConsumerGoes(pc) == conPc' = pc /\ UNCHANGED conUser

Deliver(u) ==
  /\ conPc = "idle"
  /\ queue[u] > 0
  /\ queue' = [queue EXCEPT ![u] = @ - 1]
  /\ conPc' = "create" /\ conUser' = u
  /\ NoFault
  /\ UNCHANGED <<tables, cache, requestVars, settle, scannerVars>>

\* An error sends the message back, whether or not MySQL committed.
ConsumeCreate ==
  /\ conPc = "create"
  /\ \/ CreateOrderTx(conUser) /\ ConsumerGoes("clearNew") /\ UNCHANGED queue /\ NoFault
     \/ /\ DuplicateEntry(conUser) /\ ConsumerGoes("clearDup")
        /\ UNCHANGED <<tables, queue>> /\ NoFault
     \/ /\ Fault /\ Enqueued(conUser) /\ ConsumerDone
        /\ (CreateOrderTx(conUser) \/ UNCHANGED tables)
  /\ UNCHANGED <<cache, requestVars, settle, scannerVars>>

\* The last call is followed by the ack; a lost ack, or a crash before it,
\* makes the broker deliver the message again.
Acked == ConsumerDone /\ UNCHANGED queue
Redelivered == ConsumerDone /\ Enqueued(conUser)

\* Fault model: an order that does not count is acked without its close task.
ConsumeClearMarkEndsLate ==
  /\ conPc = "clearNew"
  /\ IF conUser \in counted THEN ConsumerGoes("enqueue") /\ UNCHANGED queue ELSE Acked
  /\ \/ RemoveGrabPending(conUser) /\ NoFault
     \/ Fault /\ UNCHANGED cache
  /\ UNCHANGED <<tables, requestVars, settle, scannerVars>>

ConsumeClearMark ==
  /\ conPc = "clearNew"
  /\ ConsumerGoes("enqueue")
  /\ \/ RemoveGrabPending(conUser) /\ NoFault
     \/ Fault /\ UNCHANGED cache
  /\ UNCHANGED <<tables, queue, requestVars, settle, scannerVars>>

ConsumeDuplicate ==
  /\ conPc = "clearDup"
  /\ \/ RemoveGrabPending(conUser) /\ Acked /\ NoFault
     \/ Fault /\ RemoveGrabPending(conUser) /\ Redelivered
     \/ Fault /\ UNCHANGED cache /\ Acked
  /\ UNCHANGED <<tables, requestVars, settle, scannerVars>>

\* An error of the ZADD, taken effect or not, asks for a compensation task;
\* none is scheduled when that fails as well.
ConsumeEnqueueClose ==
  /\ conPc = "enqueue"
  /\ \/ EnqueueOrderClose(conUser) /\ UNCHANGED closeComp /\ Acked /\ NoFault
     \/ Fault /\ EnqueueOrderClose(conUser) /\ UNCHANGED closeComp /\ Redelivered
     \/ /\ Fault /\ Acked
        /\ EnqueueOrderClose(conUser) \/ UNCHANGED cache
        /\ closeComp' \in {closeComp, closeComp \cup {conUser}}
  /\ UNCHANGED <<tables, requestVars, settle, scanBatch, renewing, lateReplays>>

-----------------------------------------------------------------------------
(* Pay, cancel and the delay scanner.  The read that precedes the          *)
(* conditional UPDATE of pay and cancel only chooses the error to answer:  *)
(* the UPDATE repeats its condition.  An error after the commit ends the   *)
(* handler before it releases anything.                                    *)

SettleGoes(u, pc) == settle' = [settle EXCEPT ![u] = pc]

PayOrder(u) ==
  /\ UpdateOrderPaid(u)
  /\ \/ SettleGoes(u, "unschedule") /\ NoFault
     \/ UNCHANGED settle /\ Fault
  /\ UNCHANGED <<cache, queue, requestVars, consumerVars, scannerVars>>

CancelOrder(u) ==
  /\ CancelOrderTx(u)
  /\ \/ SettleGoes(u, "release") /\ NoFault
     \/ UNCHANGED settle /\ Fault
  /\ UNCHANGED <<cache, queue, requestVars, consumerVars, scannerVars>>

SettleRelease(u) ==
  /\ settle[u] = "release"
  /\ SettleGoes(u, "unschedule")
  /\ \/ ReleaseGroupBuySlot(u) /\ NoFault
     \/ UNCHANGED cache /\ Fault
  /\ UNCHANGED <<tables, queue, requestVars, consumerVars, scannerVars>>

SettleUnschedule(u) ==
  /\ settle[u] = "unschedule"
  /\ SettleGoes(u, "none")
  /\ \/ RemoveOrderClose(u) /\ NoFault
     \/ UNCHANGED cache /\ Fault
  /\ UNCHANGED <<tables, queue, requestVars, consumerVars, scannerVars>>

\* Fault model: the round pops the task it reads, as src/README.md:53-54 has it.
ScanFindsDueAndDeletes(u) ==
  /\ u \in closeTasks \ scanBatch
  /\ scanBatch' = scanBatch \cup {u}
  /\ RemoveOrderClose(u)
  /\ NoFault
  /\ UNCHANGED <<tables, queue, requestVars, consumerVars, settle, renewing, compVars>>

\* A round reads the tasks that are due and deletes none of them.
ScanFindsDue(u) ==
  /\ u \in closeTasks \ scanBatch
  /\ scanBatch' = scanBatch \cup {u}
  /\ NoFault
  /\ UNCHANGED <<tables, cache, queue, requestVars, consumerVars, settle, renewing, compVars>>

\* Fault model: the slot is released whether or not the order was closed.
ScanCloseAlwaysReleases(u) ==
  /\ u \in scanBatch
  /\ scanBatch' = scanBatch \ {u}
  /\ CloseExpiredOrder(u) \/ (orders[u] # "pending_pay" /\ UNCHANGED tables)
  /\ SettleGoes(u, "release") /\ NoFault
  /\ UNCHANGED <<cache, queue, requestVars, consumerVars, renewing, compVars>>

\* The round reaches the order: it closes it and settles like a cancel, or
\* finds it decided and only drops the task, or meets an error and keeps the
\* task, whether or not MySQL committed.
ScanClose(u) ==
  /\ u \in scanBatch
  /\ scanBatch' = scanBatch \ {u}
  /\ \/ CloseExpiredOrder(u) /\ SettleGoes(u, "release") /\ UNCHANGED cache /\ NoFault
     \/ /\ orders[u] # "pending_pay" /\ RemoveOrderClose(u)
        /\ UNCHANGED <<tables, settle>> /\ NoFault
     \/ /\ Fault /\ UNCHANGED <<cache, settle>>
        /\ CloseExpiredOrder(u) \/ UNCHANGED tables
  /\ UNCHANGED <<queue, requestVars, consumerVars, renewing, compVars>>

ScanJudge ==
  /\ JudgeExpiredGroupBuys
  /\ NoFault
  /\ UNCHANGED <<cache, queue, requestVars, consumerVars, settle, scannerVars>>

-----------------------------------------------------------------------------
(* The pending scanner: it reads the overdue marks and, for each, sends    *)
(* the message again and then renews the mark.                             *)

\* A publish error leaves the mark as it is; a message lost without an error
\* does not.  The read is part of this step: a mark removed between the read
\* and the message shows as one removed between the message and the renewal.
Republish(u) ==
  /\ u \in pending \ renewing
  /\ queue[u] < MaxCopies
  /\ \/ Enqueued(u) /\ renewing' = renewing \cup {u} /\ NoFault
     \/ UNCHANGED queue /\ renewing' = renewing \cup {u} /\ Fault
  /\ UNCHANGED <<tables, cache, requestVars, consumerVars, settle, scanBatch, compVars>>

RenewMark(u) ==
  /\ u \in renewing
  /\ renewing' = renewing \ {u}
  /\ \/ RenewGrabPending(u) /\ NoFault
     \/ UNCHANGED cache /\ Fault
  /\ UNCHANGED <<tables, queue, requestVars, consumerVars, settle, scanBatch, compVars>>

-----------------------------------------------------------------------------
(* The compensation scanners, as far as this module needs them: a task     *)
(* that enqueues the close of an order is replayed and its row deleted.    *)
(* Compensation is the whole life of a task.                               *)

\* While the row is there, to load the task and to replay it is one step; an
\* instance that has loaded it and not replayed it when the row goes is late.
RowGoes(u) ==
  /\ closeComp' = closeComp \ {u}
  /\ lateReplays' \in {lateReplays, lateReplays \cup {u}}
RowStays == UNCHANGED compVars

\* The row goes after the replay, or stays when its deletion fails; after a
\* replay that failed it stays, or is given up with the last retry.
CompensateOrderClose(u) ==
  /\ u \in closeComp
  /\ \/ EnqueueOrderClose(u) /\ RowGoes(u) /\ NoFault
     \/ /\ Fault /\ (RowGoes(u) \/ RowStays)
        /\ EnqueueOrderClose(u) \/ UNCHANGED cache
  /\ UNCHANGED <<tables, queue, requestVars, consumerVars, settle, scanBatch, renewing>>

\* The late one replays the task all the same.
CompensateOrderCloseLate(u) ==
  /\ u \in lateReplays
  /\ lateReplays' = lateReplays \ {u}
  /\ \/ EnqueueOrderClose(u) /\ NoFault
     \/ UNCHANGED cache /\ Fault
  /\ UNCHANGED <<tables, queue, requestVars, consumerVars, settle, scanBatch, renewing, closeComp>>

-----------------------------------------------------------------------------
(* Time and crashes.                                                       *)

TimePasses ==
  /\ \/ DeadlinePasses /\ UNCHANGED cache
     \/ LockExpires /\ UNCHANGED tables
  /\ NoFault
  /\ UNCHANGED <<queue, requestVars, consumerVars, settle, scannerVars>>

\* The process dies and starts again: what the handlers had in hand is gone,
\* the broker takes the message without an ack back, the stores keep what
\* they have (the lock too, until it expires).
Crash ==
  /\ Fault
  /\ reqPc' = [r \in Requests |-> "idle"] /\ reqUser' = [r \in Requests |-> NoUser]
  /\ IF conPc = "idle" THEN UNCHANGED <<queue, consumerVars>> ELSE Redelivered
  /\ settle' = [u \in Users |-> "none"]
  /\ scanBatch' = {} /\ renewing' = {} /\ lateReplays' = {}
  /\ UNCHANGED <<tables, cache, closeComp>>

-----------------------------------------------------------------------------
Request(r) ==
  \/ \E u \in Users : GrabEntry(r, u)
  \/ GrabLock(r) \/ GrabLua(r) \/ GrabPublish(r) \/ GrabUnlock(r)

Consumer ==
  \/ \E u \in Users : Deliver(u)
  \/ ConsumeCreate \/ ConsumeClearMark \/ ConsumeDuplicate \/ ConsumeEnqueueClose

Order(u) ==
  \/ PayOrder(u) \/ CancelOrder(u) \/ SettleRelease(u) \/ SettleUnschedule(u)
  \/ ScanFindsDue(u) \/ ScanClose(u)
  \/ CompensateOrderClose(u) \/ CompensateOrderCloseLate(u)

Mark(u) == Republish(u) \/ RenewMark(u)

Next ==
  \/ \E r \in Requests : Request(r)
  \/ Consumer
  \/ \E u \in Users : Order(u) \/ Mark(u)
  \/ ScanJudge
  \/ TimePasses
  \/ Crash

Spec == Init /\ [][Next]_vars

-----------------------------------------------------------------------------
(* Properties; those of the tables alone are in GroupBuyTables.            *)

\* No slot appears and none is handed out twice, whatever the interleaving of
\* grabs, cancels and closes: the stock and the users who took a slot that
\* INCR has not put back always add up to max_members, the stock is never
\* negative, and only an order that lost its slot has been put back.
SlotsConserved ==
  /\ stock >= 0
  /\ stock + Cardinality(members \ released) = MaxMembers
  /\ \A u \in released : orders[u] \in {"cancelled", "closed"}

\* There are never more orders that hold a slot than slots (the oversell that
\* grab.go and order.go guard against).
NoOversell == Cardinality(Sold) <= MaxMembers

\* A user whose slot was taken by the script and who has no order yet has a
\* pending mark, so that the pending scanner can send the message again,
\* whatever was lost, however late the marks are removed and renewed.
NoLostGrab == \A u \in members : orders[u] = "none" => u \in pending

\* Somebody still has to enqueue the close of u's order, or has done so.
Reminded(u) ==
  \/ u \in closeTasks \cup closeComp
  \/ conPc \in {"clearNew", "enqueue"} /\ conUser = u

Orphans == {u \in Users : orders[u] = "pending_pay" /\ ~Reminded(u)}

\* An unpaid order that nobody will ever close, and whose slot is lost, costs a
\* fault of its own: no interleaving of handlers and scanners makes one, and a
\* crash or a failed call never orphans two orders at once.
OrphansCostFaults == Cardinality(Orphans) <= faults

\* Redis turns a user away whenever the unique key of orders would: a user
\* with an order, whatever became of it, is still in members.
GuardsAgree == \A u \in Users : orders[u] # "none" => u \in members

\* An order leaves pending_pay once, and for good: a payment, a cancel and the
\* close of the delay scanner never override one another.
OrderVerdictFinal ==
  [][\A u \in Users : orders[u] \notin {"none", "pending_pay"} => orders'[u] = orders[u]]_vars

\* A group buy that failed stays failed, and one that reached min_members
\* never fails and never recruits again.
GroupBuyVerdictFinal ==
  [][/\ gbStatus = "failed" => gbStatus' = "failed"
     /\ gbStatus \in {"succeeded", "full"} => gbStatus' \in {"succeeded", "full"}]_vars

\* A request whose lock ran out never releases the lock of the next one.
OnlyOwnerUnlocks ==
  [][\A r \in Requests :
       reqPc[r] = "unlock" /\ reqPc'[r] = "idle" /\ lock # r => lock' = lock]_vars

\* A close task goes away only after its order has left pending_pay: no other
\* handler drops the reminder of an order that still has to be closed, and the
\* scanner, which reads due tasks without deleting them, may die with them in
\* hand.  src/README.md:53-54 describes another design, in which ZREM pops a task
\* before it is processed (ScanFindsDueAndDeletes), and which breaks this.
CloseTaskKept ==
  [][\A u \in Users :
       u \in closeTasks /\ u \notin closeTasks' => orders[u] # "pending_pay"]_vars

-----------------------------------------------------------------------------
(* Refinement: the order path implements the slot pool.                    *)

Place(u) ==
  CASE u \notin members -> "free"
    [] u \in members /\ orders[u] = "none" -> "reserved"
    [] u \in members /\ orders[u] = "pending_pay" -> "ordered"
    [] u \in members /\ orders[u] = "paid" -> "paid"
    [] u \in members /\ orders[u] \in {"cancelled", "closed"} /\ u \notin released -> "leaving"
    [] OTHER -> "left"

Pool == INSTANCE SlotPool WITH place <- [u \in Users |-> Place(u)]

\* Every step of the code is a step of the slot pool or leaves it alone.
ImplementsSlotPool == Pool!PoolSpec

-----------------------------------------------------------------------------
(* Fairness and liveness.  A handler that has started goes on; a scanner   *)
(* has a ticker, the consumer blocks on its queue, and marks and tasks get *)
(* old.  The broker delivers in queue order: no message is passed over for *)
(* ever (SF).  No request is ever bound to come.                           *)

Fairness ==
  /\ \A r \in Requests :
       WF_vars(GrabLock(r) \/ GrabLua(r) \/ GrabPublish(r) \/ GrabUnlock(r))
  /\ \A u \in Users : SF_vars(Deliver(u))
  /\ WF_vars(ConsumeCreate \/ ConsumeClearMark \/ ConsumeDuplicate \/ ConsumeEnqueueClose)
  /\ \A u \in Users :
       /\ WF_vars(SettleRelease(u) \/ SettleUnschedule(u))
       /\ WF_vars(ScanFindsDue(u) \/ ScanClose(u))
       /\ WF_vars(Republish(u) \/ RenewMark(u))
       /\ WF_vars(CompensateOrderClose(u) \/ CompensateOrderCloseLate(u))
  /\ WF_vars(ScanJudge)
  /\ WF_vars(TimePasses)

FairSpec == Spec /\ Fairness

\* Whatever is lost or dies (a bounded number of times), every reservation
\* becomes an order.
EveryGrabOrdered == Pool!PoolFairSpec

\* An order with a close task does not wait for its payment for ever.
ScheduledCloseHappens ==
  \A u \in Users : orders[u] = "pending_pay" /\ u \in closeTasks ~> orders[u] # "pending_pay"

\* The grab lock is never held for ever, a crash of its holder included.
LockIsFreed == lock # NoRequest ~> lock = NoRequest

-----------------------------------------------------------------------------
(* What comments of the code say and the code does not do.                 *)

\* "pending_pay -> closed: 30 minutes later by the delay task": an order whose
\* close task was never enqueued waits for ever.
EveryOrderSettles ==
  \A u \in Users : orders[u] = "pending_pay" ~> orders[u] # "pending_pay"

\* "The number that is final is not polluted by the latecomer": an order that
\* did not count when it was created does not count when it goes.
LateOrderLeavesCount ==
  [][\A u \in Users \ counted :
       orders[u] = "pending_pay" /\ orders'[u] # "pending_pay"
         => currentMembers' = currentMembers]_vars

\* "A mark left behind heals itself": once the order exists, its mark goes
\* away for good.
OutboxHeals == \A u \in Users : orders[u] # "none" ~> [](u \notin pending)

\* "Succeeded is not closed, it goes on to max": before the deadline, a group
\* buy that succeeded and has stock still lets users in.
SucceededStaysOpen ==
  gbStatus = "succeeded" /\ ~deadlinePassed /\ stock > 0 => EntryVerdict = "PASS"
=============================================================================
