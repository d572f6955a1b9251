------------------------------ MODULE Publish ------------------------------
(***************************************************************************)
(* The birth of a group buy (CreateGroupBuy in internal/logic/group_buy.go *)
(* and its rollback) while users already grab it: its row is visible from  *)
(* the INSERT on, before its stock is set, its members are cleared and its *)
(* place in the hot rank is made.  With it the part of the order path that *)
(* meets a group buy that is not ready, or is gone again, and the hot rank *)
(* (internal/dao/redis/hot.go) with its recount by compensation.           *)
(*                                                                         *)
(* The grab script is SlotCache's; the stock key counts as 0 while it is   *)
(* missing, as DECR takes it.  The check of status and deadline may turn   *)
(* any grab away, the lock may have run out at any time: neither is needed *)
(* for what is stated here.  Orders stay as they are created; GrabFlow has *)
(* the rest of their life.                                                 *)
(***************************************************************************)
EXTENDS SlotCache

CONSTANTS NoUser,      \* the consumer has no message in hand
          MaxFaults,   \* bound on failed calls, lost answers and crashes
          MaxCopies    \* bound on the copies the pending scanner adds to

ASSUME NoUserAssumption == NoUser \notin Users
ASSUME PublishBounds == MaxFaults \in Nat /\ MaxCopies \in Nat \ {0}

VARIABLES
  row,        \* the row in group_buys: "none", "open" or "deleted"
  pubPc,      \* next call of CreateGroupBuy
  answer,     \* what the publisher was told
  opened,     \* history: SET stock has been executed
  wiped,      \* history: the members DEL has removed
  given,      \* history: slots the script has given
  taken,      \* history: taken[u], how many of them it gave to u
  grab,       \* grab[u]: next call of u's request
  queue,      \* queue[u]: copies of the message {good_id, u}
  conPc,      \* next call of the consumer
  conUser,    \* the user of the message in its hand
  orders,     \* users with an order
  renewing,   \* marks republished and not renewed yet
  score,      \* score of the group buy in the hot rank, 0 when it is not in
  early,      \* history: users with an order when ZADD 0 was executed
  recount,    \* the compensation task of the hot rank
  recounted,  \* what its COUNT has found
  faults      \* faults so far

birthVars    == <<row, pubPc, answer, opened, wiped>>
grabVars     == <<given, taken, grab>>
consumerVars == <<conPc, conUser, orders>>
rankVars     == <<score, early, recount, recounted>>
vars == <<cache, birthVars, grabVars, queue, consumerVars, renewing, rankVars, faults>>

PublishTypeOK ==
  /\ CacheTypeOK
  /\ row \in {"none", "open", "deleted"}
  /\ pubPc \in {"insert", "setStock", "delMembers", "rollback", "rank", "done"}
  /\ answer \in {"none", "ok", "error"}
  /\ opened \in BOOLEAN
  /\ wiped \subseteq Users
  /\ given \in Nat
  /\ taken \in [Users -> Nat]
  /\ grab \in [Users -> {"idle", "checked"}]
  /\ queue \in [Users -> Nat]
  /\ conPc \in {"idle", "create", "clearNew", "clearOld", "rank"}
  /\ conUser \in Users \cup {NoUser}
  /\ orders \subseteq Users
  /\ renewing \subseteq Users
  /\ score \in Nat
  /\ early \subseteq Users
  /\ recount \in {"none", "due", "write"}
  /\ recounted \in Nat
  /\ faults \in Nat

Init ==
  /\ stock = 0 /\ members = {} /\ pending = {} /\ closeTasks = {}
  /\ lock = NoRequest /\ released = {}
  /\ row = "none" /\ pubPc = "insert" /\ answer = "none"
  /\ opened = FALSE /\ wiped = {}
  /\ given = 0 /\ taken = [u \in Users |-> 0]
  /\ grab = [u \in Users |-> "idle"]
  /\ queue = [u \in Users |-> 0]
  /\ conPc = "idle" /\ conUser = NoUser /\ orders = {}
  /\ renewing = {}
  /\ score = 0 /\ early = {} /\ recount = "none" /\ recounted = 0
  /\ faults = 0

Fault   == faults < MaxFaults /\ faults' = faults + 1
NoFault == UNCHANGED faults

-----------------------------------------------------------------------------
(* CreateGroupBuy, one step per call.                                       *)

PubGoes(pc)    == pubPc' = pc /\ UNCHANGED answer
PubAnswers(a)  == pubPc' = "done" /\ answer' = a

\* An error ends the request, whether or not MySQL inserted the row.
CreateRow ==
  /\ pubPc = "insert"
  /\ \/ row' = "open" /\ PubGoes("setStock") /\ NoFault
     \/ row' \in {"none", "open"} /\ PubAnswers("error") /\ Fault
  /\ UNCHANGED <<cache, opened, wiped, grabVars, queue, consumerVars, renewing, rankVars>>

SetStock ==
  /\ stock' = MaxMembers
  /\ opened' = TRUE
  /\ UNCHANGED <<members, pending, closeTasks, lock, released>>

\* The first half of InitGroupBuyStock; on an error, executed or not, the row
\* is rolled back.
InitStock ==
  /\ pubPc = "setStock"
  /\ \/ SetStock /\ PubGoes("delMembers") /\ NoFault
     \/ (SetStock \/ UNCHANGED <<cache, opened>>) /\ PubGoes("rollback") /\ Fault
  /\ UNCHANGED <<row, wiped, grabVars, queue, consumerVars, renewing, rankVars>>

DelMembers ==
  /\ members' = {}
  /\ wiped' = members
  /\ UNCHANGED <<stock, pending, closeTasks, lock, released>>

\* The second half: DEL members, though users may have grabbed since the SET.
InitMembers ==
  /\ pubPc = "delMembers"
  /\ \/ DelMembers /\ PubGoes("rank") /\ NoFault
     \/ (DelMembers \/ UNCHANGED <<cache, wiped>>) /\ PubGoes("rollback") /\ Fault
  /\ UNCHANGED <<row, opened, grabVars, queue, consumerVars, renewing, rankVars>>

\* Fault model: the error is returned without the DELETE.
RollbackForgotten ==
  /\ pubPc = "rollback"
  /\ PubAnswers("error")
  /\ NoFault
  /\ UNCHANGED <<cache, row, opened, wiped, grabVars, queue, consumerVars, renewing, rankVars>>

\* DeleteGroupBuy; whether it fails or not the publisher is told of the error.
Rollback ==
  /\ pubPc = "rollback"
  /\ PubAnswers("error")
  /\ \/ row' = "deleted" /\ NoFault
     \/ row' \in {row, "deleted"} /\ Fault
  /\ UNCHANGED <<cache, opened, wiped, grabVars, queue, consumerVars, renewing, rankVars>>

ZAddHotRank(n) == score' = n

\* ZADD 0, best effort: it overwrites what early orders have added.
EnterRank ==
  /\ pubPc = "rank"
  /\ PubAnswers("ok")
  /\ \/ ZAddHotRank(0) /\ early' = orders /\ NoFault
     \/ ZAddHotRank(0) /\ early' = orders /\ Fault
     \/ UNCHANGED <<score, early>> /\ Fault
  /\ UNCHANGED <<cache, row, opened, wiped, grabVars, queue, consumerVars, renewing,
                 recount, recounted>>

-----------------------------------------------------------------------------
(* A grab of user u: the check reads the row, the script runs later.        *)

GrabGoes(u, pc) == grab' = [grab EXCEPT ![u] = pc]

GrabEntry(u) ==
  /\ grab[u] = "idle"
  /\ row = "open"
  /\ GrabGoes(u, "checked")
  /\ NoFault
  /\ UNCHANGED <<cache, birthVars, given, taken, queue, consumerVars, renewing, rankVars>>

GivenSlot(u) ==
  /\ ExecGrabLua(u)
  /\ IF GrabLuaResult(u) = "OK"
     THEN given' = given + 1 /\ taken' = [taken EXCEPT ![u] = @ + 1]
     ELSE UNCHANGED <<given, taken>>

Enqueued(u) == queue' = [queue EXCEPT ![u] = @ + 1]

\* The script and, for a slot, the message.  One that waits to be sent is like
\* one that waits in the queue, except that a crash loses it; an error of the
\* script, executed or not, ends the request without a message.
GrabLua(u) ==
  /\ grab[u] = "checked"
  /\ GrabGoes(u, "idle")
  /\ \/ /\ GivenSlot(u) /\ NoFault
        /\ IF GrabLuaResult(u) = "OK" THEN Enqueued(u) ELSE UNCHANGED queue
     \/ (GivenSlot(u) \/ UNCHANGED <<cache, given, taken>>) /\ UNCHANGED queue /\ Fault
  /\ UNCHANGED <<birthVars, consumerVars, renewing, rankVars>>

-----------------------------------------------------------------------------
(* The consumer: CreateOrderByMessage.                                      *)

ConsumerGoes(pc) == conPc' = pc /\ UNCHANGED conUser
ConsumerDone == conPc' = "idle" /\ conUser' = NoUser
Acked == ConsumerDone /\ UNCHANGED queue
Redelivered == ConsumerDone /\ Enqueued(conUser)

\* Fault model: the message of a missing group buy is acked, its mark stays.
ReadGoodLeavesMark(u) ==
  /\ conPc = "idle"
  /\ queue[u] > 0
  /\ queue' = [queue EXCEPT ![u] = @ - 1]
  /\ IF row = "open" THEN conUser' = u /\ conPc' = "create" ELSE ConsumerDone
  /\ NoFault
  /\ UNCHANGED <<cache, birthVars, grabVars, orders, renewing, rankVars>>

\* A message comes and the group buy is read; a read that fails sends the
\* message back, which changes nothing.
ReadGood(u) ==
  /\ conPc = "idle"
  /\ queue[u] > 0
  /\ queue' = [queue EXCEPT ![u] = @ - 1]
  /\ conUser' = u
  /\ conPc' = IF row = "open" THEN "create" ELSE "clearOld"
  /\ NoFault
  /\ UNCHANGED <<cache, birthVars, grabVars, orders, renewing, rankVars>>

\* The transaction does not look at the row again: it creates the order even
\* if the rollback has deleted the group buy meanwhile.
CreateOrder ==
  /\ conPc = "create"
  /\ \/ /\ orders' = orders \cup {conUser}
        /\ ConsumerGoes(IF conUser \in orders THEN "clearOld" ELSE "clearNew")
        /\ UNCHANGED queue /\ NoFault
     \/ orders' \in {orders, orders \cup {conUser}} /\ Redelivered /\ Fault
  /\ UNCHANGED <<cache, birthVars, grabVars, renewing, rankVars>>

\* Fault model: a message that comes again counts once more.
ClearMarkCountsTwice ==
  /\ conPc \in {"clearNew", "clearOld"}
  /\ ConsumerGoes("rank") /\ UNCHANGED queue
  /\ \/ RemoveGrabPending(conUser) /\ NoFault
     \/ UNCHANGED cache /\ Fault
  /\ UNCHANGED <<birthVars, grabVars, orders, renewing, rankVars>>

ClearMark ==
  /\ conPc \in {"clearNew", "clearOld"}
  /\ IF conPc = "clearNew" THEN ConsumerGoes("rank") /\ UNCHANGED queue ELSE Acked
  /\ \/ RemoveGrabPending(conUser) /\ NoFault
     \/ UNCHANGED cache /\ Fault
  /\ UNCHANGED <<birthVars, grabVars, orders, renewing, rankVars>>

\* ZINCRBY, then the ack.  Its error, executed or not, asks for a recount,
\* which may fail to be recorded.
ZIncrHotRank ==
  /\ conPc = "rank"
  /\ \/ score' = score + 1 /\ UNCHANGED recount /\ Acked /\ NoFault
     \/ score' = score + 1 /\ UNCHANGED recount /\ Redelivered /\ Fault
     \/ score' \in {score, score + 1} /\ recount' \in {recount, "due"} /\ Acked /\ Fault
  /\ UNCHANGED <<cache, birthVars, grabVars, orders, renewing, early, recounted>>

-----------------------------------------------------------------------------
(* The compensation of the hot rank: COUNT the orders, then ZADD.           *)

RecountReads ==
  /\ recount = "due"
  /\ recount' = "write"
  /\ recounted' = Cardinality(orders)
  /\ NoFault
  /\ UNCHANGED <<cache, birthVars, grabVars, queue, consumerVars, renewing, score, early>>

\* Fault model: what was counted is added to the score.
RecountAdds ==
  /\ recount = "write"
  /\ \/ ZAddHotRank(score + recounted) /\ recount' = "none" /\ NoFault
     \/ /\ ZAddHotRank(score + recounted) \/ UNCHANGED score
        /\ recount' \in {"due", "none"} /\ Fault
  /\ recounted' = 0
  /\ UNCHANGED <<cache, birthVars, grabVars, queue, consumerVars, renewing, early>>

\* After an error, executed or not, the task is tried again or given up.
RecountWrites ==
  /\ recount = "write"
  /\ \/ ZAddHotRank(recounted) /\ recount' = "none" /\ NoFault
     \/ (ZAddHotRank(recounted) \/ UNCHANGED score) /\ recount' \in {"due", "none"} /\ Fault
  /\ recounted' = 0
  /\ UNCHANGED <<cache, birthVars, grabVars, queue, consumerVars, renewing, early>>

-----------------------------------------------------------------------------
(* The pending scanner, and crashes.                                        *)

Republish(u) ==
  /\ u \in pending \ renewing
  /\ queue[u] < MaxCopies
  /\ renewing' = renewing \cup {u}
  /\ \/ Enqueued(u) /\ NoFault
     \/ UNCHANGED queue /\ Fault
  /\ UNCHANGED <<cache, birthVars, grabVars, consumerVars, rankVars>>

RenewMark(u) ==
  /\ u \in renewing
  /\ renewing' = renewing \ {u}
  /\ \/ RenewGrabPending(u) /\ NoFault
     \/ UNCHANGED cache /\ Fault
  /\ UNCHANGED <<birthVars, grabVars, queue, consumerVars, rankVars>>

\* The publisher of a request that dies gets no answer.
Crash ==
  /\ Fault
  /\ pubPc' = "done"
  /\ grab' = [u \in Users |-> "idle"]
  /\ IF conPc = "idle" THEN UNCHANGED <<queue, conPc, conUser>> ELSE Redelivered
  /\ renewing' = {}
  /\ IF recount = "write" THEN recount' = "due" /\ recounted' = 0
                          ELSE UNCHANGED <<recount, recounted>>
  /\ UNCHANGED <<cache, row, answer, opened, wiped, given, taken, orders, score, early>>

-----------------------------------------------------------------------------
Publisher == CreateRow \/ InitStock \/ InitMembers \/ Rollback \/ EnterRank
Consumer  == CreateOrder \/ ClearMark \/ ZIncrHotRank
Recount   == RecountReads \/ RecountWrites

Next ==
  \/ Publisher
  \/ \E u \in Users : \/ GrabEntry(u) \/ GrabLua(u)
                      \/ ReadGood(u) \/ Republish(u) \/ RenewMark(u)
  \/ Consumer
  \/ Recount
  \/ Crash

Spec == Init /\ [][Next]_vars

-----------------------------------------------------------------------------
(* Properties.                                                              *)

\* No slot is given out before the stock is set, and from then on the stock
\* and the slots given out add up to max_members: grabs that come too early
\* neither oversell the group buy nor eat up its stock.
SlotsConservedFromBirth ==
  /\ stock >= 0
  /\ stock + given = IF opened THEN MaxMembers ELSE 0

\* A user is given one slot, unless he was quick enough to grab between SET
\* stock and DEL members: such a user may take one more, and no third.
OneSlotEach == \A u \in Users : taken[u] <= IF u \in wiped THEN 2 ELSE 1

\* A publisher who is told of success has a group buy that can be grabbed; one
\* who is told of an error has, unless the rollback failed too, a group buy
\* that is gone or never had a slot to give.
AnswerTellsTruth ==
  /\ answer = "ok" => row = "open" /\ opened
  /\ answer = "error" => row = "deleted" \/ ~opened \/ faults > 1

\* The hot rank never counts more than one order twice: a recount replaces the
\* score instead of adding to it, so that only the order the consumer works
\* on can be in it before its own point is added.
RankOvercountsOne == score <= Cardinality(orders) + 1

\* Without faults, when publisher and consumer are at rest, the hot rank misses
\* at most the orders that were faster than ZADD 0, however often their
\* messages came.
RankAtRest ==
  faults = 0 /\ pubPc = "done" /\ conPc = "idle"
    => score \in Cardinality(orders \ early) .. Cardinality(orders)

\* The consumer goes on, the broker passes over no message for ever, and the
\* pending scanner takes up every mark that stays.
Fairness ==
  /\ WF_vars(Consumer)
  /\ \A u \in Users : /\ SF_vars(ReadGood(u))
                      /\ WF_vars(Republish(u) \/ RenewMark(u))

FairSpec == Spec /\ Fairness

\* The renewal of the pending scanner puts a mark back that was removed since
\* the scanner has read it.
RevivesMark(u) == RenewMark(u) /\ u \notin pending /\ u \in pending'

\* Every mark goes away for good, and with it the sending of the message again,
\* also when the group buy was rolled back after the slot was taken, unless the
\* consumer loses the race with the renewal again and again (outbox_heals shows
\* that it may): nothing else keeps a message being sent for ever.
MarkEnds == \A u \in Users : <>[](u \notin pending) \/ []<><<RevivesMark(u)>>_vars
=============================================================================
