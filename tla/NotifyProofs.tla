---------------------------- MODULE NotifyProofs ----------------------------
(***************************************************************************)
(* What Notify promises, for every set of users and of notices, all limits *)
(* and widths, and any number of faults.                                   *)
(***************************************************************************)
EXTENDS Notify, GroupBuyTablesProofs

-----------------------------------------------------------------------------
(* Events stay true.                                                        *)

\* The part of NoticeTellsTruth that publishing and delivery disturb.
UnderWay(n) == n \in comp \/ queue[n] > 0 \/ box[n] # "none"

\* A notice is addressed to one it can happen to.
LEMMA NoticeParts ==
  ASSUME NEW n \in Notices
  PROVE  /\ n[2] \in OrderEvents \cup VerdictEvents
         /\ n[2] \in OrderEvents => n[1] \in Users
         /\ n[1] \in Users \cup {Publisher}
         /\ n = <<n[1], n[2]>>
BY NoticesAssumption DEF AllNotices, OrderEvents, VerdictEvents

\* An event of an order or a verdict is never taken back by a transaction.
LEMMA HappenedStays ==
  ASSUME TablesInv, [TablesStep]_tables, NEW u, NEW e \in OrderEvents \cup VerdictEvents,
         e \in OrderEvents => u \in Users, Happened(e, u)
  PROVE  Happened(e, u)'
<1> USE DEF TablesInv, TablesTypeOK, Happened, OrderEvents, VerdictEvents
<1>1. ASSUME NEW v \in Users, CreateOrderTx(v)
      PROVE  Happened(e, u)'
  <2>1. gbStatus \in {"succeeded", "full"} => gbStatus' \in {"succeeded", "full"}
    BY <1>1 DEF CreateOrderTx, StatusWith
  <2>2. gbStatus = "failed" => gbStatus' = "failed"
    BY <1>1 DEF CreateOrderTx, StatusWith
  <2>3. u \in Users /\ orders[u] # "none" => orders'[u] = orders[u]
    BY <1>1 DEF CreateOrderTx, DuplicateEntry
  <2> QED
    BY <2>1, <2>2, <2>3
<1>2. ASSUME NEW v \in Users, UpdateOrderPaid(v)
      PROVE  Happened(e, u)'
  BY <1>2 DEF UpdateOrderPaid
<1>3. ASSUME NEW v \in Users, NEW s \in {"cancelled", "closed"}, GiveUpSlot(v, s)
      PROVE  Happened(e, u)'
  BY <1>3 DEF GiveUpSlot
<1>4. CASE JudgeExpiredGroupBuys
  BY <1>4 DEF JudgeExpiredGroupBuys
<1>5. CASE DeadlinePasses \/ UNCHANGED tables
  BY <1>5 DEF DeadlinePasses, tables
<1> QED
  BY <1>1, <1>2, <1>3, <1>4, <1>5 DEF TablesStep, CancelOrderTx, CloseExpiredOrder

-----------------------------------------------------------------------------
(* Types and the backoff.                                                   *)

\* The inductive invariant.
NotifyInv == TablesInv /\ NotifyTypeOK /\ NoticeTellsTruth /\ PauseBounded

\* The pause after a failure is never zero, never negative and never above the
\* cap, whatever the shift has made of it.
LEMMA NextPauseBounded ==
  ASSUME NEW failures \in Nat \ {0}
  PROVE  NextPause(failures) \in 1 .. BackoffMax
<1> DEFINE x == BackoffBase * 2^(failures - 1)
<1>1. x \in Int
  <2>1. failures - 1 \in Nat
    OBVIOUS
  <2>2. 2^(failures - 1) \in Int
    BY <2>1
  <2> QED
    BY <2>2, BackoffAssumption
<1>2. Signed(x) \in Int
  <2> HIDE DEF x
  <2>1. x % DurationSpan \in Int
    BY <1>1, BackoffAssumption
  <2> QED
    BY <2>1, BackoffAssumption DEF Signed
<1> DEFINE wait == Signed(x)
<1>3. NextPause(failures) = IF wait > BackoffMax \/ wait <= 0 THEN BackoffMax ELSE wait
  BY DEF NextPause
<1> HIDE DEF wait
<1> QED
  BY <1>2, <1>3, BackoffAssumption DEF wait

\* A batch is published, as far as a fault lets it.
Publishes(batch) ==
  PublishNotification(batch) \/ \E rest \in SUBSET Notices : PublishFails(batch, rest)

\* Publishing adds copies and tasks of the batch, and takes none away.
LEMMA PublishEffect ==
  ASSUME NotifyTypeOK, NEW batch \in SUBSET Notices, Publishes(batch)
  PROVE  /\ comp' \subseteq Notices /\ queue' \in [Notices -> Nat] /\ faults' \in Nat
         /\ dropped' \subseteq Notices
         /\ \A n \in Notices : queue'[n] >= queue[n]
         /\ \A n \in Notices \ batch : queue'[n] = queue[n] /\ (n \in comp' => n \in comp)
<1> USE DEF NotifyTypeOK
<1>1. faults' \in Nat
  BY DEF Publishes, PublishNotification, PublishFails, Fault, NoFault
<1>2. ASSUME NEW sent \in SUBSET batch, Enqueued(sent)
      PROVE  /\ queue' \in [Notices -> Nat]
             /\ \A n \in Notices : queue'[n] >= queue[n]
             /\ \A n \in Notices \ batch : queue'[n] = queue[n]
  BY <1>2 DEF Enqueued
<1>3. \E sent \in SUBSET batch : Enqueued(sent)
  BY DEF Publishes, PublishNotification, PublishFails
<1>4. comp' \subseteq comp \cup batch
  BY DEF Publishes, PublishNotification, PublishFails
<1>5. dropped' \subseteq Notices
  BY DEF Publishes, PublishNotification, PublishFails
<1> QED
  BY <1>1, <1>2, <1>3, <1>4, <1>5

\* Announcing what is true by now keeps every notice true.
LEMMA PublishKeepsTruth ==
  ASSUME NotifyInv, [TablesStep]_tables, box' = box,
         NEW batch \in SUBSET Notices, Publishes(batch),
         \A n \in batch : Happened(n[2], n[1])'
  PROVE  \A n \in Notices : UnderWay(n)' => Happened(n[2], n[1])'
<1> SUFFICES ASSUME NEW n \in Notices, UnderWay(n)', n \notin batch
             PROVE  Happened(n[2], n[1])'
  OBVIOUS
<1>1. UnderWay(n)
  BY PublishEffect DEF UnderWay, NotifyInv
<1>2. Happened(n[2], n[1])
  BY <1>1 DEF UnderWay, NotifyInv, NoticeTellsTruth
<1> QED
  BY <1>2, NoticeParts, HappenedStays DEF NotifyInv

\* A verdict that waits to be told stays true.
LEMMA FanOutStays ==
  ASSUME NotifyInv, [TablesStep]_tables, NEW e \in VerdictEvents, e = fanOut
  PROVE  Happened(e, Publisher)'
<1>1. e \notin OrderEvents
  BY DEF VerdictEvents, OrderEvents
<1>2. Happened(e, Publisher)
  BY DEF NotifyInv, NoticeTellsTruth, VerdictEvents
<1> QED
  BY <1>1, <1>2, HappenedStays DEF NotifyInv

\* Verdicts happen to everybody.
LEMMA VerdictOfAll ==
  ASSUME NEW e \in VerdictEvents, NEW u, NEW v
  PROVE  Happened(e, u) <=> Happened(e, v)
BY DEF Happened, VerdictEvents

-----------------------------------------------------------------------------
(* Steps that publish.                                                      *)

\* A transaction and the announcement of what it has brought about.
LEMMA AnnouncingKeepsInv ==
  ASSUME NotifyInv, [TablesStep]_tables, UNCHANGED <<consumerVars, box>>,
         NEW batch \in SUBSET Notices, Publishes(batch),
         \A n \in batch : Happened(n[2], n[1])',
         fanOut' \in VerdictEvents \cup {"none"},
         fanOut' # "none" => Happened(fanOut, Publisher)'
  PROVE  NotifyInv'
<1> USE DEF NotifyInv
<1>1. TablesInv'
  BY TablesStepKeepsInv
<1>2. /\ comp' \subseteq Notices /\ queue' \in [Notices -> Nat] /\ faults' \in Nat
      /\ dropped' \subseteq Notices
      /\ UNCHANGED <<streak, pause, box>>
  BY PublishEffect DEF consumerVars
<1>3. NotifyTypeOK'
  BY <1>1, <1>2 DEF NotifyTypeOK, TablesInv
<1>4. NoticeTellsTruth'
  BY <1>2, PublishKeepsTruth DEF NoticeTellsTruth, UnderWay
<1>5. PauseBounded'
  BY <1>2 DEF PauseBounded
<1> QED
  BY <1>1, <1>3, <1>4, <1>5

\* The order and, from the transaction that reached min_members, the success.
LEMMA OrderCreatedKeepsInv ==
  ASSUME NotifyInv, NEW u \in Users, OrderCreated(u)
  PROVE  NotifyInv'
<1>1. CreateOrderTx(u) /\ Publishes(NoticeOf(u, "pending_pay")) /\ UNCHANGED <<consumerVars, box>>
  BY DEF OrderCreated, Announce, Publishes, NoticesOf
<1>2. [TablesStep]_tables
  BY <1>1 DEF TablesStep
<1>3. \A n \in NoticeOf(u, "pending_pay") : Happened(n[2], n[1])'
  BY <1>1 DEF NoticeOf, CreateOrderTx, Happened, NotifyInv, TablesInv, TablesTypeOK
<1>4. CASE fanOut' = fanOut
  <2>1. fanOut' \in VerdictEvents \cup {"none"}
    BY <1>4 DEF NotifyInv, NotifyTypeOK
  <2>2. fanOut' # "none" => Happened(fanOut, Publisher)'
    BY <1>2, <1>4, <2>1, FanOutStays
  <2> QED
    BY <1>1, <1>2, <1>3, <2>1, <2>2, AnnouncingKeepsInv DEF NoticeOf
<1>5. CASE Elected /\ fanOut' = Verdict
  <2>1. gbStatus' \in {"succeeded", "full"}
    BY <1>1, <1>5 DEF CreateOrderTx, StatusWith, Elected
  <2>2. fanOut' = "succeeded"
    BY <1>5, <2>1 DEF Verdict
  <2>3. Happened(fanOut, Publisher)'
    BY <2>1, <2>2 DEF Happened
  <2> QED
    BY <1>1, <1>2, <1>3, <2>2, <2>3, AnnouncingKeepsInv DEF NoticeOf, VerdictEvents
<1> QED
  BY <1>4, <1>5 DEF OrderCreated

\* Payment, cancel and close.
LEMMA SettledKeepsInv ==
  ASSUME NotifyInv, NEW u \in Users, OrderPaid(u) \/ OrderCancelled(u) \/ OrderClosed(u)
  PROVE  NotifyInv'
<1>1. PICK e \in {"paid", "cancelled", "closed"} :
        /\ Announce(u, e)
        /\ orders' = [orders EXCEPT ![u] = e]
        /\ UpdateOrderPaid(u) \/ CancelOrderTx(u) \/ CloseExpiredOrder(u)
        /\ UNCHANGED <<fanOut, consumerVars, box>>
  BY DEF OrderPaid, OrderCancelled, OrderClosed, UpdateOrderPaid, CancelOrderTx,
         CloseExpiredOrder, GiveUpSlot
<1>2. [TablesStep]_tables
  BY <1>1 DEF TablesStep
<1>3. \A n \in NoticeOf(u, e) : Happened(n[2], n[1])'
  BY <1>1 DEF NoticeOf, Happened, NotifyInv, TablesInv, TablesTypeOK
<1>4. fanOut' \in VerdictEvents \cup {"none"} /\ fanOut' = fanOut
  BY <1>1 DEF NotifyInv, NotifyTypeOK
<1>5. fanOut' # "none" => Happened(fanOut, Publisher)'
  BY <1>2, <1>4, FanOutStays
<1> QED
  BY <1>1, <1>2, <1>3, <1>4, <1>5, AnnouncingKeepsInv DEF Announce, NoticeOf, Publishes

\* Telling the verdict to whoever is in the sign-in book.
LEMMA NotifyGroupBuyEventKeepsInv ==
  ASSUME NotifyInv, NotifyGroupBuyEvent
  PROVE  NotifyInv'
<1> DEFINE batch == ((roster \cup {Publisher}) \X {fanOut}) \cap Notices
<1>1. /\ fanOut # "none" /\ fanOut' = "none" /\ PublishNotification(batch)
      /\ UNCHANGED tables /\ UNCHANGED <<consumerVars, box>>
  BY DEF NotifyGroupBuyEvent
<1>2. fanOut \in VerdictEvents
  BY <1>1 DEF NotifyInv, NotifyTypeOK
<1>3. PICK e \in VerdictEvents : e = fanOut
  BY <1>2
<1>4. Happened(e, Publisher)'
  BY <1>1, <1>3, FanOutStays
<1>5. ASSUME NEW n \in batch
      PROVE  Happened(n[2], n[1])'
  <2>1. n[2] = e
    BY <1>3
  <2> QED
    BY <1>4, <2>1 DEF Happened, VerdictEvents
<1> QED
  BY <1>1, <1>5, AnnouncingKeepsInv DEF Publishes

\* The deadline verdict.
LEMMA JudgedKeepsInv ==
  ASSUME NotifyInv, Judged
  PROVE  NotifyInv'
<1> USE DEF NotifyInv
<1>1. JudgeExpiredGroupBuys /\ UNCHANGED <<comp, queue, streak, pause, box>>
  BY DEF Judged, consumerVars
<1>2. [TablesStep]_tables
  BY <1>1 DEF TablesStep
<1>3. TablesInv'
  BY <1>2, TablesStepKeepsInv
<1>4. fanOut = "none" \/ gbStatus # "recruiting"
  BY DEF NoticeTellsTruth, Happened, NotifyTypeOK, VerdictEvents
<1>5. fanOut' \in {"none", Verdict} /\ Verdict \in VerdictEvents
  BY <1>1, <1>4 DEF Judged, JudgeExpiredGroupBuys, Verdict, VerdictEvents
<1>6. faults' \in Nat /\ dropped' \subseteq Notices
  BY DEF Judged, Fault, NoFault, NotifyTypeOK, NoticesOf
<1>7. NotifyTypeOK'
  BY <1>1, <1>3, <1>5, <1>6 DEF NotifyTypeOK, TablesInv
<1>8. fanOut' # "none" => Happened(fanOut, Publisher)'
  BY <1>1, <1>5 DEF Happened, Verdict, JudgeExpiredGroupBuys
<1>9. ASSUME NEW n \in Notices, UnderWay(n)
      PROVE  Happened(n[2], n[1])'
  BY <1>2, <1>9, NoticeParts, HappenedStays DEF NoticeTellsTruth, UnderWay
<1>10. NoticeTellsTruth'
  BY <1>1, <1>8, <1>9 DEF NoticeTellsTruth, UnderWay
<1> QED
  BY <1>1, <1>3, <1>7, <1>10 DEF PauseBounded

-----------------------------------------------------------------------------
(* Steps behind the transactions.                                           *)

\* A step that makes nothing new of a notice keeps every notice true.
LEMMA DeliveringKeepsInv ==
  ASSUME NotifyInv, UNCHANGED tables, fanOut' \in {fanOut, "none"},
         comp' \subseteq comp, queue' \in [Notices -> Nat],
         box' \in [Notices -> {"none", "unread", "read"}],
         \A n \in Notices : (queue'[n] > 0 \/ box'[n] # "none") => UnderWay(n),
         streak' \in Nat, pause' \in 0 .. BackoffMax, pause' = 0 <=> streak' = 0,
         dropped' \subseteq Notices, faults' \in Nat
  PROVE  NotifyInv'
<1> USE DEF NotifyInv
<1>1. TablesInv'
  BY TablesStepKeepsInv
<1>2. pause' \in Int
  BY BackoffAssumption
<1>3. NotifyTypeOK'
  BY <1>1, <1>2 DEF NotifyTypeOK, TablesInv
<1>4. \A n \in Notices : UnderWay(n)' => UnderWay(n)
  BY DEF UnderWay
<1>5. NoticeTellsTruth'
  <2>1. \A e, u : Happened(e, u)' = Happened(e, u)
    BY DEF Happened, tables
  <2> QED
    BY <1>4, <2>1 DEF NoticeTellsTruth, UnderWay
<1>6. PauseBounded'
  BY DEF PauseBounded
<1> QED
  BY <1>1, <1>3, <1>5, <1>6

\* The row of a message is there when the message has come.
LEMMA InsertedEffect ==
  ASSUME NotifyTypeOK, NEW n \in Notices, Inserted(n) \/ UNCHANGED box
  PROVE  /\ box' \in [Notices -> {"none", "unread", "read"}]
         /\ \A m \in Notices \ {n} : box'[m] = box[m]
         /\ Inserted(n) => box'[n] # "none"
BY DEF Inserted, NotifyTypeOK

\* A delivery, with or without an error of MySQL.
LEMMA ConsumeKeepsInv ==
  ASSUME NotifyInv, NEW n \in Notices, Consume(n)
  PROVE  NotifyInv'
<1> USE DEF NotifyInv
<1>1. /\ queue[n] > 0 /\ UnderWay(n) /\ UNCHANGED <<tables, fanOut, comp>>
      /\ Inserted(n) \/ UNCHANGED box
  BY DEF Consume, CreateNotification, CreateNotificationFails, UnderWay
<1>2. /\ queue' \in [Notices -> Nat] /\ \A m \in Notices : queue'[m] > 0 => queue[m] > 0
      /\ dropped' \subseteq Notices /\ faults' \in Nat
  BY <1>1 DEF Consume, CreateNotification, CreateNotificationFails, Fault, NoFault, NotifyTypeOK
<1>3. \A m \in Notices : (queue'[m] > 0 \/ box'[m] # "none") => UnderWay(m)
  BY <1>1, <1>2, InsertedEffect DEF UnderWay
<1>4. streak' \in Nat /\ pause' \in 0 .. BackoffMax /\ (pause' = 0 <=> streak' = 0)
  <2>1. CASE CreateNotification(n)
    BY <2>1, BackoffAssumption DEF CreateNotification
  <2>2. CASE CreateNotificationFails(n)
    <3>1. streak' = streak + 1 /\ streak + 1 \in Nat \ {0} /\ pause' = NextPause(streak + 1)
      BY <2>2 DEF CreateNotificationFails, NotifyTypeOK
    <3>2. pause' \in 1 .. BackoffMax
      BY <3>1, NextPauseBounded
    <3> QED
      BY <3>1, <3>2, BackoffAssumption
  <2> QED
    BY <2>1, <2>2 DEF Consume
<1> QED
  BY <1>1, <1>2, <1>3, <1>4, InsertedEffect, DeliveringKeepsInv

\* Compensation, reading, the deadline and crashes.
LEMMA OthersKeepNotifyInv ==
  ASSUME NotifyInv,
         \/ \E n \in Notices : CompensateNotification(n) \/ MarkNotificationRead(n)
         \/ Crash \/ UNCHANGED vars
  PROVE  NotifyInv'
<1> USE DEF NotifyInv, NotifyTypeOK, PauseBounded, UnderWay, Fault, NoFault, consumerVars
<1>1. ASSUME NEW n \in Notices, CompensateNotification(n)
      PROVE  NotifyInv'
  <2>1. queue' \in [Notices -> Nat] /\ \A m \in Notices \ {n} : queue'[m] = queue[m]
    BY <1>1 DEF CompensateNotification, Enqueued
  <2>2. /\ n \in comp /\ comp' \subseteq comp /\ faults' \in Nat /\ dropped' \subseteq Notices
        /\ UNCHANGED <<tables, fanOut, streak, pause, box>>
    BY <1>1 DEF CompensateNotification
  <2> QED
    BY <2>1, <2>2, DeliveringKeepsInv
<1>2. ASSUME NEW n \in Notices, MarkNotificationRead(n)
      PROVE  NotifyInv'
  BY <1>2, DeliveringKeepsInv DEF MarkNotificationRead
<1>3. CASE Crash
  BY <1>3, BackoffAssumption, DeliveringKeepsInv DEF Crash, NoticesOf
<1>4. CASE UNCHANGED vars
  BY <1>4, DeliveringKeepsInv DEF vars
<1> QED
  BY <1>1, <1>2, <1>3, <1>4

\* The deadline changes no event.
LEMMA DeadlineKeepsInv ==
  ASSUME NotifyInv, Deadline
  PROVE  NotifyInv'
<1> USE DEF NotifyInv
<1>1. DeadlinePasses /\ UNCHANGED <<fanOut, comp, queue, streak, pause, box, dropped, faults>>
  BY DEF Deadline, consumerVars, NoFault
<1>2. TablesInv'
  BY <1>1, TablesStepKeepsInv DEF TablesStep
<1>3. NotifyTypeOK' /\ PauseBounded'
  BY <1>1, <1>2 DEF NotifyTypeOK, TablesInv, PauseBounded
<1>4. NoticeTellsTruth'
  BY <1>1 DEF NoticeTellsTruth, Happened, DeadlinePasses
<1> QED
  BY <1>2, <1>3, <1>4

-----------------------------------------------------------------------------
(* The theorems.                                                            *)

\* The inductive invariant holds.
THEOREM NotifyInvariance == Spec => []NotifyInv
<1>1. Init => NotifyInv
  <2> SUFFICES ASSUME Init PROVE NotifyInv
    OBVIOUS
  <2>1. TablesInv
    BY TablesInitInv DEF Init
  <2>2. NotifyTypeOK /\ PauseBounded
    BY <2>1, BackoffAssumption DEF Init, NotifyTypeOK, PauseBounded, TablesInv
  <2>3. NoticeTellsTruth
    BY DEF Init, NoticeTellsTruth
  <2> QED
    BY <2>1, <2>2, <2>3 DEF NotifyInv
<1>2. NotifyInv /\ [Next]_vars => NotifyInv'
  BY OrderCreatedKeepsInv, SettledKeepsInv, JudgedKeepsInv, NotifyGroupBuyEventKeepsInv,
     ConsumeKeepsInv, OthersKeepNotifyInv, DeadlineKeepsInv DEF Next
<1> QED
  BY <1>1, <1>2, PTL DEF Spec

\* Types.
THEOREM NotifyTypeCorrect == Spec => []NotifyTypeOK
<1>1. NotifyInv => NotifyTypeOK
  BY DEF NotifyInv
<1> QED
  BY <1>1, NotifyInvariance, PTL

\* Whatever is lost, late or sent twice, what a notice says is so.
THEOREM NoticesTellTheTruth == Spec => []NoticeTellsTruth
<1>1. NotifyInv => NoticeTellsTruth
  BY DEF NotifyInv
<1> QED
  BY <1>1, NotifyInvariance, PTL

\* Two messages that cannot both be true: both verdicts, whoever they are for,
\* or two ends of one order.
Contradict(m, n) ==
  \/ {m[2], n[2]} = VerdictEvents
  \/ /\ m[1] = n[1] /\ m[2] # n[2]
     /\ m[2] \in OrderEvents \ {"pending_pay"} /\ n[2] \in OrderEvents \ {"pending_pay"}

\* Nobody is told that he paid what he is also told was cancelled or closed, and
\* no two people in the whole system hear different verdicts, however late,
\* lost or repeated the messages.
THEOREM NoticesNeverContradict ==
  Spec => [](\A m, n \in Notices : UnderWay(m) /\ UnderWay(n) => ~Contradict(m, n))
<1>1. ASSUME NotifyInv, NEW m \in Notices, NEW n \in Notices, UnderWay(m), UnderWay(n)
      PROVE  ~Contradict(m, n)
  <2>1. Happened(m[2], m[1]) /\ Happened(n[2], n[1])
    BY <1>1 DEF NotifyInv, NoticeTellsTruth, UnderWay
  <2>2. CASE {m[2], n[2]} = VerdictEvents
    BY <2>1, <2>2 DEF Happened, VerdictEvents
  <2> QED
    BY <2>1, <2>2 DEF Contradict, Happened, OrderEvents
<1>2. NotifyInv => \A m, n \in Notices : UnderWay(m) /\ UnderWay(n) => ~Contradict(m, n)
  BY <1>1
<1> QED
  BY <1>2, NotifyInvariance, PTL

\* The events announced are those of the tables: Notify lets MySQL commit in any
\* order, and never does to the tables what their transactions do not do.
THEOREM NotifyRunsTheTables == Spec => TablesSpec
<1>1. Init => TablesInit
  BY DEF Init
<1>2. [Next]_vars => [TablesStep]_tables
  <2>1. ASSUME NEW u \in Users, OrderCreated(u) \/ OrderPaid(u) \/ OrderCancelled(u) \/ OrderClosed(u)
        PROVE  TablesStep
    BY <2>1 DEF OrderCreated, OrderPaid, OrderCancelled, OrderClosed, TablesStep
  <2>2. ASSUME NEW n \in Notices, CompensateNotification(n) \/ Consume(n) \/ MarkNotificationRead(n)
        PROVE  UNCHANGED tables
    BY <2>2 DEF CompensateNotification, Consume, CreateNotification, CreateNotificationFails,
                MarkNotificationRead
  <2>3. CASE Judged \/ Deadline
    BY <2>3 DEF Judged, Deadline, TablesStep
  <2>4. CASE NotifyGroupBuyEvent \/ Crash \/ UNCHANGED vars
    BY <2>4 DEF NotifyGroupBuyEvent, Crash, vars
  <2> QED
    BY <2>1, <2>2, <2>3, <2>4 DEF Next
<1> QED
  BY <1>1, <1>2, PTL DEF Spec, TablesSpec

\* The backoff stays between nothing and its cap after any number of failures,
\* for every width of a duration: the shift may overflow, the pause does not.
THEOREM PausesAreBounded == Spec => []PauseBounded
<1>1. NotifyInv => PauseBounded
  BY DEF NotifyInv
<1> QED
  BY <1>1, NotifyInvariance, PTL

\* No step takes a copy off the queue before its row is in the table.
THEOREM AckedMeansStored == Spec => AckedIsStored
<1>1. NotifyInv /\ [Next]_vars => [\A n \in Notices : queue'[n] < queue[n] => box'[n] # "none"]_vars
  <2> SUFFICES ASSUME NotifyInv, Next, NEW n \in Notices, queue'[n] < queue[n]
               PROVE  box'[n] # "none"
    OBVIOUS
  <2> USE DEF NotifyInv
  <2>1. ASSUME NEW batch \in SUBSET Notices, Publishes(batch)
        PROVE  FALSE
    <3>1. queue'[n] >= queue[n] /\ queue'[n] \in Nat /\ queue[n] \in Nat
      BY <2>1, PublishEffect DEF NotifyTypeOK
    <3> QED
      BY <3>1
  <2>2. ASSUME NEW m \in Notices, CompensateNotification(m)
        PROVE  FALSE
    BY <2>2 DEF CompensateNotification, Enqueued, NotifyTypeOK
  <2>3. ASSUME NEW m \in Notices, CreateNotification(m)
        PROVE  box'[n] # "none"
    <3>1. m = n
      BY <2>3 DEF CreateNotification, NotifyTypeOK
    <3> QED
      BY <2>3, <3>1, InsertedEffect DEF CreateNotification
  <2>4. ASSUME UNCHANGED queue
        PROVE  FALSE
    BY <2>4 DEF NotifyTypeOK
  <2>5. ASSUME NEW u \in Users, OrderCreated(u) \/ OrderPaid(u) \/ OrderCancelled(u) \/ OrderClosed(u)
        PROVE  FALSE
    BY <2>1, <2>5 DEF OrderCreated, OrderPaid, OrderCancelled, OrderClosed, Announce, NoticeOf,
                      Publishes, NoticesOf
  <2> QED
    BY <2>1, <2>2, <2>3, <2>4, <2>5 DEF Next, Publishes, Judged, NotifyGroupBuyEvent, Consume, CreateNotificationFails,
       MarkNotificationRead, Deadline, Crash
<1> QED
  BY <1>1, NotifyInvariance, PTL DEF Spec, AckedIsStored

\* The table of notifications is a mailbox: every behaviour of the notification
\* path, faults included, is one of the abstract mailbox.
THEOREM NotifyImplementsMailbox == Spec => ImplementsMailbox
<1>1. Init => Box!MailboxInit
  BY DEF Init, Box!MailboxInit
<1>2. NotifyInv /\ [Next]_vars => [Box!MailboxNext]_box
  <2> SUFFICES ASSUME NotifyInv, Next, box' # box
               PROVE  Box!MailboxNext
    BY DEF vars
  <2> USE DEF NotifyInv, NotifyTypeOK
  <2>1. ASSUME NEW n \in Notices, Consume(n)
        PROVE  Box!Arrive(n)
    BY <2>1 DEF Consume, CreateNotification, CreateNotificationFails, Inserted,
                Box!Arrive, Box!Turn
  <2>2. ASSUME NEW n \in Notices, MarkNotificationRead(n)
        PROVE  Box!Read(n)
    BY <2>2 DEF MarkNotificationRead, Box!Read, Box!Turn
  <2>3. \E n \in Notices : Consume(n) \/ MarkNotificationRead(n)
    BY DEF Next, OrderCreated, OrderPaid, OrderCancelled, OrderClosed, Judged,
           NotifyGroupBuyEvent, CompensateNotification, Deadline, Crash
  <2> QED
    BY <2>1, <2>2, <2>3 DEF Box!MailboxNext
<1> QED
  BY <1>1, <1>2, NotifyInvariance, PTL DEF Spec, ImplementsMailbox, Box!MailboxSpec
=============================================================================
