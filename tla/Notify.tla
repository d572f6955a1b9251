------------------------------- MODULE Notify -------------------------------
(***************************************************************************)
(* The notifications of the order path: the handler whose transaction      *)
(* committed announces the event (notifyBestEffort and notifyGroupBuyEvent *)
(* in internal/logic/notification.go), RabbitMQ carries the message, the   *)
(* consumer inserts a row under the unique key uk_user_category_ref        *)
(* (cmd/main.go, internal/dao/notification.go) and the recipient reads it. *)
(*                                                                         *)
(* The tables change here by the transactions of GroupBuyTables, in any    *)
(* order MySQL may commit them; what brings them about is GrabFlow's       *)
(* matter.  A fault is a call that fails or loses its answer, a lost       *)
(* message or a crash.  Durations are counted in units of the code's       *)
(* choice: only their order and their width matter.                        *)
(***************************************************************************)
EXTENDS GroupBuyTables

CONSTANTS Publisher,    \* publishes the group buy, and may not join it
          Notices,      \* the notices the model follows: all, or some, since
                        \* they share nothing but the queue and its consumer
          BackoffBase,  \* retryBackoffBase
          BackoffMax,   \* retryBackoffMax
          DurationSpan, \* number of values a duration can take
          MaxStreak,    \* bound on the INSERTs that fail in a row
          MaxFaults     \* bound on the other faults of a behaviour

ASSUME PublisherAssumption == Publisher \notin Users
ASSUME BackoffAssumption ==
  /\ BackoffBase \in Nat \ {0} /\ BackoffMax \in Nat /\ BackoffBase <= BackoffMax
  /\ DurationSpan \in Nat \ {0}
ASSUME NotifyBounds == MaxStreak \in Nat /\ MaxFaults \in Nat

OrderEvents   == {"pending_pay", "paid", "cancelled", "closed"}
VerdictEvents == {"succeeded", "failed"}

\* The unique key (user_id, category, ref_id): a user has one order and there
\* is one group buy, so that the category tells the reference.
AllNotices == (Users \X OrderEvents) \cup ((Users \cup {Publisher}) \X VerdictEvents)

ASSUME NoticesAssumption == Notices \subseteq AllNotices

VARIABLES
  fanOut,   \* the verdict whose winner has yet to read the sign-in book
  comp,     \* notices with a compensation task that will publish them again
  queue,    \* queue[n]: copies of the message
  streak,   \* failures of its backoff
  pause,    \* how long it slept before it sent the last message back
  box,      \* box[n]: the row of the notifications table
  dropped,  \* history: notices that a fault has left unsent and without a task
  faults    \* faults so far

consumerVars == <<streak, pause>>
vars == <<tables, fanOut, comp, queue, consumerVars, box, dropped, faults>>

NotifyTypeOK ==
  /\ TablesTypeOK
  /\ fanOut \in VerdictEvents \cup {"none"}
  /\ comp \subseteq Notices
  /\ queue \in [Notices -> Nat]
  /\ streak \in Nat
  /\ pause \in Int
  /\ box \in [Notices -> {"none", "unread", "read"}]
  /\ dropped \subseteq Notices
  /\ faults \in Nat

Init ==
  /\ TablesInit
  /\ fanOut = "none"
  /\ comp = {}
  /\ queue = [n \in Notices |-> 0]
  /\ streak = 0
  /\ pause = 0
  /\ box = [n \in Notices |-> "none"]
  /\ dropped = {}
  /\ faults = 0

Fault   == faults < MaxFaults /\ faults' = faults + 1
NoFault == UNCHANGED faults

-----------------------------------------------------------------------------
(* Publishing: notifyBestEffort, once per recipient.  The handler publishes *)
(* after its commit; a message that waits to be sent is like one that waits *)
(* in the queue, except that a crash loses it.                              *)

Enqueued(ns) == queue' = [n \in Notices |-> IF n \in ns THEN queue[n] + 1 ELSE queue[n]]

\* The calls of a batch are made one by one.  A crash in between leaves the
\* rest unsent, and so does a message lost without an error; each call that
\* fails, sent or not, asks for a compensation task and lets the others be; the
\* channel may be broken for all of them.  The rest is what goes down as well.
PublishFails(batch, rest) ==
  /\ Fault
  /\ \E sent, owed \in SUBSET batch :
       /\ Enqueued(sent)
       /\ comp' = comp \cup owed
       /\ dropped' = dropped \cup (batch \ (sent \cup owed)) \cup rest

PublishNotification(batch) ==
  \/ Enqueued(batch) /\ UNCHANGED <<comp, dropped>> /\ NoFault
  \/ PublishFails(batch, {})

\* The task runs and its row goes, it runs and the row stays, or it is given
\* up.  Another instance may have loaded it before the row went, and sends the
\* message as well.
CompensateNotification(n) ==
  /\ n \in comp
  /\ \/ /\ \E copies \in 1..2 : queue' = [queue EXCEPT ![n] = @ + copies]
        /\ comp' = comp \ {n} /\ UNCHANGED dropped /\ NoFault
     \/ Enqueued({n}) /\ UNCHANGED <<comp, dropped>> /\ Fault
     \/ UNCHANGED queue /\ comp' = comp \ {n} /\ dropped' = dropped \cup {n} /\ Fault
  /\ UNCHANGED <<tables, fanOut, consumerVars, box>>

-----------------------------------------------------------------------------
(* Events.  A handler announces what its own transaction has changed.       *)

NoticeOf(u, event) == {<<u, event>>} \cap Notices
Announce(u, event) == PublishNotification(NoticeOf(u, event))

\* The one who changed the status of the group buy is elected to tell it.
Elected == gbStatus = "recruiting" /\ gbStatus' # gbStatus
Verdict == IF gbStatus' = "failed" THEN "failed" ELSE "succeeded"
NoticesOf(verdict) == {n \in Notices : n[2] = verdict}

\* The consumer of grab messages: the new order and, from the transaction
\* that reached min_members, the success; a crash after the commit drops it.
OrderCreated(u) ==
  /\ CreateOrderTx(u)
  /\ \/ /\ Announce(u, "pending_pay")
        /\ fanOut' = IF Elected THEN Verdict ELSE fanOut
     \/ /\ Elected /\ UNCHANGED fanOut
        /\ PublishFails(NoticeOf(u, "pending_pay"), NoticesOf(Verdict))
  /\ UNCHANGED <<consumerVars, box>>

\* Fault model: the second click is told as well that it paid.
OrderPaidUnguarded(u) ==
  /\ orders[u] # "none"
  /\ UpdateOrderPaid(u) \/ (orders[u] # "pending_pay" /\ UNCHANGED tables)
  /\ Announce(u, "paid")
  /\ UNCHANGED <<fanOut, consumerVars, box>>

\* Pay, cancel and the delay scanner tell of the conditional UPDATE they won.
OrderPaid(u) ==
  /\ UpdateOrderPaid(u)
  /\ Announce(u, "paid")
  /\ UNCHANGED <<fanOut, consumerVars, box>>

OrderCancelled(u) ==
  /\ CancelOrderTx(u)
  /\ Announce(u, "cancelled")
  /\ UNCHANGED <<fanOut, consumerVars, box>>

OrderClosed(u) ==
  /\ CloseExpiredOrder(u)
  /\ Announce(u, "closed")
  /\ UNCHANGED <<fanOut, consumerVars, box>>

\* The deadline verdict; a later statement of the round that fails drops the
\* rows the round has already flipped.
Judged ==
  /\ JudgeExpiredGroupBuys
  /\ \/ fanOut' = Verdict /\ UNCHANGED dropped /\ NoFault
     \/ UNCHANGED fanOut /\ dropped' = dropped \cup NoticesOf(Verdict) /\ Fault
  /\ UNCHANGED <<comp, queue, consumerVars, box>>

\* Fault model: the publisher is not told.
NotifyMembersOnly ==
  /\ fanOut # "none"
  /\ fanOut' = "none"
  /\ PublishNotification((roster \X {fanOut}) \cap Notices)
  /\ UNCHANGED <<tables, consumerVars, box>>

\* The winner reads the sign-in book, now, and tells every member on it and
\* the publisher; a read that fails drops the batch.
NotifyGroupBuyEvent ==
  /\ fanOut # "none"
  /\ fanOut' = "none"
  /\ PublishNotification(((roster \cup {Publisher}) \X {fanOut}) \cap Notices)
  /\ UNCHANGED <<tables, consumerVars, box>>

-----------------------------------------------------------------------------
(* Delivery.  The consumer's handler makes one call to a store, so that a   *)
(* delivery is one step: a message in its hand, or held back by the pause   *)
(* after a failure, is one the broker still has.                            *)

\* What is left of x in a duration, in two's complement.
Signed(x) ==
  LET m == x % DurationSpan IN IF 2 * m < DurationSpan THEN m ELSE m - DurationSpan

\* Fault model: a shift that overflowed is taken for a duration.
NextPauseUnchecked(failures) ==
  LET wait == Signed(BackoffBase * 2^(failures - 1))
  IN IF wait > BackoffMax THEN BackoffMax ELSE wait

\* The pause after so many failures in a row: doubled each time, capped, and
\* the cap again when the shift overflows.
NextPause(failures) ==
  LET wait == Signed(BackoffBase * 2^(failures - 1))
  IN IF wait > BackoffMax \/ wait <= 0 THEN BackoffMax ELSE wait

\* Fault model: a message that comes again overwrites the row.
InsertedUpsert(n) == box' = [box EXCEPT ![n] = "unread"]

\* The unique key refuses a second row.
Inserted(n) ==
  box' = IF box[n] = "none" THEN [box EXCEPT ![n] = "unread"] ELSE box

\* Fault models: the error of the unique key is taken for one of MySQL; the
\* message is not put back in the queue.
CreateNotificationNewOnly(n) ==
  /\ queue[n] > 0 /\ box[n] = "none"
  /\ Inserted(n)
  /\ streak' = 0 /\ pause' = 0
  /\ \/ queue' = [queue EXCEPT ![n] = @ - 1] /\ NoFault
     \/ UNCHANGED queue /\ Fault
  /\ UNCHANGED <<tables, fanOut, comp, dropped>>
CreateNotificationFailsDrops(n) ==
  /\ queue[n] > 0
  /\ streak < MaxStreak
  /\ Inserted(n) \/ UNCHANGED box
  /\ streak' = streak + 1
  /\ pause' = NextPause(streak + 1)
  /\ queue' = [queue EXCEPT ![n] = @ - 1]
  /\ NoFault
  /\ UNCHANGED <<tables, fanOut, comp, dropped>>

\* The row is there, new or from an earlier delivery: ack, unless the ack is
\* lost and the broker delivers once more.
CreateNotification(n) ==
  /\ queue[n] > 0
  /\ Inserted(n)
  /\ streak' = 0 /\ pause' = 0
  /\ \/ queue' = [queue EXCEPT ![n] = @ - 1] /\ NoFault
     \/ UNCHANGED queue /\ Fault
  /\ UNCHANGED <<tables, fanOut, comp, dropped>>

\* MySQL answers with an error, with or without the row: pause, then nack.
CreateNotificationFails(n) ==
  /\ queue[n] > 0
  /\ streak < MaxStreak
  /\ Inserted(n) \/ UNCHANGED box
  /\ streak' = streak + 1
  /\ pause' = NextPause(streak + 1)
  /\ NoFault
  /\ UNCHANGED <<tables, fanOut, comp, queue, dropped>>

\* POST /notification/:id/read: rows never change hands, so that the SELECT
\* before the conditional UPDATE only chooses the error to answer.
MarkNotificationRead(n) ==
  /\ box[n] = "unread"
  /\ box' = [box EXCEPT ![n] = "read"]
  /\ NoFault
  /\ UNCHANGED <<tables, fanOut, comp, queue, consumerVars, dropped>>

-----------------------------------------------------------------------------
Deadline ==
  /\ DeadlinePasses
  /\ NoFault
  /\ UNCHANGED <<fanOut, comp, queue, consumerVars, box, dropped>>

\* The verdict nobody has told yet is gone; the broker keeps what has no ack.
Crash ==
  /\ Fault
  /\ fanOut' = "none"
  /\ dropped' = dropped \cup NoticesOf(fanOut)
  /\ streak' = 0 /\ pause' = 0
  /\ UNCHANGED <<tables, comp, queue, box>>

Consume(n) == CreateNotification(n) \/ CreateNotificationFails(n)

Next ==
  \/ \E u \in Users : \/ OrderCreated(u) \/ OrderPaid(u)
                      \/ OrderCancelled(u) \/ OrderClosed(u)
  \/ Judged
  \/ NotifyGroupBuyEvent
  \/ \E n \in Notices : CompensateNotification(n) \/ Consume(n) \/ MarkNotificationRead(n)
  \/ Deadline
  \/ Crash

Spec == Init /\ [][Next]_vars

-----------------------------------------------------------------------------
(* Properties.                                                             *)

\* What a notice says has happened: for good, because it may be read at any
\* time later.
Happened(event, u) ==
  CASE event = "pending_pay" -> orders[u] # "none"
    [] event = "succeeded" -> gbStatus \in {"succeeded", "full"}
    [] event = "failed" -> gbStatus = "failed"
    [] OTHER -> orders[u] = event

\* A notice that is about to be sent, under way or shown is true, however late
\* it arrives and whatever was sent twice: nobody is told that he paid an
\* order that was closed, and nobody hears of both verdicts.
NoticeTellsTruth ==
  /\ fanOut # "none" => Happened(fanOut, Publisher)
  /\ \A n \in Notices :
       n \in comp \/ queue[n] > 0 \/ box[n] # "none"
         => Happened(n[2], n[1])

\* The consumer sleeps before it sends a message back, and never longer than
\* the cap, however many INSERTs failed in a row.
PauseBounded == pause \in 0..BackoffMax /\ (pause = 0 <=> streak = 0)

\* A message leaves the broker only when its row is in the table, so that no
\* failure of MySQL and no crash loses it.
AckedIsStored ==
  [][\A n \in Notices : queue'[n] < queue[n] => box'[n] # "none"]_vars

\* The table is a mailbox: one row per event, and a redelivery never turns a
\* notification that was read into an unread one.
Box == INSTANCE Mailbox WITH Events <- Notices
ImplementsMailbox == Box!MailboxSpec

\* The broker delivers in queue order: no message is passed over for ever.
\* The scanners have tickers; MySQL is back after MaxStreak failures at most.
Fairness ==
  /\ WF_vars(NotifyGroupBuyEvent) /\ WF_vars(Judged) /\ WF_vars(Deadline)
  /\ \A n \in Notices : WF_vars(Consume(n)) /\ WF_vars(CompensateNotification(n))

FairSpec == Spec /\ Fairness

\* No message waits for ever, whatever fails, crashes or is sent twice: the
\* queue runs dry once the events are over.
QueueDrains == <>[](\A n \in Notices : queue[n] = 0)

\* The verdict is in p's notifications, or was lost on the way to p.
ToldOrDropped(p) ==
  \E n \in Notices : n[1] = p /\ n[2] \in VerdictEvents /\ (box[n] # "none" \/ n \in dropped)

\* A user who waits in a recruiting group buy learns how it ended, unless he
\* leaves it or a fault has dropped his own notice before it was sent or had a
\* task; the publisher learns it as well.  A notice lost to one recipient is
\* not lost to the others, and none is lost once it is in the queue or owed.
Recipients == {n[1] : n \in {m \in Notices : m[2] \in VerdictEvents}}
EveryMemberLearns ==
  /\ \A u \in Users \cap Recipients :
       gbStatus = "recruiting" /\ u \in roster ~> ToldOrDropped(u) \/ u \notin roster
  /\ Publisher \in Recipients => <>ToldOrDropped(Publisher)
=============================================================================
