# Campus community: a verification project

The repository is the backend (Go) and the web client (Vue) of a campus group-buy service. A user
publishes a *group buy* with `min_members`, `max_members` and a deadline; other users *grab* a slot
of it; a grab becomes an order through a message queue; the order is paid, cancelled, or closed
after thirty minutes; at the deadline the group buy succeeds or fails. State lives in MySQL, Redis
and RabbitMQ, and nearly every handler touches two of them without a common transaction. This
directory holds TLA+ models of that core, the TLC configurations that check them on small instances
and the TLAPS proofs that carry the main results to every instance. `PROJECT.json` maps every
definition to the lines it models.

Paths below are relative to `src/backend/internal/` unless they start with `src/`.

## 1. Inventory

| Component | State | Operations | Depends on |
|---|---|---|---|
| MySQL tables (`dao/order.go`, `dao/group_buy.go`, `model/`) | `orders` (unique per user and good), `group_buy_members` (the sign-in book), `group_buys` (status, current_members) | `CreateOrderTx`, `UpdateOrderPaid`, `CancelOrderTx`, `CloseExpiredOrder`, `JudgeExpiredGroupBuys` | - |
| Redis slot pool (`dao/redis/grab.go`, `lock.go`, `group_buy.go`, `pending.go`, `delay.go`) | stock, members set, grab lock (3 s), pending marks, close tasks | the grab script, lock/unlock, `ReleaseGroupBuySlot`, mark and task commands | - |
| Grab handler (`logic/grab.go`) | one goroutine per request | check, lock, script, publish, unlock | Redis, RabbitMQ, reads MySQL |
| Order consumer (`logic/order.go`, `src/backend/cmd/main.go`, `mq/`) | the message in hand | create, clear mark, enqueue close, ack/nack with backoff | MySQL, Redis |
| Pay and cancel (`logic/order.go`) | one goroutine per request | conditional UPDATE, then release slot, drop close task | MySQL, Redis |
| Delay scanner (`logic/delay.go`) | the due tasks it has read | close orders, judge deadlines, every 10 s | MySQL, Redis |
| Pending scanner (`logic/pending.go`) | the overdue marks it has read | republish, renew the mark, every 10 s | Redis, RabbitMQ |
| Compensation (`logic/compensation.go`, `dao/compensation.go`, `dao/redis/compensation.go`) | `compensation_tasks`, retry set | write a task, replay it, count failures, give up after five | MySQL, Redis, RabbitMQ |
| Hot rank (`dao/redis/hot.go`) | a score per group buy | ZADD 0, ZINCRBY, recount | Redis, MySQL |
| Notifications (`logic/notification.go`, `dao/notification.go`) | `notifications` (unique per user, category, ref) | fan out, insert, mark read | RabbitMQ, MySQL |
| Publish (`logic/group_buy.go`) | row and stock of a new group buy | insert, init stock, roll back, rank | MySQL, Redis |
| Rate limiting (`middleware/ratelimit/`) | a token bucket per key | `Allow` | - |
| Users and avatars (`logic/user.go`, `logic/avatar.go`, `dao/user.go`) | `users` (unique names), one picture file per user and format | sign up, update profile and address, upload a picture | MySQL, the file system, the limiter |
| JWT, passwords, controllers, configuration, web client | none | checks, hashing, formatting, I/O | - |

How they interact: the grab handler reserves in Redis and only then sends `{good_id, user_id}`; the
consumer makes the reservation an order in MySQL; cancel and close take the order back in MySQL and
then the slot in Redis; three tickers repair what was lost (a message, a close, a failed side
effect). No step spans two stores, so every crash, lost answer or overlap between two calls matters.

What makes each component correct, and why it is hard:

* **slot pool**: stock and holders add up to `max_members` whatever overlaps; hard because the lock
  expires under its holder and because release and grab are in different handlers;
* **reservation to order**: no reservation is forgotten although message, answer, ack and process
  may be lost; Redis and MySQL must refuse the same duplicates for good;
* **order verdict**: payment, cancel and close race for the same row; each has follow-ups in Redis
  that must happen for the winner only;
* **group-buy verdict**: orders arrive before, during and after the deadline verdict;
* **repair loops**: they read, act later on what they read, and may be run by several instances;
* **compensation**: a failure counter that is read and written in two statements by scanners that do
  not know of each other;
* **notifications**: what is told must be true whenever it is read, although messages are lost, late
  and repeated, and although the tables go on changing between the commit and the message;
* **publishing**: the row is visible before its stock, its stock before the members are cleared, and
  all of it before the rank; users may grab in each gap and the rollback may come after them;
* **hot rank**: increments, a reset to 0 and a recount that counts and writes in two calls;
* **limiter**: tokens grow lazily, at the next call; the bound is on every window, not on the bucket;
* **account**: one name, one row and one file per format, shared by requests that overlap; files are
  created, filled, removed and named in the row by separate calls.

## 2. Modules

| Module | What it is |
|---|---|
| `GroupBuy` | the vocabulary: users, limits, statuses |
| `GroupBuyTables` | MySQL: one operator per transaction or conditional UPDATE, the WHERE clause is the guard |
| `SlotCache` | Redis: one operator per command or script |
| `GrabFlow` | the handlers, consumer and scanners over both, and the queue; one step per call to a store |
| `SlotPool` | what the order path promises, with no lock, cache, queue or table |
| `GroupBuyTablesProofs`, `GrabFlowProofs`, `GrabFlowRefinement`, `SlotPoolProofs` | the theorems about them |
| `MCGrabFlow` | model values, symmetry and bounds for TLC |
| `Compensation`, `CompensationProofs`, `MCCompensation` | one compensation task, its producer and its scanners |
| `Debt` | what compensation promises, with no row, reminder, counter or scanner |
| `Notify`, `NotifyProofs`, `MCNotify` | announcements over the transactions of `GroupBuyTables`, the queue, the consumer with its backoff, the notifications table |
| `Mailbox` | what the notification path promises: a row per event, unread, then read |
| `Publish`, `PublishProofs`, `MCPublish` | the birth of a group buy over `SlotCache`, with early grabs, the consumer, the pending scanner and the hot rank |
| `RateLimit` | the token buckets, filled up when they are next used |
| `IdealBucket` | what the limiter promises: buckets that a clock fills up, used or not |
| `Account`, `AccountProofs`, `MCAccount` | sign-up behind `RateLimit`, updates and picture uploads of one account |

`GrabFlow` and `Notify` both compose `GroupBuyTables` with something else, and `GrabFlow` and
`Publish` both use `SlotCache`: what is proved of the tables alone (`TablesSpec`) holds for the order
path and for the notifications, because both are proved to implement it.

**One group buy, one task, one account.** Every key, row and lock is addressed by `good_id`,
`task_id` or `user_id`, and nothing couples two of them, so that the interleavings of one are all
there is to see.

**State.** `orders[u]` is the status of the one order `uk_user_good` allows; `roster` the sign-in
book; `currentMembers` and `gbStatus` the group buy's row; `deadlinePassed` stands for
`deadline < NOW()`. `stock`, `members`, `pending`, `closeTasks`, `lock` are the Redis keys; the
scores of the sorted sets are left out, an entry may turn out to be due whenever a scanner looks,
which covers every clock. `queue[u]` counts copies of u's message, so that messages may be
reordered and duplicated. `closeComp` are the compensation tasks to enqueue a close that have their row,
`lateReplays` those whose row is gone while another instance, which read it before, has yet to replay it. `reqPc`, `conPc`, `settle`, `scanBatch`, `renewing` say which call comes
next. `counted` and `released` are history variables.

**Steps.** `GrabEntry`, `GrabLock`, `GrabLua`, `GrabPublish`, `GrabUnlock` are the calls of
`GrabGroupBuy`; `Deliver`, `ConsumeCreate`, `ConsumeClearMark`, `ConsumeDuplicate`,
`ConsumeEnqueueClose` those of the consumer with its ack; `PayOrder`, `CancelOrder` and `ScanClose`
commit and leave their follow-ups to `SettleRelease` and `SettleUnschedule`; `ScanFindsDue` reads
the tasks that are due; `ScanJudge` is the deadline verdict; `Republish` and `RenewMark` are the
pending scanner; `CompensateOrderClose` and `CompensateOrderCloseLate` are the compensation scanners as
the order path sees them: reading and replaying are one step while the row is there; an instance that
has read it when another deletes it replays late, which may put back the reminder of an order that
has been decided since.

**Faults.** A call may fail; it may take effect and lose its answer; a message or an ack may be
lost; the process may die between any two calls and start again (`Crash`), which loses what the
handlers had in hand and gives the unacked message back. `MaxFaults` bounds how many of these a
behaviour has, and the proofs hold for every bound.

**Simplifications**, each a superset of the code or without effect on the state modelled:
* the follow-ups of pay, cancel and close are the same two calls and share `settle`;
* the scanners may have several entries in hand at once, as two instances of the process do;
* reading a mark and publishing for it are one step: a mark removed between them looks like one
  removed between publishing and renewing;
* finding an order decided and dropping its task are one step, because decided orders stay decided;
* the deadline verdict is one step: the UPDATE repeats the condition of the SELECT before it;
* the checks "is the publisher" and "has an address" refuse a request and change nothing;
* the consumer's "good does not exist" is in `Publish`, where a rollback may delete the row after a
  grab; nothing deletes a user;
* a lost ack closes the channel in the code and ends the consumer loop until a restart; the model
  lets the consumer go on, which covers the restarted process.

**Compensation** follows one task from `compensate` (INSERT, ZADD) through the scanners of several
instances: read the due entry, look for a pending row (an entry without one is a residue to remove),
carry out the action, then DELETE and ZREM, or `FailCompensationTask` (SELECT, UPDATE) and ZADD
again. The action is "carried out or not" (`done`): an order-close ZADD, a notification or a recount
of the hot rank. A type no code knows goes through `terminalFailQuietly`. The panic of
`BackoffDelay(0)` is a state of its own (`panicked`), left by a restart only.

**Notify.** A handler that commits a transaction announces it (`Announce`): `OrderCreated`,
`OrderPaid`, `OrderCancelled`, `OrderClosed` do so in the step of the commit, `Judged` and the
`OrderCreated` that reaches `min_members` leave the verdict in `fanOut`, for `NotifyGroupBuyEvent` to
read the sign-in book later, when it may have changed. `PublishNotification` is
`notifyBestEffort` for a batch: all sent, or, with one fault, each of them sent or not and handed to
compensation or not (`PublishFails`: a crash in the loop, a message lost in silence, a channel that is
broken for some or for all). `CompensateNotification` is the task, which a second instance may send as
well. `dropped` is history: what a fault has left neither sent nor owed. A message that waits to be
sent is like one that waits in the queue, since the events it tells of are for good; only a crash tells
them apart, and that is one of the faults. `CreateNotification` and `CreateNotificationFails` are one
delivery: the handler makes one call, so that a message in hand is one the broker still has. `streak`
and `pause` are the backoff, computed in two's complement with `DurationSpan` values.
`MarkNotificationRead` is the one write of the HTTP side.

**Publish.** `CreateRow`, `InitStock`, `InitMembers`, `Rollback`, `EnterRank` are the calls of
`CreateGroupBuy`, each of which may fail with or without effect. `GrabEntry` and `GrabLua` are the
grab (the checks read the row, the script comes later; a missing stock key counts as 0, as DECR takes
it); `ReadGood`, `CreateOrder`, `ClearMark`, `ZIncrHotRank` the consumer, with the message of a group
buy that is gone; `RecountReads` and `RecountWrites` the COUNT and the ZADD of a compensation task;
`Republish`, `RenewMark` the pending scanner. Orders stay as they are created. In the code
the COUNT leaves out cancelled and closed orders (`dao/order.go:187-192`) while no ZINCRBY takes their
points back, so that a recount may also lower the score; the upper bound of `RankOvercountsOne` does not
depend on it, and how far the score is above the live orders is not stated. `given`, `taken`, `wiped`, `early` and
`opened` are history variables.

**Account.** A request arrives (`ArriveSignUp`, `ArriveUpdate`, `ArriveUpload`) and makes its calls:
`CheckName`, `CreateUser`; `CheckUser`, `UpdateUser`; `CreateFile`, `WriteAvatar`,
`CleanStaleAvatars`, `SaveAvatar`. A value in a column or in a file is the request that wrote it.
`path[e]` is a directory entry, `content[i]` the file itself, `handle[r]` what a request has open, so
that a file removed under its writer is as on a disk. A picture that two requests fill at once may be
either or torn. The removes of `cleanStaleAvatars` are one step; login is the guard that there is an
account. `before[r]`, the requests done when r came, is history. The limiter's clock and buckets start
anew at a crash; the rounding of float64 is left out.

## 3. Runs

| Run | Question | Bounds |
|---|---|---|
| `grab_contention` | can a slot be lost from the books, sold twice or oversold before the deadline? | 3 users, 2 slots, 1 request at a time, 2 handlers busy, no fault |
| `grab_faults` | what survives one crash, failed call, lost answer, message or ack, anywhere, through the deadline? how many orders can it leave that nobody will close? is every step a step of `SlotPool`? | 2 users, 2 requests, 2 slots, `min_members` 1, 1 fault, 2 handlers busy |
| `grab_liveness` | does every reservation become an order, every scheduled close happen, every lock get free? | 1 user, 1 request, 2 faults |
| `compensation` | can two scanners lose, revive, write off or give up a task too early? is every step a step of `Debt`? does it end? | 2 scanners, cap 5, 7 failed attempts, 2 faults |
| `notify` | is every notice true, once, read once, and told? does the queue drain, is the pause bounded? | 2 users of whom 1 is followed with the publisher, 5 notices, backoff 3 capped at 4 in 16 values, 3 failures in a row, 1 fault |
| `publish` | what do grabs during publishing and its rollback do to slots, answers, marks and rank? | 2 users, 2 slots, 1 fault, 1 copy added by the scanner |
| `account` | are sign-ups limited as by an `IdealBucket` and told the truth, updates kept, pictures mended? | 4 requests, one address, bucket of 2 requests, 2 ticks, 2 formats, 1 fault, symmetric requests |
| `orphan_order`, `late_order`, `outbox_heals`, `succeeded_open`, `scanner_panic` | see section 6 | the smallest that show it |

*Why the bounds are enough.* Contention needs one user more than slots, so that the last slot is
refused, released and taken again. The grab lock serialises requests, and two of them are only needed
when it expires or its holder dies, which `grab_faults` has. Two busy handlers are the pairs that
race (pay and close, cancel and close, republish and consume, judge and create); the third party of
a race always sits in a store or in the queue, which the bound does not count. One fault is enough
for every single-failure claim of the code; liveness is checked with two. `MaxCopies` makes the
pending scanner wait while a copy of the message is queued; duplicates still arise from lost acks,
crashes and from a copy in the consumer's hand. Seven failures let two scanners fail past the cap of
five, which is the code's own. The notices of `notify` share nothing but the queue, which keeps no
order, so that five of them, a payment and the two verdicts for a member and for the publisher, show what
all would (the theorems are about any set); 3, 4
and 16 let the third doubling overflow as the thirty-fifth does in 64 bits. In `publish` two users
are the two a gap can tell apart, one in and one out; the second fault only matters for the rollback
that fails, which the properties name. Four requests let one upload follow two that overlap, after
the sign-up. The proofs need none of these bounds.

*Deadlock* is not checked: after the deadline, with every order decided and every entry gone,
nothing is left to do.

*Fairness* (`GrabFlow!Fairness`). Weak fairness for a handler that has started (a goroutine is not
suspended for ever), for each scanner's entry, one condition for reading and acting on it (a ticker fires
every 10 s, and a round that has read an entry goes on with it), for time
(locks expire, deadlines pass). Strong fairness for delivering each user's message: RabbitMQ hands
out a queue in order, so a message is not passed over for ever. None for requests, payments,
cancels, faults or crashes: nobody has to come. Since faults are bounded, liveness says "once the
stores answer again". In `Compensation`, weak fairness for the producer and for each scanner's round,
none for `Restart`: nothing in the code starts a process again. In `Notify`, weak fairness for the
delivery of each notice (the queue is in order and there is one consumer), each compensation task (the
scanner has a ticker), the fan-out, the verdict scanner and the deadline. In `Publish`, weak fairness for the consumer once it has a message and, for
each user, for the pending scanner; strong fairness for taking the user's message, which is not
enabled while the consumer has another in hand. `Account` states safety only.

*Mutants.* Every property of a passing run has a mutant in `PROJECT.json`: a definition of the model
replaced by what a plausible bug would make of it (operators marked "Fault model").
They are not part of any specification.

### The properties

* `SlotsConserved`: stock plus holders is `max_members`, stock is never negative, and only a slot
  whose order was cancelled or closed has been put back. A handler that releases for a transaction
  that lost its race breaks it.
* `NoOversell`: never more live orders than slots.
* `GuardsAgree`: whoever has an order, decided or not, is still in the members set. It is why
  `ReleaseGroupBuySlot` does not SREM: a user let in again would take a slot the unique key then
  refuses to make an order.
* `NoLostGrab`: a user the script let in has an order or a pending mark, at every instant.
* `RosterMatchesOrders`, `CountMatchesRoster`, `RecruitingBelowMin`: sign-in book, counter and status
  agree with the orders; the counter is only right until the group buy fails (see `late_order`).
* `OrderVerdictFinal`, `GroupBuyVerdictFinal`: verdicts never change, in any race.
* `OnlyOwnerUnlocks`: a handler whose lock ran out does not release its successor's.
* `CloseTaskKept`: the reminder of an order goes away only after the order was decided; the scanner reads
  it without deleting it and may die. `src/README.md:53-54` says otherwise, see section 6.
* `OrphansCostFaults`: an unpaid order that has no reminder, and nobody who is about to enqueue one,
  costs a fault of its own; no interleaving makes one, and no crash or failed call makes two.
* `ImplementsSlotPool`: every step of the code is a step of the abstract pool or leaves it alone.
* `EveryGrabOrdered`, `ScheduledCloseHappens`, `LockIsFreed`: what must eventually happen.
* `ImplementsDebt`, `NeverGivenUpEarly`, `EntryKept`, `ScheduledTaskEnds`, `EntriesAreCleared`: a
  compensation task is settled only when its work is done, not given up before five real failures, not
  revived, not forgotten, and it and its entry come to an end. `DoneBeforeDeleted` and
  `EndedTaskStaysEnded` follow from `ImplementsDebt` and are proved, not run.
* `NoticeTellsTruth`: what is to be sent, under way or shown has happened for good; nobody reads that
  he paid an order that was closed, nobody hears of both verdicts.
* `AckedIsStored`, `QueueDrains`, `ImplementsMailbox`: no message leaves the broker before its row is
  there, none stays for ever, and a repeated one neither doubles a row nor makes a read one unread.
* `PauseBounded`: the backoff is positive and capped, when the shift overflows too.
* `EveryMemberLearns`: who waits in a recruiting group buy learns how it ended, unless he leaves it (his
  sign-in row goes with his order) or a fault has dropped his own notice, which is neither in the queue nor
  owed by compensation then.
* `SlotsConservedFromBirth`, `OneSlotEach`: grabs between the calls of `CreateGroupBuy` do not oversell;
  the gap between SET stock and DEL members lets a user take a second slot, never a third.
* `AnswerTellsTruth`: the publisher's answer fits the row and the stock, up to a second fault.
* `RankOvercountsOne`, `RankAtRest`: recounts, redeliveries and lost answers count one order twice at
  most; without faults the rank misses only the orders that were faster than ZADD 0.
* `MarkEnds`: every mark goes away for good, that of a group buy that was rolled back too, unless the
  renewal of the pending scanner comes after the consumer's removal again and again, the race that
  `outbox_heals` shows: no other cause sends a message for ever.
* `WindowBound`: every window admits at most a full bucket and its growth, and the bucket is never
  stricter than that.
* `ImplementsIdealBucket`: nobody can tell the limiter, which fills a bucket up when it is next called
  (`lastTime` is written by the calls it refuses, too), from one whose clock fills every bucket.
* `SignUpTruthful`: of the sign-ups that race, the one told "ok" has the name, and one told "exist"
  really lost it to another.
* `AnsweredUpdateStands`: a column that was said to be saved is overwritten only by a request that
  submits it and overlapped or came later.
* `AvatarHeals`: an upload that runs after all others leaves its picture in its file.

## 4. Refinement

`SlotPool` has one variable, `place[u]`: free, reserved, ordered, paid, leaving, left. `GrabFlow`
computes it from both stores (`Place`): a member without an order is reserved, a decided order whose
slot is not back is leaving. The step that takes a slot is the grab script, the step that confirms it
is the order transaction, the step that gives it back is the INCR; everything else stutters. The
guard `Cardinality(Holders) < MaxMembers` of `Reserve` is what Redis decides with a counter. The fair
version of the pool (`EveryGrabOrdered`) says that reserved users get their orders.

`Mailbox` has the notifications table alone: a row appears unread and is read, once each. `Notify`
maps its table to it as it is; publishing, compensation, deliveries of what is already there and
crashes stutter.

`Debt` has the debt, whether the work was ever done and how many attempts failed. `Compensation` maps
the row to it (`DebtOf`: no row, pending, failed and deleted are no debt, owed, written off and
settled), its history `failures` to `failed`, and `CompMaxRetry` to `Patience`. Reminders, reads, the
two statements of the counter and restarts stutter. A row that was given up may still be deleted by an
instance that succeeds late, which is why what is written off may be settled.

`IdealBucket` has a level per key and no timestamp. `RateLimit` maps `Tokens(k)`, what the bucket would
hold if it were asked now, to it: a tick fills all levels although it writes no bucket, a refused call
writes its bucket and leaves the level alone.

`TablesSpec` is the specification of MySQL alone: any transaction at any time. `GrabFlow` and `Notify`
implement it as they are, without a mapping.

## 5. Proofs

Everything in this section is checked by `tlapm` for every set of users, requests and scanners, all
limits, and any number of faults. Assumptions: `UsersFinite`, `LimitsAssumption` (positive limits,
`min_members <= max_members`, which `CreateGroupBuy` and the request binding enforce),
`NoUserAssumption` and `NoRequestAssumption` (the placeholders are not users or requests),
`BoundsAssumption`, `ScannersFinite`, `CompBounds`, `NotifyBounds`, `PublishBounds` (the bounds are
numbers), `PublisherAssumption` (the publisher does not join, `logic/grab.go:60`), `NoticesAssumption`,
`BackoffAssumption` and `LimiterAssumption` (a positive base below the cap, a bucket that holds a
token), `RequestsAssumption`, `PatchesAssumption` (a PATCH carries profile columns only).

* `GroupBuyTablesProofs!TablesStepKeepsInv`: the agreement of orders, book, counter and status is
  inductive for the transactions alone, whoever issues them. The counter needs the book (its
  cardinality) and the book needs the orders; the status needs the counter. The equality of counter and
  book ends with the failure of the group buy; `LateOrdersOnlyUndercount` says what is left of it then:
  the counter falls behind the book and never runs ahead, a failed group buy shows fewer than
  `min_members`, and "full" is written only once `max_members` orders have counted.
  `GrabFlowProofs!OrderPathRunsTheTables` and `NotifyProofs!NotifyRunsTheTables` carry it to both
  compositions, and with `NeverOversold` it gives `CounterWithinLimits`: the number shown to users never
  exceeds `max_members`.
* `GrabFlowProofs!Invariance`: `IInv` is inductive. Its parts, and why each is needed:
  `TypeOK` and the table invariant; `HandlersServe` (a handler between two calls has a user), without
  which a step of the consumer says nothing; `OnlyMembersServed` (whoever has a message, a mark or an
  order is in the members set), from which `GuardsAgree` follows and without which an order could
  appear for a user who never took a slot; `MarkOutlivesGrab` (the consumer is at a mark-clearing
  call only when the order exists), which makes `NoLostGrab` inductive; `SettleInv` (a handler about
  to release is the first to do so and its order has lost the slot), which makes `SlotsConserved`
  inductive. From it: `TypeCorrect`, `SlotsAlwaysConserved`, `NeverOversold`, `GrabNeverLost`,
  `GuardsAlwaysAgree`, `TablesAlwaysAgree`, and the action properties `OrderVerdictsAreFinal`,
  `GroupBuyVerdictsAreFinal`, `CloseTasksAreKept`, `OnlyTheOwnerUnlocks`.
* `NeverOversold` is arithmetic on `SlotsConserved`: live orders belong to members that were not
  released, whose number is `max_members - stock`.
* `GrabFlowRefinement!OrderPathImplementsPool`: initial states map to initial states and every step
  to a pool step or a stutter. `SlotPoolProofs!PoolIsNeverOversold` is the promise itself and
  `HoldersNeverExceedLimit` the same of the code: whoever holds a slot in any form is counted.
* `GrabFlowProofs!OrphansAlwaysCostFaults` is a bound that grows with the run. `FewOrphans` is the effect
  of one step: the orphans do not grow if it has no fault and grow by one user at most if it has. There
  is a lemma for the requests, the consumer, the orders' steps and the rest (`RequestOrphans` to
  `OtherOrphans`), and `OrphansKept` adds them up. A reminder leaves `closeTasks` when the order has been
  decided, which is what `IInv` is used for, and `closeComp` when it is in `closeTasks`, or by a fault.
* `CompensationProofs!CompInvariance`: the delicate part is the counter. A scanner reads
  `retry_count` and later writes what it read plus one. `Uncounted` is the set of scanners between
  their failure and their UPDATE; the invariant says that the row's number plus the size of
  `Uncounted`, and likewise every number in a scanner's hand, is at most the number of failures. Each
  UPDATE spends the writer's own failure, so the number written is still covered
  (`TasksAreNotGivenUpEarly`). `Ledger` says where the row stands at each call and gives
  `TasksAreDoneBeforeDeleted`, `EntriesAreKept` and `EndedTasksStayEnded`.
  `CompensationImplementsDebt` puts both together, one lemma per step of `Debt`: the producer incurs the
  debt (`ProducerIncurs`), an attempt works or fails (`AttemptWorks`), a DELETE settles it, by `Ledger`
  (`DeletionSettles`), and the UPDATE to failed writes it off, by the bound on the counter
  (`CountingWritesOff`).

* `NotifyProofs!NotifyInvariance`: `NoticeTellsTruth` is inductive with the types and `TablesInv`. The
  lemma behind it is `HappenedStays`: no transaction takes an event back; a verdict in `fanOut` is then
  still true when the book is read, and a copy in the queue when it is delivered. `NextPauseBounded`
  gives `PausesAreBounded` for every width; `PublishEffect` (publishing takes no copy away) gives
  `AckedMeansStored`; `NotifyImplementsMailbox` is the refinement. `NoticesNeverContradict` is what a user
  gets of it: among all copies sent, queued, in hand and stored there are never both verdicts, nor two
  ends of one order.
* `PublishProofs!PublishInvariance`: `BirthInv` follows `CreateGroupBuy` from call to call and makes
  `AnswerTellsTruth` inductive; `TakenInv` says that `members` and `wiped` together remember every slot,
  from which `OneSlotEach`; `Owed` is the point of the order the consumer is working on: `RankInv` bounds
  the score plus `Owed`, which is why a recount that has counted that order overcounts by one and the
  next does not add to it; `FaultlessRank` is the same as an equation, but for early orders.
* `AccountProofs!LimiterIsExact`: for each key, `Room(k, t)` is what the window from t on has left. A
  call takes the same from the bucket and from every window, a tick adds the same to all and opens a
  full one, and the bucket is always the smallest room. `LimiterSpec` is about the buckets alone;
  `StepOfTheLimiter` shows that the account's steps are steps of it, which gives `SignUpsAreLimited`.
  `LimiterImplementsIdealBucket` is the refinement of section 4, whose arithmetic is that filling up for
  n ticks and then for one is filling up for n + 1, capped at each end (`SignUpsFaceIdealBucket` for the
  account).
* `AccountProofs!AccountInvariance`: `PcFitsKind` and `BeforeIsDone` make `SignUpTruthful` and
  `AnsweredUpdateStands` inductive (what writes now was not done when anybody else came); `FilesInv` adds
  that an upload nobody else overlaps finds its own file at its path, before and after it is filled.
  `NameIsForGood`: the name is given once, and at most one sign-up is told that it has it.

Only model-checked: the liveness properties (`EveryGrabOrdered`, `ScheduledCloseHappens`,
`LockIsFreed`, `ScheduledTaskEnds`, `EntriesAreCleared`, `QueueDrains`, `EveryMemberLearns`,
`MarkEnds`), since fairness and `ENABLED` are out of the
prover's reach, and the counterexamples of section 6.

## 6. Where the code and its comments disagree

| Run | The comment | What the model shows |
|---|---|---|
| `orphan_order` | `model/order.go:16`, `logic/order.go:149`: a pending order is closed after 30 minutes, a full-table scan is the last resort | a crash between the commit of the order and the ZADD of its close task leaves an order nothing will ever close; there is no such scan. `OrphansAlwaysCostFaults` bounds the damage: one order per crash or failed call, none without |
| `late_order` | `dao/order.go:53`: the final number is not polluted by latecomers | an order created after the failure is not counted in, but its cancel or close counts one out; by `LateOrdersOnlyUndercount` the number may become too small and never too large |
| `outbox_heals` | `logic/order.go:124-126`: a mark left behind heals itself | the pending scanner's ZADD puts back a mark the consumer has just removed, and the same may happen round after round |
| `succeeded_open` | `dao/order.go:47`: succeeded is not closed, people join up to the maximum | the grab handler turns everybody away once the status is succeeded |
| `grab_faults` (passes) | `src/README.md:53-54`: a due close task is popped atomically by ZREM, which is what instances compete by | a due task is read by ZRANGEBYSCORE and stays (`dao/redis/delay.go:66`); ZREM comes after the order was decided, so that several instances may take up the same task and the conditional UPDATE keeps them apart. `CloseTaskKept` holds of the code; its mutant `ScanFindsDueAndDeletes` is the design of the README and loses the close when the process dies |
| `scanner_panic` | `logic/compensation.go:124`: safe when several instances scan | the row is deleted by one instance while the attempt of the other fails; `BackoffDelay(0)` shifts by -1 and panics |

Other things seen while reading, not checked by a run: with several instances the retry counter may
lose failures (`dao/compensation.go:67` says a single UPDATE prevents it, but the number it writes was
read before), so the cap of five holds from below only; the 16 s pause of `model/compensation.go:53`
is never used, because the fifth failure is terminal; the comment at `logic/order.go:80` counts on a
cleared mark not coming back, which the renewal race of `outbox_heals` undoes for the message of a group
buy that is gone as well; a task of unknown type is unscheduled while its
row stays pending (`logic/compensation.go:204` says terminal); `logic/notification.go:54` counts members
with cancelled orders among the recipients, but the cancel deletes their sign-in row.

In `publish`, within what its properties allow: `dao/group_buy.go:34` calls the rollback safe because
there are no records below the row, but a user may have grabbed it and the consumer, which read the row
before the DELETE, creates the order all the same; `dao/redis/hot.go:22` sees no risk of overwriting in
ZADD 0, but an early order's point is lost (`early` in `RankAtRest`); the members set is cleared after the
stock is set, so that a user may grab twice. In `account`: `logic/avatar.go:34` needs no compensation
for an upload that fails, but one that fails to decode removes the file the row may name, and overlapping
uploads remove each other's; the row then names a missing file until the next upload (`AvatarHeals`).

## 7. What is not modelled, and the plan

Not modelled: login, tokens and password hashes (stateless checks of what others wrote), controllers
and routing (no state), configuration, logging, connection set-up and topology (I/O), the web client
(one more HTTP client), list and detail queries (read-only), the load-test tools. What the code takes
from them is assumed: identifiers are unique, a user has an address. The limiter of grabs turns
requests away, which `GrabFlow` allows anyway; the pause of the grab consumer only delays, which the
model allows anyway. That the map of buckets only grows, and that a consumer whose channel closes waits
for a restart, is visible in the code and has no property.

Left to do: `closeComp` and `lateReplays` are what `Compensation` provides for a task whose work is a
ZADD, as a joint refinement of many tasks (`Debt` is the half of it that concerns one); cancels in
`Publish`, for a rank that counts live orders; several consumers.
