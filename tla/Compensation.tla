---------------------------- MODULE Compensation ----------------------------
(***************************************************************************)
(* The life of one compensation task: the best-effort call that failed     *)
(* asks for it (compensate in internal/logic/compensation.go), its row is  *)
(* the debt (compensation_tasks), its entry in the sorted set              *)
(* delay:compensation:retry is the reminder, and the scanners of the       *)
(* running instances replay it until it succeeds or is given up.           *)
(*                                                                         *)
(* One task is enough: nothing couples two of them.  A scanner takes one   *)
(* step per call to a store.  Scores are left out: an entry may turn out   *)
(* to be due whenever a scanner looks.                                     *)
(***************************************************************************)
EXTENDS Integers, FiniteSets

CONSTANTS Scanners,      \* instances of the process, each with its scanner
          CompMaxRetry,  \* failed attempts after which a task is given up
          MaxFailures,   \* bound on the attempts that fail
          MaxFaults      \* bound on the other calls that fail, and on crashes

ASSUME ScannersFinite == IsFiniteSet(Scanners)
ASSUME CompBounds == CompMaxRetry \in Nat \ {0} /\ MaxFailures \in Nat /\ MaxFaults \in Nat

VARIABLES
  taskType,    \* type of the task
  row,         \* status of its row; "none" before the INSERT, then "deleted"
  retryCount,  \* retry_count of the row
  scheduled,   \* the sorted set holds its entry
  done,        \* history: the action of the task has been carried out
  producer,    \* next call of compensate
  pc,          \* pc[s]: next call of scanner s for the task
  seen,        \* seen[s]: retry_count as FailCompensationTask of s read it
  failures,    \* history: attempts that failed
  faults       \* faults so far

taskVars == <<taskType, row, retryCount, scheduled, done>>
vars == <<taskVars, producer, pc, seen, failures, faults>>

\* "unknown" stands for a type a newer instance has written.
KnownTypes == {"hot_rank", "order_close", "notification"}
TaskTypes  == KnownTypes \cup {"unknown"}
Known      == taskType \in KnownTypes

RowStatus  == {"none", "pending", "failed", "deleted"}
ProducerPc == {"insert", "enqueue", "end"}
ScannerPc  == {"idle", "load", "run", "succeed", "failRead", "failUpdate",
               "requeue", "unschedule", "panicked"}

CompTypeOK ==
  /\ taskType \in TaskTypes
  /\ row \in RowStatus
  /\ retryCount \in 0..CompMaxRetry
  /\ scheduled \in BOOLEAN
  /\ done \in BOOLEAN
  /\ producer \in ProducerPc
  /\ pc \in [Scanners -> ScannerPc]
  /\ seen \in [Scanners -> 0..CompMaxRetry]
  /\ failures \in Nat
  /\ faults \in Nat

Init ==
  /\ taskType \in TaskTypes
  /\ row = "none"
  /\ retryCount = 0
  /\ scheduled = FALSE
  /\ done = FALSE
  /\ producer = "insert"
  /\ pc = [s \in Scanners |-> "idle"]
  /\ seen = [s \in Scanners |-> 0]
  /\ failures = 0
  /\ faults = 0

Fault   == faults < MaxFaults /\ faults' = faults + 1
NoFault == UNCHANGED faults

-----------------------------------------------------------------------------
(* compensate: INSERT the row, then ZADD its entry with score now.  A crash *)
(* before a call shows as the call that fails without effect.               *)

CreateCompensationTask ==
  /\ producer = "insert"
  /\ \/ row' = "pending" /\ producer' = "enqueue" /\ NoFault
     \/ row' \in {"none", "pending"} /\ producer' = "end" /\ Fault
  /\ UNCHANGED <<taskType, retryCount, scheduled, done, pc, seen, failures>>

EnqueueNewTask ==
  /\ producer = "enqueue"
  /\ producer' = "end"
  /\ \/ scheduled' = TRUE /\ NoFault
     \/ (scheduled' = TRUE \/ UNCHANGED scheduled) /\ Fault
  /\ UNCHANGED <<taskType, row, retryCount, done, pc, seen, failures>>

-----------------------------------------------------------------------------
(* A round of scanner s, as far as the task is concerned.                   *)

ScannerGoes(s, label) == pc' = [pc EXCEPT ![s] = label]

\* Fault model: the round takes the entries it reads out of the sorted set.
DequeueDueCompRetriesPops(s) ==
  /\ pc[s] = "idle"
  /\ scheduled
  /\ scheduled' = FALSE
  /\ ScannerGoes(s, "load")
  /\ UNCHANGED <<taskType, row, retryCount, done, producer, seen, failures, faults>>

\* The entries that are due are read, none is removed.
DequeueDueCompRetries(s) ==
  /\ pc[s] = "idle"
  /\ scheduled
  /\ ScannerGoes(s, "load")
  /\ UNCHANGED <<taskVars, producer, seen, failures, faults>>

\* Fault model: entries without a pending row are left alone.
GetDueCompensationTasksNoCleanup(s) ==
  /\ pc[s] = "load"
  /\ \/ ScannerGoes(s, IF row = "pending" THEN "run" ELSE "idle") /\ NoFault
     \/ ScannerGoes(s, "idle") /\ Fault
  /\ UNCHANGED <<taskVars, producer, seen, failures>>

\* An entry without a pending row is a residue, to be removed.
GetDueCompensationTasks(s) ==
  /\ pc[s] = "load"
  /\ \/ ScannerGoes(s, IF row = "pending" THEN "run" ELSE "unschedule") /\ NoFault
     \/ ScannerGoes(s, "idle") /\ Fault
  /\ UNCHANGED <<taskVars, producer, seen, failures>>

AttemptFails(s) ==
  /\ failures < MaxFailures
  /\ failures' = failures + 1
  /\ ScannerGoes(s, "failRead")

\* The action of the task, carried out or not when it reports an error.  No
\* action exists for an unknown type.
RunCompensationTask(s) ==
  /\ pc[s] = "run"
  /\ \/ Known /\ ScannerGoes(s, "succeed") /\ done' = TRUE /\ UNCHANGED failures
     \/ Known /\ AttemptFails(s) /\ (done' = TRUE \/ UNCHANGED done)
     \/ ~Known /\ AttemptFails(s) /\ UNCHANGED done
  /\ UNCHANGED <<taskType, row, retryCount, scheduled, producer, seen, faults>>

\* DELETE of the row, in whatever status it is; after an error the entry
\* stays for the next round.
SucceedCompensationTask(s) ==
  /\ pc[s] = "succeed"
  /\ \/ row' = "deleted" /\ ScannerGoes(s, "unschedule") /\ NoFault
     \/ row' \in {row, "deleted"} /\ ScannerGoes(s, "idle") /\ Fault
  /\ UNCHANGED <<taskType, retryCount, scheduled, done, producer, seen, failures>>

\* A task of unknown type leaves the schedule whatever FailCompensationTask
\* has answered.
AfterFail(s, label) == ScannerGoes(s, IF Known THEN label ELSE "unschedule")

\* FailCompensationTask, the SELECT.  A row that is gone answers retry 0,
\* for which BackoffDelay shifts by -1: a run-time panic.
ReadRetryCount(s) ==
  /\ pc[s] = "failRead"
  /\ \/ /\ row # "deleted" /\ seen' = [seen EXCEPT ![s] = retryCount]
        /\ ScannerGoes(s, "failUpdate") /\ NoFault
     \/ row = "deleted" /\ AfterFail(s, "panicked") /\ UNCHANGED seen /\ NoFault
     \/ AfterFail(s, "idle") /\ UNCHANGED seen /\ Fault
  /\ UNCHANGED <<taskVars, producer, failures>>

\* Fault models of the UPDATE: the status is not in its WHERE clause; one
\* attempt too few, or one too many, before the task is given up.
CountRetryAnyStatus(n) ==
  /\ retryCount' = n
  /\ row' = IF n >= CompMaxRetry THEN "failed" ELSE "pending"
CountRetryTooFew(n) ==
  IF row = "pending"
  THEN /\ retryCount' = n
       /\ row' = IF n >= CompMaxRetry - 1 THEN "failed" ELSE row
  ELSE UNCHANGED <<row, retryCount>>
CountRetryTooMany(n) ==
  IF row = "pending"
  THEN /\ retryCount' = n
       /\ row' = IF n > CompMaxRetry THEN "failed" ELSE row
  ELSE UNCHANGED <<row, retryCount>>

\* The UPDATE: WHERE status = 'pending' SET retry_count = n.
CountRetry(n) ==
  IF row = "pending"
  THEN /\ retryCount' = n
       /\ row' = IF n >= CompMaxRetry THEN "failed" ELSE row
  ELSE UNCHANGED <<row, retryCount>>

\* FailCompensationTask, the UPDATE; terminal needs a row that it changed.
FailCompensationTask(s) ==
  LET newRetry == seen[s] + 1
      terminal == newRetry >= CompMaxRetry /\ row = "pending"
  IN /\ pc[s] = "failUpdate"
     /\ \/ /\ CountRetry(newRetry) /\ NoFault
           /\ AfterFail(s, IF terminal THEN "unschedule" ELSE "requeue")
        \/ /\ CountRetry(newRetry) \/ UNCHANGED <<row, retryCount>>
           /\ AfterFail(s, "idle") /\ Fault
     /\ UNCHANGED <<taskType, scheduled, done, producer, seen, failures>>

\* ZADD with the score of the next attempt.
Requeue(s) ==
  /\ pc[s] = "requeue"
  /\ ScannerGoes(s, "idle")
  /\ \/ scheduled' = TRUE /\ NoFault
     \/ (scheduled' = TRUE \/ UNCHANGED scheduled) /\ Fault
  /\ UNCHANGED <<taskType, row, retryCount, done, producer, seen, failures>>

\* ZREM, best effort.
RemoveCompRetry(s) ==
  /\ pc[s] = "unschedule"
  /\ ScannerGoes(s, "idle")
  /\ \/ scheduled' = FALSE /\ NoFault
     \/ (scheduled' = FALSE \/ UNCHANGED scheduled) /\ Fault
  /\ UNCHANGED <<taskType, row, retryCount, done, producer, seen, failures>>

\* The instance dies, or is started again after a panic took it down.
Crash(s) ==
  /\ pc[s] \notin {"idle", "panicked"}
  /\ ScannerGoes(s, "idle")
  /\ Fault
  /\ UNCHANGED <<taskVars, producer, seen, failures>>

Restart(s) ==
  /\ pc[s] = "panicked"
  /\ ScannerGoes(s, "idle")
  /\ UNCHANGED <<taskVars, producer, seen, failures, faults>>

-----------------------------------------------------------------------------
Producer == CreateCompensationTask \/ EnqueueNewTask

Round(s) ==
  \/ DequeueDueCompRetries(s) \/ GetDueCompensationTasks(s)
  \/ RunCompensationTask(s) \/ SucceedCompensationTask(s)
  \/ ReadRetryCount(s) \/ FailCompensationTask(s)
  \/ Requeue(s) \/ RemoveCompRetry(s)

Next == Producer \/ \E s \in Scanners : Round(s) \/ Crash(s) \/ Restart(s)

Spec == Init /\ [][Next]_vars

\* The ticker of a scanner goes on, and so does a round that has started.
\* Nobody is bound to start an instance again after a panic.
FairSpec == Spec /\ WF_vars(Producer) /\ \A s \in Scanners : WF_vars(Round(s))

-----------------------------------------------------------------------------
\* A row is deleted only after its action has been carried out, however many
\* scanners work on it: no debt is written off by a scanner that failed.
DoneBeforeDeleted == row = "deleted" => done

\* The five attempts: a task is given up only after CompMaxRetry attempts
\* have really failed, although the counter is read and written in two
\* statements by scanners that do not know of each other.
NeverGivenUpEarly == row = "failed" => failures >= CompMaxRetry

\* A reminder is removed only when there is nothing left to remind of (or
\* nobody who could do it): a crash or an error after the read loses nothing.
EntryKept == [][scheduled /\ ~scheduled' => row # "pending" \/ ~Known]_vars

\* A task that was given up or is done is never taken up again by a scanner
\* that comes late with its own failure.
EndedTaskStaysEnded ==
  [][/\ row \in {"failed", "deleted"} => row' # "pending"
     /\ row = "deleted" => row' = "deleted"]_vars

\* A scheduled task is done or given up in the end.
ScheduledTaskEnds == Known /\ scheduled /\ row = "pending" ~> row # "pending"

\* Entries do not pile up: also the residue of a task that ended goes away.
EntriesAreCleared == scheduled ~> ~scheduled

-----------------------------------------------------------------------------
(* Refinement: the row is the debt, whatever the schedule and the scanners  *)
(* do.                                                                      *)

DebtOf(status) ==
  CASE status = "none"    -> "none"
    [] status = "pending" -> "owed"
    [] status = "failed"  -> "writtenOff"
    [] status = "deleted" -> "settled"

Owing == INSTANCE Debt WITH
  Patience <- CompMaxRetry, debt <- DebtOf(row), failed <- failures

\* Every step of compensate and of the scanners, faults and crashes included,
\* is a step of the debt or leaves it alone.
ImplementsDebt == Owing!DebtSpec

-----------------------------------------------------------------------------
(* What comments of the code say and the code does not do.                  *)

\* "Safe when several instances scan": no interleaving of two scanners takes
\* a process down.
ScannerNeverPanics == \A s \in Scanners : pc[s] # "panicked"
=============================================================================
