------------------------- MODULE CompensationProofs -------------------------
(***************************************************************************)
(* The invariants of a compensation task, for any number of scanners, any  *)
(* cap of attempts and any number of faults.  The counter is kept by two   *)
(* statements, a read and an UPDATE that repeats only the status: what     *)
(* makes it sound is that every scanner between its failure and its UPDATE *)
(* still has a failure that the row does not count (Uncounted).            *)
(***************************************************************************)
EXTENDS Compensation, FiniteSetTheorems, TLAPS

\* Scanners whose last attempt failed and is not in the row yet.
Uncounted == {s \in Scanners : pc[s] \in {"failRead", "failUpdate"}}

\* Where the row stands when some program is between two calls.
Ledger ==
  /\ producer = "insert" => row = "none"
  /\ producer = "enqueue" => row # "none"
  /\ scheduled => row # "none"
  /\ \A s \in Scanners :
       /\ pc[s] # "idle" => row # "none"
       /\ pc[s] = "succeed" => done
       /\ pc[s] = "unschedule" => row # "pending" \/ ~Known

\* The counter of a pending row is below the cap, also in the hand of a
\* scanner about to write it, and never ahead of the failures.
Counting ==
  /\ row \in {"none", "pending"} => retryCount < CompMaxRetry
  /\ row = "failed" => retryCount >= CompMaxRetry
  /\ retryCount + Cardinality(Uncounted) <= failures
  /\ \A s \in Scanners : pc[s] = "failUpdate" =>
       /\ row = "pending" => seen[s] < CompMaxRetry
       /\ seen[s] + Cardinality(Uncounted) <= failures

IInv == CompTypeOK /\ DoneBeforeDeleted /\ Ledger /\ Counting

-----------------------------------------------------------------------------
LEMMA UncountedIsFinite ==
  /\ IsFiniteSet(Uncounted)
  /\ Cardinality(Uncounted) \in Nat
BY ScannersFinite, FS_Subset, FS_CardinalityType DEF Uncounted

\* A step of scanner s moves s alone into or out of the uncounted ones.
LEMMA UncountedStep ==
  ASSUME pc \in [Scanners -> ScannerPc], NEW s \in Scanners, NEW label \in ScannerPc,
         ScannerGoes(s, label)
  PROVE  /\ pc' \in [Scanners -> ScannerPc]
         /\ pc'[s] = label
         /\ \A t \in Scanners \ {s} : pc'[t] = pc[t]
         /\ label \in {"failRead", "failUpdate"} => Uncounted' = Uncounted \cup {s}
         /\ label \notin {"failRead", "failUpdate"} => Uncounted' = Uncounted \ {s}
BY DEF ScannerGoes, Uncounted

\* How many of them there are after the step.
LEMMA UncountedCount ==
  ASSUME pc \in [Scanners -> ScannerPc], NEW s \in Scanners, NEW label \in ScannerPc,
         ScannerGoes(s, label)
  PROVE  /\ Cardinality(Uncounted') \in Nat
         /\ label \notin {"failRead", "failUpdate"} =>
              /\ Cardinality(Uncounted') <= Cardinality(Uncounted)
              /\ s \in Uncounted => Cardinality(Uncounted') = Cardinality(Uncounted) - 1
         /\ label \in {"failRead", "failUpdate"} =>
              Cardinality(Uncounted') =
                IF s \in Uncounted THEN Cardinality(Uncounted) ELSE Cardinality(Uncounted) + 1
<1>1. IsFiniteSet(Uncounted) /\ Cardinality(Uncounted) \in Nat
  BY UncountedIsFinite
<1>2. CASE label \in {"failRead", "failUpdate"}
  <2>1. Uncounted' = Uncounted \cup {s}
    BY <1>2, UncountedStep
  <2>2. Cardinality(Uncounted \cup {s}) =
          IF s \in Uncounted THEN Cardinality(Uncounted) ELSE Cardinality(Uncounted) + 1
    BY <1>1, FS_AddElement
  <2> QED
    BY <1>1, <1>2, <2>1, <2>2
<1>3. CASE label \notin {"failRead", "failUpdate"}
  <2>1. Uncounted' = Uncounted \ {s}
    BY <1>3, UncountedStep
  <2>2. /\ Cardinality(Uncounted \ {s}) \in Nat
        /\ Cardinality(Uncounted \ {s}) =
             IF s \in Uncounted THEN Cardinality(Uncounted) - 1 ELSE Cardinality(Uncounted)
    BY <1>1, FS_RemoveElement, FS_CardinalityType
  <2> QED
    BY <1>1, <1>3, <2>1, <2>2
<1> QED BY <1>2, <1>3

-----------------------------------------------------------------------------
LEMMA InitIInv == Init => IInv
<1> SUFFICES ASSUME Init PROVE IInv
  OBVIOUS
<1>1. CompTypeOK
  <2>1. scheduled \in BOOLEAN /\ done \in BOOLEAN
    BY DEF Init
  <2> QED
    BY <2>1, CompBounds DEF Init, CompTypeOK, RowStatus, ProducerPc, ScannerPc
<1>2. DoneBeforeDeleted /\ Ledger
  BY DEF Init, DoneBeforeDeleted, Ledger
<1>3. Uncounted = {}
  BY DEF Init, Uncounted
<1>4. Counting
  BY <1>3, FS_EmptySet, CompBounds DEF Init, Counting
<1> QED BY <1>1, <1>2, <1>4 DEF IInv

\* compensate touches the row before anybody knows of it, then the schedule.
LEMMA ProducerKeepsIInv ==
  ASSUME IInv, Producer
  PROVE  IInv'
<1>1. Uncounted' = Uncounted
  BY DEF Producer, CreateCompensationTask, EnqueueNewTask, Uncounted
<1>2. CASE CreateCompensationTask
  BY <1>1, <1>2 DEF CreateCompensationTask, IInv, CompTypeOK, DoneBeforeDeleted, Ledger, Counting,
         Fault, NoFault, Known, RowStatus, ProducerPc
<1>3. CASE EnqueueNewTask
  <2>1. /\ UNCHANGED <<taskType, row, retryCount, done, pc, seen, failures>>
        /\ row # "none"
        /\ producer' = "end"
    BY <1>3 DEF EnqueueNewTask, IInv, Ledger
  <2>2. (scheduled' = TRUE \/ scheduled' = scheduled) /\ scheduled \in BOOLEAN
    BY <1>3 DEF EnqueueNewTask, IInv, CompTypeOK
  <2>3. scheduled' \in BOOLEAN
    BY <2>2
  <2>4. faults' \in Nat
    BY <1>3 DEF EnqueueNewTask, IInv, CompTypeOK, Fault, NoFault
  <2>5. CompTypeOK'
    BY <2>1, <2>3, <2>4 DEF IInv, CompTypeOK, ProducerPc
  <2>6. DoneBeforeDeleted' /\ Ledger'
    BY <2>1 DEF IInv, DoneBeforeDeleted, Ledger, Known
  <2>7. Counting'
    BY <1>1, <2>1 DEF IInv, Counting
  <2> QED BY <2>5, <2>6, <2>7 DEF IInv
<1> QED BY <1>2, <1>3 DEF Producer

\* The steps of a round that neither fail an attempt nor count one.
LEMMA QuietStepKeepsIInv ==
  ASSUME IInv, NEW s \in Scanners,
         \/ DequeueDueCompRetries(s) \/ GetDueCompensationTasks(s)
         \/ SucceedCompensationTask(s) \/ Requeue(s) \/ RemoveCompRetry(s)
         \/ Crash(s) \/ Restart(s)
  PROVE  IInv'
<1> DEFINE Quiet == ScannerPc \ {"failRead", "failUpdate"}
<1> PICK label \in Quiet : ScannerGoes(s, label)
  BY DEF DequeueDueCompRetries, GetDueCompensationTasks, SucceedCompensationTask, Requeue,
         RemoveCompRetry, Crash, Restart, ScannerPc
<1>1. /\ pc' \in [Scanners -> ScannerPc]
      /\ pc'[s] = label
      /\ \A t \in Scanners \ {s} : pc'[t] = pc[t]
  BY UncountedStep DEF IInv, CompTypeOK
<1>2. /\ Cardinality(Uncounted) \in Nat
      /\ Cardinality(Uncounted') \in Nat
      /\ Cardinality(Uncounted') <= Cardinality(Uncounted)
  BY UncountedIsFinite, UncountedCount DEF IInv, CompTypeOK
<1>3. UNCHANGED <<taskType, retryCount, producer, seen, failures>>
  BY DEF DequeueDueCompRetries, GetDueCompensationTasks, SucceedCompensationTask, Requeue,
         RemoveCompRetry, Crash, Restart, taskVars
<1>4. /\ row' = row \/ (row' = "deleted" /\ pc[s] = "succeed")
      /\ done' = done
      /\ scheduled' \in BOOLEAN
      /\ scheduled' => scheduled \/ pc[s] = "requeue"
      /\ faults' \in Nat
  <2>1. (row' = row \/ (row' = "deleted" /\ pc[s] = "succeed")) /\ done' = done
    BY DEF DequeueDueCompRetries, GetDueCompensationTasks, SucceedCompensationTask, Requeue,
           RemoveCompRetry, Crash, Restart, taskVars
  <2>2. \/ scheduled' = scheduled
        \/ scheduled' = TRUE /\ pc[s] = "requeue"
        \/ scheduled' = FALSE
    BY DEF DequeueDueCompRetries, GetDueCompensationTasks, SucceedCompensationTask, Requeue,
           RemoveCompRetry, Crash, Restart, taskVars
  <2>3. faults' \in Nat
    BY DEF DequeueDueCompRetries, GetDueCompensationTasks, SucceedCompensationTask, Requeue,
           RemoveCompRetry, Crash, Restart, taskVars, IInv, CompTypeOK, Fault, NoFault
  <2>4. scheduled \in BOOLEAN
    BY DEF IInv, CompTypeOK
  <2>5. scheduled' \in BOOLEAN
    BY <2>2, <2>4
  <2>6. scheduled' => scheduled \/ pc[s] = "requeue"
    BY <2>2
  <2> QED
    BY <2>1, <2>3, <2>5, <2>6
<1>5. CompTypeOK'
  BY <1>1, <1>3, <1>4 DEF IInv, CompTypeOK, RowStatus
<1>6. DoneBeforeDeleted'
  BY <1>4 DEF IInv, DoneBeforeDeleted, Ledger
<1>7. /\ pc[s] # "idle" => row # "none"
      /\ label # "idle" => row' # "none"
      /\ label = "succeed" => done'
      /\ label = "unschedule" => row' # "pending" \/ ~Known'
  BY <1>1, <1>3 DEF DequeueDueCompRetries, GetDueCompensationTasks, SucceedCompensationTask,
         Requeue, RemoveCompRetry, Crash, Restart, taskVars, IInv, Ledger, ScannerGoes,
         CompTypeOK, Known
<1>8. Ledger'
  BY <1>1, <1>3, <1>4, <1>7 DEF IInv, Ledger, Known
<1>9. Counting'
  BY <1>1, <1>2, <1>3, <1>4 DEF IInv, Counting, CompTypeOK
<1> QED BY <1>5, <1>6, <1>8, <1>9 DEF IInv

\* An attempt succeeds, or fails and is not counted yet.
LEMMA AttemptKeepsIInv ==
  ASSUME IInv, NEW s \in Scanners, RunCompensationTask(s)
  PROVE  IInv'
<1>1. /\ UNCHANGED <<taskType, row, retryCount, scheduled, producer, seen, faults>>
      /\ pc[s] = "run"
      /\ row # "none"
      /\ pc \in [Scanners -> ScannerPc]
  BY DEF RunCompensationTask, IInv, Ledger, CompTypeOK
<1>2. Cardinality(Uncounted) \in Nat /\ s \notin Uncounted
  BY <1>1, UncountedIsFinite DEF Uncounted
<1>3. CASE ScannerGoes(s, "succeed") /\ done' = TRUE /\ UNCHANGED failures
  <2>1. "succeed" \in ScannerPc
    BY DEF ScannerPc
  <2>2. /\ pc' \in [Scanners -> ScannerPc]
        /\ pc'[s] = "succeed"
        /\ \A t \in Scanners \ {s} : pc'[t] = pc[t]
        /\ Cardinality(Uncounted') \in Nat
        /\ Cardinality(Uncounted') <= Cardinality(Uncounted)
    BY <1>1, <1>3, <2>1, UncountedStep, UncountedCount
  <2>3. done' \in BOOLEAN /\ done'
    BY <1>3
  <2>4. CompTypeOK'
    BY <1>1, <1>3, <2>2, <2>3 DEF IInv, CompTypeOK
  <2>5. DoneBeforeDeleted' /\ Ledger'
    BY <1>1, <2>2, <2>3 DEF IInv, DoneBeforeDeleted, Ledger, Known
  <2>6. Counting'
    BY <1>1, <1>2, <1>3, <2>2 DEF IInv, Counting, CompTypeOK
  <2> QED BY <2>4, <2>5, <2>6 DEF IInv
<1>4. CASE AttemptFails(s) /\ (done' = TRUE \/ UNCHANGED done)
  <2>1. "failRead" \in ScannerPc
    BY DEF ScannerPc
  <2>2. ScannerGoes(s, "failRead") /\ failures' = failures + 1
    BY <1>4 DEF AttemptFails
  <2>3. /\ pc' \in [Scanners -> ScannerPc]
        /\ pc'[s] = "failRead"
        /\ \A t \in Scanners \ {s} : pc'[t] = pc[t]
        /\ Cardinality(Uncounted') = Cardinality(Uncounted) + 1
    BY <1>1, <1>2, <2>1, <2>2, UncountedStep, UncountedCount
  <2>4. (done' = TRUE \/ done' = done) /\ done \in BOOLEAN
    BY <1>4 DEF IInv, CompTypeOK
  <2>5. done' \in BOOLEAN
    BY <2>4
  <2>6. done => done'
    BY <2>4
  <2>7. CompTypeOK'
    BY <1>1, <2>2, <2>3, <2>5 DEF IInv, CompTypeOK
  <2>8. DoneBeforeDeleted' /\ Ledger'
    BY <1>1, <2>3, <2>6 DEF IInv, DoneBeforeDeleted, Ledger, Known
  <2>9. Counting'
    BY <1>1, <1>2, <2>2, <2>3 DEF IInv, Counting, CompTypeOK
  <2> QED BY <2>7, <2>8, <2>9 DEF IInv
<1> QED BY <1>3, <1>4 DEF RunCompensationTask

\* FailCompensationTask reads the counter: what it reads is not ahead of the
\* failures that are counted, of which its own is none.
LEMMA ReadKeepsIInv ==
  ASSUME IInv, NEW s \in Scanners, ReadRetryCount(s)
  PROVE  IInv'
<1>1. /\ UNCHANGED <<taskType, row, retryCount, scheduled, done, producer, failures>>
      /\ pc[s] = "failRead"
      /\ row # "none"
      /\ pc \in [Scanners -> ScannerPc]
  BY DEF ReadRetryCount, taskVars, IInv, Ledger, CompTypeOK
<1>2. Cardinality(Uncounted) \in Nat /\ s \in Uncounted
  BY <1>1, UncountedIsFinite DEF Uncounted
<1>3. faults' \in Nat
  BY DEF ReadRetryCount, Fault, NoFault, IInv, CompTypeOK
<1>4. CASE row # "deleted" /\ seen' = [seen EXCEPT ![s] = retryCount]
           /\ ScannerGoes(s, "failUpdate")
  <2>1. "failUpdate" \in ScannerPc
    BY DEF ScannerPc
  <2>2. /\ pc' \in [Scanners -> ScannerPc]
        /\ pc'[s] = "failUpdate"
        /\ \A t \in Scanners \ {s} : pc'[t] = pc[t]
        /\ Cardinality(Uncounted') = Cardinality(Uncounted)
    BY <1>1, <1>2, <1>4, <2>1, UncountedStep, UncountedCount
  <2>3. CompTypeOK'
    BY <1>1, <1>3, <1>4, <2>2 DEF IInv, CompTypeOK
  <2>4. DoneBeforeDeleted' /\ Ledger'
    BY <1>1, <2>2 DEF IInv, DoneBeforeDeleted, Ledger, Known
  <2>5. /\ seen'[s] = retryCount
        /\ \A t \in Scanners \ {s} : seen'[t] = seen[t]
    BY <1>4 DEF IInv, CompTypeOK
  <2>6. Counting'
    BY <1>1, <2>2, <2>5 DEF IInv, Counting
  <2> QED BY <2>3, <2>4, <2>6 DEF IInv
<1>5. CASE /\ UNCHANGED seen
           /\ \/ ~Known /\ ScannerGoes(s, "unschedule")
              \/ Known /\ (ScannerGoes(s, "panicked") \/ ScannerGoes(s, "idle"))
  <2> PICK label \in {"unschedule", "panicked", "idle"} :
             ScannerGoes(s, label) /\ (label = "unschedule" => ~Known)
    BY <1>5
  <2>1. label \in ScannerPc /\ label \notin {"failRead", "failUpdate"}
    BY DEF ScannerPc
  <2>2. /\ pc' \in [Scanners -> ScannerPc]
        /\ pc'[s] = label
        /\ \A t \in Scanners \ {s} : pc'[t] = pc[t]
        /\ Cardinality(Uncounted') \in Nat
        /\ Cardinality(Uncounted') <= Cardinality(Uncounted)
    BY <1>1, <2>1, UncountedStep, UncountedCount
  <2>3. CompTypeOK'
    BY <1>1, <1>3, <1>5, <2>2 DEF IInv, CompTypeOK
  <2>4. DoneBeforeDeleted' /\ Ledger'
    BY <1>1, <2>2 DEF IInv, DoneBeforeDeleted, Ledger, Known
  <2>5. Counting'
    BY <1>1, <1>2, <1>5, <2>1, <2>2 DEF IInv, Counting, CompTypeOK
  <2> QED BY <2>3, <2>4, <2>5 DEF IInv
<1> QED BY <1>4, <1>5 DEF ReadRetryCount, AfterFail

\* The UPDATE: a pending row takes the number read before plus one, which its
\* own failure pays for; any other row is left alone.
LEMMA UpdateKeepsIInv ==
  ASSUME IInv, NEW s \in Scanners, FailCompensationTask(s)
  PROVE  IInv'
<1>1. /\ UNCHANGED <<taskType, scheduled, done, producer, seen, failures>>
      /\ pc[s] = "failUpdate"
      /\ row # "none"
      /\ pc \in [Scanners -> ScannerPc]
  BY DEF FailCompensationTask, IInv, Ledger, CompTypeOK
<1>2. Cardinality(Uncounted) \in Nat /\ s \in Uncounted
  BY <1>1, UncountedIsFinite DEF Uncounted
<1>3. faults' \in Nat
  BY DEF FailCompensationTask, Fault, NoFault, IInv, CompTypeOK
<1>4. \/ UNCHANGED <<row, retryCount>>
      \/ /\ row = "pending"
         /\ retryCount' = seen[s] + 1
         /\ row' = IF seen[s] + 1 >= CompMaxRetry THEN "failed" ELSE "pending"
  BY DEF FailCompensationTask, CountRetry
<1> PICK label \in {"unschedule", "requeue", "idle"} :
           ScannerGoes(s, label) /\ (label = "unschedule" => row' # "pending" \/ ~Known)
  BY DEF FailCompensationTask, CountRetry, AfterFail
<1>5. label \in ScannerPc /\ label \notin {"failRead", "failUpdate"}
  BY DEF ScannerPc
<1>6. /\ pc' \in [Scanners -> ScannerPc]
      /\ pc'[s] = label
      /\ \A t \in Scanners \ {s} : pc'[t] = pc[t]
      /\ Cardinality(Uncounted') = Cardinality(Uncounted) - 1
      /\ Cardinality(Uncounted') \in Nat
  BY <1>1, <1>2, <1>5, UncountedStep, UncountedCount
<1>7. CompTypeOK'
  BY <1>1, <1>3, <1>4, <1>6, CompBounds DEF IInv, CompTypeOK, Counting, RowStatus
<1>8. DoneBeforeDeleted' /\ Ledger'
  BY <1>1, <1>4, <1>6 DEF IInv, DoneBeforeDeleted, Ledger, Known
<1>9. Counting'
  BY <1>1, <1>2, <1>4, <1>5, <1>6, CompBounds DEF IInv, Counting, CompTypeOK
<1> QED BY <1>7, <1>8, <1>9 DEF IInv

LEMMA NextKeepsIInv == IInv /\ [Next]_vars => IInv'
<1> SUFFICES ASSUME IInv, [Next]_vars PROVE IInv'
  OBVIOUS
<1>1. CASE Producer
  BY <1>1, ProducerKeepsIInv
<1>2. ASSUME NEW s \in Scanners, Round(s) \/ Crash(s) \/ Restart(s) PROVE IInv'
  BY <1>2, QuietStepKeepsIInv, AttemptKeepsIInv, ReadKeepsIInv, UpdateKeepsIInv DEF Round
<1>3. CASE UNCHANGED vars
  <2>1. Uncounted' = Uncounted
    BY <1>3 DEF vars, Uncounted
  <2> QED
    BY <1>3, <2>1 DEF vars, taskVars, IInv, CompTypeOK, DoneBeforeDeleted, Ledger, Counting, Known
<1> QED BY <1>1, <1>2, <1>3 DEF Next

-----------------------------------------------------------------------------
\* The inductive invariant holds in every reachable state.
THEOREM CompInvariance == Spec => []IInv
<1> QED BY InitIInv, NextKeepsIInv, PTL DEF Spec

\* Type correctness: the counter of attempts never passes the cap.
THEOREM CompTypeCorrect == Spec => []CompTypeOK
<1>1. IInv => CompTypeOK
  BY DEF IInv
<1> QED BY <1>1, CompInvariance, PTL

\* SucceedCompensationTask deletes the row of a task that was carried out.
THEOREM TasksAreDoneBeforeDeleted == Spec => []DoneBeforeDeleted
<1>1. IInv => DoneBeforeDeleted
  BY DEF IInv
<1> QED BY <1>1, CompInvariance, PTL

\* FailCompensationTask gives a task up only after CompMaxRetry failures.
THEOREM TasksAreNotGivenUpEarly == Spec => []NeverGivenUpEarly
<1>1. IInv => NeverGivenUpEarly
  <2> SUFFICES ASSUME IInv PROVE NeverGivenUpEarly
    OBVIOUS
  <2> QED
    BY UncountedIsFinite, CompBounds DEF IInv, Counting, NeverGivenUpEarly, CompTypeOK
<1> QED BY <1>1, CompInvariance, PTL

\* removeCompRetryQuietly and the cleanup of residues only remove the entries
\* of tasks that ended, or that nobody can carry out.
THEOREM EntriesAreKept == Spec => EntryKept
<1>1. IInv /\ [Next]_vars => [scheduled /\ ~scheduled' => row # "pending" \/ ~Known]_vars
  <2> SUFFICES ASSUME IInv, Next, scheduled, ~scheduled' PROVE row # "pending" \/ ~Known
    BY DEF vars, taskVars
  <2>1. PICK s \in Scanners : RemoveCompRetry(s)
    BY DEF Next, Producer, CreateCompensationTask, EnqueueNewTask, Round, Crash, Restart,
           DequeueDueCompRetries, GetDueCompensationTasks, RunCompensationTask,
           SucceedCompensationTask, ReadRetryCount, FailCompensationTask, Requeue, taskVars
  <2> QED
    BY <2>1 DEF RemoveCompRetry, IInv, Ledger
<1> QED BY <1>1, CompInvariance, PTL DEF Spec, EntryKept

\* A scanner that comes late with its own failure revives nothing.
THEOREM EndedTasksStayEnded == Spec => EndedTaskStaysEnded
<1> DEFINE Ends == /\ row \in {"failed", "deleted"} => row' # "pending"
                   /\ row = "deleted" => row' = "deleted"
<1>1. IInv /\ [Next]_vars => [Ends]_vars
  <2> SUFFICES ASSUME IInv, Next PROVE Ends
    OBVIOUS
  <2>1. CASE Producer
    BY <2>1 DEF Producer, CreateCompensationTask, EnqueueNewTask, IInv, Ledger
  <2>2. ASSUME NEW s \in Scanners, Round(s) \/ Crash(s) \/ Restart(s) PROVE Ends
    BY <2>2 DEF Round, Crash, Restart, DequeueDueCompRetries, GetDueCompensationTasks,
                RunCompensationTask, SucceedCompensationTask, ReadRetryCount,
                FailCompensationTask, CountRetry, Requeue, RemoveCompRetry, taskVars
  <2> QED BY <2>1, <2>2 DEF Next
<1> QED BY <1>1, CompInvariance, PTL DEF Spec, EndedTaskStaysEnded

-----------------------------------------------------------------------------
(* The row is a debt.                                                       *)

\* compensate incurs it with the INSERT.
LEMMA ProducerIncurs ==
  ASSUME IInv, Producer
  PROVE  Owing!Incur \/ UNCHANGED <<row, done, failures>>
<1>1. UNCHANGED <<done, failures>>
  BY DEF Producer, CreateCompensationTask, EnqueueNewTask
<1>2. row' = row \/ (row = "none" /\ row' = "pending")
  BY DEF Producer, CreateCompensationTask, EnqueueNewTask, IInv, Ledger
<1> QED BY <1>1, <1>2 DEF Owing!Incur, DebtOf

\* A scanner only ever works on a debt that is there.
LEMMA AttemptWorks ==
  ASSUME IInv, NEW s \in Scanners, RunCompensationTask(s)
  PROVE  Owing!DoWork \/ Owing!FailToWork
<1>1. row \in {"pending", "failed", "deleted"} /\ row' = row
  BY DEF RunCompensationTask, IInv, Ledger, CompTypeOK, RowStatus
<1>2. DebtOf(row) # "none" /\ DebtOf(row)' = DebtOf(row)
  BY <1>1 DEF DebtOf
<1>3. CASE done' = TRUE /\ UNCHANGED failures
  BY <1>2, <1>3 DEF Owing!DoWork
<1>4. CASE failures' = failures + 1 /\ (done' = TRUE \/ UNCHANGED done)
  BY <1>2, <1>4 DEF Owing!FailToWork
<1> QED BY <1>3, <1>4 DEF RunCompensationTask, AttemptFails

\* The row is deleted by a scanner that has done the work.
LEMMA DeletionSettles ==
  ASSUME IInv, NEW s \in Scanners, SucceedCompensationTask(s)
  PROVE  Owing!Settle \/ UNCHANGED <<row, done, failures>>
<1>1. /\ done /\ UNCHANGED <<done, failures>>
      /\ row \in {"pending", "failed", "deleted"}
      /\ row' = row \/ row' = "deleted"
  BY DEF SucceedCompensationTask, IInv, Ledger, CompTypeOK, RowStatus
<1> QED BY <1>1 DEF Owing!Settle, DebtOf

\* The UPDATE that gives up counts no attempt that has not failed, its own
\* included: what it read is behind the failures.
LEMMA CountingWritesOff ==
  ASSUME IInv, NEW s \in Scanners, FailCompensationTask(s)
  PROVE  Owing!WriteOff \/ UNCHANGED <<row, done, failures>>
<1>1. UNCHANGED <<done, failures>> /\ pc[s] = "failUpdate"
  BY DEF FailCompensationTask
<1>2. CASE row' # row
  <2>1. row = "pending" /\ row' = "failed" /\ seen[s] + 1 >= CompMaxRetry
    BY <1>2 DEF FailCompensationTask, CountRetry
  <2>2. Cardinality(Uncounted) \in Nat /\ Cardinality(Uncounted) > 0
    BY <1>1, UncountedIsFinite, FS_EmptySet DEF Uncounted
  <2>3. failures >= CompMaxRetry
    BY <1>1, <2>1, <2>2, CompBounds DEF IInv, Counting, CompTypeOK
  <2> QED BY <1>1, <2>1, <2>3 DEF Owing!WriteOff, DebtOf
<1> QED BY <1>1, <1>2

\* The reads, the schedule, the crashes and the panics do not touch the debt.
LEMMA OthersLeaveDebt ==
  ASSUME NEW s \in Scanners,
         \/ DequeueDueCompRetries(s) \/ GetDueCompensationTasks(s) \/ ReadRetryCount(s)
         \/ Requeue(s) \/ RemoveCompRetry(s) \/ Crash(s) \/ Restart(s)
  PROVE  UNCHANGED <<row, done, failures>>
BY DEF DequeueDueCompRetries, GetDueCompensationTasks, ReadRetryCount, Requeue, RemoveCompRetry,
       Crash, Restart, taskVars

\* One task and all its scanners implement one debt: settled only when done,
\* written off only after CompMaxRetry failures, never owed again.
THEOREM CompensationImplementsDebt == Spec => ImplementsDebt
<1>1. Init => Owing!DebtInit
  BY DEF Init, Owing!DebtInit, DebtOf
<1>2. IInv /\ [Next]_vars => [Owing!DebtNext]_(Owing!debtVars)
  <2> SUFFICES ASSUME IInv, [Next]_vars
               PROVE  Owing!DebtNext \/ UNCHANGED <<row, done, failures>>
    BY DEF Owing!debtVars
  <2>1. CASE Producer
    BY <2>1, ProducerIncurs DEF Owing!DebtNext
  <2>2. ASSUME NEW s \in Scanners, Round(s) \/ Crash(s) \/ Restart(s)
        PROVE  Owing!DebtNext \/ UNCHANGED <<row, done, failures>>
    BY <2>2, AttemptWorks, DeletionSettles, CountingWritesOff, OthersLeaveDebt
    DEF Round, Owing!DebtNext
  <2>3. CASE UNCHANGED vars
    BY <2>3 DEF vars, taskVars
  <2> QED BY <2>1, <2>2, <2>3 DEF Next
<1> QED BY <1>1, <1>2, CompInvariance, PTL DEF Spec, ImplementsDebt, Owing!DebtSpec
=============================================================================
