-------------------------------- MODULE Debt --------------------------------
(***************************************************************************)
(* What compensation promises of one call that failed, without rows,       *)
(* reminders, counters or scanners: it is a debt that somebody works off.  *)
(* It is settled only when the work has been done, written off only after  *)
(* Patience attempts have failed, and what was settled or written off is   *)
(* never owed again.                                                       *)
(***************************************************************************)
EXTENDS Integers

CONSTANT Patience

VARIABLES
  debt,     \* none, owed, writtenOff or settled
  done,     \* the work has been done at least once
  failed    \* attempts that reported a failure

debtVars == <<debt, done, failed>>

DebtInit ==
  /\ debt = "none"
  /\ done = FALSE
  /\ failed = 0

Incur ==
  /\ debt = "none"
  /\ debt' = "owed"
  /\ UNCHANGED <<done, failed>>

\* An attempt does the work, whatever became of the debt meanwhile.
DoWork ==
  /\ debt # "none"
  /\ done' = TRUE
  /\ UNCHANGED <<debt, failed>>

\* An attempt reports a failure, with the work done or not.
FailToWork ==
  /\ debt # "none"
  /\ failed' = failed + 1
  /\ done' = TRUE \/ UNCHANGED done
  /\ UNCHANGED debt

Settle ==
  /\ debt \in {"owed", "writtenOff"}
  /\ done
  /\ debt' = "settled"
  /\ UNCHANGED <<done, failed>>

WriteOff ==
  /\ debt = "owed"
  /\ failed >= Patience
  /\ debt' = "writtenOff"
  /\ UNCHANGED <<done, failed>>

DebtNext == Incur \/ DoWork \/ FailToWork \/ Settle \/ WriteOff

DebtSpec == DebtInit /\ [][DebtNext]_debtVars
=============================================================================
