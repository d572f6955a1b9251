----------------------------- MODULE MCGrabFlow -----------------------------
(* Model values, symmetry and the bound on concurrency for the runs of      *)
(* GrabFlow.                                                                *)
EXTENDS GrabFlow, TLC

CONSTANTS u1, u2, u3, r1, r2, MaxBusy

OneUser     == {u1}
TwoUsers    == {u1, u2}
ThreeUsers  == {u1, u2, u3}
OneRequest  == {r1}
TwoRequests == {r1, r2}

Symmetry3 == Permutations(ThreeUsers) \cup Permutations(TwoRequests)
Symmetry2 == Permutations(TwoUsers) \cup Permutations(TwoRequests)

\* Handlers that are between two of their calls.
Busy == Cardinality({r \in Requests : reqPc[r] # "idle"})
        + Cardinality({u \in Users : settle[u] # "none"})
        + Cardinality(scanBatch) + Cardinality(renewing) + Cardinality(lateReplays)
        + (IF conPc = "idle" THEN 0 ELSE 1)

\* Bound of the safety runs: no more than MaxBusy handlers at the same time.
FewBusy == Busy <= MaxBusy

\* The same, before the deadline.
FewBusyInTime == FewBusy /\ ~deadlinePassed
=============================================================================
