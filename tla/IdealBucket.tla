----------------------------- MODULE IdealBucket -----------------------------
(***************************************************************************)
(* What the limiter promises, without timestamps: a bucket for each key    *)
(* that a clock fills up at every tick, whoever calls and whoever does     *)
(* not, and from which a request is admitted for Unit parts.               *)
(***************************************************************************)
EXTENDS Integers

CONSTANTS Keys, Capacity, Rate, Unit

VARIABLES
  now,      \* the clock
  level,    \* level[k]: parts in the bucket of k
  spent     \* spent[k]: parts k has been admitted for

bucketVars == <<now, level, spent>>

BucketInit ==
  /\ now = 0
  /\ level = [k \in Keys |-> Capacity]
  /\ spent = [k \in Keys |-> 0]

Fuller(parts) == IF parts + Rate > Capacity THEN Capacity ELSE parts + Rate

Drip ==
  /\ now' = now + 1
  /\ level' = [k \in Keys |-> Fuller(level[k])]
  /\ UNCHANGED spent

Take(k) ==
  /\ level[k] >= Unit
  /\ level' = [level EXCEPT ![k] = @ - Unit]
  /\ spent' = [spent EXCEPT ![k] = @ + Unit]
  /\ UNCHANGED now

\* The process of the limiter starts anew.
StartAnew ==
  /\ now' = 0
  /\ level' = [k \in Keys |-> Capacity]
  /\ spent' = [k \in Keys |-> 0]

BucketNext == Drip \/ StartAnew \/ \E k \in Keys : Take(k)

BucketSpec == BucketInit /\ [][BucketNext]_bucketVars
=============================================================================
