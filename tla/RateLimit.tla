----------------------------- MODULE RateLimit -----------------------------
(***************************************************************************)
(* The token buckets of internal/middleware/ratelimit/ratelimit.go: one    *)
(* for each key, filled up lazily when the key is seen again.  Allow runs  *)
(* under the mutex and reads the clock inside it, so that a call is one    *)
(* step and time does not go back.                                         *)
(*                                                                         *)
(* A tick is the resolution of the clock.  Tokens are counted in parts: a  *)
(* token has Unit parts and a tick adds Rate of them, which makes a rate   *)
(* of 0.1 a second an integer.  The rounding of float64 is left out.       *)
(***************************************************************************)
EXTENDS Integers

CONSTANTS Keys,       \* "u:<user id>" or "ip:<address>"
          Capacity,   \* parts in a full bucket
          Rate,       \* parts added in a tick
          Unit,       \* parts in a token
          Horizon     \* bound on the time

ASSUME LimiterAssumption ==
  /\ Capacity \in Nat /\ Rate \in Nat /\ Unit \in Nat \ {0}
  /\ Unit <= Capacity
  /\ Horizon \in Nat

VARIABLES
  now,        \* the clock
  buckets,    \* buckets[k], NoBucket until k is seen
  spent,      \* history: parts k has been admitted for
  spentAt     \* history: spentAt[k][t], spent[k] when tick t began

limiterVars == <<now, buckets, spent, spentAt>>

NoBucket == [tokens |-> -1, lastTime |-> 0]
Bucket   == [tokens : 0 .. Capacity, lastTime : 0 .. Horizon]

LimiterTypeOK ==
  /\ now \in 0 .. Horizon
  /\ buckets \in [Keys -> Bucket \cup {NoBucket}]
  /\ spent \in [Keys -> Nat]
  /\ spentAt \in [Keys -> [0 .. Horizon -> Nat]]

LimiterInit ==
  /\ now = 0
  /\ buckets = [k \in Keys |-> NoBucket]
  /\ spent = [k \in Keys |-> 0]
  /\ spentAt = [k \in Keys |-> [t \in 0 .. Horizon |-> 0]]

\* What is in the bucket of k now: a new one is full.
Tokens(k) ==
  IF buckets[k] = NoBucket THEN Capacity
  ELSE LET grown == buckets[k].tokens + (now - buckets[k].lastTime) * Rate
       IN  IF grown > Capacity THEN Capacity ELSE grown

Emptied(k, n) == buckets' = [buckets EXCEPT ![k] = [tokens |-> Tokens(k) - n, lastTime |-> now]]

\* Fault model: the first request of a key is let through for free.
AdmitFirstFree(k) ==
  /\ Tokens(k) >= Unit
  /\ Emptied(k, IF buckets[k] = NoBucket THEN 0 ELSE Unit)
  /\ spent' = [spent EXCEPT ![k] = @ + Unit]
  /\ UNCHANGED <<now, spentAt>>

Admit(k) ==
  /\ Tokens(k) >= Unit
  /\ Emptied(k, Unit)
  /\ spent' = [spent EXCEPT ![k] = @ + Unit]
  /\ UNCHANGED <<now, spentAt>>

\* Fault model: a refusal keeps what has grown and forgets to note the time.
RefuseForgetsTime(k) ==
  /\ Tokens(k) < Unit
  /\ buckets' = [buckets EXCEPT ![k].tokens = Tokens(k)]
  /\ UNCHANGED <<now, spent, spentAt>>

\* A refusal too notes the time and keeps what has grown.
Refuse(k) ==
  /\ Tokens(k) < Unit
  /\ Emptied(k, 0)
  /\ UNCHANGED <<now, spent, spentAt>>

Tick ==
  /\ now < Horizon
  /\ now' = now + 1
  /\ spentAt' = [k \in Keys |-> [spentAt[k] EXCEPT ![now + 1] = spent[k]]]
  /\ UNCHANGED <<buckets, spent>>

\* The buckets are in memory; the clock of a new process starts anew with them.
Restart ==
  /\ now' = 0
  /\ buckets' = [k \in Keys |-> NoBucket]
  /\ spent' = [k \in Keys |-> 0]
  /\ spentAt' = [k \in Keys |-> [t \in 0 .. Horizon |-> 0]]

LimiterNext == Tick \/ Restart \/ \E k \in Keys : Admit(k) \/ Refuse(k)

LimiterSpec == LimiterInit /\ [][LimiterNext]_limiterVars

-----------------------------------------------------------------------------
(* Properties.                                                              *)

\* What k may still spend, and what the window from tick t on leaves it of one
\* full bucket and the growth since.
Room(k, t) == Capacity + Rate * (now - t) - (spent[k] - spentAt[k][t])

\* Filling up lazily is as good as a clock that fills up every bucket at every
\* tick: no window of time admits more than one full bucket and what has grown
\* during it, and whoever is refused has a window without room for one more.
WindowBound ==
  \A k \in Keys :
    /\ \A t \in 0 .. now : Room(k, t) >= Tokens(k)
    /\ \E t \in 0 .. now : Room(k, t) = Tokens(k)
    /\ Tokens(k) >= 0

\* Filling up at the next call is the same as a clock that fills up every
\* bucket at every tick: each call is admitted, or leaves the bucket alone, as
\* it would be there.
Ideal == INSTANCE IdealBucket WITH level <- [k \in Keys |-> Tokens(k)]
ImplementsIdealBucket == Ideal!BucketSpec
=============================================================================
