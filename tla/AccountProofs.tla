--------------------------- MODULE AccountProofs ---------------------------
(***************************************************************************)
(* What Account promises, for every set of requests and keys, all limits   *)
(* and any number of faults.                                               *)
(***************************************************************************)
EXTENDS Account, TLAPS

-----------------------------------------------------------------------------
(* The limiter.                                                             *)

\* A key that was never seen has spent nothing.
NewIsUnspent ==
  \A k \in Keys : buckets[k] = NoBucket =>
    spent[k] = 0 /\ \A t \in 0 .. Horizon : spentAt[k][t] = 0

\* Buckets were looked at in the past.
SeenBefore == \A k \in Keys : buckets[k] # NoBucket => buckets[k].lastTime <= now

LimiterInv == LimiterTypeOK /\ NewIsUnspent /\ SeenBefore /\ WindowBound

\* The two bounds of WindowBound for one key.
Fits(k)  == \A t \in 0 .. now : Room(k, t) >= Tokens(k)
Tight(k) == \E t \in 0 .. now : Room(k, t) = Tokens(k)

\* What the refinement shows of the buckets.
level == [k \in Keys |-> Tokens(k)]

\* A bucket has between nothing and its capacity.
LEMMA TokensType ==
  ASSUME LimiterTypeOK, SeenBefore, NEW k \in Keys
  PROVE  Tokens(k) \in 0 .. Capacity
<1> DEFINE d == now - buckets[k].lastTime
           g == d * Rate
<1>1. CASE buckets[k] = NoBucket
  BY <1>1, LimiterAssumption DEF Tokens
<1>2. CASE buckets[k] # NoBucket
  <2>1. /\ buckets[k] \in Bucket
        /\ buckets[k].tokens \in 0 .. Capacity /\ buckets[k].lastTime \in 0 .. Horizon
    BY <1>2 DEF LimiterTypeOK, Bucket
  <2>2. d \in Nat
    BY <1>2, <2>1, LimiterAssumption DEF SeenBefore, LimiterTypeOK
  <2>3. g \in Nat
    BY <2>2, LimiterAssumption
  <2>4. Tokens(k) = IF buckets[k].tokens + g > Capacity THEN Capacity ELSE buckets[k].tokens + g
    BY <1>2 DEF Tokens
  <2> QED
    BY <2>1, <2>3, <2>4, LimiterAssumption
<1> QED
  BY <1>1, <1>2

\* Taking n parts out of a bucket leaves the others as they are.
LEMMA EmptiedTokens ==
  ASSUME LimiterTypeOK, SeenBefore, NEW k \in Keys, NEW n \in 0 .. Tokens(k),
         Emptied(k, n), now' = now
  PROVE  /\ buckets' \in [Keys -> Bucket \cup {NoBucket}]
         /\ SeenBefore'
         /\ buckets'[k] # NoBucket
         /\ Tokens(k)' = Tokens(k) - n
         /\ \A j \in Keys \ {k} : buckets'[j] = buckets[j] /\ Tokens(j)' = Tokens(j)
<1> DEFINE b == [tokens |-> Tokens(k) - n, lastTime |-> now]
<1>1. Tokens(k) \in 0 .. Capacity /\ n \in 0 .. Tokens(k) /\ now \in 0 .. Horizon
  BY TokensType DEF LimiterTypeOK
<1>2. Tokens(k) - n \in 0 .. Capacity
  BY <1>1, LimiterAssumption
<1>3. b \in Bucket
  BY <1>1, <1>2 DEF Bucket
<1>4. b # NoBucket
  <2>1. b.tokens # NoBucket.tokens
    BY <1>2 DEF NoBucket
  <2> QED
    BY <2>1
<1>5. buckets' = [buckets EXCEPT ![k] = b]
  BY DEF Emptied
<1>6. buckets'[k] = b /\ \A j \in Keys \ {k} : buckets'[j] = buckets[j]
  BY <1>5 DEF LimiterTypeOK
<1>7. buckets' \in [Keys -> Bucket \cup {NoBucket}]
  BY <1>3, <1>5 DEF LimiterTypeOK
<1>8. SeenBefore'
  <2> SUFFICES ASSUME NEW j \in Keys, buckets'[j] # NoBucket
               PROVE  buckets'[j].lastTime <= now'
    BY DEF SeenBefore
  <2>1. CASE j = k
    BY <2>1, <1>1, <1>6
  <2>2. CASE j # k
    BY <2>2, <1>6 DEF SeenBefore
  <2> QED
    BY <2>1, <2>2
<1>9. Tokens(k)' = Tokens(k) - n
  <2>1. (now' - buckets'[k].lastTime) * Rate = 0
    <3>1. now' - buckets'[k].lastTime = 0
      BY <1>1, <1>6
    <3> QED
      BY <3>1, LimiterAssumption
  <2>2. buckets'[k].tokens = Tokens(k) - n
    BY <1>6
  <2> QED
    BY <1>2, <1>4, <1>6, <2>1, <2>2, LimiterAssumption DEF Tokens
<1>10. \A j \in Keys \ {k} : Tokens(j)' = Tokens(j)
  BY <1>6 DEF Tokens
<1> QED
  BY <1>4, <1>6, <1>7, <1>8, <1>9, <1>10

\* A tick adds Rate to every bucket, up to its capacity, and Rate to the room of
\* every window.
LEMMA TickTokens ==
  ASSUME LimiterTypeOK, SeenBefore, Tick, NEW k \in Keys
  PROVE  Tokens(k)' = IF Tokens(k) + Rate > Capacity THEN Capacity ELSE Tokens(k) + Rate
<1> DEFINE d == now - buckets[k].lastTime
           g == d * Rate
           h == (d + 1) * Rate
<1>1. buckets' = buckets /\ now' = now + 1 /\ now \in Nat
  BY DEF Tick, LimiterTypeOK
<1>2. CASE buckets[k] = NoBucket
  BY <1>1, <1>2, LimiterAssumption DEF Tokens
<1>3. CASE buckets[k] # NoBucket
  <2>1. /\ buckets[k] \in Bucket
        /\ buckets[k].tokens \in 0 .. Capacity /\ buckets[k].lastTime \in 0 .. Horizon
    BY <1>3 DEF LimiterTypeOK, Bucket
  <2>2. d \in Nat
    BY <1>1, <1>3, <2>1, LimiterAssumption DEF SeenBefore
  <2>3. h = g + Rate /\ g \in Nat
    BY <2>2, LimiterAssumption
  <2>4. now' - buckets'[k].lastTime = d + 1
    BY <1>1, <2>1, LimiterAssumption
  <2>5. Tokens(k) = IF buckets[k].tokens + g > Capacity THEN Capacity ELSE buckets[k].tokens + g
    BY <1>3 DEF Tokens
  <2>6. Tokens(k)' = IF buckets[k].tokens + h > Capacity THEN Capacity ELSE buckets[k].tokens + h
    BY <1>1, <1>3, <2>4 DEF Tokens
  <2> QED
    BY <2>1, <2>3, <2>5, <2>6, LimiterAssumption
<1> QED
  BY <1>2, <1>3

\* Numbers of a window.
LEMMA RoomType ==
  ASSUME LimiterTypeOK, NEW k \in Keys, NEW t \in 0 .. now
  PROVE  /\ spent[k] \in Nat /\ spentAt[k][t] \in Nat
         /\ Rate * (now - t) \in Nat
         /\ Room(k, t) \in Int
<1>1. now \in 0 .. Horizon /\ t \in 0 .. Horizon /\ now - t \in Nat
  BY LimiterAssumption DEF LimiterTypeOK
<1>2. spent[k] \in Nat /\ spentAt[k][t] \in Nat
  BY <1>1 DEF LimiterTypeOK
<1>3. Rate * (now - t) \in Nat
  BY <1>1, LimiterAssumption
<1> QED
  BY <1>2, <1>3, LimiterAssumption DEF Room

\* An empty history has the room of a full bucket in its last window.
LEMMA StartsFull ==
  ASSUME now = 0, spent = [k \in Keys |-> 0], buckets = [k \in Keys |-> NoBucket],
         spentAt = [k \in Keys |-> [t \in 0 .. Horizon |-> 0]]
  PROVE  LimiterInv
<1>1. LimiterTypeOK /\ NewIsUnspent /\ SeenBefore
  BY LimiterAssumption DEF LimiterTypeOK, NewIsUnspent, SeenBefore
<1>2. WindowBound
  <2> SUFFICES ASSUME NEW k \in Keys
               PROVE  Fits(k) /\ Tight(k) /\ Tokens(k) >= 0
    BY DEF WindowBound, Fits, Tight
  <2>1. Tokens(k) = Capacity
    BY DEF Tokens
  <2>2. Rate * (now - 0) = 0
    BY LimiterAssumption
  <2>3. Room(k, 0) = Capacity
    BY <2>2, LimiterAssumption DEF Room
  <2>4. 0 .. now = {0}
    OBVIOUS
  <2> QED
    BY <2>1, <2>3, <2>4, LimiterAssumption DEF Fits, Tight
<1> QED
  BY <1>1, <1>2 DEF LimiterInv

\* A call of Allow for k takes n parts out of its bucket and of its windows.
LEMMA AllowKeepsInv ==
  ASSUME LimiterInv, NEW k \in Keys, NEW n \in {0, Unit}, n <= Tokens(k),
         Emptied(k, n), spent' \in [Keys -> Nat], spent'[k] = spent[k] + n,
         \A j \in Keys \ {k} : spent'[j] = spent[j],
         now' = now, spentAt' = spentAt
  PROVE  LimiterInv'
<1> USE DEF LimiterInv
<1>0. Tokens(k) \in 0 .. Capacity /\ n \in 0 .. Tokens(k) /\ n \in Nat
  BY TokensType, LimiterAssumption
<1>1. /\ buckets' \in [Keys -> Bucket \cup {NoBucket}]
      /\ SeenBefore'
      /\ buckets'[k] # NoBucket
      /\ Tokens(k)' = Tokens(k) - n
      /\ \A j \in Keys \ {k} : buckets'[j] = buckets[j] /\ Tokens(j)' = Tokens(j)
  BY <1>0, EmptiedTokens
<1>2. /\ spent'[k] = spent[k] + n
      /\ \A j \in Keys \ {k} : spent'[j] = spent[j]
      /\ spent' \in [Keys -> Nat]
  OBVIOUS
<1>3. LimiterTypeOK'
  BY <1>1, <1>2 DEF LimiterTypeOK
<1>4. NewIsUnspent'
  BY <1>1, <1>2 DEF NewIsUnspent
<1>5. ASSUME NEW t \in 0 .. now
      PROVE  Room(k, t)' = Room(k, t) - n
  <2>1. spent[k] \in Nat /\ spentAt[k][t] \in Nat /\ Rate * (now - t) \in Nat
    BY RoomType
  <2> QED
    BY <1>0, <1>2, <2>1, LimiterAssumption DEF Room
<1>6. WindowBound'
  <2> SUFFICES ASSUME NEW j \in Keys
               PROVE  Fits(j)' /\ Tight(j)' /\ Tokens(j)' >= 0
    BY DEF WindowBound, Fits, Tight
  <2>1. Fits(j) /\ Tight(j) /\ Tokens(j) >= 0
    BY DEF WindowBound, Fits, Tight
  <2>2. CASE j = k
    <3>1. \A t \in 0 .. now : Room(k, t) \in Int
      BY RoomType
    <3> QED
      BY <1>0, <1>1, <1>5, <2>1, <2>2, <3>1 DEF Fits, Tight
  <2>3. CASE j # k
    <3>1. Tokens(j)' = Tokens(j)
      BY <1>1, <2>3
    <3>2. \A t \in 0 .. now : Room(j, t)' = Room(j, t)
      BY <1>2, <2>3 DEF Room
    <3> QED
      BY <2>1, <3>1, <3>2 DEF Fits, Tight
  <2> QED
    BY <2>2, <2>3
<1> QED
  BY <1>1, <1>3, <1>4, <1>6

\* A tick opens a window with the room of a full bucket.
LEMMA TickKeepsInv ==
  ASSUME LimiterInv, Tick
  PROVE  LimiterInv'
<1> USE DEF LimiterInv
<1>1. /\ now \in Nat /\ now' = now + 1 /\ now' \in 0 .. Horizon
      /\ buckets' = buckets /\ spent' = spent
  BY LimiterAssumption DEF Tick, LimiterTypeOK
<1>2. ASSUME NEW k \in Keys
      PROVE  /\ spentAt'[k][now + 1] = spent[k]
             /\ \A t \in 0 .. Horizon : t # now + 1 => spentAt'[k][t] = spentAt[k][t]
             /\ spentAt'[k] \in [0 .. Horizon -> Nat]
  BY <1>1 DEF Tick, LimiterTypeOK
<1>3. LimiterTypeOK'
  <2>1. spentAt' \in [Keys -> [0 .. Horizon -> Nat]]
    <3>1. spentAt' = [k \in Keys |-> spentAt'[k]]
      BY DEF Tick
    <3> QED
      BY <1>2, <3>1
  <2> QED
    BY <1>1, <2>1 DEF LimiterTypeOK
<1>4. NewIsUnspent'
  <2> SUFFICES ASSUME NEW k \in Keys, buckets[k] = NoBucket
               PROVE  spent[k] = 0 /\ \A t \in 0 .. Horizon : spentAt'[k][t] = 0
    BY <1>1 DEF NewIsUnspent
  <2> QED
    BY <1>2 DEF NewIsUnspent
<1>5. SeenBefore'
  <2> SUFFICES ASSUME NEW k \in Keys, buckets[k] # NoBucket
               PROVE  buckets[k].lastTime <= now + 1
    BY <1>1 DEF SeenBefore
  <2>1. buckets[k].lastTime \in 0 .. Horizon /\ buckets[k].lastTime <= now
    BY DEF LimiterTypeOK, Bucket, SeenBefore
  <2> QED
    BY <1>1, <2>1, LimiterAssumption
<1>6. WindowBound'
  <2> SUFFICES ASSUME NEW k \in Keys
               PROVE  Fits(k)' /\ Tight(k)' /\ Tokens(k)' >= 0
    BY DEF WindowBound, Fits, Tight
  <2>1. Fits(k) /\ Tight(k) /\ Tokens(k) \in 0 .. Capacity
    BY TokensType DEF WindowBound, Fits, Tight
  <2>2. Tokens(k)' = IF Tokens(k) + Rate > Capacity THEN Capacity ELSE Tokens(k) + Rate
    BY TickTokens
  <2>3. ASSUME NEW t \in {now + 1}
        PROVE  Room(k, t)' = Capacity
    <3>1. Rate * (now' - t) = 0
      <4>1. now' - t = 0
        BY <1>1
      <4> QED
        BY <4>1, LimiterAssumption
    <3>2. spent'[k] - spentAt'[k][t] = 0
      <4>1. spentAt'[k][t] = spent[k] /\ spent'[k] = spent[k] /\ spent[k] \in Nat
        BY <1>1, <1>2 DEF LimiterTypeOK
      <4> QED
        BY <4>1
    <3> QED
      BY <3>1, <3>2, LimiterAssumption DEF Room
  <2>4. ASSUME NEW t \in 0 .. now
        PROVE  Room(k, t)' = Room(k, t) + Rate /\ Room(k, t) \in Int
    <3>1. /\ spent[k] \in Nat /\ spentAt[k][t] \in Nat /\ Room(k, t) \in Int
          /\ Rate * (now - t) \in Nat
      BY RoomType
    <3>2. spentAt'[k][t] = spentAt[k][t] /\ spent'[k] = spent[k]
      BY <1>1, <1>2, LimiterAssumption
    <3>3. Rate * (now' - t) = Rate * (now - t) + Rate
      BY <1>1, LimiterAssumption
    <3> QED
      BY <3>1, <3>2, <3>3, LimiterAssumption DEF Room
  <2>5. 0 .. now' = (0 .. now) \cup {now + 1}
    BY <1>1
  <2>6. Fits(k)'
    BY <2>1, <2>2, <2>3, <2>4, <2>5, LimiterAssumption DEF Fits
  <2>7. Tight(k)'
    BY <2>1, <2>2, <2>3, <2>4, <2>5, LimiterAssumption DEF Tight
  <2> QED
    BY <2>1, <2>2, <2>6, <2>7, LimiterAssumption
<1> QED
  BY <1>3, <1>4, <1>5, <1>6

\* Calls, ticks and restarts.
LEMMA LimiterStepKeepsInv ==
  ASSUME LimiterInv, [LimiterNext]_limiterVars
  PROVE  LimiterInv'
<1>1. CASE Tick
  BY <1>1, TickKeepsInv
<1>2. CASE Restart
  <2>1. LimiterTypeOK' /\ NewIsUnspent' /\ SeenBefore'
    BY <1>2, LimiterAssumption DEF Restart, LimiterTypeOK, NewIsUnspent, SeenBefore
  <2>2. WindowBound'
    <3> SUFFICES ASSUME NEW k \in Keys
                 PROVE  Fits(k)' /\ Tight(k)' /\ Tokens(k)' >= 0
      BY DEF WindowBound, Fits, Tight
    <3>1. Tokens(k)' = Capacity
      BY <1>2 DEF Restart, Tokens
    <3>2. Rate * (now' - 0) = 0
      BY <1>2, LimiterAssumption DEF Restart
    <3>3. Room(k, 0)' = Capacity
      BY <1>2, <3>2, LimiterAssumption DEF Restart, Room
    <3>4. (0 .. now)' = {0}
      BY <1>2 DEF Restart
    <3> QED
      BY <3>1, <3>3, <3>4, LimiterAssumption DEF Fits, Tight
  <2> QED
    BY <2>1, <2>2 DEF LimiterInv
<1>3. ASSUME NEW k \in Keys, Admit(k)
      PROVE  LimiterInv'
  <2>1. Tokens(k) \in 0 .. Capacity /\ spent[k] \in Nat
    BY TokensType DEF LimiterInv, LimiterTypeOK
  <2>2. /\ spent' \in [Keys -> Nat] /\ spent'[k] = spent[k] + Unit
        /\ \A j \in Keys \ {k} : spent'[j] = spent[j]
    BY <1>3, <2>1, LimiterAssumption DEF Admit, LimiterInv, LimiterTypeOK
  <2>3. Emptied(k, Unit) /\ Unit <= Tokens(k) /\ now' = now /\ spentAt' = spentAt
    BY <1>3, <2>1, LimiterAssumption DEF Admit
  <2> QED
    BY <2>2, <2>3, AllowKeepsInv
<1>4. ASSUME NEW k \in Keys, Refuse(k)
      PROVE  LimiterInv'
  <2>1. Tokens(k) \in 0 .. Capacity /\ spent[k] \in Nat
    BY TokensType DEF LimiterInv, LimiterTypeOK
  <2>2. spent' = spent /\ spent'[k] = spent[k] + 0 /\ spent' \in [Keys -> Nat]
    BY <1>4, <2>1 DEF Refuse, LimiterInv, LimiterTypeOK
  <2>3. Emptied(k, 0) /\ 0 <= Tokens(k) /\ now' = now /\ spentAt' = spentAt
    BY <1>4, <2>1, LimiterAssumption DEF Refuse
  <2> QED
    BY <2>2, <2>3, AllowKeepsInv
<1>5. CASE UNCHANGED limiterVars
  BY <1>5 DEF limiterVars, LimiterInv, LimiterTypeOK, NewIsUnspent, SeenBefore,
              WindowBound, Room, Tokens
<1> QED
  BY <1>1, <1>2, <1>3, <1>4, <1>5 DEF LimiterNext

\* The limiter alone admits what an ideal token bucket admits.
THEOREM LimiterIsExact == LimiterSpec => []WindowBound
<1>1. LimiterInit => LimiterInv
  BY StartsFull DEF LimiterInit
<1>2. LimiterInv /\ [LimiterNext]_limiterVars => LimiterInv'
  BY LimiterStepKeepsInv
<1>3. LimiterInv => WindowBound
  BY DEF LimiterInv
<1> QED
  BY <1>1, <1>2, <1>3, PTL DEF LimiterSpec

\* Seen as an ideal bucket, Allow takes n parts out of it, or leaves it alone.
LEMMA LevelAfterAllow ==
  ASSUME LimiterInv, NEW k \in Keys, NEW n \in 0 .. Tokens(k), Emptied(k, n), now' = now
  PROVE  level' = [level EXCEPT ![k] = Tokens(k) - n]
BY EmptiedTokens DEF level, LimiterInv

\* Each step of the limiter is a step of the ideal bucket or leaves it alone.
LEMMA LimiterStepOfIdealBucket ==
  ASSUME LimiterInv, [LimiterNext]_limiterVars
  PROVE  Ideal!BucketNext \/ UNCHANGED <<now, level, spent>>
<1> USE DEF Ideal!BucketNext
<1>1. CASE Tick
  <2>1. level' = [k \in Keys |-> Ideal!Fuller(Tokens(k))]
    BY <1>1, TickTokens DEF level, Ideal!Fuller, LimiterInv
  <2> QED
    BY <1>1, <2>1 DEF Tick, Ideal!Drip, level
<1>2. CASE Restart
  <2>1. level' = [k \in Keys |-> Capacity]
    BY <1>2 DEF Restart, Tokens, level
  <2> QED
    BY <1>2, <2>1 DEF Restart, Ideal!StartAnew, level
<1>3. ASSUME NEW k \in Keys, Admit(k)
      PROVE  Ideal!Take(k)
  <2>1. Tokens(k) \in 0 .. Capacity /\ Unit \in 0 .. Tokens(k)
    BY <1>3, TokensType, LimiterAssumption DEF Admit, LimiterInv
  <2>2. level' = [level EXCEPT ![k] = Tokens(k) - Unit]
    BY <1>3, <2>1, LevelAfterAllow DEF Admit
  <2> QED
    BY <1>3, <2>2 DEF Admit, Ideal!Take, level
<1>4. ASSUME NEW k \in Keys, Refuse(k)
      PROVE  UNCHANGED <<now, level, spent>>
  <2>1. Tokens(k) \in 0 .. Capacity /\ 0 \in 0 .. Tokens(k)
    BY TokensType DEF LimiterInv
  <2>2. level' = [level EXCEPT ![k] = Tokens(k) - 0]
    BY <1>4, <2>1, LevelAfterAllow DEF Refuse
  <2>3. Tokens(k) - 0 = Tokens(k)
    BY <2>1, LimiterAssumption
  <2>4. level' = level
    BY <2>2, <2>3 DEF level
  <2> QED
    BY <1>4, <2>4 DEF Refuse
<1>5. CASE UNCHANGED limiterVars
  BY <1>5 DEF limiterVars, level, Tokens
<1> QED
  BY <1>1, <1>2, <1>3, <1>4, <1>5 DEF LimiterNext

\* Before the first call every bucket is full.
LEMMA LimiterStartsIdeal ==
  ASSUME LimiterInit
  PROVE  Ideal!BucketInit
BY DEF LimiterInit, Ideal!BucketInit, Tokens

\* The lazily filled buckets implement the ideal ones: nobody can tell a call
\* that fills its bucket up from a clock that has done so all along.
THEOREM LimiterImplementsIdealBucket == LimiterSpec => ImplementsIdealBucket
<1>1. LimiterInit => LimiterInv
  BY StartsFull DEF LimiterInit
<1>2. LimiterInv /\ [LimiterNext]_limiterVars => LimiterInv'
  BY LimiterStepKeepsInv
<1>3. LimiterInv /\ [LimiterNext]_limiterVars => [Ideal!BucketNext]_Ideal!bucketVars
  BY LimiterStepOfIdealBucket DEF Ideal!bucketVars, level
<1>4. LimiterInit => Ideal!BucketInit
  BY LimiterStartsIdeal
<1> QED
  BY <1>1, <1>2, <1>3, <1>4, PTL DEF LimiterSpec, ImplementsIdealBucket, Ideal!BucketSpec

-----------------------------------------------------------------------------
(* The account.                                                             *)

\* Where a request is says what it asks for.
PcFitsKind ==
  \A r \in Requests :
    /\ pc[r] = "idle" => cols[r] = {} /\ answer[r] = "none"
    /\ pc[r] = "idle" <=> kind[r] = "none"
    /\ pc[r] \in {"check", "insert"} => kind[r] = "signUp" /\ cols[r] = {"nickname"}
    /\ pc[r] \in {"read", "write"} => kind[r] = "update"
    /\ pc[r] \in {"create", "fill", "clean", "save"} => kind[r] = "upload" /\ ext[r] \in Exts
    /\ answer[r] # "none" => pc[r] = "done"

\* The one who has the name was told so, or lost, in the step that inserted it;
\* whoever updates or uploads has logged in.
OwnerIsDone ==
  /\ owner # NoRequest => pc[owner] = "done"
  /\ \A r \in Requests : kind[r] \in {"update", "upload"} => owner # NoRequest

\* What was done when a request arrived stays done.
BeforeIsDone == \A r \in Requests : \A q \in before[r] : pc[q] = "done"

\* Only uploads open files.
HandlesAreUploads == \A r \in Requests : handle[r] # NoRequest => kind[r] = "upload"

ProtocolInv == PcFitsKind /\ OwnerIsDone /\ BeforeIsDone /\ HandlesAreUploads

\* No other upload has run since r arrived.
Alone(r) == \A q \in Requests \ {r} : kind[q] = "upload" => q \in before[r]

\* An upload that runs alone finds its file as it left it.
FilesInv ==
  \A r \in Requests :
    /\ pc[r] = "fill" => handle[r] # NoRequest
    /\ pc[r] = "fill" /\ Alone(r) => path[ext[r]] = handle[r]
    /\ kind[r] = "upload" /\ Alone(r) /\ (pc[r] \in {"clean", "save"} \/ answer[r] = "ok")
         => /\ path[ext[r]] # NoRequest
            /\ content[path[ext[r]]] = r

\* The inductive invariant.
AccountInv ==
  /\ AccountTypeOK /\ ProtocolInv
  /\ SignUpTruthful /\ AnsweredUpdateStands /\ FilesInv

\* A sign-up arrives behind the limiter.
LEMMA ArriveSignUpKeepsInv ==
  ASSUME AccountInv, LimiterTypeOK', NEW r \in Requests,
         NEW k \in Keys, ArriveSignUp(r, k)
  PROVE  AccountInv'
<1> USE DEF ArriveSignUp, Arrives, Goes, Answers, NoFault, rowVars, diskVars, AccountInv,
  AccountTypeOK, ProtocolInv, Columns
<1>1. AccountTypeOK'
  OBVIOUS
<1>2. ProtocolInv'
  BY RequestsAssumption DEF PcFitsKind, OwnerIsDone, BeforeIsDone, HandlesAreUploads
<1>3. SignUpTruthful'
  BY RequestsAssumption DEF SignUpTruthful, PcFitsKind, OwnerIsDone
<1>4. AnsweredUpdateStands'
  <2> SUFFICES ASSUME NEW q \in Requests, answer'[q] = "ok", NEW c \in cols'[q], row'[c] # q
               PROVE  \E o \in Requests : row'[c] = o /\ c \in cols'[o] /\ o \notin before'[q]
    BY DEF AnsweredUpdateStands
  <2>1. q # r /\ cols'[q] = cols[q] /\ before'[q] = before[q] /\ answer[q] = "ok"
    BY DEF PcFitsKind
  <2>2. PICK o \in Requests : row[c] = o /\ c \in cols[o] /\ o \notin before[q]
    BY <2>1 DEF AnsweredUpdateStands
  <2>3. cols'[o] = cols[o]
    BY <2>2 DEF PcFitsKind
  <2> QED
    BY <2>1, <2>2, <2>3
<1>5. FilesInv'
  BY RequestsAssumption DEF FilesInv, Alone, PcFitsKind, BeforeIsDone, HandlesAreUploads
<1> QED
  BY <1>1, <1>2, <1>3, <1>4, <1>5

\* A name that is taken is somebody else's: r is not done yet.
LEMMA CheckNameKeepsInv ==
  ASSUME AccountInv, LimiterTypeOK', NEW r \in Requests,
         CheckName(r)
  PROVE  AccountInv'
<1> USE DEF CheckName, Goes, Answers, NoFault, Fault, limiterVars, rowVars, requestVars,
  diskVars, AccountInv, AccountTypeOK, ProtocolInv, Columns
<1>1. AccountTypeOK'
  OBVIOUS
<1>2. ProtocolInv'
  BY RequestsAssumption DEF PcFitsKind, OwnerIsDone, BeforeIsDone, HandlesAreUploads
<1>3. SignUpTruthful'
  BY RequestsAssumption DEF SignUpTruthful, PcFitsKind, OwnerIsDone
<1>4. AnsweredUpdateStands'
  BY RequestsAssumption DEF AnsweredUpdateStands, PcFitsKind, BeforeIsDone
<1>5. FilesInv'
  BY RequestsAssumption DEF FilesInv, Alone, PcFitsKind, BeforeIsDone, HandlesAreUploads
<1> QED
  BY <1>1, <1>2, <1>3, <1>4, <1>5

\* Before the row of the name is there, nothing was told to be saved.
LEMMA CreateUserKeepsInv ==
  ASSUME AccountInv, LimiterTypeOK', NEW r \in Requests,
         CreateUser(r)
  PROVE  AccountInv'
<1> USE DEF CreateUser, Inserted, Goes, Answers, NoFault, Fault, limiterVars, rowVars,
  requestVars, diskVars, AccountInv, AccountTypeOK, ProtocolInv, Columns
<1>1. AccountTypeOK'
  OBVIOUS
<1>2. ProtocolInv'
  BY RequestsAssumption DEF PcFitsKind, OwnerIsDone, BeforeIsDone, HandlesAreUploads
<1>3. SignUpTruthful'
  BY RequestsAssumption DEF SignUpTruthful, PcFitsKind, OwnerIsDone
<1>4. AnsweredUpdateStands'
  <2>1. ASSUME owner = NoRequest, NEW q \in Requests
        PROVE  answer[q] # "ok"
    <3>1. kind[q] \notin {"update", "upload"}
      BY <2>1 DEF OwnerIsDone
    <3>2. kind[q] = "signUp" => answer[q] # "ok"
      BY <2>1, RequestsAssumption DEF SignUpTruthful
    <3>3. kind[q] = "none" => answer[q] # "ok"
      BY DEF PcFitsKind
    <3> QED
      BY <3>1, <3>2, <3>3
  <2>2. CASE Inserted(r) /\ owner = NoRequest
    <3> SUFFICES ASSUME NEW q \in Requests, answer'[q] = "ok", NEW c \in cols'[q]
                 PROVE  row'[c] = q
      BY DEF AnsweredUpdateStands
    <3>1. q = r
      BY <2>1, <2>2
    <3>2. c = "nickname"
      BY <3>1 DEF PcFitsKind
    <3> QED
      BY <2>2, <3>1, <3>2
  <2>3. CASE UNCHANGED rowVars /\ answer'[r] # "ok"
    <3>1. \A q \in Requests : answer'[q] = "ok" => answer[q] = "ok"
      BY <2>3
    <3> QED
      BY <2>3, <3>1 DEF AnsweredUpdateStands
  <2> QED
    BY <2>2, <2>3
<1>5. FilesInv'
  BY RequestsAssumption DEF FilesInv, Alone, PcFitsKind, BeforeIsDone, HandlesAreUploads
<1> QED
  BY <1>1, <1>2, <1>3, <1>4, <1>5

\* An update arrives: what is done now has run before it.
LEMMA ArriveUpdateKeepsInv ==
  ASSUME AccountInv, LimiterTypeOK', NEW r \in Requests,
         NEW cs \in Patches \cup {{"address"}}, ArriveUpdate(r, cs)
  PROVE  AccountInv'
<1> USE DEF ArriveUpdate, LoggedIn, Arrives, Goes, Answers, NoFault, limiterVars, rowVars,
  diskVars, AccountInv, AccountTypeOK, ProtocolInv, Columns
<1>1. AccountTypeOK'
  BY PatchesAssumption
<1>2. ProtocolInv'
  BY RequestsAssumption DEF PcFitsKind, OwnerIsDone, BeforeIsDone, HandlesAreUploads
<1>3. SignUpTruthful'
  BY RequestsAssumption DEF SignUpTruthful, PcFitsKind, OwnerIsDone
<1>4. AnsweredUpdateStands'
  <2> SUFFICES ASSUME NEW q \in Requests, answer'[q] = "ok", NEW c \in cols'[q], row'[c] # q
               PROVE  \E o \in Requests : row'[c] = o /\ c \in cols'[o] /\ o \notin before'[q]
    BY DEF AnsweredUpdateStands
  <2>1. q # r /\ cols'[q] = cols[q] /\ before'[q] = before[q] /\ answer[q] = "ok"
    BY DEF PcFitsKind
  <2>2. PICK o \in Requests : row[c] = o /\ c \in cols[o] /\ o \notin before[q]
    BY <2>1 DEF AnsweredUpdateStands
  <2>3. cols'[o] = cols[o]
    BY <2>2 DEF PcFitsKind
  <2> QED
    BY <2>1, <2>2, <2>3
<1>5. FilesInv'
  BY RequestsAssumption DEF FilesInv, Alone, PcFitsKind, BeforeIsDone, HandlesAreUploads
<1> QED
  BY <1>1, <1>2, <1>3, <1>4, <1>5

\* An update without columns has nothing to lose.
LEMMA CheckUserKeepsInv ==
  ASSUME AccountInv, LimiterTypeOK', NEW r \in Requests,
         CheckUser(r)
  PROVE  AccountInv'
<1> USE DEF CheckUser, Goes, Answers, NoFault, Fault, limiterVars, rowVars, requestVars,
  diskVars, AccountInv, AccountTypeOK, ProtocolInv, Columns
<1>1. AccountTypeOK'
  OBVIOUS
<1>2. ProtocolInv'
  BY RequestsAssumption DEF PcFitsKind, OwnerIsDone, BeforeIsDone, HandlesAreUploads
<1>3. SignUpTruthful'
  BY RequestsAssumption DEF SignUpTruthful, PcFitsKind, OwnerIsDone
<1>4. AnsweredUpdateStands'
  BY RequestsAssumption DEF AnsweredUpdateStands, PcFitsKind, BeforeIsDone
<1>5. FilesInv'
  BY RequestsAssumption DEF FilesInv, Alone, PcFitsKind, BeforeIsDone, HandlesAreUploads
<1> QED
  BY <1>1, <1>2, <1>3, <1>4, <1>5

\* Whatever r overwrites was not written after r was done.
LEMMA UpdateUserKeepsInv ==
  ASSUME AccountInv, LimiterTypeOK', NEW r \in Requests,
         UpdateUser(r)
  PROVE  AccountInv'
<1> USE DEF UpdateUser, Updated, Goes, Answers, NoFault, Fault, limiterVars, requestVars,
  diskVars, AccountInv, AccountTypeOK, ProtocolInv, Columns
<1>1. AccountTypeOK'
  OBVIOUS
<1>2. ProtocolInv'
  BY RequestsAssumption DEF PcFitsKind, OwnerIsDone, BeforeIsDone, HandlesAreUploads
<1>3. SignUpTruthful'
  BY RequestsAssumption DEF SignUpTruthful, PcFitsKind, OwnerIsDone
<1>4. AnsweredUpdateStands'
  BY RequestsAssumption DEF AnsweredUpdateStands, PcFitsKind, BeforeIsDone
<1>5. FilesInv'
  BY RequestsAssumption DEF FilesInv, Alone, PcFitsKind, BeforeIsDone, HandlesAreUploads
<1> QED
  BY <1>1, <1>2, <1>3, <1>4, <1>5

\* An upload arrives.
LEMMA ArriveUploadKeepsInv ==
  ASSUME AccountInv, LimiterTypeOK', NEW r \in Requests,
         NEW e \in Exts, ArriveUpload(r, e)
  PROVE  AccountInv'
<1> USE DEF ArriveUpload, LoggedIn, Arrives, Goes, Answers, NoFault, limiterVars, rowVars,
  diskVars, AccountInv, AccountTypeOK, ProtocolInv, Columns
<1>1. AccountTypeOK'
  OBVIOUS
<1>2. ProtocolInv'
  BY RequestsAssumption DEF PcFitsKind, OwnerIsDone, BeforeIsDone, HandlesAreUploads
<1>3. SignUpTruthful'
  BY RequestsAssumption DEF SignUpTruthful, PcFitsKind, OwnerIsDone
<1>4. AnsweredUpdateStands'
  <2> SUFFICES ASSUME NEW q \in Requests, answer'[q] = "ok", NEW c \in cols'[q], row'[c] # q
               PROVE  \E o \in Requests : row'[c] = o /\ c \in cols'[o] /\ o \notin before'[q]
    BY DEF AnsweredUpdateStands
  <2>1. q # r /\ cols'[q] = cols[q] /\ before'[q] = before[q] /\ answer[q] = "ok"
    BY DEF PcFitsKind
  <2>2. PICK o \in Requests : row[c] = o /\ c \in cols[o] /\ o \notin before[q]
    BY <2>1 DEF AnsweredUpdateStands
  <2>3. cols'[o] = cols[o]
    BY <2>2 DEF PcFitsKind
  <2> QED
    BY <2>1, <2>2, <2>3
<1>5. FilesInv'
  BY RequestsAssumption DEF FilesInv, Alone, PcFitsKind, BeforeIsDone, HandlesAreUploads
<1> QED
  BY <1>1, <1>2, <1>3, <1>4, <1>5

\* The file of the format is there when it is open.
LEMMA CreateFileKeepsInv ==
  ASSUME AccountInv, LimiterTypeOK', NEW r \in Requests,
         CreateFile(r)
  PROVE  AccountInv'
<1> USE DEF CreateFile, Goes, Answers, NoFault, Fault, limiterVars, rowVars, requestVars,
  diskVars, AccountInv, AccountTypeOK, ProtocolInv, Columns
<1>1. AccountTypeOK'
  <2>1. ext[r] \in Exts
    BY DEF PcFitsKind
  <2> DEFINE i == IF path[ext[r]] = NoRequest THEN r ELSE path[ext[r]]
  <2>2. i \in Requests
    BY <2>1
  <2>3. CASE /\ path' = [path EXCEPT ![ext[r]] = i]
             /\ content' = [content EXCEPT ![i] = NoRequest]
             /\ handle' = [handle EXCEPT ![r] = i]
    <3> HIDE DEF i
    <3>1. path' \in [Exts -> Requests \cup {NoRequest}]
      BY <2>2, <2>3
    <3>2. content' \in [Requests -> Requests \cup {NoRequest}]
      BY <2>2, <2>3
    <3>3. handle' \in [Requests -> Requests \cup {NoRequest}]
      BY <2>2, <2>3
    <3> QED
      BY <3>1, <3>2, <3>3
  <2> QED
    BY <2>3
<1>2. ProtocolInv'
  BY RequestsAssumption DEF PcFitsKind, OwnerIsDone, BeforeIsDone, HandlesAreUploads
<1>3. SignUpTruthful'
  BY RequestsAssumption DEF SignUpTruthful, PcFitsKind, OwnerIsDone
<1>4. AnsweredUpdateStands'
  BY RequestsAssumption DEF AnsweredUpdateStands, PcFitsKind, BeforeIsDone
<1>5. FilesInv'
  BY RequestsAssumption DEF FilesInv, Alone, PcFitsKind, BeforeIsDone, HandlesAreUploads
<1> QED
  BY <1>1, <1>2, <1>3, <1>4, <1>5

\* An upload that runs alone writes its own picture into its own file.
LEMMA WriteAvatarKeepsInv ==
  ASSUME AccountInv, LimiterTypeOK', NEW r \in Requests,
         WriteAvatar(r)
  PROVE  AccountInv'
<1> USE DEF WriteAvatar, Overwriting, RemoveFiles, Goes, Answers, NoFault, Fault,
  limiterVars, rowVars, requestVars, AccountInv, AccountTypeOK, ProtocolInv, Columns
<1>1. AccountTypeOK'
  <2>1. handle[r] \in Requests
    BY RequestsAssumption DEF FilesInv
  <2>2. content' \in [Requests -> Requests \cup {NoRequest}]
    BY <2>1
  <2>3. path' \in [Exts -> Requests \cup {NoRequest}]
    OBVIOUS
  <2> QED
    BY <2>2, <2>3
<1>2. ProtocolInv'
  BY RequestsAssumption DEF PcFitsKind, OwnerIsDone, BeforeIsDone, HandlesAreUploads
<1>3. SignUpTruthful'
  BY RequestsAssumption DEF SignUpTruthful, PcFitsKind, OwnerIsDone
<1>4. AnsweredUpdateStands'
  BY RequestsAssumption DEF AnsweredUpdateStands, PcFitsKind, BeforeIsDone
<1>5. FilesInv'
  BY RequestsAssumption DEF FilesInv, Alone, PcFitsKind, BeforeIsDone, HandlesAreUploads
<1> QED
  BY <1>1, <1>2, <1>3, <1>4, <1>5

\* An upload that runs alone keeps its file.
LEMMA CleanStaleAvatarsKeepsInv ==
  ASSUME AccountInv, LimiterTypeOK', NEW r \in Requests,
         CleanStaleAvatars(r)
  PROVE  AccountInv'
<1> USE DEF CleanStaleAvatars, RemoveFiles, Goes, Answers, NoFault, Fault, limiterVars,
  rowVars, requestVars, AccountInv, AccountTypeOK, ProtocolInv, Columns
<1>1. AccountTypeOK'
  OBVIOUS
<1>2. ProtocolInv'
  <2>1. /\ pc'[r] = "save" /\ \A q \in Requests \ {r} : pc'[q] = pc[q]
        /\ UNCHANGED <<answer, owner, kind, cols, before, ext, handle>>
    BY DEF PcFitsKind
  <2>2. pc[r] = "clean" /\ kind[r] = "upload" /\ ext[r] \in Exts
    BY DEF PcFitsKind
  <2>3. PcFitsKind'
    BY <2>1, <2>2 DEF PcFitsKind
  <2>4. OwnerIsDone' /\ BeforeIsDone'
    BY <2>1, <2>2, RequestsAssumption DEF OwnerIsDone, BeforeIsDone
  <2>5. HandlesAreUploads'
    BY <2>1 DEF HandlesAreUploads
  <2> QED
    BY <2>3, <2>4, <2>5
<1>3. SignUpTruthful'
  BY RequestsAssumption DEF SignUpTruthful, PcFitsKind, OwnerIsDone
<1>4. AnsweredUpdateStands'
  BY RequestsAssumption DEF AnsweredUpdateStands, PcFitsKind, BeforeIsDone
<1>5. FilesInv'
  BY RequestsAssumption DEF FilesInv, Alone, PcFitsKind, BeforeIsDone, HandlesAreUploads
<1> QED
  BY <1>1, <1>2, <1>3, <1>4, <1>5

\* The name of the file is saved when the file is there.
LEMMA SaveAvatarKeepsInv ==
  ASSUME AccountInv, LimiterTypeOK', NEW r \in Requests,
         SaveAvatar(r)
  PROVE  AccountInv'
<1> USE DEF SaveAvatar, Updated, Goes, Answers, NoFault, Fault, limiterVars, requestVars,
  diskVars, AccountInv, AccountTypeOK, ProtocolInv, Columns
<1>1. AccountTypeOK'
  OBVIOUS
<1>2. ProtocolInv'
  BY RequestsAssumption DEF PcFitsKind, OwnerIsDone, BeforeIsDone, HandlesAreUploads
<1>3. SignUpTruthful'
  BY RequestsAssumption DEF SignUpTruthful, PcFitsKind, OwnerIsDone
<1>4. AnsweredUpdateStands'
  BY RequestsAssumption DEF AnsweredUpdateStands, PcFitsKind, BeforeIsDone
<1>5. FilesInv'
  BY RequestsAssumption DEF FilesInv, Alone, PcFitsKind, BeforeIsDone, HandlesAreUploads
<1> QED
  BY <1>1, <1>2, <1>3, <1>4, <1>5

\* A crash loses the limiter's past, and ends what runs without an answer.
LEMMA CrashKeepsInv ==
  ASSUME AccountInv, LimiterTypeOK', Crash
  PROVE  AccountInv'
<1> USE DEF Crash, Fault, rowVars, requestVars, diskVars,
            AccountInv, AccountTypeOK, ProtocolInv, Columns
<1>1. AccountTypeOK'
  OBVIOUS
<1>2. ProtocolInv'
  BY RequestsAssumption DEF PcFitsKind, OwnerIsDone, BeforeIsDone, HandlesAreUploads
<1>3. SignUpTruthful'
  BY DEF SignUpTruthful
<1>4. AnsweredUpdateStands'
  BY DEF AnsweredUpdateStands
<1>5. FilesInv'
  BY DEF FilesInv, Alone
<1> QED
  BY <1>1, <1>2, <1>3, <1>4, <1>5

\* Every step of the account is a step of the limiter.
LEMMA StepOfTheLimiter ==
  ASSUME [Next]_vars
  PROVE  [LimiterNext]_limiterVars
<1> USE DEF LimiterNext
<1>1. ASSUME NEW r \in Requests, NEW k \in Keys, ArriveSignUp(r, k)
      PROVE  LimiterNext
  BY <1>1 DEF ArriveSignUp
<1>2. ASSUME NEW r \in Requests,
             \/ CheckName(r) \/ CreateUser(r) \/ CheckUser(r) \/ UpdateUser(r)
             \/ \E cs \in Patches \cup {{"address"}} : ArriveUpdate(r, cs)
             \/ \E e \in Exts : ArriveUpload(r, e)
             \/ CreateFile(r) \/ WriteAvatar(r) \/ CleanStaleAvatars(r) \/ SaveAvatar(r)
      PROVE  UNCHANGED limiterVars
  BY <1>2 DEF CheckName, CreateUser, CheckUser, UpdateUser, ArriveUpdate, ArriveUpload,
              CreateFile, WriteAvatar, CleanStaleAvatars, SaveAvatar
<1>3. ClockTicks => Tick
  BY DEF ClockTicks
<1>4. Crash => Restart
  BY DEF Crash
<1>5. UNCHANGED vars => UNCHANGED limiterVars
  BY DEF vars
<1> QED
  BY <1>1, <1>2, <1>3, <1>4, <1>5 DEF Next

\* Before the first request.
LEMMA InitAccountInv ==
  ASSUME Init
  PROVE  LimiterInv /\ AccountInv
<1>1. LimiterInv
  BY StartsFull DEF Init, LimiterInit
<1>2. AccountTypeOK
  BY <1>1 DEF Init, AccountTypeOK, LimiterInv, Columns
<1>3. ProtocolInv
  BY DEF Init, ProtocolInv, PcFitsKind, OwnerIsDone, BeforeIsDone, HandlesAreUploads
<1>4. SignUpTruthful /\ AnsweredUpdateStands /\ FilesInv
  BY DEF Init, SignUpTruthful, AnsweredUpdateStands, FilesInv
<1> QED
  BY <1>1, <1>2, <1>3, <1>4 DEF AccountInv

\* Steps that touch neither requests nor rows nor files.
LEMMA IdleKeepsInv ==
  ASSUME AccountInv, LimiterTypeOK', ClockTicks \/ UNCHANGED vars
  PROVE  AccountInv'
<1>1. UNCHANGED <<rowVars, requestVars, pc, answer, diskVars, faults>>
  BY DEF ClockTicks, vars
<1> QED
  BY <1>1 DEF rowVars, requestVars, diskVars, AccountInv, AccountTypeOK, ProtocolInv,
              PcFitsKind, OwnerIsDone, BeforeIsDone, HandlesAreUploads,
              SignUpTruthful, AnsweredUpdateStands, FilesInv, Alone

\* The inductive step, action by action.
LEMMA NextKeepsInv ==
  ASSUME LimiterInv, AccountInv, [Next]_vars
  PROVE  (LimiterInv /\ AccountInv)'
<1>1. LimiterInv'
  BY StepOfTheLimiter, LimiterStepKeepsInv
<1>2. LimiterTypeOK'
  BY <1>1 DEF LimiterInv
<1>3. ASSUME NEW r \in Requests,
             \/ \E k \in Keys : ArriveSignUp(r, k)
             \/ CheckName(r) \/ CreateUser(r)
             \/ \E cs \in Patches \cup {{"address"}} : ArriveUpdate(r, cs)
             \/ CheckUser(r) \/ UpdateUser(r)
      PROVE  AccountInv'
  BY <1>2, <1>3, ArriveSignUpKeepsInv, CheckNameKeepsInv, CreateUserKeepsInv,
     ArriveUpdateKeepsInv, CheckUserKeepsInv, UpdateUserKeepsInv
<1>4. ASSUME NEW r \in Requests,
             \/ \E e \in Exts : ArriveUpload(r, e)
             \/ CreateFile(r) \/ WriteAvatar(r) \/ CleanStaleAvatars(r) \/ SaveAvatar(r)
      PROVE  AccountInv'
  BY <1>2, <1>4, ArriveUploadKeepsInv, CreateFileKeepsInv, WriteAvatarKeepsInv,
     CleanStaleAvatarsKeepsInv, SaveAvatarKeepsInv
<1>5. CASE ClockTicks \/ UNCHANGED vars
  BY <1>1, <1>2, <1>5, IdleKeepsInv
<1>6. CASE Crash
  BY <1>1, <1>2, <1>6, CrashKeepsInv
<1> QED
  BY <1>1, <1>3, <1>4, <1>5, <1>6 DEF Next

\* The inductive invariant holds.
THEOREM AccountInvariance == Spec => [](LimiterInv /\ AccountInv)
<1>1. Init => LimiterInv /\ AccountInv
  BY InitAccountInv
<1>2. LimiterInv /\ AccountInv /\ [Next]_vars => (LimiterInv /\ AccountInv)'
  BY NextKeepsInv
<1> QED
  BY <1>1, <1>2, PTL DEF Spec

\* Types.
THEOREM AccountTypeCorrect == Spec => []AccountTypeOK
<1>1. LimiterInv /\ AccountInv => AccountTypeOK
  BY DEF AccountInv
<1> QED
  BY <1>1, AccountInvariance, PTL

\* Behind the limiter no window admits more sign-ups of an address than an
\* ideal bucket would, whatever else the account does, restarts apart.
THEOREM SignUpsAreLimited == Spec => []WindowBound
<1>1. LimiterInv /\ AccountInv => WindowBound
  BY DEF LimiterInv
<1> QED
  BY <1>1, AccountInvariance, PTL

\* What sign-ups that race for one name are told is true.
THEOREM SignUpTruth == Spec => []SignUpTruthful
<1>1. LimiterInv /\ AccountInv => SignUpTruthful
  BY DEF AccountInv
<1> QED
  BY <1>1, AccountInvariance, PTL

\* What a request was told is saved is overwritten only by one that overlapped
\* it or came later, and only in a column that one submits.
THEOREM NoLostUpdate == Spec => []AnsweredUpdateStands
<1>1. LimiterInv /\ AccountInv => AnsweredUpdateStands
  BY DEF AccountInv
<1> QED
  BY <1>1, AccountInvariance, PTL

\* An upload that runs after all others and succeeds leaves its picture in the
\* file of its format.
THEOREM UploadsHeal == Spec => []AvatarHeals
<1>1. LimiterInv /\ AccountInv => AvatarHeals
  BY DEF AccountInv, FilesInv, AvatarHeals, Alone
<1> QED
  BY <1>1, AccountInvariance, PTL

\* Sign-ups of an address meet an ideal bucket, whatever else the account does.
THEOREM SignUpsFaceIdealBucket == Spec => ImplementsIdealBucket
<1>1. Init => Ideal!BucketInit
  BY LimiterStartsIdeal DEF Init
<1>2. LimiterInv /\ [Next]_vars => [Ideal!BucketNext]_Ideal!bucketVars
  BY StepOfTheLimiter, LimiterStepOfIdealBucket DEF Ideal!bucketVars, level
<1> QED
  BY <1>1, <1>2, AccountInvariance, PTL DEF Spec, ImplementsIdealBucket, Ideal!BucketSpec

\* A name that is taken never changes hands: no sign-up, retry, lost answer or
\* crash gives it to another request, so that two of them are never both told
\* that they have it.
THEOREM NameIsForGood == Spec => /\ [][owner # NoRequest => owner' = owner]_vars
                                 /\ [](\A r, q \in Requests :
                                         /\ kind[r] = "signUp" /\ answer[r] = "ok"
                                         /\ kind[q] = "signUp" /\ answer[q] = "ok"
                                         => r = q)
<1>1. [Next]_vars => [owner # NoRequest => owner' = owner]_vars
  BY DEF Next, vars, rowVars, ArriveSignUp, CheckName, CreateUser, Inserted, ArriveUpdate,
         CheckUser, UpdateUser, ArriveUpload, CreateFile, WriteAvatar, CleanStaleAvatars,
         SaveAvatar, ClockTicks, Crash
<1>2. SignUpTruthful => \A r, q \in Requests :
                          /\ kind[r] = "signUp" /\ answer[r] = "ok"
                          /\ kind[q] = "signUp" /\ answer[q] = "ok"
                          => r = q
  BY DEF SignUpTruthful
<1> QED
  BY <1>1, <1>2, SignUpTruth, PTL DEF Spec
=============================================================================
