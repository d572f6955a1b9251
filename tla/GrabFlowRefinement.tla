------------------------- MODULE GrabFlowRefinement -------------------------
(***************************************************************************)
(* The order path implements the slot pool: seen through Place, each of    *)
(* its steps is a step of SlotPool or leaves the pool alone.               *)
(***************************************************************************)
EXTENDS GrabFlowProofs

places == [u \in Users |-> Place(u)]

\* A step that changes the place of one user changes the pool at that user.
LEMMA OnePlaceMoves ==
  ASSUME NEW u \in Users, NEW to,
         \A v \in Users \ {u} : Place(v)' = Place(v),
         Place(u)' = to
  PROVE  places' = [places EXCEPT ![u] = to]
BY DEF places

\* The users the pool sees holding a slot are the keepers.
LEMMA HoldersAreKeepers ==
  ASSUME IInv
  PROVE  Pool!Holders = Keepers
BY DEF Pool!Holders, IInv, TypeOK, TablesTypeOK, CacheTypeOK, OrderStatus, SlotsConserved, OnlyMembersServed,
       GuardsAgree, Place, Keepers

LEMMA InitPool == Init => Pool!PoolInit
BY DEF Init, CacheInit, Pool!PoolInit, Place

LEMMA GrabReserves ==
  ASSUME IInv, NEW u \in Users, GrabLuaResult(u) = "OK", ExecGrabLua(u), UNCHANGED tables
  PROVE  Pool!Reserve(u)
<1>1. /\ u \notin members /\ orders[u] = "none" /\ stock > 0
      /\ members' = members \cup {u} /\ released' = released
  BY GrabTakesSlot
<1>2. Place(u) = "free" /\ Place(u)' = "reserved"
  BY <1>1 DEF Place, tables
<1>3. \A v \in Users \ {u} : Place(v)' = Place(v)
  BY <1>1 DEF Place, tables
<1>4. Cardinality(Keepers) < MaxMembers
  <2>1. IsFiniteSet(Keepers)
    BY UsersFinite, FS_Subset DEF Keepers, IInv, TypeOK, CacheTypeOK
  <2>2. Cardinality(Keepers) \in Nat
    BY <2>1, FS_CardinalityType
  <2> QED
    BY <1>1, <2>2, LimitsAssumption DEF IInv, TypeOK, CacheTypeOK, SlotsConserved, Keepers
<1>5. places' = [places EXCEPT ![u] = "reserved"]
  BY <1>2, <1>3, OnePlaceMoves
<1>6. Pool!Move(u, "free", "reserved")
  BY <1>2, <1>5 DEF Pool!Move, places
<1>7. Pool!Cardinality(Pool!Holders) < MaxMembers
  BY <1>4, HoldersAreKeepers DEF Pool!Cardinality, Cardinality
<1> QED BY <1>6, <1>7 DEF Pool!Reserve

LEMMA ReleaseGivesBack ==
  ASSUME IInv, NEW u \in Users, settle[u] = "release", ReleaseGroupBuySlot(u), UNCHANGED tables
  PROVE  Pool!GiveBack(u)
<1>1. /\ u \in members /\ u \notin released /\ orders[u] \in {"cancelled", "closed"}
      /\ members' = members /\ released' = released \cup {u}
  BY ReleaseFreesSlot
<1>2. Place(u) = "leaving" /\ Place(u)' = "left"
  BY <1>1 DEF Place, tables
<1>3. \A v \in Users \ {u} : Place(v)' = Place(v)
  BY <1>1 DEF Place, tables
<1>4. places' = [places EXCEPT ![u] = "left"]
  BY <1>2, <1>3, OnePlaceMoves
<1> QED BY <1>2, <1>4 DEF Pool!GiveBack, Pool!Move, places

\* A transaction, with the slots left alone, moves the one user of its order.
LEMMA TransactionMoves ==
  ASSUME IInv, IInv', [TablesStep]_tables, UNCHANGED <<stock, members, released>>
  PROVE  Pool!PoolNext \/ UNCHANGED places
<1> USE DEF IInv, TypeOK, TablesTypeOK, OnlyMembersServed, GuardsAgree, SlotsConserved
<1>1. ASSUME NEW u \in Users, CreateOrderTx(u) PROVE Pool!Confirm(u)
  <2>1. /\ orders[u] = "none" /\ orders'[u] = "pending_pay" /\ u \in members
        /\ \A v \in Users \ {u} : orders'[v] = orders[v]
    BY <1>1 DEF CreateOrderTx, DuplicateEntry
  <2>2. Place(u) = "reserved" /\ Place(u)' = "ordered"
    BY <2>1 DEF Place
  <2>3. places' = [places EXCEPT ![u] = "ordered"]
    BY <2>1, <2>2, OnePlaceMoves DEF Place
  <2> QED BY <2>2, <2>3 DEF Pool!Confirm, Pool!Move, places
<1>2. ASSUME NEW u \in Users, UpdateOrderPaid(u) PROVE Pool!Pay(u)
  <2>1. /\ orders[u] = "pending_pay" /\ orders'[u] = "paid" /\ u \in members
        /\ \A v \in Users \ {u} : orders'[v] = orders[v]
    BY <1>2 DEF UpdateOrderPaid
  <2>2. Place(u) = "ordered" /\ Place(u)' = "paid"
    BY <2>1 DEF Place
  <2>3. places' = [places EXCEPT ![u] = "paid"]
    BY <2>1, <2>2, OnePlaceMoves DEF Place
  <2> QED BY <2>2, <2>3 DEF Pool!Pay, Pool!Move, places
<1>3. ASSUME NEW u \in Users, CancelOrderTx(u) \/ CloseExpiredOrder(u) PROVE Pool!Leave(u)
  <2>1. /\ orders[u] = "pending_pay" /\ orders'[u] \in {"cancelled", "closed"}
        /\ u \in members /\ u \notin released
        /\ \A v \in Users \ {u} : orders'[v] = orders[v]
    BY <1>3 DEF CancelOrderTx, CloseExpiredOrder, GiveUpSlot
  <2>2. Place(u) = "ordered" /\ Place(u)' = "leaving"
    BY <2>1 DEF Place
  <2>3. places' = [places EXCEPT ![u] = "leaving"]
    BY <2>1, <2>2, OnePlaceMoves DEF Place
  <2> QED BY <2>2, <2>3 DEF Pool!Leave, Pool!Move, places
<1>4. CASE JudgeExpiredGroupBuys \/ DeadlinePasses \/ UNCHANGED tables
  BY <1>4 DEF JudgeExpiredGroupBuys, DeadlinePasses, tables, places, Place
<1> QED BY <1>1, <1>2, <1>3, <1>4 DEF TablesStep, Pool!PoolNext

LEMMA NextPool ==
  ASSUME IInv, [Next]_vars
  PROVE  Pool!PoolNext \/ UNCHANGED places
<1>1. ASSUME NEW u \in Users, GrabLuaResult(u) = "OK", ExecGrabLua(u), UNCHANGED tables
      PROVE  Pool!PoolNext
  BY <1>1, GrabReserves DEF Pool!PoolNext
<1>2. ASSUME NEW u \in Users, settle[u] = "release", ReleaseGroupBuySlot(u), UNCHANGED tables
      PROVE  Pool!PoolNext
  BY <1>2, ReleaseGivesBack DEF Pool!PoolNext
<1>3. CASE Next /\ UNCHANGED <<stock, members, released>>
  BY <1>3, NextTables, NextIInv, TransactionMoves DEF IInv
<1>4. CASE UNCHANGED vars
  BY <1>4 DEF vars, tables, cache, places, Place
<1> QED BY <1>1, <1>2, <1>3, <1>4, SlotSteps

\* The order path implements the slot pool, whatever fails and whenever.
THEOREM OrderPathImplementsPool == Spec => ImplementsSlotPool
<1>1. IInv /\ [Next]_vars => [Pool!PoolNext]_places
  BY NextPool
<1> QED
  BY InitPool, <1>1, Invariance, PTL DEF Spec, ImplementsSlotPool, Pool!PoolSpec, places

\* At no time do more than max_members users hold a slot in any form: reserved
\* in Redis, ordered, paid, or given up and not yet put back.
THEOREM HoldersNeverExceedLimit == Spec => []Pool!PoolNeverOversold
<1>1. ASSUME IInv PROVE Pool!PoolNeverOversold
  <2>1. Cardinality(Keepers) \in Nat
    BY <1>1, UsersFinite, FS_Subset, FS_CardinalityType DEF Keepers, IInv, TypeOK, CacheTypeOK
  <2>2. Cardinality(Keepers) <= MaxMembers
    BY <1>1, <2>1, LimitsAssumption DEF IInv, TypeOK, CacheTypeOK, SlotsConserved, Keepers
  <2>3. Pool!Cardinality(Pool!Holders) <= MaxMembers
    BY <1>1, <2>2, HoldersAreKeepers DEF Pool!Cardinality, Cardinality
  <2> QED BY <2>3 DEF Pool!PoolNeverOversold
<1> QED BY <1>1, Invariance, PTL
=============================================================================
