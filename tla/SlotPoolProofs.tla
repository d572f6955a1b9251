--------------------------- MODULE SlotPoolProofs ---------------------------
(***************************************************************************)
(* What the abstract slot pool guarantees by itself, and with it every     *)
(* program that implements it.                                             *)
(***************************************************************************)
EXTENDS SlotPool, FiniteSetTheorems, TLAPS

PoolInv == PoolTypeOK /\ PoolNeverOversold

LEMMA HoldersCount ==
  /\ IsFiniteSet(Holders) /\ Cardinality(Holders) \in Nat
  /\ \A S \in SUBSET Holders : Cardinality(S) \in Nat /\ Cardinality(S) <= Cardinality(Holders)
  /\ \A u \in Users : Cardinality(Holders \cup {u}) <= Cardinality(Holders) + 1
<1>1. IsFiniteSet(Holders)
  BY UsersFinite, FS_Subset DEF Holders
<1>2. Cardinality(Holders) \in Nat
  BY <1>1, FS_CardinalityType
<1>3. \A S \in SUBSET Holders : Cardinality(S) \in Nat /\ Cardinality(S) <= Cardinality(Holders)
  BY <1>1, FS_Subset, FS_CardinalityType
<1>4. \A u \in Users : Cardinality(Holders \cup {u}) <= Cardinality(Holders) + 1
  <2>1. \A u \in Holders : Holders \cup {u} = Holders
    OBVIOUS
  <2> QED BY <1>1, <1>2, <2>1, FS_AddElement
<1> QED BY <1>1, <1>2, <1>3, <1>4

LEMMA PoolInitInv == PoolInit => PoolInv
<1> SUFFICES ASSUME PoolInit PROVE PoolInv
  OBVIOUS
<1>1. PoolTypeOK
  BY DEF PoolInit, PoolTypeOK, Places
<1>2. Holders = {}
  BY DEF PoolInit, Holders
<1>3. PoolNeverOversold
  BY <1>2, FS_EmptySet, LimitsAssumption DEF PoolNeverOversold
<1> QED BY <1>1, <1>3 DEF PoolInv

\* Only Reserve adds a holder, and it checks the number first.
LEMMA PoolNextInv ==
  ASSUME PoolInv, [PoolNext]_place
  PROVE  PoolInv'
<1> USE DEF PoolInv, PoolTypeOK, PoolNeverOversold
<1>1. ASSUME NEW u \in Users, Reserve(u) PROVE PoolInv'
  <2>1. PoolTypeOK' /\ Holders' = Holders \cup {u}
    BY <1>1 DEF Reserve, Move, Places, Holders
  <2>2. IsFiniteSet(Holders \cup {u}) /\ Cardinality(Holders \cup {u}) \in Nat
    BY HoldersCount, FS_AddElement, FS_CardinalityType
  <2>3. Cardinality(Holders \cup {u}) <= MaxMembers
    BY <1>1, <2>2, HoldersCount, LimitsAssumption DEF Reserve
  <2> QED BY <2>1, <2>3
<1>2. ASSUME NEW u \in Users, Confirm(u) \/ Pay(u) \/ Leave(u) \/ GiveBack(u) PROVE PoolInv'
  <2>1. PoolTypeOK' /\ Holders' \subseteq Holders
    BY <1>2 DEF Confirm, Pay, Leave, GiveBack, Move, Places, Holders
  <2>2. Cardinality(Holders') \in Nat /\ Cardinality(Holders') <= Cardinality(Holders)
    BY <2>1, HoldersCount
  <2> QED BY <2>1, <2>2, HoldersCount, LimitsAssumption
<1>3. CASE UNCHANGED place
  BY <1>3 DEF Holders
<1> QED BY <1>1, <1>2, <1>3 DEF PoolNext

\* The slot pool is never oversold.
THEOREM PoolIsNeverOversold == PoolSpec => []PoolNeverOversold
BY PoolInitInv, PoolNextInv, PTL DEF PoolSpec, PoolInv
=============================================================================
