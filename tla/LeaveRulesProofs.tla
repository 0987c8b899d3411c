---------------------------- MODULE LeaveRulesProofs ----------------------------
(* Facts about the operators of LeaveRules, for every value of its constants. *)
EXTENDS LeaveRules, FiniteSetTheorems, WellFoundedInduction, TLAPS

(***************************************************************************)
(* A non-empty set of tier orders has a least and a greatest element, so   *)
(* the CHOOSE in Min and Max names one.                                    *)
(***************************************************************************)
LEMMA LeastNatural ==
    ASSUME NEW S, S \subseteq Nat, S # {}
    PROVE  \E m \in S : \A n \in S : m <= n
<1> DEFINE Before == OpToRel(<, Nat)
<1>1. IsWellFoundedOn(Before, Nat)
  BY NatLessThanWellFounded
<1>2. \A x, y \in Nat : x < y => <<x, y>> \in Before
  BY DEF OpToRel
<1> HIDE DEF Before
<1>3. PICK m \in S : \A n \in S : ~ (<<n, m>> \in Before)
  BY <1>1, WFMin
<1>4. ASSUME NEW n \in S PROVE m <= n
  <2>1. ~ (n < m)
    BY <1>2, <1>3
  <2> QED BY <2>1
<1> QED BY <1>4

\* Min of a non-empty set of orders is its least element.
LEMMA MinOfOrders ==
    ASSUME NEW S \in SUBSET Nat, S # {}
    PROVE  Min(S) \in S /\ \A n \in S : Min(S) <= n
<1>1. \E m \in S : \A n \in S : m <= n
  BY LeastNatural
<1> QED BY <1>1 DEF Min

\* Max of a non-empty set of orders is its greatest element.
LEMMA MaxOfOrders ==
    ASSUME NEW S \in SUBSET TierOrders, S # {}
    PROVE  Max(S) \in S /\ \A n \in S : n <= Max(S)
<1> DEFINE Gaps == {MaxTier - o : o \in S}
<1>1. \A o \in S : MaxTier - o \in Nat
  BY BoundsAssumption DEF TierOrders
<1>2. PICK g \in Gaps : \A n \in Gaps : g <= n
  <2>1. Gaps \subseteq Nat /\ Gaps # {}
    BY <1>1
  <2> QED BY <2>1, LeastNatural
<1>3. PICK m \in S : g = MaxTier - m
  OBVIOUS
<1>4. \A n \in S : n <= m
  <2> TAKE n \in S
  <2>1. g <= MaxTier - n
    BY <1>2
  <2> QED BY <2>1, <1>3, BoundsAssumption DEF TierOrders
<1>5. \E x \in S : \A y \in S : x >= y
  BY <1>4, BoundsAssumption DEF TierOrders
<1> DEFINE top == CHOOSE x \in S : \A y \in S : x >= y
<1>6. top \in S /\ \A y \in S : top >= y
  BY <1>5
<1>7. Max(S) = top
  BY DEF Max
<1> HIDE DEF top
<1> QED BY <1>6, <1>7, BoundsAssumption DEF TierOrders

(***************************************************************************)
(* The first tier of a chain is the least of its orders; the tier after    *)
(* another is the least of the later ones.                                 *)
(***************************************************************************)
LEMMA FirstTier ==
    ASSUME NEW S \in SUBSET Nat
    PROVE  /\ FirstIn(S) = Null => S = {}
           /\ FirstIn(S) # Null => FirstIn(S) \in S /\ \A n \in S : FirstIn(S) <= n
BY MinOfOrders, NullAssumption DEF FirstIn

\* The tier after another is later, in the chain, and with none in between.
LEMMA NextTier ==
    ASSUME NEW S \in SUBSET Nat, NEW tier \in Nat
    PROVE  /\ NextIn(S, tier) = Null => \A n \in S : n <= tier
           /\ NextIn(S, tier) # Null =>
                 /\ NextIn(S, tier) \in S
                 /\ tier < NextIn(S, tier)
                 /\ \A n \in S : n < NextIn(S, tier) => n <= tier
<1> DEFINE later == {o \in S : o > tier}
<1>1. later \in SUBSET Nat
  OBVIOUS
<1>2. CASE later = {}
  <2>1. NextIn(S, tier) = Null
    BY <1>2 DEF NextIn
  <2>2. \A n \in S : n <= tier
    BY <1>2
  <2> QED BY <2>1, <2>2
<1>3. CASE later # {}
  <2>1. NextIn(S, tier) = Min(later)
    BY <1>3 DEF NextIn
  <2>2. Min(later) \in later /\ \A n \in later : Min(later) <= n
    BY <1>1, <1>3, MinOfOrders
  <2> DEFINE least == Min(later)
  <2>3. least \in S /\ tier < least
    BY <2>2
  <2>4. \A n \in S : n > tier => least <= n
    BY <2>2
  <2> HIDE DEF least
  <2>5. ASSUME NEW n \in S, n < least PROVE n <= tier
    <3>1. ~ (n > tier)
      BY <2>3, <2>4, <2>5
    <3> QED BY <3>1
  <2>6. least # Null
    BY <2>3, NullAssumption
  <2> QED BY <2>1, <2>3, <2>5, <2>6 DEF least
<1> QED BY <1>2, <1>3

(***************************************************************************)
(* The chain of a cancellation: HR Admin comes after every tier, so a tier *)
(* of the department is never the last of it.                              *)
(***************************************************************************)
LEMMA HrAdminLast ==
    ASSUME NEW tiers \in Chain
    PROVE  /\ DOMAIN tiers \in SUBSET TierOrders
           /\ HrAdminOrder(tiers) \in 1 .. MaxTier + 1
           /\ \A o \in DOMAIN tiers : o < HrAdminOrder(tiers)
           /\ CancellationOrders(tiers) \in SUBSET (1 .. MaxTier + 1)
           /\ CancellationOrders(tiers) # {}
<1>1. DOMAIN tiers \in SUBSET TierOrders
  BY DEF Chain
<1>2. /\ HrAdminOrder(tiers) \in 1 .. MaxTier + 1
      /\ \A o \in DOMAIN tiers : o < HrAdminOrder(tiers)
  <2>1. CASE DOMAIN tiers = {}
    BY <2>1, BoundsAssumption DEF HrAdminOrder
  <2>2. CASE DOMAIN tiers # {}
    <3> DEFINE last == Max(DOMAIN tiers)
    <3>1. HrAdminOrder(tiers) = last + 1
      BY <2>2 DEF HrAdminOrder
    <3>2. last \in DOMAIN tiers /\ \A n \in DOMAIN tiers : n <= last
      BY <1>1, <2>2, MaxOfOrders
    <3> HIDE DEF last
    <3> QED BY <1>1, <3>1, <3>2, BoundsAssumption DEF TierOrders
  <2> QED BY <2>1, <2>2
<1>3. CancellationOrders(tiers) \in SUBSET (1 .. MaxTier + 1)
  BY <1>1, <1>2, BoundsAssumption DEF CancellationOrders, TierOrders
<1> QED BY <1>1, <1>2, <1>3 DEF CancellationOrders

\* Where a cancellation starts and goes next; only HR Admin's step, or one at
\* an order no longer in the chain, is the last.
LEMMA CancellationSteps ==
    ASSUME NEW tiers \in Chain
    PROVE  /\ FirstIn(CancellationOrders(tiers)) \in 1 .. MaxTier + 1
           /\ \A t \in 1 .. MaxTier + 1 :
                 NextIn(CancellationOrders(tiers), t) \in (1 .. MaxTier + 1) \cup {Null}
           /\ \A t \in DOMAIN tiers : NextIn(CancellationOrders(tiers), t) # Null
<1> DEFINE C == CancellationOrders(tiers)
<1>1. C \in SUBSET (1 .. MaxTier + 1) /\ C # {} /\ C \in SUBSET Nat
  BY HrAdminLast, BoundsAssumption
<1>2. FirstIn(C) \in C
  BY <1>1, FirstTier
<1>3. \A t \in 1 .. MaxTier + 1 : NextIn(C, t) \in C \cup {Null}
  BY <1>1, NextTier, BoundsAssumption
<1>4. ASSUME NEW t \in DOMAIN tiers PROVE NextIn(C, t) # Null
  <2>1. t \in Nat /\ t < HrAdminOrder(tiers) /\ HrAdminOrder(tiers) \in Nat
    BY HrAdminLast, BoundsAssumption DEF TierOrders
  <2>2. HrAdminOrder(tiers) \in C
    BY DEF CancellationOrders
  <2> QED BY <1>1, <2>1, <2>2, NextTier
<1> QED BY <1>1, <1>2, <1>3, <1>4

(***************************************************************************)
(* The charge of a request is a number of half days.                       *)
(***************************************************************************)
LEMMA ChargeType ==
    ASSUME NEW e \in Employees, NEW first \in Days, NEW last \in Days, NEW session
    PROVE  LeaveCharge(e, first, last, session) \in Nat
<1> DEFINE working == {d \in first .. last : d \notin WeeklyOff[e]}
<1>1. IsFiniteSet(first .. last)
  BY FS_Interval, BoundsAssumption DEF Days
<1>2. Cardinality(working) \in Nat
  BY <1>1, FS_Subset, FS_CardinalityType
<1> HIDE DEF working
<1> QED BY <1>2 DEF LeaveCharge, working
=============================================================================
