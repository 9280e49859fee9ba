---------------------------- MODULE BucketLemmas ----------------------------
(***************************************************************************)
(* Facts about the bucket arithmetic of Bucket.tla, for every quota.  The   *)
(* proofs about the modules built on it cite them by name and expand no     *)
(* bucket operator themselves.                                              *)
(***************************************************************************)
EXTENDS Bucket, Lemmas

\* A wait is a natural number of ticks.
LEMMA SecondsToRefillNat ==
  ASSUME NEW p \in Int
  PROVE  SecondsToRefill(p) \in Nat
<1>1. CASE p <= 0 \/ Count = 0
  BY <1>1 DEF SecondsToRefill
<1>2. CASE p > 0 /\ Count # 0
  <2>1. p \in Nat /\ Count \in Nat \ {0}
    BY <1>2, QuotaTypes
  <2> QED
    BY <2>1, <1>2, NearestNat DEF SecondsToRefill
<1> QED
  BY <1>1, <1>2, QuotaTypes

-----------------------------------------------------------------------------
(* Refill and Spend, one at a time.                                         *)

\* A refill stamps the bucket, credits at most the elapsed time, loses nothing
\* and stays within the capacity.
LEMMA RefillFacts ==
  ASSUME NEW b \in Buckets, NEW now \in Nat
  PROVE  /\ Refill(b, now) \in Buckets
         /\ Refill(b, now).last_update = now
         /\ Refill(b, now).tokens >= b.tokens
         /\ Refill(b, now).tokens <= b.tokens + SaturatingSub(now, b.last_update) * Count
<1> DEFINE credit == SaturatingSub(now, b.last_update) * Count
<1>1. b.tokens \in 0..Capacity /\ b.last_update \in Nat
  BY DEF Buckets
<1>2. SaturatingSub(now, b.last_update) \in Nat
  BY <1>1 DEF SaturatingSub
<1>3. credit \in Nat
  BY <1>2, QuotaTypes, MulNat
<1>4. Refill(b, now) = [tokens |-> Earlier(b.tokens + credit, Capacity), last_update |-> now]
  BY DEF Refill
<1> HIDE DEF credit
<1>5. /\ Earlier(b.tokens + credit, Capacity) \in 0..Capacity
      /\ Earlier(b.tokens + credit, Capacity) >= b.tokens
      /\ Earlier(b.tokens + credit, Capacity) <= b.tokens + credit
  BY <1>1, <1>3, QuotaTypes DEF Earlier
<1>6. Refill(b, now) \in Buckets
  BY <1>4, <1>5 DEF Buckets
<1>7. /\ Refill(b, now).last_update = now
      /\ Refill(b, now).tokens = Earlier(b.tokens + credit, Capacity)
  BY <1>4
<1> QED
  BY <1>5, <1>6, <1>7 DEF credit

\* An attempt leaves the stamp alone and takes the cost of an admitted request.
LEMMA SpendFacts ==
  ASSUME NEW b \in Buckets, NEW cost \in Nat
  PROVE  /\ Spend(b, cost) \in Buckets
         /\ Spend(b, cost).last_update = b.last_update
         /\ Spend(b, cost).tokens =
              b.tokens - (IF Admits(b, cost) THEN cost * Token ELSE 0)
<1>1. cost * Token \in Nat
  BY QuotaTypes, MulNat
<1>2. b.tokens \in 0..Capacity /\ b.last_update \in Nat
  BY DEF Buckets
<1>3. CASE Admits(b, cost)
  <2>1. Spend(b, cost) = [b EXCEPT !.tokens = b.tokens - cost * Token]
    BY <1>3 DEF Spend
  <2>2. b.tokens - cost * Token \in 0..Capacity
    BY <1>1, <1>2, <1>3, QuotaTypes DEF Admits
  <2> QED
    BY <1>3, <2>1, <2>2 DEF Buckets
<1>4. CASE ~Admits(b, cost)
  <2>1. Spend(b, cost) = b
    BY <1>4 DEF Spend
  <2> QED
    BY <1>2, <1>4, <2>1
<1> QED
  BY <1>3, <1>4

\* What try_consume reports is a decision.
LEMMA DecisionType ==
  ASSUME NEW b \in Buckets, NEW cost \in Nat
  PROVE  DecisionOf(b, cost) \in Decisions
<1> DEFINE after == Spend(b, cost).tokens
<1>1. after \in 0..Capacity
  BY SpendFacts DEF Buckets
<1>2. cost * Token \in Nat
  BY QuotaTypes, MulNat
<1> HIDE DEF after
<1>3. after \div Token \in Nat
  BY <1>1, QuotaTypes
<1>4. SecondsToRefill(Capacity - after) \in Nat
  BY <1>1, QuotaTypes, SecondsToRefillNat
<1>5. SecondsToRefill(cost * Token - after) \in Nat
  BY <1>1, <1>2, QuotaTypes, SecondsToRefillNat
<1>6. Admits(b, cost) \in BOOLEAN
  BY DEF Admits
<1>7. (IF Admits(b, cost) THEN {} ELSE {SecondsToRefill(cost * Token - after)})
        \in SUBSET Nat
  BY <1>5
<1> QED
  BY <1>3, <1>4, <1>6, <1>7 DEF DecisionOf, Decisions, after

-----------------------------------------------------------------------------
(* try_consume as a whole.                                                  *)

\* The conservation law of one call: what is left plus what was admitted is at
\* most what was there plus the refill of the elapsed time.
LEMMA TryConsumeFacts ==
  ASSUME NEW b \in Buckets, NEW now \in Nat, NEW cost \in Nat
  PROVE  LET out == TryConsume(b, now, cost)
         IN  /\ out.bucket \in Buckets
             /\ out.bucket.last_update = now
             /\ out.decision \in Decisions
             /\ out.bucket.tokens
                  + (IF out.decision.allowed THEN cost * Token ELSE 0)
                  <= b.tokens + SaturatingSub(now, b.last_update) * Count
<1> DEFINE full == Refill(b, now)
<1>1. /\ full \in Buckets
      /\ full.last_update = now
      /\ full.tokens <= b.tokens + SaturatingSub(now, b.last_update) * Count
  BY RefillFacts
<1>2. TryConsume(b, now, cost) =
        [bucket |-> Spend(full, cost), decision |-> DecisionOf(full, cost)]
  BY DEF TryConsume
<1> HIDE DEF full
<1>3. /\ Spend(full, cost) \in Buckets
      /\ Spend(full, cost).last_update = now
      /\ Spend(full, cost).tokens =
           full.tokens - (IF Admits(full, cost) THEN cost * Token ELSE 0)
  BY <1>1, SpendFacts
<1>4. DecisionOf(full, cost) \in Decisions
  BY <1>1, DecisionType
<1>5. DecisionOf(full, cost).allowed = Admits(full, cost)
  BY DEF DecisionOf
<1>6. cost * Token \in Nat /\ full.tokens \in Nat /\ Spend(full, cost).tokens \in Nat
  BY <1>1, <1>3, QuotaTypes, MulNat DEF Buckets
<1>7. /\ TryConsume(b, now, cost).bucket = Spend(full, cost)
      /\ TryConsume(b, now, cost).decision = DecisionOf(full, cost)
  BY <1>2
<1> QED
  BY <1>1, <1>3, <1>4, <1>5, <1>6, <1>7

\* A bucket is born full, at the instant of the call.
LEMMA NewBucketFacts ==
  ASSUME NEW now \in Nat
  PROVE  /\ NewBucket(now) \in Buckets
         /\ NewBucket(now).tokens = Capacity
         /\ NewBucket(now).last_update = now
  BY QuotaTypes DEF NewBucket, Buckets
=============================================================================
