----------------------------- MODULE StoreMeter -----------------------------
(***************************************************************************)
(* Store.tla implements Meter.tla, for every quota and capacity, when calls *)
(* are instantaneous; and if besides a burst is within the count and there  *)
(* is room for every key, no key is ever admitted more than a full bucket   *)
(* and the refill.                                                          *)
(*                                                                          *)
(* A bucket lacks what it is short of its capacity less what the time since *)
(* its stamp will credit.  That is the debt of the meter: it drains with    *)
(* the clock, a call finds it (Refill), and it is gone when the entry has   *)
(* idled one window.  Sweeping such an entry is a stutter, evicting another *)
(* is the meter's Forget.                                                   *)
(***************************************************************************)
EXTENDS StoreProofs, FiniteSetTheorems

\* Calls take no time: store_stale shows what happens otherwise.
Prompt == MaxStall = 0

\* An idle window fills a bucket, and there is room for every key: store_burst
\* and AdmissionLaw show what happens otherwise.
Ample == Burst <= Count /\ Abstract!Roomy

\* What a bucket is short of at the instant now.
Lacking(b, now) ==
  SaturatingSub(Capacity - b.tokens, (now - b.last_update) * Count)

\* What a key was admitted, it owes or has repaid.
Repaid == \A k \in Keys : ledger[k].admitted * Token <= Debt(k) + clock * Count

-----------------------------------------------------------------------------
(* Buckets.                                                                 *)

\* Refilling makes up for all but what a bucket lacks (bucket.rs:45-49).
LEMMA LackingFacts ==
  ASSUME NEW b \in Buckets, NEW now \in Nat, b.last_update <= now
  PROVE  /\ Lacking(b, now) \in 0..Capacity
         /\ Refill(b, now) = [tokens |-> Capacity - Lacking(b, now), last_update |-> now]
         /\ Lacking(b, now + 1) = SaturatingSub(Lacking(b, now), Count)
         /\ b.last_update = now => Lacking(b, now) = Capacity - b.tokens
<1> DEFINE credit == (now - b.last_update) * Count
<1>1. /\ b.tokens \in 0..Capacity /\ b.last_update \in Nat
      /\ Capacity \in Nat /\ Count \in Nat
  BY QuotaTypes DEF Buckets
<1>2. now - b.last_update \in Nat
  BY <1>1
<1>3. credit \in Nat
  BY <1>1, <1>2, MulNat
<1>4. (now + 1 - b.last_update) * Count = credit + Count
  BY <1>1, <1>2
<1>5. SaturatingSub(now, b.last_update) * Count = credit
  <2>1. SaturatingSub(now, b.last_update) = now - b.last_update
    BY <1>1 DEF SaturatingSub
  <2> QED
    BY <2>1
<1>6. b.last_update = now => credit = 0
  BY <1>1
<1> HIDE DEF credit
<1>7. Lacking(b, now) = SaturatingSub(Capacity - b.tokens, credit)
  BY DEF Lacking, credit
<1>8. Lacking(b, now + 1) = SaturatingSub(Capacity - b.tokens, credit + Count)
  BY <1>1, <1>3, <1>4 DEF Lacking, SaturatingSub
<1>9. Lacking(b, now) \in 0..Capacity
  BY <1>1, <1>3, <1>7 DEF SaturatingSub
<1>10. Earlier(b.tokens + credit, Capacity) = Capacity - Lacking(b, now)
  BY <1>1, <1>3, <1>7 DEF SaturatingSub, Earlier
<1>11. Lacking(b, now + 1) = SaturatingSub(Lacking(b, now), Count)
  BY <1>1, <1>3, <1>7, <1>8 DEF SaturatingSub
<1>12. b.last_update = now => Lacking(b, now) = Capacity - b.tokens
  BY <1>1, <1>6, <1>7 DEF SaturatingSub
<1> QED
  BY <1>5, <1>9, <1>10, <1>11, <1>12 DEF Refill

\* One idle window fills a bucket whose burst is within its count
\* (store.rs:26-27).
LEMMA IdleLacksNothing ==
  ASSUME Burst <= Count, NEW b \in Buckets, NEW now \in Nat,
         b.last_update + Window <= now
  PROVE  Lacking(b, now) = 0
<1> DEFINE away == now - b.last_update
<1>1. b.tokens \in 0..Capacity /\ b.last_update \in Nat
  BY DEF Buckets
<1>2. away \in Nat /\ Window <= away
  BY <1>1, QuotaAssumption
<1> HIDE DEF away
<1>3. Window * Count <= away * Count
  BY <1>2, QuotaAssumption, MulMonotone
<1>4. Burst * Window <= Count * Window
  BY QuotaAssumption, MulMonotone
<1>5. Window * Count = Count * Window
  BY QuotaAssumption
<1>6. Window * Count \in Nat /\ Burst * Window \in Nat /\ away * Count \in Nat
  BY <1>2, QuotaAssumption, MulNat
<1>7. Capacity <= away * Count
  BY <1>3, <1>4, <1>5, <1>6 DEF Capacity, Token
<1> QED
  BY <1>1, <1>6, <1>7, QuotaTypes DEF Lacking, SaturatingSub, away

-----------------------------------------------------------------------------
(* Debts.                                                                   *)

\* A key owes what its bucket lacks while that is served, and nothing else.
LEMMA DebtFacts ==
  ASSUME IInv, NEW k \in Keys
  PROVE  /\ Debt(k) \in 0..Capacity
         /\ Live(k) =>
              /\ cache[k].bucket \in Buckets
              /\ cache[k].bucket.last_update \in Nat /\ cache[k].accessed \in Nat
              /\ cache[k].bucket.last_update <= cache[k].accessed
              /\ cache[k].accessed <= clock /\ clock < cache[k].accessed + Window
              /\ Debt(k) = Lacking(cache[k].bucket, clock)
              /\ Idleness(k) = clock - cache[k].accessed
         /\ ~Live(k) => Debt(k) = 0 /\ Idleness(k) = Window
<1>1. clock \in Nat /\ Capacity \in Nat /\ Window \in Nat
  BY QuotaTypes, QuotaAssumption DEF IInv, TypeOK
<1>2. CASE ~Live(k)
  BY <1>1, <1>2 DEF Debt, Idleness
<1>3. CASE Live(k)
  <2> DEFINE b == cache[k].bucket
  <2>1. /\ b \in Buckets /\ b.last_update \in Nat /\ cache[k].accessed \in Nat
        /\ b.last_update <= cache[k].accessed /\ cache[k].accessed <= clock
    BY <1>3 DEF IInv, TypeOK, Stamped, Entries, Buckets, Live
  <2>2. Lacking(b, clock) \in 0..Capacity
    BY <1>1, <2>1, LackingFacts
  <2>3. Debt(k) = Lacking(b, clock)
    BY <1>3 DEF Debt, Lacking
  <2>4. clock < cache[k].accessed + Window /\ Idleness(k) = clock - cache[k].accessed
    BY <1>1, <1>3, <2>1 DEF Live, Idle, Idleness
  <2> QED
    BY <1>3, <2>1, <2>2, <2>3, <2>4
<1> QED
  BY <1>2, <1>3

\* A bucket that is served in the next state.
LEMMA LiveNext ==
  ASSUME NEW k \in Keys, k \in DOMAIN cache', clock' \in Nat, cache'[k].accessed \in Nat,
         clock' < cache'[k].accessed + Window
  PROVE  /\ Live(k)'
         /\ Debt(k)' = Lacking(cache'[k].bucket, clock')
         /\ Idleness(k)' = clock' - cache'[k].accessed
<1>1. Live(k)'
  BY QuotaAssumption DEF Live, Idle
<1> QED
  BY <1>1 DEF Debt, Lacking, Idleness

\* A call at once finds the capacity less what its key owes.
LEMMA FoundLacks ==
  ASSUME IInv, NEW k \in Keys
  PROVE  Refill(Found(k, clock), clock)
           = [tokens |-> Capacity - Debt(k), last_update |-> clock]
<1>1. clock \in Nat /\ Capacity \in Nat
  BY QuotaTypes DEF IInv, TypeOK
<1>2. CASE Live(k)
  <2>1. Found(k, clock) = cache[k].bucket
    BY <1>2 DEF Found
  <2>2. /\ cache[k].bucket \in Buckets /\ cache[k].bucket.last_update <= clock
        /\ Debt(k) = Lacking(cache[k].bucket, clock)
    BY <1>1, <1>2, DebtFacts
  <2> QED
    BY <1>1, <2>1, <2>2, LackingFacts
<1>3. CASE ~Live(k)
  <2>1. Found(k, clock) = NewBucket(clock) /\ Debt(k) = 0
    BY <1>3 DEF Found, Debt
  <2>2. /\ NewBucket(clock) \in Buckets
        /\ NewBucket(clock).tokens = Capacity /\ NewBucket(clock).last_update = clock
    BY <1>1, NewBucketFacts
  <2>3. Lacking(NewBucket(clock), clock) = 0
    BY <1>1, <2>2, LackingFacts
  <2> QED
    BY <1>1, <2>1, <2>2, <2>3, LackingFacts
<1> QED
  BY <1>2, <1>3

-----------------------------------------------------------------------------
(* Answers.                                                                 *)

\* The arithmetic of the meter is the store's.
LEMMA SameArithmetic ==
  /\ Abstract!Capacity = Capacity
  /\ Abstract!Token = Token
  /\ \A a, b : Abstract!SaturatingSub(a, b) = SaturatingSub(a, b)
  /\ \A p : Abstract!SecondsToRefill(p) = SecondsToRefill(p)
<1>1. Abstract!Capacity = Capacity /\ Abstract!Token = Token
  BY DEF Abstract!Capacity, Capacity, Abstract!Token, Token
<1>2. \A a, b : Abstract!SaturatingSub(a, b) = SaturatingSub(a, b)
  BY DEF Abstract!SaturatingSub, SaturatingSub
<1>3. \A n, d : Abstract!Nearest(n, d) = Nearest(n, d)
  BY DEF Abstract!Nearest, Nearest
<1>4. \A p : Abstract!SecondsToRefill(p) = SecondsToRefill(p)
  BY <1>3 DEF Abstract!SecondsToRefill, SecondsToRefill
<1> QED
  BY <1>1, <1>2, <1>4

\* The meter's answer to a key that owes d, in the store's terms.
LEMMA OwedFacts ==
  ASSUME NEW d \in 0..Capacity, NEW cost \in Nat
  PROVE  LET owed == Abstract!Owed(d, cost)
             fits == d + cost * Token <= Capacity
         IN  /\ owed \in 0..Capacity
             /\ owed = d + (IF fits THEN cost * Token ELSE 0)
             /\ Abstract!Verdict(d, cost) =
                  [allowed      |-> fits,
                   remaining    |-> (Capacity - owed) \div Token,
                   time_to_full |-> SecondsToRefill(owed),
                   retry_after  |-> IF fits THEN {}
                                    ELSE {SecondsToRefill(d + cost * Token - Capacity)}]
<1> DEFINE fits == d + cost * Token <= Capacity
           owed == Abstract!Owed(d, cost)
<1>1. cost * Token \in Nat /\ Capacity \in Nat
  BY QuotaTypes, MulNat
<1>2. Abstract!Fits(d, cost) <=> fits
  BY SameArithmetic DEF Abstract!Fits
<1>3. owed = IF fits THEN d + cost * Token ELSE d
  BY <1>2, SameArithmetic DEF Abstract!Owed
<1>4. /\ owed \in 0..Capacity
      /\ owed = d + (IF fits THEN cost * Token ELSE 0)
  BY <1>1, <1>3
<1>5. Abstract!Fits(d, cost) = fits
  BY <1>2 DEF Abstract!Fits
<1> HIDE DEF fits, owed
<1>6. Abstract!Verdict(d, cost) =
        [allowed      |-> fits,
         remaining    |-> (Capacity - owed) \div Token,
         time_to_full |-> SecondsToRefill(owed),
         retry_after  |-> IF fits THEN {}
                          ELSE {SecondsToRefill(d + cost * Token - Capacity)}]
  BY <1>5, SameArithmetic DEF Abstract!Verdict, owed
<1> QED
  BY <1>4, <1>6 DEF fits, owed

\* try_consume at once gives the meter's answer, and leaves the bucket short of
\* what the meter's key owes then (bucket.rs:41-76).
LEMMA SameAnswer ==
  ASSUME IInv, NEW k \in Keys, NEW cost \in Costs
  PROVE  LET out == TryConsume(Found(k, clock), clock, cost)
         IN  /\ out.decision = Abstract!Verdict(Debt(k), cost)
             /\ out.bucket = [tokens      |-> Capacity - Abstract!Owed(Debt(k), cost),
                              last_update |-> clock]
<1> DEFINE d    == Debt(k)
           owed == Abstract!Owed(d, cost)
           fits == d + cost * Token <= Capacity
           full == [tokens |-> Capacity - d, last_update |-> clock]
<1>1. /\ d \in 0..Capacity /\ Capacity \in Nat /\ cost \in Nat /\ cost * Token \in Nat
  BY DebtFacts, QuotaTypes, MulNat, StoreAssumption
<1>2. TryConsume(Found(k, clock), clock, cost) =
        [bucket |-> Spend(full, cost), decision |-> DecisionOf(full, cost)]
  BY FoundLacks DEF TryConsume
<1> HIDE DEF d
<1>3. /\ owed \in 0..Capacity
      /\ owed = d + (IF fits THEN cost * Token ELSE 0)
      /\ Abstract!Verdict(d, cost) =
           [allowed      |-> fits,
            remaining    |-> (Capacity - owed) \div Token,
            time_to_full |-> SecondsToRefill(owed),
            retry_after  |-> IF fits THEN {}
                             ELSE {SecondsToRefill(d + cost * Token - Capacity)}]
  BY <1>1, OwedFacts
<1> HIDE DEF owed
<1>4. Admits(full, cost) = fits
  <2>1. Admits(full, cost) <=> fits
    BY <1>1 DEF Admits
  <2> QED
    BY <2>1 DEF Admits
<1>5. Spend(full, cost) = [tokens |-> Capacity - owed, last_update |-> clock]
  <2>1. full \in Buckets /\ full.tokens = Capacity - d /\ full.last_update = clock
    BY <1>1 DEF Buckets, IInv, TypeOK
  <2> HIDE DEF full
  <2>2. /\ Spend(full, cost) \in Buckets
        /\ Spend(full, cost).last_update = clock
        /\ Spend(full, cost).tokens =
             Capacity - d - (IF Admits(full, cost) THEN cost * Token ELSE 0)
    BY <1>1, <2>1, SpendFacts
  <2>3. Spend(full, cost).tokens = Capacity - owed
    <3> DEFINE paid == IF fits THEN cost * Token ELSE 0
    <3>1. paid \in Nat
      BY <1>1
    <3>2. owed = d + paid
      BY <1>3
    <3> HIDE DEF fits
    <3>3. Spend(full, cost).tokens = Capacity - d - paid
      BY <1>4, <2>2, Zenon
    <3> HIDE DEF paid
    <3> QED
      BY <1>1, <3>1, <3>2, <3>3
  <2> QED
    BY <2>2, <2>3 DEF Buckets
<1> HIDE DEF full
<1>6. DecisionOf(full, cost) = Abstract!Verdict(d, cost)
  <2>1. Spend(full, cost).tokens = Capacity - owed
    BY <1>5
  <2>2. Capacity - (Capacity - owed) = owed
    BY <1>1, <1>3
  <2>3. (IF fits THEN {} ELSE {SecondsToRefill(cost * Token - (Capacity - owed))})
          = IF fits THEN {} ELSE {SecondsToRefill(d + cost * Token - Capacity)}
    <3>1. CASE ~fits
      <4>1. cost * Token - (Capacity - owed) = d + cost * Token - Capacity
        BY <1>1, <1>3, <3>1
      <4> QED
        BY <4>1
    <3> QED
      BY <3>1
  <2> HIDE DEF fits
  <2> QED
    BY <1>3, <1>4, <2>1, <2>2, <2>3 DEF DecisionOf
<1> QED
  BY <1>2, <1>5, <1>6 DEF d, owed

-----------------------------------------------------------------------------
(* Steps.                                                                   *)

\* Between the clock and the lock no time passes.
LEMMA PromptFacts ==
  ASSUME Prompt, IInv
  PROVE  \A t \in DOMAIN call : call[t].now = clock
<1>1. clock \in Nat /\ \A t \in DOMAIN call : call[t].now \in Nat
  BY DEF IInv, TypeOK, Requests
<1> QED
  BY <1>1 DEF IInv, Recent, Prompt

\* The meter counts the keys as the store does.
LEMMA SameCount ==
  Abstract!Roomy <=> IsFiniteSet(Keys) /\ Cardinality(Keys) <= MaxPartitions
<1>1. Abstract!IsFiniteSet(Keys) <=> IsFiniteSet(Keys)
  BY Zenon DEF Abstract!IsFiniteSet, IsFiniteSet
<1>2. Abstract!Cardinality(Keys) = Cardinality(Keys)
  BY Zenon DEF Abstract!Cardinality, Cardinality
<1> QED
  BY <1>1, <1>2 DEF Abstract!Roomy

\* An entry is evicted only if the keys may be too many.
LEMMA EvictedForRoom ==
  ASSUME IInv, NEW k \in Keys, Evict(k)
  PROVE  ~Abstract!Roomy
<1> SUFFICES ASSUME Abstract!Roomy PROVE FALSE
  OBVIOUS
<1>1. IsFiniteSet(Keys) /\ Cardinality(Keys) <= MaxPartitions
  BY SameCount
<1>2. DOMAIN cache \subseteq Keys
  BY DEF IInv, TypeOK
<1>3. Cardinality(DOMAIN cache) <= Cardinality(Keys)
  BY <1>1, <1>2, FS_Subset
<1>4. Cardinality(DOMAIN cache) \in Nat /\ Cardinality(Keys) \in Nat /\ MaxPartitions \in Nat
  BY <1>1, <1>2, FS_Subset, FS_CardinalityType, StoreAssumption
<1> QED
  BY <1>1, <1>3, <1>4 DEF Evict

\* A tick repays Count parts of every debt, and forgets what idled one window.
LEMMA TickDrains ==
  ASSUME IInv, Tick, NEW k \in Keys
  PROVE  /\ Debt(k)' = Abstract!Drained(Debt(k), Idleness(k))
         /\ Idleness(k)' = Abstract!Idled(Idleness(k))
<1>1. clock \in Nat /\ clock' = clock + 1 /\ cache' = cache /\ Window \in Nat \ {0}
  BY QuotaAssumption DEF IInv, TypeOK, Tick
<1>2. \A i \in Nat : Abstract!Idled(i) = IF i + 1 <= Window THEN i + 1 ELSE Window
  BY DEF Abstract!Idled, Abstract!Earlier
<1>3. CASE ~Live(k)
  <2>1. Debt(k) = 0 /\ Idleness(k) = Window
    BY <1>3, DebtFacts
  <2>2. ~Live(k)'
    <3>1. SUFFICES ASSUME k \in DOMAIN cache PROVE Idle(cache[k])'
      BY <1>1 DEF Live
    <3>2. Idle(cache[k]) /\ cache[k].accessed \in Nat
      BY <1>3, <3>1 DEF Live, IInv, TypeOK, Entries
    <3> QED
      BY <1>1, <3>2 DEF Idle
  <2>3. Debt(k)' = 0 /\ Idleness(k)' = Window
    BY <2>2 DEF Debt, Idleness
  <2>4. Abstract!Idled(Window) = Window
    BY <1>1, <1>2
  <2> QED
    BY <2>1, <2>3, <2>4 DEF Abstract!Drained
<1>4. CASE Live(k)
  <2> DEFINE b == cache[k].bucket
             a == cache[k].accessed
  <2>1. /\ b \in Buckets /\ b.last_update \in Nat /\ a \in Nat
        /\ b.last_update <= a /\ a <= clock /\ clock < a + Window
        /\ Debt(k) = Lacking(b, clock) /\ Idleness(k) = clock - a
        /\ k \in DOMAIN cache
    BY <1>4, DebtFacts DEF Live
  <2>2. cache'[k].bucket = b /\ cache'[k].accessed = a /\ k \in DOMAIN cache'
    BY <1>1, <2>1
  <2>3. b.last_update <= clock
    BY <1>1, <2>1
  <2>4. Lacking(b, clock + 1) = SaturatingSub(Lacking(b, clock), Count)
    BY <1>1, <2>1, <2>3, LackingFacts
  <2> HIDE DEF a, b
  <2>5. CASE clock + 1 < a + Window
    <3>1. Debt(k)' = Lacking(b, clock + 1) /\ Idleness(k)' = clock + 1 - a
      BY <1>1, <2>1, <2>2, <2>5, LiveNext
    <3>2. Abstract!Idled(clock - a) = clock + 1 - a /\ clock + 1 - a # Window
      BY <1>1, <1>2, <2>1, <2>5
    <3> QED
      BY <2>1, <2>4, <3>1, <3>2, SameArithmetic DEF Abstract!Drained
  <2>6. CASE clock + 1 = a + Window
    <3>1. ~Live(k)'
      BY <1>1, <2>1, <2>2, <2>6 DEF Live, Idle
    <3>2. Debt(k)' = 0 /\ Idleness(k)' = Window
      BY <3>1 DEF Debt, Idleness
    <3>3. Abstract!Idled(clock - a) = Window
      BY <1>1, <1>2, <2>1, <2>6
    <3> QED
      BY <2>1, <3>2, <3>3 DEF Abstract!Drained
  <2> QED
    BY <1>1, <2>1, <2>5, <2>6
<1> QED
  BY <1>3, <1>4

\* What idles a window within the count is repaid by then (store.rs:26-27).
LEMMA AmpleDrains ==
  ASSUME Ample, IInv, Tick, NEW k \in Keys
  PROVE  Debt(k)' = SaturatingSub(Debt(k), Count)
<1>1. clock \in Nat /\ Count \in Nat /\ Window \in Nat \ {0}
  BY QuotaAssumption DEF IInv, TypeOK
<1>2. /\ Debt(k)' = IF Abstract!Idled(Idleness(k)) = Window THEN 0
                    ELSE SaturatingSub(Debt(k), Count)
  BY TickDrains, SameArithmetic DEF Abstract!Drained
<1>3. CASE ~Live(k)
  <2>1. Debt(k) = 0
    BY <1>3, DebtFacts
  <2> QED
    BY <1>1, <1>2, <2>1 DEF SaturatingSub
<1>4. CASE Live(k)
  <2> DEFINE b == cache[k].bucket
             a == cache[k].accessed
  <2>1. /\ b \in Buckets /\ b.last_update \in Nat /\ a \in Nat
        /\ b.last_update <= a /\ a <= clock /\ clock < a + Window
        /\ Debt(k) = Lacking(b, clock) /\ Idleness(k) = clock - a
    BY <1>4, DebtFacts
  <2> HIDE DEF a, b
  <2>2. Abstract!Idled(clock - a) = Window => b.last_update + Window <= clock + 1
    BY <1>1, <2>1 DEF Abstract!Idled, Abstract!Earlier
  <2>3. Lacking(b, clock + 1) = SaturatingSub(Lacking(b, clock), Count)
    BY <1>1, <2>1, LackingFacts
  <2>4. b.last_update + Window <= clock + 1 => Lacking(b, clock + 1) = 0
    BY <1>1, <2>1, IdleLacksNothing DEF Ample
  <2> QED
    BY <1>2, <2>1, <2>2, <2>3, <2>4
<1> QED
  BY <1>3, <1>4

\* A call is for a key and a cost.
LEMMA CallFacts ==
  ASSUME IInv, NEW t \in Threads, Compute(t)
  PROVE  \E k \in Keys, cost \in Costs : call[t].key = k /\ call[t].cost = cost
  BY DEF IInv, TypeOK, Requests, Compute

\* A call changes the debt of its key to the meter's, and no other.
LEMMA ComputeOwes ==
  ASSUME Prompt, IInv, IInv',
         NEW t \in Threads, NEW k \in Keys, NEW cost \in Costs,
         Compute(t), call[t].key = k, call[t].cost = cost
  PROVE  /\ answer' = <<k, Abstract!Verdict(Debt(k), cost)>>
         /\ Debt(k)' = Abstract!Owed(Debt(k), cost) /\ Idleness(k)' = 0
         /\ \A j \in Keys \ {k} : Debt(j)' = Debt(j) /\ Idleness(j)' = Idleness(j)
         /\ ledger' = [ledger EXCEPT ![k] =
              Entered(@, ~Live(k), clock, cost, Abstract!Verdict(Debt(k), cost))]
<1> DEFINE out   == TryConsume(Found(k, clock), clock, cost)
           owed  == Abstract!Owed(Debt(k), cost)
<1>1. /\ t \in DOMAIN call /\ call[t].now = clock /\ clock \in Nat /\ clock' = clock
      /\ cost \in Nat
  BY PromptFacts, StoreAssumption DEF Compute, IInv, TypeOK, Requests
<1>2. /\ cache' = Assign(cache, k, [bucket |-> out.bucket, accessed |-> clock])
      /\ answer' = <<k, out.decision>>
      /\ ledger' = [ledger EXCEPT ![k] = Entered(@, ~Live(k), clock, cost, out.decision)]
  BY <1>1 DEF Compute, Stored
<1>3. /\ out.decision = Abstract!Verdict(Debt(k), cost)
      /\ out.bucket = [tokens |-> Capacity - owed, last_update |-> clock]
  BY <1>1, SameAnswer
<1>4. owed \in 0..Capacity /\ Capacity \in Nat
  BY <1>1, DebtFacts, OwedFacts, QuotaTypes
<1> HIDE DEF out, owed
<1>5. /\ k \in DOMAIN cache'
      /\ cache'[k].bucket = [tokens |-> Capacity - owed, last_update |-> clock]
      /\ cache'[k].accessed = clock
      /\ \A j \in DOMAIN cache' \ {k} : j \in DOMAIN cache /\ cache'[j] = cache[j]
      /\ \A j \in DOMAIN cache \ {k} : j \in DOMAIN cache'
  BY <1>2, <1>3 DEF Assign
<1>6. Debt(k)' = owed /\ Idleness(k)' = 0
  <2> DEFINE b == [tokens |-> Capacity - owed, last_update |-> clock]
  <2>1. b \in Buckets /\ b.last_update = clock /\ Capacity - b.tokens = owed
    BY <1>1, <1>4 DEF Buckets
  <2>2. cache'[k].bucket = b
    BY <1>5
  <2> HIDE DEF b
  <2>3. Lacking(b, clock) = owed
    BY <1>1, <2>1, LackingFacts
  <2>4. clock' < cache'[k].accessed + Window
    BY <1>1, <1>5, QuotaAssumption
  <2>5. Debt(k)' = Lacking(b, clock') /\ Idleness(k)' = clock' - cache'[k].accessed
    BY <1>1, <1>5, <2>2, <2>4, LiveNext
  <2> QED
    BY <1>1, <1>5, <2>3, <2>5
<1>7. ASSUME NEW j \in Keys \ {k}
      PROVE  Debt(j)' = Debt(j) /\ Idleness(j)' = Idleness(j)
  <2>1. j \in DOMAIN cache' <=> j \in DOMAIN cache
    BY <1>5
  <2>2. j \in DOMAIN cache' => cache'[j] = cache[j]
    BY <1>5
  <2> QED
    BY <1>1, <2>1, <2>2 DEF Debt, Idleness, Live, Idle
<1> QED
  BY <1>1, <1>2, <1>3, <1>6, <1>7 DEF owed

\* An entry that goes takes its key's debt along, and no other.
LEMMA DropForgets ==
  ASSUME IInv, NEW k \in Keys, k \in DOMAIN cache, cache' = Drop(cache, k), clock' = clock
  PROVE  /\ Debt(k)' = 0 /\ Idleness(k)' = Window
         /\ \A j \in Keys \ {k} : Debt(j)' = Debt(j) /\ Idleness(j)' = Idleness(j)
<1>1. /\ DOMAIN cache' = DOMAIN cache \ {k}
      /\ \A j \in DOMAIN cache' : cache'[j] = cache[j]
  BY DEF Drop
<1>2. ~Live(k)'
  BY <1>1 DEF Live
<1>3. \A j \in Keys \ {k} : Debt(j)' = Debt(j) /\ Idleness(j)' = Idleness(j)
  BY <1>1 DEF Debt, Idleness, Live, Idle
<1> QED
  BY <1>2, <1>3 DEF Debt, Idleness

\* No debt changes when a thread reads the clock or an idle entry goes.
LEMMA QuietDebts ==
  ASSUME IInv,
         \/ \E t \in Threads, k \in Keys, cost \in Costs : ReadClock(t, k, cost)
         \/ \E k \in Keys : Sweep(k) \/ (Evict(k) /\ ~Live(k))
         \/ UNCHANGED vars
  PROVE  /\ \A k \in Keys : Debt(k)' = Debt(k) /\ Idleness(k)' = Idleness(k)
         /\ UNCHANGED <<clock, answer, ledger>>
<1>1. CASE UNCHANGED <<clock, cache, answer, ledger>>
  BY <1>1 DEF Debt, Idleness, Live, Idle
<1>2. ASSUME NEW k \in Keys, Sweep(k) \/ (Evict(k) /\ ~Live(k))
      PROVE  /\ \A j \in Keys : Debt(j)' = Debt(j) /\ Idleness(j)' = Idleness(j)
             /\ UNCHANGED <<clock, answer, ledger>>
  <2>1. /\ k \in DOMAIN cache /\ clock' = clock /\ cache' = Drop(cache, k) /\ ~Live(k)
        /\ UNCHANGED <<answer, ledger>>
    BY <1>2 DEF Sweep, Evict, Live
  <2>2. Debt(k) = 0 /\ Idleness(k) = Window
    BY <2>1, DebtFacts
  <2> QED
    BY <2>1, <2>2, DropForgets
<1> QED
  BY <1>1, <1>2 DEF ReadClock, vars

-----------------------------------------------------------------------------
(* The theorems.                                                            *)

\* Every step of the store is a step of the meter, or changes nothing it has.
LEMMA StepRefines ==
  ASSUME Prompt, IInv, IInv', [Next]_vars
  PROVE  [Abstract!MeterNext]_(Abstract!meterVars)
<1> DEFINE debt == [k \in Keys |-> Debt(k)]
           idle == [k \in Keys |-> Idleness(k)]
<1>1. CASE Tick
  <2>1. /\ debt' = [k \in Keys |-> Abstract!Drained(debt[k], idle[k])]
        /\ idle' = [k \in Keys |-> Abstract!Idled(idle[k])]
        /\ answer' = answer
    BY <1>1, TickDrains DEF Tick
  <2>2. Abstract!Drain
    BY <2>1 DEF Abstract!Drain
  <2> QED
    BY <2>2 DEF Abstract!MeterNext
<1>2. ASSUME NEW t \in Threads, Compute(t)
      PROVE  Abstract!MeterNext
  <2> PICK k \in Keys, cost \in Costs : call[t].key = k /\ call[t].cost = cost
    BY <1>2, CallFacts
  <2>1. /\ answer' = <<k, Abstract!Verdict(Debt(k), cost)>>
        /\ Debt(k)' = Abstract!Owed(Debt(k), cost) /\ Idleness(k)' = 0
        /\ \A j \in Keys \ {k} : Debt(j)' = Debt(j) /\ Idleness(j)' = Idleness(j)
    BY <1>2, ComputeOwes
  <2>2. /\ debt' = [debt EXCEPT ![k] = Abstract!Owed(debt[k], cost)]
        /\ idle' = [idle EXCEPT ![k] = 0]
    BY <2>1
  <2>3. debt[k] = Debt(k)
    BY <2>1
  <2>4. Abstract!Answer(k, cost)
    BY <2>1, <2>2, <2>3 DEF Abstract!Answer
  <2> QED
    BY <2>1, <2>4 DEF Abstract!MeterNext
<1>3. ASSUME NEW k \in Keys, Evict(k), Live(k)
      PROVE  [Abstract!MeterNext]_(Abstract!meterVars)
  <2>1. /\ k \in DOMAIN cache /\ cache' = Drop(cache, k) /\ clock' = clock
        /\ answer' = answer
    BY <1>3 DEF Evict
  <2>2. /\ Debt(k)' = 0 /\ Idleness(k)' = Window
        /\ \A j \in Keys \ {k} : Debt(j)' = Debt(j) /\ Idleness(j)' = Idleness(j)
    BY <2>1, DropForgets
  <2>3. /\ debt' = [debt EXCEPT ![k] = 0]
        /\ idle' = [idle EXCEPT ![k] = Window]
    BY <2>2
  <2>4. idle[k] < Window
    <3>1. /\ Idleness(k) = clock - cache[k].accessed /\ cache[k].accessed \in Nat
          /\ clock < cache[k].accessed + Window
      BY <1>3, DebtFacts
    <3>2. clock \in Nat /\ Window \in Nat
      BY QuotaAssumption DEF IInv, TypeOK
    <3> QED
      BY <3>1, <3>2
  <2>5. ~Abstract!Roomy
    BY <1>3, EvictedForRoom
  <2>6. Abstract!Forget(k)
    BY <2>1, <2>3, <2>4, <2>5 DEF Abstract!Forget
  <2> QED
    BY <2>6 DEF Abstract!MeterNext
<1>4. CASE \/ \E t \in Threads, k \in Keys, cost \in Costs : ReadClock(t, k, cost)
           \/ \E k \in Keys : Sweep(k) \/ (Evict(k) /\ ~Live(k))
           \/ UNCHANGED vars
  <2>1. /\ \A k \in Keys : Debt(k)' = Debt(k) /\ Idleness(k)' = Idleness(k)
        /\ answer' = answer
    BY <1>4, QuietDebts
  <2>2. debt' = debt /\ idle' = idle
    BY <2>1
  <2> QED
    BY <2>1, <2>2 DEF Abstract!meterVars
<1>5. ASSUME NEW k \in Keys, Sweep(k) \/ Evict(k)
      PROVE  [Abstract!MeterNext]_(Abstract!meterVars)
  BY <1>3, <1>4, <1>5
<1> HIDE DEF debt, idle
<1> QED
  BY <1>1, <1>2, <1>4, <1>5 DEF Next

\* Caller by caller and answer by answer, the store is the eager meter: lazy
\* refill from timestamps cannot be told from debts that drain by themselves,
\* and idle expiry, sweeping and evictions only forget what the meter forgets
\* (store.rs:24-56 with bucket.rs:41-76).
THEOREM ImplementsMeterHolds ==
  ASSUME Prompt
  PROVE  Spec => ImplementsMeter
<1>1. Init => Abstract!MeterInit
  <2> SUFFICES ASSUME Init PROVE Abstract!MeterInit
    OBVIOUS
  <2>1. \A k \in Keys : Debt(k) = 0 /\ Idleness(k) = Window
    BY EmptyMap DEF Init, Debt, Idleness, Live
  <2> QED
    BY <2>1 DEF Init, Abstract!MeterInit
<1>2. IInv /\ IInv' /\ [Next]_vars => [Abstract!MeterNext]_(Abstract!meterVars)
  BY StepRefines
<1> QED
  BY <1>1, <1>2, StoreInvariant, PTL DEF Spec, ImplementsMeter, Abstract!MeterSpec

\* A call's tokens are owed from then on.
LEMMA ComputeRepaid ==
  ASSUME Prompt, IInv, IInv', Repaid, NEW t \in Threads, Compute(t)
  PROVE  Repaid'
<1> PICK k \in Keys, cost \in Costs : call[t].key = k /\ call[t].cost = cost
  BY CallFacts
<1> DEFINE d    == Debt(k)
           fits == d + cost * Token <= Capacity
<1>1. /\ Debt(k)' = Abstract!Owed(d, cost)
      /\ \A j \in Keys \ {k} : Debt(j)' = Debt(j)
      /\ ledger' = [ledger EXCEPT ![k] =
           Entered(@, ~Live(k), clock, cost, Abstract!Verdict(d, cost))]
  BY ComputeOwes
<1>2. /\ d \in 0..Capacity /\ Capacity \in Nat /\ cost \in Nat /\ Token \in Nat
  BY DebtFacts, QuotaTypes, StoreAssumption
<1>3. /\ clock' = clock /\ clock * Count \in Nat
      /\ ledger \in [Keys -> Ledgers] /\ ledger[k].admitted \in Nat
  BY QuotaTypes, MulNat DEF Compute, IInv, TypeOK, Ledgers
<1> HIDE DEF d
<1>4. /\ Abstract!Owed(d, cost) = d + (IF fits THEN cost * Token ELSE 0)
      /\ Abstract!Verdict(d, cost).allowed = fits
      /\ ledger'[k].admitted =
           ledger[k].admitted + (IF Abstract!Verdict(d, cost).allowed THEN cost ELSE 0)
      /\ \A j \in Keys \ {k} : ledger'[j] = ledger[j]
  <2>1. Abstract!Owed(d, cost) = d + (IF fits THEN cost * Token ELSE 0)
    BY <1>2, OwedFacts
  <2>2. Abstract!Verdict(d, cost).allowed = fits
    <3> DEFINE owed == Abstract!Owed(d, cost)
               wait == IF fits THEN {}
                       ELSE {SecondsToRefill(d + cost * Token - Capacity)}
    <3>1. Abstract!Verdict(d, cost) =
            [allowed |-> fits, remaining |-> (Capacity - owed) \div Token,
             time_to_full |-> SecondsToRefill(owed), retry_after |-> wait]
      BY <1>2, OwedFacts
    <3> HIDE DEF owed, wait, fits
    <3> QED
      BY <3>1
  <2>3. \A j \in Keys \ {k} : ledger'[j] = ledger[j]
    BY <1>1, <1>3
  <2>4. ledger'[k] = Entered(ledger[k], ~Live(k), clock, cost, Abstract!Verdict(d, cost))
    BY <1>1, <1>3
  <2>5. ledger'[k].admitted =
          ledger[k].admitted + (IF Abstract!Verdict(d, cost).allowed THEN cost ELSE 0)
    BY <2>4 DEF Entered
  <2> QED
    BY <2>1, <2>2, <2>3, <2>5
<1>5. ledger[k].admitted * Token <= d + clock * Count
  BY DEF Repaid, d
<1>6. ledger'[k].admitted * Token <= Debt(k)' + clock' * Count
  <2>1. CASE fits
    <3>1. /\ ledger'[k].admitted = ledger[k].admitted + cost
          /\ Debt(k)' = d + cost * Token
      BY <1>1, <1>4, <2>1
    <3>2. (ledger[k].admitted + cost) * Token = ledger[k].admitted * Token + cost * Token
      BY <1>2, <1>3, MulDistributes
    <3>3. ledger[k].admitted * Token \in Nat /\ cost * Token \in Nat
      BY <1>2, <1>3, MulNat
    <3> QED
      BY <1>2, <1>3, <1>5, <3>1, <3>2, <3>3
  <2>2. CASE ~fits
    <3>1. ledger'[k].admitted = ledger[k].admitted + 0 /\ Debt(k)' = d + 0
      BY <1>1, <1>4, <2>2, Zenon
    <3>2. ledger'[k].admitted = ledger[k].admitted /\ Debt(k)' = d
      BY <1>2, <1>3, <3>1
    <3> QED
      BY <1>3, <1>5, <3>2
  <2> QED
    BY <2>1, <2>2
<1>7. ASSUME NEW j \in Keys \ {k}
      PROVE  ledger'[j].admitted * Token <= Debt(j)' + clock' * Count
  BY <1>1, <1>3, <1>4 DEF Repaid
<1> QED
  BY <1>6, <1>7 DEF Repaid

\* Time repays no more than it adds to the allowance.
LEMMA TickRepaid ==
  ASSUME Ample, IInv, Repaid, Tick
  PROVE  Repaid'
<1> SUFFICES ASSUME NEW k \in Keys
             PROVE  ledger[k].admitted * Token <= Debt(k)' + (clock + 1) * Count
  BY DEF Repaid, Tick
<1>1. clock \in Nat /\ Count \in Nat /\ Token \in Nat /\ ledger[k].admitted \in Nat
  BY QuotaTypes DEF IInv, TypeOK, Ledgers
<1>5. /\ ledger[k].admitted * Token \in Nat /\ clock * Count \in Nat
      /\ Debt(k) \in Nat
  BY <1>1, DebtFacts, QuotaTypes, MulNat
<1>2. (clock + 1) * Count = clock * Count + Count
  BY <1>1
<1>3. Debt(k)' = SaturatingSub(Debt(k), Count)
  BY AmpleDrains
<1>4. ledger[k].admitted * Token <= Debt(k) + clock * Count
  BY DEF Repaid
<1> QED
  BY <1>1, <1>2, <1>3, <1>4, <1>5 DEF SaturatingSub

\* store.rs:39-40 is right for instantaneous calls without evictions: however
\* its calls interleave and whenever its entry is swept or expires, no key is
\* admitted more than one full bucket and the refill of the elapsed time.
THEOREM NoOverAdmissionHolds ==
  ASSUME Prompt, Ample
  PROVE  Spec => []NoOverAdmission
<1>1. Init => Repaid
  <2> SUFFICES ASSUME Init, NEW k \in Keys
               PROVE  ledger[k].admitted * Token <= Debt(k) + clock * Count
    BY DEF Repaid
  <2>1. Debt(k) = 0 /\ ledger[k].admitted = 0 /\ clock = 0
    BY EmptyMap DEF Init, Debt, Live
  <2> QED
    BY <2>1, QuotaTypes
<1>2. IInv /\ IInv' /\ Repaid /\ [Next]_vars => Repaid'
  <2> SUFFICES ASSUME IInv, IInv', Repaid, [Next]_vars PROVE Repaid'
    OBVIOUS
  <2>1. CASE Tick
    BY <2>1, TickRepaid
  <2>2. ASSUME NEW t \in Threads, Compute(t) PROVE Repaid'
    BY <2>2, ComputeRepaid
  <2>3. CASE \/ \E t \in Threads, k \in Keys, cost \in Costs : ReadClock(t, k, cost)
             \/ \E k \in Keys : Sweep(k) \/ Evict(k)
             \/ UNCHANGED vars
    <3>1. \A k \in Keys : ~Evict(k)
      BY EvictedForRoom DEF Ample
    <3>2. \/ \E t \in Threads, k \in Keys, cost \in Costs : ReadClock(t, k, cost)
          \/ \E k \in Keys : Sweep(k) \/ (Evict(k) /\ ~Live(k))
          \/ UNCHANGED vars
      BY <2>3, <3>1
    <3>3. (\A k \in Keys : Debt(k)' = Debt(k)) /\ UNCHANGED <<clock, ledger>>
      BY <3>2, QuietDebts
    <3> QED
      BY <3>3 DEF Repaid
  <2> QED
    BY <2>1, <2>2, <2>3 DEF Next
<1>3. IInv /\ Repaid => NoOverAdmission
  <2> SUFFICES ASSUME IInv, Repaid, NEW k \in Keys
               PROVE  ledger[k].admitted * Token <= Capacity + clock * Count
    BY DEF NoOverAdmission
  <2>1. /\ Debt(k) \in 0..Capacity /\ Capacity \in Nat
        /\ ledger[k].admitted * Token \in Nat /\ clock * Count \in Nat
    BY DebtFacts, QuotaTypes, MulNat DEF IInv, TypeOK, Ledgers
  <2>2. ledger[k].admitted * Token <= Debt(k) + clock * Count
    BY DEF Repaid
  <2> QED
    BY <2>1, <2>2
<1> QED
  BY <1>1, <1>2, <1>3, StoreInvariant, PTL DEF Spec
=============================================================================
