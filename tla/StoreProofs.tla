---------------------------- MODULE StoreProofs ----------------------------
(***************************************************************************)
(* Theorems about Store.tla: for every quota, any keys, threads and costs,   *)
(* any cache capacity, any stall and any clock bound.                       *)
(*                                                                          *)
(* AdmissionLaw is not inductive: it does not mention what a bucket holds,  *)
(* and it is what a bucket holds that the next call may admit.  IInv adds   *)
(* it (Conservation), ties every cached bucket's stamp to the last call     *)
(* computed (Stamped), and bounds how far behind the clock the instant of   *)
(* an unfinished call may be (Recent).                                      *)
(*                                                                          *)
(* PromiseKept: whatever denied calls do to a bucket before the promised    *)
(* instant, with instants in any order, the level it would reach by then    *)
(* never falls (Kept is preserved by Refill), and a fresh bucket has it all.*)
(***************************************************************************)
EXTENDS Store, BucketLemmas

-----------------------------------------------------------------------------
(* The inductive invariant.                                                 *)

\* The instant of a call in progress is at most MaxStall behind the clock.
Recent == \A t \in DOMAIN call : /\ call[t].now <= clock
                                 /\ clock <= call[t].now + MaxStall

\* No bucket was stamped in the future, every cached bucket bears the stamp of
\* its key's last call and was last accessed no earlier than that.
Stamped ==
  /\ \A k \in Keys : ledger[k].stamp <= clock
  /\ \A k \in DOMAIN cache : /\ cache[k].bucket.last_update = ledger[k].stamp
                             /\ cache[k].bucket.last_update <= cache[k].accessed
                             /\ cache[k].accessed <= clock

\* The tokens cached for a key, in parts.
Held(k) == IF k \in DOMAIN cache THEN cache[k].bucket.tokens ELSE 0

\* What key k's ledger has been credited: a capacity for each birth, and the
\* refill of the time up to its last call, the intervals counted twice included.
Credited(l) == l.births * Capacity + (l.stamp + MaxStall * l.rewinds) * Count

Conservation ==
  \A k \in Keys : ledger[k].admitted * Token + Held(k) <= Credited(ledger[k])

IInv == TypeOK /\ Recent /\ Stamped /\ Conservation

-----------------------------------------------------------------------------
(* What Compute does to the bookkeeping of its key.                         *)

\* The bucket a call works on is a bucket, and a fresh one unless it was live.
LEMMA FoundFacts ==
  ASSUME TypeOK, NEW k \in Keys, NEW now \in Nat
  PROVE  /\ Found(k, now) \in Buckets
         /\ Live(k) => k \in DOMAIN cache /\ Found(k, now) = cache[k].bucket
         /\ ~Live(k) => Found(k, now) = NewBucket(now)
  BY NewBucketFacts DEF TypeOK, Found, Live, Entries

\* A ledger stays a ledger.
LEMMA EnteredType ==
  ASSUME NEW l \in Ledgers, NEW born \in BOOLEAN, NEW now \in Nat,
         NEW cost \in Costs, NEW decision \in Decisions
  PROVE  Entered(l, born, now, cost, decision) \in Ledgers
<1>1. cost \in Nat
  BY StoreAssumption
<1>2. /\ l.admitted \in Nat /\ l.births \in Nat /\ l.rewinds \in Nat
      /\ l.promise \in SUBSET [at : Nat, cost : Costs]
  BY DEF Ledgers
<1>3. decision.allowed \in BOOLEAN /\ decision.retry_after \in SUBSET Nat
  BY DEF Decisions
<1>4. {[at |-> now + wait + 1, cost |-> cost] : wait \in decision.retry_after}
        \in SUBSET [at : Nat, cost : Costs]
  BY <1>3
<1>5. (IF decision.allowed THEN {}
       ELSE l.promise \cup {[at |-> now + wait + 1, cost |-> cost] :
                              wait \in decision.retry_after})
        \in SUBSET [at : Nat, cost : Costs]
  BY <1>2, <1>4
<1>6. l.admitted + (IF decision.allowed THEN cost ELSE 0) \in Nat
  BY <1>1, <1>2
<1>7. /\ l.births + (IF born THEN 1 ELSE 0) \in Nat
      /\ l.rewinds + (IF now < l.stamp THEN 1 ELSE 0) \in Nat
  BY <1>2
<1> QED
  BY <1>5, <1>6, <1>7 DEF Entered, Ledgers

\* A ledger's credit is a natural number.
LEMMA CreditedNat == ASSUME NEW l \in Ledgers PROVE Credited(l) \in Nat
<1>1. l.births \in Nat /\ l.stamp \in Nat /\ l.rewinds \in Nat
  BY DEF Ledgers
<1>2. MaxStall \in Nat /\ Count \in Nat /\ Capacity \in Nat
  BY StoreAssumption, QuotaTypes
<1>3. l.births * Capacity \in Nat /\ MaxStall * l.rewinds \in Nat
  BY <1>1, <1>2, MulNat
<1>4. (l.stamp + MaxStall * l.rewinds) * Count \in Nat
  BY <1>1, <1>2, <1>3, MulNat
<1> QED
  BY <1>3, <1>4 DEF Credited

\* The credit of the time between two calls, in order or not, is accounted for.
LEMMA CreditGrows ==
  ASSUME NEW stamp \in Nat, NEW now \in Nat, NEW r \in Nat, NEW rr \in Nat,
         stamp <= now + MaxStall,
         rr = r + (IF now < stamp THEN 1 ELSE 0)
  PROVE  (stamp + MaxStall * r) * Count + SaturatingSub(now, stamp) * Count
           <= (now + MaxStall * rr) * Count
<1>1. MaxStall \in Nat /\ Count \in Nat
  BY StoreAssumption, QuotaTypes
<1>2. MaxStall * r \in Nat /\ MaxStall * rr \in Nat
  BY <1>1, MulNat
<1>3. SaturatingSub(now, stamp) \in Nat
  BY DEF SaturatingSub
<1>4. stamp + MaxStall * r + SaturatingSub(now, stamp) <= now + MaxStall * rr
  <2>1. CASE now < stamp
    <3>1. rr = r + 1
      BY <2>1
    <3>2. MaxStall * rr = MaxStall * r + MaxStall
      BY <1>1, <3>1
    <3> QED
      BY <1>1, <1>2, <2>1, <3>2 DEF SaturatingSub
  <2>2. CASE ~(now < stamp)
    <3>1. rr = r
      BY <2>2
    <3> QED
      BY <1>1, <1>2, <2>2, <3>1 DEF SaturatingSub
  <2> QED
    BY <2>1, <2>2
<1>5. (stamp + MaxStall * r + SaturatingSub(now, stamp)) * Count
        <= (now + MaxStall * rr) * Count
  BY <1>1, <1>2, <1>3, <1>4, MulMonotone
<1>6. (stamp + MaxStall * r + SaturatingSub(now, stamp)) * Count
        = (stamp + MaxStall * r) * Count + SaturatingSub(now, stamp) * Count
  BY <1>1, <1>2, <1>3, MulDistributes
<1> QED
  BY <1>5, <1>6

-----------------------------------------------------------------------------
(* IInv is inductive: one lemma per action.                                 *)

\* At first nothing is cached, called or admitted.
LEMMA InitIInv == Init => IInv
<1> SUFFICES ASSUME Init PROVE IInv
  OBVIOUS
<1> USE DEF Init
<1>1. DOMAIN cache = {} /\ DOMAIN call = {}
  BY EmptyMap
<1>2. TypeOK
  <2>1. \A k \in Keys : ledger[k] \in Ledgers
    BY DEF Ledgers
  <2>2. ledger \in [Keys -> Ledgers]
    BY <2>1
  <2>3. cache \in [DOMAIN cache -> Entries] /\ call \in [DOMAIN call -> Requests]
    BY EmptyMap
  <2> QED
    BY <1>1, <2>2, <2>3 DEF TypeOK
<1>3. Recent /\ Stamped
  BY <1>1 DEF Recent, Stamped
<1>4. Conservation
  <2> SUFFICES ASSUME NEW k \in Keys
               PROVE  ledger[k].admitted * Token + Held(k) <= Credited(ledger[k])
    BY DEF Conservation
  <2>1. Held(k) = 0
    BY <1>1 DEF Held
  <2>2. /\ ledger[k].admitted = 0 /\ ledger[k].births = 0
        /\ ledger[k].stamp = 0 /\ ledger[k].rewinds = 0
    OBVIOUS
  <2> QED
    BY <2>1, <2>2, QuotaTypes, StoreAssumption DEF Credited
<1> QED
  BY <1>2, <1>3, <1>4 DEF IInv

\* Time, and an idle call, move neither buckets nor ledgers.
LEMMA TickIInv == IInv /\ Tick => IInv'
<1> SUFFICES ASSUME IInv, Tick PROVE IInv'
  OBVIOUS
<1> USE DEF IInv, Tick
<1>1. clock \in Nat /\ clock' = clock + 1
  BY DEF TypeOK
<1>2. TypeOK'
  BY DEF TypeOK
<1>3. Recent'
  <2> SUFFICES ASSUME NEW t \in DOMAIN call
               PROVE  call[t].now <= clock' /\ clock' <= call[t].now + MaxStall
    BY DEF Recent
  <2>1. call[t].now \in Nat /\ call[t].now <= clock /\ clock - call[t].now < MaxStall
    BY DEF Recent, TypeOK, Requests
  <2> QED
    BY <1>1, <2>1, StoreAssumption
<1>4. Stamped'
  <2>1. \A k \in Keys : ledger[k].stamp \in Nat
    BY DEF TypeOK, Ledgers
  <2>2. \A k \in DOMAIN cache : cache[k].accessed \in Nat
    BY DEF TypeOK, Entries
  <2> QED
    BY <1>1, <2>1, <2>2 DEF Stamped
<1>5. Conservation'
  BY DEF Conservation, Held, Credited
<1> QED
  BY <1>2, <1>3, <1>4, <1>5

\* A call that starts has the present instant.
LEMMA ReadClockIInv ==
  ASSUME IInv, NEW t \in Threads, NEW k \in Keys, NEW cost \in Costs,
         ReadClock(t, k, cost)
  PROVE  IInv'
<1> USE DEF IInv, ReadClock
<1> DEFINE request == [key |-> k, cost |-> cost, now |-> clock]
<1>1. request \in Requests
  BY DEF TypeOK, Requests
<1>2. /\ DOMAIN call' = DOMAIN call \cup {t}
      /\ call' \in [DOMAIN call' -> Requests]
      /\ call'[t] = request
      /\ \A u \in DOMAIN call \ {t} : call'[u] = call[u]
  <2>1. call \in [DOMAIN call -> Requests]
    BY DEF TypeOK
  <2>2. call' = Assign(call, t, request)
    OBVIOUS
  <2> HIDE DEF request, ReadClock
  <2>3. /\ DOMAIN Assign(call, t, request) = DOMAIN call \cup {t}
        /\ Assign(call, t, request) \in [DOMAIN call \cup {t} -> Requests]
        /\ Assign(call, t, request)[t] = request
        /\ \A u \in DOMAIN call \ {t} : Assign(call, t, request)[u] = call[u]
    BY <1>1, <2>1 DEF Assign
  <2> QED
    BY <2>2, <2>3
<1>3. TypeOK'
  BY <1>2 DEF TypeOK
<1>4. Recent'
  <2>1. call'[t].now = clock /\ clock \in Nat /\ MaxStall \in Nat
    BY <1>2, StoreAssumption DEF TypeOK
  <2> QED
    BY <1>2, <2>1 DEF Recent
<1>5. Stamped' /\ Conservation'
  BY DEF Stamped, Conservation, Held, Credited
<1> QED
  BY <1>3, <1>4, <1>5

\* Dropping an entry only forgets what it held.
LEMMA DropIInv ==
  ASSUME IInv, NEW k \in DOMAIN cache, cache' = Drop(cache, k),
         UNCHANGED <<clock, call, answer, ledger>>
  PROVE  IInv'
<1> USE DEF IInv
<1>1. /\ DOMAIN cache' = DOMAIN cache \ {k}
      /\ cache' \in [DOMAIN cache' -> Entries]
      /\ \A j \in DOMAIN cache \ {k} : cache'[j] = cache[j]
  <2>1. cache \in [DOMAIN cache -> Entries]
    BY DEF TypeOK
  <2> QED
    BY <2>1, DropFacts
<1>2. TypeOK'
  BY <1>1 DEF TypeOK
<1>3. Recent' /\ Stamped'
  BY <1>1 DEF Recent, Stamped
<1>4. Conservation'
  <2> SUFFICES ASSUME NEW j \in Keys
               PROVE  ledger[j].admitted * Token + Held(j)' <= Credited(ledger[j])
    BY DEF Conservation, Credited
  <2>1. /\ ledger[j].admitted * Token + Held(j) <= Credited(ledger[j])
    BY DEF Conservation
  <2>2. Held(j) \in Nat /\ Held(j)' \in Nat /\ Held(j)' <= Held(j)
    BY <1>1, QuotaTypes DEF Held, TypeOK, Entries, Buckets
  <2>3. ledger[j].admitted * Token \in Nat
    BY QuotaTypes, MulNat DEF TypeOK, Ledgers
  <2>4. Credited(ledger[j]) \in Nat
    BY CreditedNat DEF TypeOK
  <2> QED
    BY <2>1, <2>2, <2>3, <2>4
<1> QED
  BY <1>2, <1>3, <1>4

\* The one step that matters: what a call admits, and what it leaves in the
\* bucket, is paid for by the credit its ledger gains.
LEMMA ComputeConserves ==
  ASSUME TypeOK, Stamped, Conservation,
         NEW k \in Keys, NEW now \in Nat, NEW cost \in Costs,
         clock <= now + MaxStall
  PROVE  LET out == TryConsume(Found(k, now), now, cost)
             l   == Entered(ledger[k], ~Live(k), now, cost, out.decision)
         IN  l.admitted * Token + out.bucket.tokens <= Credited(l)
<1> DEFINE found == Found(k, now)
           out   == TryConsume(found, now, cost)
           l     == ledger[k]
           ll    == Entered(l, ~Live(k), now, cost, out.decision)
           paid  == IF out.decision.allowed THEN cost * Token ELSE 0
           gain  == SaturatingSub(now, l.stamp) * Count
           old   == (l.stamp + MaxStall * l.rewinds) * Count
           new   == (now + MaxStall * ll.rewinds) * Count
<1>1. /\ cost \in Nat /\ MaxStall \in Nat /\ clock \in Nat
      /\ Count \in Nat /\ Capacity \in Nat /\ Token \in Nat
  BY StoreAssumption, QuotaTypes DEF TypeOK
<1>2. /\ l \in Ledgers /\ l.admitted \in Nat /\ l.births \in Nat
      /\ l.stamp \in Nat /\ l.rewinds \in Nat
  BY DEF TypeOK, Ledgers
<1>3. found \in Buckets /\ found.tokens \in Nat
  BY FoundFacts, QuotaTypes DEF Buckets
<1>4. /\ out.bucket \in Buckets
      /\ out.bucket.tokens + paid
           <= found.tokens + SaturatingSub(now, found.last_update) * Count
  <2> HIDE DEF found
  <2> QED
    BY <1>1, <1>3, TryConsumeFacts
<1>5. /\ ll.admitted = l.admitted + (IF out.decision.allowed THEN cost ELSE 0)
      /\ ll.births = l.births + (IF ~Live(k) THEN 1 ELSE 0)
      /\ ll.stamp = now
      /\ ll.rewinds = l.rewinds + (IF now < l.stamp THEN 1 ELSE 0)
  BY DEF Entered
<1>6. out.bucket.tokens \in Nat
  BY <1>4, <1>1 DEF Buckets
<1>7. ll.admitted * Token = l.admitted * Token + paid
  <2> HIDE DEF out
  <2>1. (l.admitted + cost) * Token = l.admitted * Token + cost * Token
    BY <1>1, <1>2, MulDistributes
  <2> QED
    BY <1>1, <1>2, <1>5, <2>1
<1>8. old + gain <= new
  <2>1. l.stamp <= now + MaxStall
    BY <1>1, <1>2 DEF Stamped
  <2>2. ll.rewinds \in Nat
    BY <1>2, <1>5
  <2> QED
    BY <1>2, <1>5, <2>1, <2>2, CreditGrows
<1>9. /\ l.admitted * Token + Held(k) <= l.births * Capacity + old
      /\ Credited(ll) = ll.births * Capacity + new
  <2>1. l.admitted * Token + Held(k) <= Credited(l)
    BY DEF Conservation
  <2>2. Credited(ll) = ll.births * Capacity + (ll.stamp + MaxStall * ll.rewinds) * Count
    BY DEF Credited
  <2> QED
    BY <1>5, <2>1, <2>2 DEF Credited
<1>10. /\ l.admitted * Token \in Nat /\ paid \in Nat /\ gain \in Nat /\ old \in Nat
       /\ new \in Nat /\ l.births * Capacity \in Nat
  <2>1. MaxStall * l.rewinds \in Nat /\ MaxStall * ll.rewinds \in Nat
    BY <1>1, <1>2, <1>5, MulNat
  <2>2. SaturatingSub(now, l.stamp) \in Nat
    BY <1>2 DEF SaturatingSub
  <2> QED
    BY <1>1, <1>2, <2>1, <2>2, MulNat
<1> HIDE DEF found, out, l, ll, gain, old, new, paid
<1>11. CASE Live(k)
  <2>1. found = cache[k].bucket /\ k \in DOMAIN cache
    BY <1>11, FoundFacts DEF found
  <2>2. Held(k) = found.tokens
    BY <2>1 DEF Held
  <2>3. found.last_update = l.stamp
    BY <2>1 DEF Stamped, l
  <2>4. out.bucket.tokens + paid <= Held(k) + gain
    BY <1>4, <2>2, <2>3 DEF gain
  <2>5. ll.births = l.births
    BY <1>2, <1>5, <1>11
  <2>6. Held(k) \in Nat
    BY <1>3, <2>2
  <2>7. ll.admitted * Token + out.bucket.tokens <= ll.births * Capacity + new
    BY <1>6, <1>7, <1>8, <1>9, <1>10, <2>4, <2>5, <2>6
  <2> QED
    BY <1>9, <2>7 DEF out, ll, found, l
<1>12. CASE ~Live(k)
  <2>1. found.tokens = Capacity /\ found.last_update = now
    BY <1>12, FoundFacts, NewBucketFacts DEF found
  <2>2. SaturatingSub(now, found.last_update) * Count = 0
    BY <1>1, <2>1 DEF SaturatingSub
  <2>3. out.bucket.tokens + paid <= Capacity
    BY <1>1, <1>4, <2>1, <2>2
  <2>4. ll.births * Capacity = l.births * Capacity + Capacity
    <3>1. ll.births = l.births + 1
      BY <1>5, <1>12
    <3>2. (l.births + 1) * Capacity = l.births * Capacity + 1 * Capacity
      BY <1>1, <1>2, MulDistributes
    <3> QED
      BY <1>1, <3>1, <3>2
  <2>5. Held(k) \in Nat
    BY <1>1 DEF Held, TypeOK, Entries, Buckets
  <2>6. ll.admitted * Token + out.bucket.tokens <= ll.births * Capacity + new
    BY <1>1, <1>6, <1>7, <1>8, <1>9, <1>10, <2>3, <2>4, <2>5
  <2> QED
    BY <1>9, <2>6 DEF out, ll, found, l
<1> QED
  BY <1>11, <1>12

\* A computed call keeps the invariant, whatever its instant.
LEMMA ComputeIInv ==
  ASSUME IInv, NEW t \in Threads, Compute(t)
  PROVE  IInv'
<1> DEFINE k     == call[t].key
           now   == call[t].now
           cost  == call[t].cost
           out   == TryConsume(Found(k, now), now, cost)
           entry == [bucket |-> out.bucket, accessed |-> clock]
           l     == Entered(ledger[k], ~Live(k), now, cost, out.decision)
<1>1. /\ TypeOK /\ Recent /\ Stamped /\ Conservation
      /\ clock \in Nat
      /\ t \in DOMAIN call
  BY DEF IInv, TypeOK, Compute
<1>2. /\ cache' = Assign(cache, k, entry)
      /\ answer' = <<k, out.decision>>
      /\ ledger' = [ledger EXCEPT ![k] = l]
      /\ call' = Drop(call, t)
      /\ clock' = clock
  BY DEF Compute, Stored
<1>3. /\ call[t] \in Requests /\ k \in Keys /\ now \in Nat /\ cost \in Costs
      /\ cost \in Nat /\ now <= clock /\ clock <= now + MaxStall
  BY <1>1, StoreAssumption DEF TypeOK, Requests, Recent
<1>4. /\ out.bucket \in Buckets
      /\ out.bucket.last_update = now
      /\ out.decision \in Decisions
  <2>1. Found(k, now) \in Buckets
    BY <1>1, <1>3, FoundFacts
  <2> QED
    BY <1>3, <2>1, TryConsumeFacts
<1>5. l \in Ledgers /\ l.stamp = now
  <2>1. ledger[k] \in Ledgers /\ (~Live(k)) \in BOOLEAN
    BY <1>1, <1>3 DEF TypeOK, Live
  <2>2. l.stamp = now
    BY DEF Entered
  <2> QED
    BY <1>3, <1>4, <2>1, <2>2, EnteredType
<1>6. l.admitted * Token + out.bucket.tokens <= Credited(l)
  BY <1>1, <1>3, ComputeConserves
<1> HIDE DEF k, now, cost, out, l
<1>7. entry \in Entries /\ entry.bucket.last_update = now /\ entry.accessed = clock
      /\ entry.bucket.tokens = out.bucket.tokens
  BY <1>1, <1>4 DEF Entries
<1> HIDE DEF entry
<1>8. /\ DOMAIN cache' = DOMAIN cache \cup {k}
      /\ cache' \in [DOMAIN cache' -> Entries]
      /\ cache'[k] = entry
      /\ \A j \in DOMAIN cache \ {k} : cache'[j] = cache[j]
  <2>1. cache \in [DOMAIN cache -> Entries]
    BY <1>1 DEF TypeOK
  <2>2. /\ DOMAIN Assign(cache, k, entry) = DOMAIN cache \cup {k}
        /\ Assign(cache, k, entry) \in [DOMAIN cache \cup {k} -> Entries]
        /\ Assign(cache, k, entry)[k] = entry
        /\ \A j \in DOMAIN cache \ {k} : Assign(cache, k, entry)[j] = cache[j]
    BY <1>7, <2>1 DEF Assign
  <2> QED
    BY <1>2, <2>2
<1>9. /\ DOMAIN call' = DOMAIN call \ {t}
      /\ call' \in [DOMAIN call' -> Requests]
      /\ \A u \in DOMAIN call \ {t} : call'[u] = call[u]
  <2>1. call \in [DOMAIN call -> Requests]
    BY <1>1 DEF TypeOK
  <2> QED
    BY <1>2, <2>1, DropFacts
<1>10. /\ ledger' \in [Keys -> Ledgers]
       /\ ledger'[k] = l
       /\ \A j \in Keys \ {k} : ledger'[j] = ledger[j]
  BY <1>1, <1>2, <1>3, <1>5 DEF TypeOK
<1>11. TypeOK'
  <2>1. answer' \in Keys \X Decisions
    BY <1>2, <1>3, <1>4
  <2> QED
    BY <1>1, <1>2, <1>3, <1>8, <1>9, <1>10, <2>1 DEF TypeOK
<1>12. Recent'
  BY <1>1, <1>2, <1>9 DEF Recent
<1>13. Stamped'
  BY <1>1, <1>2, <1>3, <1>5, <1>7, <1>8, <1>10 DEF Stamped, TypeOK
<1>14. Conservation'
  <2> SUFFICES ASSUME NEW j \in Keys
               PROVE  ledger'[j].admitted * Token + Held(j)' <= Credited(ledger'[j])
    BY DEF Conservation, Credited
  <2>1. CASE j = k
    <3>1. Held(j)' = out.bucket.tokens
      BY <1>7, <1>8, <2>1 DEF Held
    <3> QED
      BY <1>6, <1>10, <2>1, <3>1
  <2>2. CASE j # k
    <3>1. Held(j)' = Held(j)
      BY <1>8, <2>2 DEF Held
    <3> QED
      BY <1>1, <1>10, <2>2, <3>1 DEF Conservation
  <2> QED
    BY <2>1, <2>2
<1> QED
  BY <1>11, <1>12, <1>13, <1>14 DEF IInv

\* The invariant of the store, whatever its threads, its expiry and its
\* evictions do.
THEOREM StoreInvariant == Spec => []IInv
<1>1. Init => IInv
  BY InitIInv
<1>2. IInv /\ [Next]_vars => IInv'
  <2> SUFFICES ASSUME IInv, [Next]_vars PROVE IInv'
    OBVIOUS
  <2>1. CASE Tick
    BY <2>1, TickIInv
  <2>2. ASSUME NEW t \in Threads, NEW k \in Keys, NEW cost \in Costs,
               ReadClock(t, k, cost)
        PROVE  IInv'
    BY <2>2, ReadClockIInv
  <2>3. ASSUME NEW t \in Threads, Compute(t) PROVE IInv'
    BY <2>3, ComputeIInv
  <2>4. ASSUME NEW k \in Keys, Sweep(k) \/ Evict(k) PROVE IInv'
    BY <2>4, DropIInv DEF Sweep, Evict
  <2>5. CASE UNCHANGED vars
    BY <2>5 DEF vars, IInv, TypeOK, Recent, Stamped, Conservation, Held, Credited
  <2> QED
    BY <2>1, <2>2, <2>3, <2>4, <2>5 DEF Next
<1> QED
  BY <1>1, <1>2, PTL DEF Spec

-----------------------------------------------------------------------------
(* The theorems.                                                            *)

\* The store's state is well typed: in particular a level never leaves
\* 0..Capacity, whatever instants racing calls compute with (bucket.rs:48-55).
THEOREM TypeCorrect == Spec => []TypeOK
<1>1. IInv => TypeOK
  BY DEF IInv
<1> QED
  BY <1>1, StoreInvariant, PTL

\* Racing calls, expiry and eviction included, a key is never admitted more
\* than one capacity per bucket built for it and the refill of the elapsed
\* time, but for MaxStall ticks' refill per computation out of clock order
\* (store.rs:41-55 with bucket.rs:45-55).
THEOREM AdmissionLawHolds == Spec => []AdmissionLaw
<1>1. IInv => AdmissionLaw
  <2> SUFFICES ASSUME IInv, NEW k \in Keys
               PROVE  ledger[k].admitted * Token <=
                        ledger[k].births * Capacity
                          + (clock + MaxStall * ledger[k].rewinds) * Count
    BY DEF AdmissionLaw
  <2> DEFINE l == ledger[k]
  <2>1. /\ l.admitted \in Nat /\ l.births \in Nat /\ l.stamp \in Nat /\ l.rewinds \in Nat
        /\ clock \in Nat /\ MaxStall \in Nat /\ Count \in Nat
        /\ Capacity \in Nat /\ Token \in Nat
    BY StoreAssumption, QuotaTypes DEF IInv, TypeOK, Ledgers
  <2>2. l.stamp <= clock
    BY DEF IInv, Stamped
  <2>3. l.admitted * Token + Held(k) <= l.births * Capacity + (l.stamp + MaxStall * l.rewinds) * Count
    BY DEF IInv, Conservation, Credited
  <2>4. Held(k) \in Nat
    BY <2>1 DEF Held, IInv, TypeOK, Entries, Buckets
  <2>5. MaxStall * l.rewinds \in Nat
    BY <2>1, MulNat
  <2>6. (l.stamp + MaxStall * l.rewinds) * Count <= (clock + MaxStall * l.rewinds) * Count
    BY <2>1, <2>2, <2>5, MulMonotone
  <2>7. /\ l.admitted * Token \in Nat /\ l.births * Capacity \in Nat
        /\ (l.stamp + MaxStall * l.rewinds) * Count \in Nat
        /\ (clock + MaxStall * l.rewinds) * Count \in Nat
    BY <2>1, <2>5, MulNat
  <2> HIDE DEF l
  <2>8. l.admitted * Token <= l.births * Capacity + (clock + MaxStall * l.rewinds) * Count
    BY <2>3, <2>4, <2>6, <2>7
  <2> QED
    BY <2>8 DEF l
<1> QED
  BY <1>1, StoreInvariant, PTL

\* store.rs:26-27 is right for every quota whose burst is within its count: an
\* entry that moka may drop for having idled one window is full by then.
THEOREM IdleIsFullHolds ==
  ASSUME Burst <= Count
  PROVE  Spec => []IdleIsFull
<1>1. IInv => IdleIsFull
  <2> SUFFICES ASSUME IInv, NEW k \in DOMAIN cache, Idle(cache[k])
               PROVE  Refill(cache[k].bucket, clock).tokens = Capacity
    BY DEF IdleIsFull
  <2> DEFINE b == cache[k].bucket
             away == SaturatingSub(clock, b.last_update)
  <2>1. /\ b \in Buckets /\ b.tokens \in 0..Capacity /\ b.last_update \in Nat
        /\ clock \in Nat /\ cache[k].accessed \in Nat
    BY DEF IInv, TypeOK, Entries, Buckets
  <2>2. b.last_update <= cache[k].accessed
    BY DEF IInv, Stamped
  <2>3. away \in Nat /\ Window <= away
    BY <2>1, <2>2, QuotaAssumption DEF Idle, SaturatingSub
  <2>4. Window * Count <= away * Count
    BY <2>3, QuotaAssumption, MulMonotone
  <2>5. Burst * Window <= Count * Window
    BY QuotaAssumption, MulMonotone
  <2>6. Window * Count = Count * Window
    BY QuotaAssumption
  <2>7. Window * Count \in Nat /\ Burst * Window \in Nat /\ away * Count \in Nat
    BY <2>3, QuotaAssumption, MulNat
  <2>8. Capacity <= away * Count
    BY <2>4, <2>5, <2>6, <2>7 DEF Capacity, Token
  <2>9. Refill(b, clock).tokens = Earlier(b.tokens + away * Count, Capacity)
    BY DEF Refill
  <2> HIDE DEF b, away
  <2>10. Earlier(b.tokens + away * Count, Capacity) = Capacity
    BY <2>1, <2>7, <2>8, QuotaTypes DEF Earlier
  <2> QED
    BY <2>9, <2>10 DEF b
<1> QED
  BY <1>1, StoreInvariant, PTL

-----------------------------------------------------------------------------
(* Promises to retry.                                                       *)

\* Refilled at the instant promised, b would hold what p promised.
Kept(b, p) ==
  p.cost * Token <=
    Earlier(b.tokens + SaturatingSub(p.at, b.last_update) * Count, Capacity)

\* Every outstanding promise is kept by what is cached for its key.
PromisesKept ==
  \A k \in DOMAIN cache : \A p \in ledger[k].promise : Kept(cache[k].bucket, p)

Promises == [at : Nat, cost : Costs]

-----------------------------------------------------------------------------
(* A bucket and a promise.                                                  *)

\* Rounding to the nearest tick falls short by less than one tick's refill.
LEMMA NearestCovers ==
  ASSUME NEW n \in Nat, NEW d \in Nat \ {0}
  PROVE  n <= (Nearest(n, d) + 1) * d
<1> DEFINE q == n \div d
<1>1. q \in Nat /\ n % d \in 0..(d - 1) /\ n = (d * q) + (n % d)
  OBVIOUS
<1>2. Nearest(n, d) \in Nat /\ q <= Nearest(n, d)
  BY <1>1, NearestNat DEF Nearest
<1>3. (q + 1) * d = q * d + d /\ q * d = d * q
  BY <1>1
<1>4. (q + 1) * d <= (Nearest(n, d) + 1) * d
  BY <1>1, <1>2, MulMonotone
<1>5. q * d \in Nat /\ (Nearest(n, d) + 1) * d \in Nat
  BY <1>1, <1>2, MulNat
<1> HIDE DEF q
<1> QED
  BY <1>1, <1>3, <1>4, <1>5

\* A fresh bucket keeps any promise a full bucket can pay.
LEMMA NewBucketKeeps ==
  ASSUME NEW now \in Nat, NEW p \in Promises, p.cost <= Burst
  PROVE  Kept(NewBucket(now), p)
<1>1. /\ p.cost \in Nat /\ Burst \in Nat /\ Token \in Nat /\ Capacity \in Nat /\ Count \in Nat
      /\ p.at \in Nat
  BY QuotaTypes, QuotaAssumption, StoreAssumption DEF Promises
<1>2. p.cost * Token <= Capacity /\ p.cost * Token \in Nat
  BY <1>1, MulMonotone, MulNat DEF Capacity
<1>3. NewBucket(now).tokens = Capacity /\ NewBucket(now).last_update = now
  BY NewBucketFacts
<1>4. SaturatingSub(p.at, now) * Count \in Nat
  <2>1. SaturatingSub(p.at, now) \in Nat
    BY <1>1 DEF SaturatingSub
  <2> QED
    BY <1>1, <2>1, MulNat
<1> QED
  BY <1>1, <1>2, <1>3, <1>4 DEF Kept, Earlier

\* A refill, at whatever instant, takes nothing from what a promise counts on.
LEMMA RefillKeeps ==
  ASSUME NEW b \in Buckets, NEW now \in Nat, NEW p \in Promises, Kept(b, p)
  PROVE  Kept(Refill(b, now), p)
<1> DEFINE a == SaturatingSub(now, b.last_update)
           r == SaturatingSub(p.at, now)
           w == SaturatingSub(p.at, b.last_update)
<1>1. /\ p.at \in Nat /\ p.cost \in Nat /\ b.tokens \in Nat /\ b.tokens <= Capacity
      /\ b.last_update \in Nat /\ Count \in Nat /\ Capacity \in Nat /\ Token \in Nat
  <2>1. p.at \in Nat /\ p.cost \in Costs
    BY DEF Promises
  <2>2. b.tokens \in 0..Capacity /\ b.last_update \in Nat
    BY DEF Buckets
  <2>3. p.cost \in Nat
    BY <2>1, StoreAssumption
  <2>4. b.tokens \in Nat /\ b.tokens <= Capacity
    BY <2>2, QuotaTypes
  <2> QED
    BY <2>1, <2>2, <2>3, <2>4, QuotaTypes, StoreAssumption
<1>2. a \in Nat /\ r \in Nat /\ w \in Nat /\ w <= a + r
  BY <1>1 DEF SaturatingSub
<1>3. Refill(b, now).tokens = Earlier(b.tokens + a * Count, Capacity)
      /\ Refill(b, now).last_update = now
  BY DEF Refill
<1>4. p.cost * Token <= Earlier(b.tokens + w * Count, Capacity)
  BY DEF Kept
<1>5. Kept(Refill(b, now), p) <=>
        p.cost * Token <= Earlier(Earlier(b.tokens + a * Count, Capacity) + r * Count, Capacity)
  BY <1>3 DEF Kept
<1> HIDE DEF a, r, w
<1>6. w * Count <= a * Count + r * Count
  <2>1. w * Count <= (a + r) * Count
    BY <1>1, <1>2, MulMonotone
  <2>2. (a + r) * Count = a * Count + r * Count
    BY <1>1, <1>2, MulDistributes
  <2> QED
    BY <2>1, <2>2
<1>7. a * Count \in Nat /\ r * Count \in Nat /\ w * Count \in Nat /\ p.cost * Token \in Nat
  BY <1>1, <1>2, MulNat
<1>8. p.cost * Token <= Earlier(Earlier(b.tokens + a * Count, Capacity) + r * Count, Capacity)
  BY <1>1, <1>4, <1>6, <1>7 DEF Earlier
<1> QED
  BY <1>5, <1>8

\* Once the promised instant has come, a promise that is kept is honoured.
LEMMA KeptAdmits ==
  ASSUME NEW b \in Buckets, NEW now \in Nat, NEW p \in Promises, NEW cost \in Costs,
         Kept(b, p), now >= p.at, cost <= p.cost
  PROVE  Admits(Refill(b, now), cost)
<1>1. /\ p.at \in Nat /\ p.cost \in Nat /\ cost \in Nat /\ b.tokens \in Nat
      /\ b.last_update \in Nat /\ Count \in Nat /\ Capacity \in Nat /\ Token \in Nat
  <2>1. p.at \in Nat /\ p.cost \in Costs
    BY DEF Promises
  <2>2. b.tokens \in 0..Capacity /\ b.last_update \in Nat
    BY DEF Buckets
  <2>3. p.cost \in Nat
    BY <2>1, StoreAssumption
  <2>4. b.tokens \in Nat /\ b.tokens <= Capacity
    BY <2>2, QuotaTypes
  <2> QED
    BY <2>1, <2>2, <2>3, <2>4, QuotaTypes, StoreAssumption
<1> DEFINE a == SaturatingSub(now, b.last_update)
           w == SaturatingSub(p.at, b.last_update)
<1>2. a \in Nat /\ w \in Nat /\ w <= a
  BY <1>1 DEF SaturatingSub
<1>3. Refill(b, now).tokens = Earlier(b.tokens + a * Count, Capacity)
  BY DEF Refill
<1>4. p.cost * Token <= Earlier(b.tokens + w * Count, Capacity)
  BY DEF Kept
<1> HIDE DEF a, w
<1>5. w * Count <= a * Count /\ cost * Token <= p.cost * Token
  BY <1>1, <1>2, MulMonotone
<1>6. a * Count \in Nat /\ w * Count \in Nat /\ p.cost * Token \in Nat /\ cost * Token \in Nat
  BY <1>1, <1>2, MulNat
<1>7. cost * Token <= Earlier(b.tokens + a * Count, Capacity)
  BY <1>1, <1>4, <1>5, <1>6 DEF Earlier
<1> QED
  BY <1>1, <1>3, <1>6, <1>7 DEF Admits, Earlier

\* The promise a denial makes is one its own bucket keeps.
LEMMA DenialKeeps ==
  ASSUME Count > 0,
         NEW b \in Buckets, NEW cost \in Costs, cost <= Burst, ~Admits(b, cost),
         NEW wait \in DecisionOf(b, cost).retry_after
  PROVE  /\ wait \in Nat
         /\ Kept(b, [at |-> b.last_update + wait + 1, cost |-> cost])
<1> DEFINE need == cost * Token - b.tokens
           at   == b.last_update + wait + 1
<1>1. /\ cost \in Nat /\ b.tokens \in Nat /\ b.tokens <= Capacity /\ b.last_update \in Nat
      /\ Burst \in Nat /\ Count \in Nat \ {0} /\ Capacity \in Nat /\ Token \in Nat
  BY QuotaTypes, QuotaAssumption, StoreAssumption DEF Buckets
<1>2. cost * Token \in Nat /\ cost * Token <= Capacity
  BY <1>1, MulNat, MulMonotone DEF Capacity
<1>3. need \in Nat \ {0}
  BY <1>1, <1>2 DEF Admits
<1>4. wait = Nearest(need, Count)
  BY <1>1, <1>3 DEF DecisionOf, Spend, SecondsToRefill
<1>5. wait \in Nat /\ need <= (wait + 1) * Count
  <2> HIDE DEF need
  <2> QED
    BY <1>1, <1>3, <1>4, NearestNat, NearestCovers
<1>6. SaturatingSub(at, b.last_update) = wait + 1
  BY <1>1, <1>5 DEF SaturatingSub
<1>7. (wait + 1) * Count \in Nat
  BY <1>1, <1>5, MulNat
<1>8. cost * Token <= Earlier(b.tokens + (wait + 1) * Count, Capacity)
  BY <1>1, <1>2, <1>5, <1>7 DEF Earlier
<1> QED
  BY <1>5, <1>6, <1>8 DEF Kept

-----------------------------------------------------------------------------
(* PromisesKept is inductive.                                               *)

\* What a ledger holds are promises.
LEMMA PromiseType ==
  ASSUME TypeOK, NEW k \in Keys, NEW p \in ledger[k].promise
  PROVE  p \in Promises
  BY DEF TypeOK, Ledgers, Promises

\* The bucket a call works on keeps every promise made to its key.
LEMMA FoundKeeps ==
  ASSUME \A c \in Costs : c <= Burst,
         TypeOK, PromisesKept,
         NEW k \in Keys, NEW now \in Nat, NEW p \in ledger[k].promise
  PROVE  Kept(Found(k, now), p)
<1>1. p \in Promises /\ p.cost <= Burst
  BY PromiseType DEF Promises
<1>2. CASE Live(k)
  BY <1>2, FoundFacts DEF PromisesKept
<1>3. CASE ~Live(k)
  BY <1>1, <1>3, FoundFacts, NewBucketKeeps
<1> QED
  BY <1>2, <1>3

\* After a call, its key's promises are those outstanding if it was denied,
\* with its own, and none if it was admitted.
LEMMA ComputeKeeps ==
  ASSUME Count > 0, \A c \in Costs : c <= Burst,
         TypeOK, PromisesKept,
         NEW k \in Keys, NEW now \in Nat, NEW cost \in Costs,
         NEW p \in Entered(ledger[k], ~Live(k), now, cost,
                           TryConsume(Found(k, now), now, cost).decision).promise
  PROVE  Kept(TryConsume(Found(k, now), now, cost).bucket, p)
<1> DEFINE found == Found(k, now)
           full  == Refill(found, now)
           out   == TryConsume(found, now, cost)
<1>1. /\ out.bucket = Spend(full, cost)
      /\ out.decision = DecisionOf(full, cost)
      /\ out.decision.allowed = Admits(full, cost)
  BY DEF TryConsume, DecisionOf
<1>2. /\ full \in Buckets
      /\ full.last_update = now
  BY FoundFacts, RefillFacts
<1>3. /\ ~out.decision.allowed
      /\ p \in ledger[k].promise
           \cup {[at |-> now + wait + 1, cost |-> cost] : wait \in out.decision.retry_after}
  BY DEF Entered
<1>4. out.bucket = full
  BY <1>1, <1>3 DEF Spend
<1>5. CASE p \in ledger[k].promise
  <2>1. Kept(found, p)
    BY <1>5, FoundKeeps
  <2>2. p \in Promises /\ found \in Buckets
    BY <1>5, PromiseType, FoundFacts
  <2> HIDE DEF found
  <2>3. Kept(full, p)
    BY <2>1, <2>2, RefillKeeps
  <2> HIDE DEF full, out
  <2>4. Kept(out.bucket, p)
    BY <1>4, <2>3
  <2> QED
    BY <2>4 DEF out, found
<1>6. CASE p \notin ledger[k].promise
  <2>1. PICK wait \in out.decision.retry_after : p = [at |-> now + wait + 1, cost |-> cost]
    BY <1>3, <1>6
  <2>2. ~Admits(full, cost) /\ wait \in DecisionOf(full, cost).retry_after
    BY <1>1, <1>3, <2>1
  <2>3. cost <= Burst
    OBVIOUS
  <2> HIDE DEF full, out
  <2>4. Kept(full, [at |-> full.last_update + wait + 1, cost |-> cost])
    BY <1>2, <2>2, <2>3, DenialKeeps
  <2>5. Kept(out.bucket, p)
    BY <1>2, <1>4, <2>1, <2>4
  <2> QED
    BY <2>5 DEF out
<1> QED
  BY <1>5, <1>6

\* What Compute(t) does to the cache and the ledgers, as functions.
LEMMA ComputeEffect ==
  ASSUME TypeOK, NEW t \in Threads, Compute(t)
  PROVE  LET k   == call[t].key
             now == call[t].now
             out == TryConsume(Found(k, now), now, call[t].cost)
         IN  /\ k \in Keys /\ now \in Nat /\ call[t].cost \in Costs
             /\ DOMAIN cache' = DOMAIN cache \cup {k}
             /\ cache'[k].bucket = out.bucket
             /\ \A j \in DOMAIN cache \ {k} : cache'[j] = cache[j]
             /\ ledger'[k] = Entered(ledger[k], ~Live(k), now, call[t].cost, out.decision)
             /\ \A j \in Keys \ {k} : ledger'[j] = ledger[j]
             /\ answer' = <<k, out.decision>>
             /\ DOMAIN call \ DOMAIN call' = {t}
<1> DEFINE k   == call[t].key
           now == call[t].now
           out == TryConsume(Found(k, now), now, call[t].cost)
<1>1. k \in Keys /\ now \in Nat /\ call[t].cost \in Costs /\ t \in DOMAIN call
  BY DEF TypeOK, Requests, Compute
<1>2. /\ cache' = Assign(cache, k, [bucket |-> out.bucket, accessed |-> clock])
      /\ answer' = <<k, out.decision>>
      /\ ledger' = [ledger EXCEPT ![k] =
                      Entered(ledger[k], ~Live(k), now, call[t].cost, out.decision)]
      /\ call' = Drop(call, t)
  BY DEF Compute, Stored
<1>3. ledger \in [Keys -> Ledgers]
  BY DEF TypeOK
<1>4. DOMAIN call \ DOMAIN call' = {t}
  BY <1>1, <1>2 DEF Drop
<1> HIDE DEF k, now, out
<1>5. /\ DOMAIN cache' = DOMAIN cache \cup {k}
      /\ cache'[k] = [bucket |-> out.bucket, accessed |-> clock]
      /\ \A j \in DOMAIN cache \ {k} : cache'[j] = cache[j]
  BY <1>2 DEF Assign
<1>6. /\ ledger'[k] = Entered(ledger[k], ~Live(k), now, call[t].cost, out.decision)
      /\ \A j \in Keys \ {k} : ledger'[j] = ledger[j]
  BY <1>1, <1>2, <1>3
<1> QED
  BY <1>1, <1>2, <1>4, <1>5, <1>6 DEF k, now, out

\* Every step keeps every outstanding promise.
LEMMA NextKeeps ==
  ASSUME Count > 0, \A c \in Costs : c <= Burst,
         IInv, PromisesKept, [Next]_vars
  PROVE  PromisesKept'
<1>1. TypeOK
  BY DEF IInv
<1>2. CASE UNCHANGED <<cache, ledger>>
  BY <1>2 DEF PromisesKept, Kept
<1>3. ASSUME NEW t \in Threads, Compute(t) PROVE PromisesKept'
  <2> DEFINE k   == call[t].key
             now == call[t].now
             out == TryConsume(Found(k, now), now, call[t].cost)
  <2>1. /\ k \in Keys /\ now \in Nat /\ call[t].cost \in Costs
        /\ DOMAIN cache' = DOMAIN cache \cup {k}
        /\ cache'[k].bucket = out.bucket
        /\ \A j \in DOMAIN cache \ {k} : cache'[j] = cache[j]
        /\ ledger'[k] = Entered(ledger[k], ~Live(k), now, call[t].cost, out.decision)
        /\ \A j \in Keys \ {k} : ledger'[j] = ledger[j]
    BY <1>1, <1>3, ComputeEffect
  <2>2. \A p \in ledger'[k].promise : Kept(out.bucket, p)
    BY <1>1, <2>1, ComputeKeeps
  <2>3. DOMAIN cache \subseteq Keys
    BY <1>1 DEF TypeOK
  <2> HIDE DEF k, now, out
  <2> SUFFICES ASSUME NEW j \in DOMAIN cache', NEW p \in ledger'[j].promise
               PROVE  Kept(cache'[j].bucket, p)
    BY DEF PromisesKept, Kept
  <2>4. CASE j = k
    BY <2>1, <2>2, <2>4
  <2>5. CASE j # k
    BY <2>1, <2>3, <2>5 DEF PromisesKept
  <2> QED
    BY <2>4, <2>5
<1>4. ASSUME NEW k \in Keys, Sweep(k) \/ Evict(k) PROVE PromisesKept'
  <2>1. cache' = Drop(cache, k) /\ ledger' = ledger
    BY <1>4 DEF Sweep, Evict
  <2>2. DOMAIN cache' \subseteq DOMAIN cache /\ \A j \in DOMAIN cache' : cache'[j] = cache[j]
    BY <2>1 DEF Drop
  <2> QED
    BY <2>1, <2>2 DEF PromisesKept, Kept
<1> QED
  BY <1>2, <1>3, <1>4 DEF Next, Tick, ReadClock, vars

-----------------------------------------------------------------------------

\* bucket.rs:27: retry_after is the time until enough tokens accrue to admit
\* the request - to within the tick that rounding may lose, and for quotas that
\* refill at all (bucket.rs:77) and costs that fit under the burst.
THEOREM PromiseKeptHolds ==
  ASSUME Count > 0, \A c \in Costs : c <= Burst
  PROVE  Spec => PromiseKept
<1> DEFINE Honoured ==
      \A t \in DOMAIN call \ DOMAIN call' :
        \A p \in ledger[call[t].key].promise :
          call[t].now >= p.at /\ call[t].cost <= p.cost => answer'[2].allowed
<1>1. Init => PromisesKept
  <2> SUFFICES ASSUME Init PROVE PromisesKept
    OBVIOUS
  <2>1. DOMAIN cache = {}
    BY EmptyMap DEF Init
  <2> QED
    BY <2>1 DEF PromisesKept
<1>2. IInv /\ PromisesKept /\ [Next]_vars => PromisesKept'
  BY NextKeeps
<1>3. IInv /\ PromisesKept /\ [Next]_vars => [Honoured]_vars
  <2> SUFFICES ASSUME IInv, PromisesKept, Next,
                      NEW u \in DOMAIN call \ DOMAIN call',
                      NEW p \in ledger[call[u].key].promise,
                      call[u].now >= p.at, call[u].cost <= p.cost
               PROVE  answer'[2].allowed
    OBVIOUS
  <2>1. TypeOK
    BY DEF IInv
  <2>2. PICK t \in Threads : Compute(t)
    <3>1. CASE \E t \in Threads : Compute(t)
      BY <3>1
    <3>2. CASE DOMAIN call \subseteq DOMAIN call'
      BY <3>2
    <3> QED
      BY <3>1, <3>2 DEF Next, Tick, ReadClock, Sweep, Evict, Assign
  <2> DEFINE k     == call[t].key
             now   == call[t].now
             cost  == call[t].cost
             found == Found(k, now)
  <2>3. /\ k \in Keys /\ now \in Nat /\ cost \in Costs
        /\ answer' = <<k, TryConsume(found, now, cost).decision>>
        /\ DOMAIN call \ DOMAIN call' = {t}
    BY <2>1, <2>2, ComputeEffect
  <2>4. u = t
    BY <2>3
  <2>5. Kept(found, p) /\ p \in Promises /\ found \in Buckets
    BY <2>1, <2>3, <2>4, FoundKeeps, PromiseType, FoundFacts
  <2>6. now >= p.at /\ cost <= p.cost
    BY <2>4
  <2> HIDE DEF k, now, cost, found
  <2>7. Admits(Refill(found, now), cost)
    BY <2>3, <2>5, <2>6, KeptAdmits
  <2>8. TryConsume(found, now, cost).decision.allowed = Admits(Refill(found, now), cost)
    BY DEF TryConsume, DecisionOf
  <2> QED
    BY <2>3, <2>7, <2>8
<1> QED
  BY <1>1, <1>2, <1>3, StoreInvariant, PTL DEF Spec, PromiseKept
=============================================================================
