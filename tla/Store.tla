------------------------------- MODULE Store -------------------------------
(***************************************************************************)
(* The in-memory bucket store of src/src/store.rs, as the threads that call *)
(* Store::consume see it.                                                   *)
(*                                                                          *)
(* consume reads the clock (store.rs:43) and only then enters moka's        *)
(* per-key compute lock (store.rs:46): two actions, ReadClock and Compute.  *)
(* Between the two the thread may wait for the lock or be descheduled, so   *)
(* that calls on one key are computed in any order of their instants.       *)
(*                                                                          *)
(* moka is external.  As store.rs configures it, an entry is served until   *)
(* one window has passed since its last access (time_to_idle), idle entries *)
(* are swept at some later time, and an entry of its choice is evicted when *)
(* there are more than max_capacity of them.                                *)
(*                                                                          *)
(* `ledger` is a history variable: only the bound in Evict reads it.         *)
(***************************************************************************)
EXTENDS Bucket, FiniteSets, Maps

CONSTANTS
  Keys,            \* partition keys (Option<K> in the handler's store)
  Threads,         \* threads calling consume
  Costs,           \* costs a request may have (the handler passes 1)
  MaxPartitions,   \* capacity given to moka's builder
  MaxStall,        \* ticks a thread may spend between reading the clock and
                   \* computing; 0 makes every call instantaneous
  MaxClock,        \* bound on the clock, for model checking
  MaxBirths        \* bound on evictions of one key, for model checking

ASSUME StoreAssumption == /\ Costs \subseteq Nat \ {0}
                          /\ MaxPartitions \in Nat
                          /\ MaxStall \in Nat
                          /\ MaxClock \in Nat
                          /\ MaxBirths \in Nat

VARIABLES
  clock,    \* the time Instant::now() returns
  cache,    \* moka's map: key -> bucket and time of last access
  call,     \* thread -> its request, once it has read the clock
  answer,   \* << >>, then <<key, Decision>> of the call computed last
  ledger    \* history, per key: see Ledgers

vars == <<clock, cache, call, answer, ledger>>

Entries  == [bucket : Buckets, accessed : Nat]
Requests == [key : Keys, cost : Costs, now : Nat]

\* admitted: tokens admitted so far.  births: buckets created so far.
\* stamp: the instant of the call computed last.  rewinds: computations whose
\* instant lay before that stamp.  promise: the denials since the last
\* admission, each with the instant from which its cost was to be admitted.
Ledgers == [admitted : Nat, births : Nat, stamp : Nat, rewinds : Nat,
            promise : SUBSET [at : Nat, cost : Costs]]

TypeOK ==
  /\ clock \in Nat
  /\ DOMAIN cache \subseteq Keys
  /\ cache \in [DOMAIN cache -> Entries]
  /\ DOMAIN call \subseteq Threads
  /\ call \in [DOMAIN call -> Requests]
  /\ answer = << >> \/ answer \in Keys \X Decisions
  /\ ledger \in [Keys -> Ledgers]

-----------------------------------------------------------------------------
(* The cache.                                                               *)

(* Deliberately wrong variants of the operators below, standing for         *)
(* plausible slips in store.rs; the properties are shown to notice them.    *)

\* The expiry is given half the window.
IdleAfterHalf(e) == 2 * clock >= 2 * e.accessed + Window

\* Every call starts from a fresh bucket.
FoundServesNone(k, now) == NewBucket(now)

\* The closure returns the bucket as found: Op::Nop instead of Op::Put.
StoredAsFound(found, out) == found
-----------------------------------------------------------------------------

\* time_to_idle: the entry was last accessed at least one window ago.
Idle(e) == clock >= e.accessed + Window

\* What entry(key) yields to the compute closure: an idle entry is not served.
Live(k) == k \in DOMAIN cache /\ ~Idle(cache[k])

\* The bucket the closure works on: the cached one, or a fresh full one.
Found(k, now) == IF Live(k) THEN cache[k].bucket ELSE NewBucket(now)

\* The bucket the closure puts back.
Stored(found, out) == out.bucket

\* Bookkeeping of one computation.  The instant promised by a denial is one
\* tick after the advertised wait, which is rounded to the nearest tick.
Entered(l, born, now, cost, decision) ==
  [admitted |-> l.admitted + (IF decision.allowed THEN cost ELSE 0),
   births   |-> l.births + (IF born THEN 1 ELSE 0),
   stamp    |-> now,
   rewinds  |-> l.rewinds + (IF now < l.stamp THEN 1 ELSE 0),
   promise  |-> IF decision.allowed THEN {}
                ELSE l.promise \cup {[at |-> now + wait + 1, cost |-> cost] :
                                        wait \in decision.retry_after}]

-----------------------------------------------------------------------------

Init ==
  /\ clock = 0
  /\ cache = << >>
  /\ call = << >>
  /\ answer = << >>
  /\ ledger = [k \in Keys |-> [admitted |-> 0, births |-> 0, stamp |-> 0,
                               rewinds |-> 0, promise |-> {}]]

\* Time passes, unless some thread has been stalled for as long as it may.
Tick ==
  /\ clock < MaxClock
  /\ \A t \in DOMAIN call : clock - call[t].now < MaxStall
  /\ clock' = clock + 1
  /\ UNCHANGED <<cache, call, answer, ledger>>

\* consume is called: let now = Instant::now().
ReadClock(t, k, cost) ==
  /\ t \notin DOMAIN call
  /\ call' = Assign(call, t, [key |-> k, cost |-> cost, now |-> clock])
  /\ UNCHANGED <<clock, cache, answer, ledger>>

\* and_compute_with: find the bucket, refill and consume, put it back.
Compute(t) ==
  /\ t \in DOMAIN call
  /\ LET k     == call[t].key
         now   == call[t].now
         found == Found(k, now)
         out   == TryConsume(found, now, call[t].cost)
     IN  /\ cache' = Assign(cache, k, [bucket   |-> Stored(found, out),
                                       accessed |-> clock])
         /\ answer' = <<k, out.decision>>
         /\ ledger' = [ledger EXCEPT ![k] =
                         Entered(@, ~Live(k), now, call[t].cost, out.decision)]
  /\ call' = Drop(call, t)
  /\ UNCHANGED clock

\* moka's housekeeping removes an idle entry, at any time once it is idle.
Sweep(k) ==
  /\ k \in DOMAIN cache
  /\ Idle(cache[k])
  /\ cache' = Drop(cache, k)
  /\ UNCHANGED <<clock, call, answer, ledger>>

\* moka's housekeeping evicts an entry because there are too many of them.
\* Its choice (TinyLFU) is not modelled: any entry may go.
Evict(k) ==
  /\ k \in DOMAIN cache
  /\ Cardinality(DOMAIN cache) > MaxPartitions
  /\ ledger[k].births < MaxBirths
  /\ cache' = Drop(cache, k)
  /\ UNCHANGED <<clock, call, answer, ledger>>

Next ==
  \/ Tick
  \/ \E t \in Threads, k \in Keys, cost \in Costs : ReadClock(t, k, cost)
  \/ \E t \in Threads : Compute(t)
  \/ \E k \in Keys : Sweep(k) \/ Evict(k)

Spec == Init /\ [][Next]_vars

-----------------------------------------------------------------------------
(* Properties.                                                              *)

\* "concurrent calls on the same key cannot over-admit" (store.rs:39-40): what
\* a key has been admitted never exceeds one full bucket plus what the elapsed
\* time has refilled.
NoOverAdmission ==
  \A k \in Keys : ledger[k].admitted * Token <= Capacity + clock * Count

\* Where any over-admission comes from.  A key's admissions never exceed one
\* full bucket for each bucket created for it (store.rs:49) plus the refill of
\* the elapsed time, plus at most MaxStall ticks' refill for each computation
\* that stamped the bucket with an instant earlier than the one it bore
\* (bucket.rs:49), because the interval in between is credited a second time.
AdmissionLaw ==
  \A k \in Keys :
    ledger[k].admitted * Token <=
      ledger[k].births * Capacity
        + (clock + MaxStall * ledger[k].rewinds) * Count

\* "a bucket untouched for that long would have refilled to full anyway, so
\* dropping it is lossless" (store.rs:26-27): whatever the cache no longer
\* serves for having idled one window is full by now.
IdleIsFull ==
  \A k \in DOMAIN cache :
    Idle(cache[k]) => Refill(cache[k].bucket, clock).tokens = Capacity

\* Decision::retry_after is "the time until enough tokens accrue to admit this
\* request" (bucket.rs:27): a request that reads the clock after a denied
\* request's wait is over, and asks for no more, is admitted, unless another
\* request on the key was admitted in between, and whatever denials, stale
\* instants, expiries and evictions happened in between.
PromiseKept ==
  [][\A t \in DOMAIN call \ DOMAIN call' :
       \A p \in ledger[call[t].key].promise :
         call[t].now >= p.at /\ call[t].cost <= p.cost => answer'[2].allowed]_vars

-----------------------------------------------------------------------------
(* Refinement.  The debt of a key is what its bucket lacks, less what the   *)
(* time since its last refill would credit; a key without a live bucket     *)
(* owes nothing.                                                            *)

Debt(k) ==
  IF Live(k)
  THEN SaturatingSub(Capacity - cache[k].bucket.tokens,
                     (clock - cache[k].bucket.last_update) * Count)
  ELSE 0

Idleness(k) == IF Live(k) THEN clock - cache[k].accessed ELSE Window

Abstract == INSTANCE Meter WITH debt <- [k \in Keys |-> Debt(k)],
                                idle <- [k \in Keys |-> Idleness(k)]

\* The store implements the eager meter: lazy refill from timestamps cannot be
\* told from a debt that drains by itself, and a cache that drops what idled
\* for one window, or what is too much, not from debts that are forgotten then.
ImplementsMeter == Abstract!MeterSpec
=============================================================================
