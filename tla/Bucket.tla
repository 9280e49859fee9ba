------------------------------- MODULE Bucket -------------------------------
(***************************************************************************)
(* The token-bucket arithmetic of src/src/bucket.rs.  A bucket is its token *)
(* level and the instant of its last refill; the caller injects the clock,  *)
(* so that `now` is any instant, also one before the last refill.           *)
(***************************************************************************)
EXTENDS Quota

Buckets == [tokens : 0..Capacity, last_update : Nat]

\* retry_after is an Option<Duration>: a set with at most one element.
Decisions == [allowed      : BOOLEAN,
              remaining    : Nat,
              time_to_full : Nat,
              retry_after  : SUBSET Nat]

\* A bucket that starts full.
NewBucket(now) == [tokens |-> Capacity, last_update |-> now]

-----------------------------------------------------------------------------
(* Deliberately wrong variants of the operators below.  They stand for      *)
(* plausible slips in bucket.rs; the properties are shown to notice them.   *)

\* The level is not capped at the burst.
RefillUncapped(b, now) ==
  [tokens      |-> b.tokens + SaturatingSub(now, b.last_update) * Count,
   last_update |-> now]

\* last_update is not advanced: elapsed time is credited again and again.
RefillForgetsStamp(b, now) ==
  [tokens      |-> Earlier(b.tokens + SaturatingSub(now, b.last_update) * Count,
                           Capacity),
   last_update |-> b.last_update]

\* The level is not reduced.
SpendNothing(b, cost) == b

\* A denied request is charged what is left.
SpendRegardless(b, cost) ==
  [b EXCEPT !.tokens = SaturatingSub(@, cost * Token)]
-----------------------------------------------------------------------------

\* Credit the time elapsed since the last refill (none if `now` is earlier),
\* never above the capacity, and stamp the bucket with `now`.
Refill(b, now) ==
  [tokens      |-> Earlier(b.tokens + SaturatingSub(now, b.last_update) * Count,
                           Capacity),
   last_update |-> now]

\* seconds_to_refill: zero when nothing is needed or nothing is refilled.
SecondsToRefill(parts) ==
  IF parts <= 0 \/ Count = 0 THEN 0 ELSE Nearest(parts, Count)

\* A refilled bucket admits a request of `cost` tokens.
Admits(b, cost) == b.tokens >= cost * Token

\* The refilled bucket after the attempt: only an admitted request is paid for.
Spend(b, cost) ==
  IF Admits(b, cost) THEN [b EXCEPT !.tokens = @ - cost * Token] ELSE b

\* What try_consume reports, b being the refilled bucket before the attempt.
DecisionOf(b, cost) ==
  LET after == Spend(b, cost).tokens
  IN  [allowed      |-> Admits(b, cost),
       remaining    |-> after \div Token,
       time_to_full |-> SecondsToRefill(Capacity - after),
       retry_after  |-> IF Admits(b, cost) THEN {}
                        ELSE {SecondsToRefill(cost * Token - after)}]

\* try_consume: refill, then attempt to consume.
TryConsume(b, now, cost) ==
  LET full == Refill(b, now)
  IN  [bucket |-> Spend(full, cost), decision |-> DecisionOf(full, cost)]
=============================================================================
