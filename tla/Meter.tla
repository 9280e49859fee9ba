------------------------------- MODULE Meter -------------------------------
(***************************************************************************)
(* What the rate limiter's store promises, with none of its machinery: a    *)
(* leaky bucket per key.  `debt` is what the key has consumed and not yet    *)
(* repaid; every tick repays Count parts, at once and for every key; a      *)
(* request is admitted exactly when its cost still fits under the capacity. *)
(* There are no timestamps, no cache and no threads racing: a call is one   *)
(* atomic step.  Store.tla is shown to implement this module.               *)
(*                                                                          *)
(* What a caller can tell of the cache is that debts are forgotten: that of *)
(* a key that sent nothing for one window, paid or not, and, when there are *)
(* more keys than room, that of any key at any time.                        *)
(***************************************************************************)
EXTENDS Bucket, FiniteSets

CONSTANTS
  Keys,           \* partition keys
  Costs,          \* costs a request may have
  MaxPartitions   \* keys the store has room for

VARIABLES
  debt,      \* debt[k]: parts consumed by k and not yet refilled
  idle,      \* idle[k]: ticks since k's last request; Window once forgotten
  answer     \* << >>, then <<key, Decision>> of the last request

meterVars == <<debt, idle, answer>>

MeterTypeOK ==
  /\ debt \in [Keys -> 0..Capacity]
  /\ idle \in [Keys -> 0..Window]
  /\ answer = << >> \/ answer \in Keys \X Decisions

(* Deliberately wrong variants of Owed.                                     *)

\* A denied request is charged as well.
OwedRegardless(d, cost) == d + cost * Token

\* A denied request is charged what is left.
OwedDrained(d, cost) == Earlier(d + cost * Token, Capacity)

\* The answer to a request of `cost` tokens by a key that owes d parts.
Fits(d, cost) == d + cost * Token <= Capacity

Owed(d, cost) == IF Fits(d, cost) THEN d + cost * Token ELSE d

Verdict(d, cost) ==
  [allowed      |-> Fits(d, cost),
   remaining    |-> (Capacity - Owed(d, cost)) \div Token,
   time_to_full |-> SecondsToRefill(Owed(d, cost)),
   retry_after  |-> IF Fits(d, cost) THEN {}
                    ELSE {SecondsToRefill(d + cost * Token - Capacity)}]

\* There is room for every key, so that none is evicted.
Roomy == IsFiniteSet(Keys) /\ Cardinality(Keys) <= MaxPartitions

\* One tick later: ticks without a request, and the debt that is left.
Idled(i) == Earlier(i + 1, Window)

Drained(d, i) == IF Idled(i) = Window THEN 0 ELSE SaturatingSub(d, Count)

MeterInit ==
  /\ debt = [k \in Keys |-> 0]
  /\ idle = [k \in Keys |-> Window]
  /\ answer = << >>

\* Time passes: everybody's debt drains, or expires.
Drain ==
  /\ debt' = [k \in Keys |-> Drained(debt[k], idle[k])]
  /\ idle' = [k \in Keys |-> Idled(idle[k])]
  /\ UNCHANGED answer

\* A request is metered and answered, in one step.
Answer(k, cost) ==
  /\ debt' = [debt EXCEPT ![k] = Owed(@, cost)]
  /\ idle' = [idle EXCEPT ![k] = 0]
  /\ answer' = <<k, Verdict(debt[k], cost)>>

\* A key is evicted.
Forget(k) ==
  /\ ~Roomy
  /\ idle[k] < Window
  /\ debt' = [debt EXCEPT ![k] = 0]
  /\ idle' = [idle EXCEPT ![k] = Window]
  /\ UNCHANGED answer

MeterNext ==
  \/ Drain
  \/ \E k \in Keys, cost \in Costs : Answer(k, cost)
  \/ \E k \in Keys : Forget(k)

MeterSpec == MeterInit /\ [][MeterNext]_meterVars
=============================================================================
