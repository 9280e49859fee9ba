--------------------------- MODULE LimiterProofs ---------------------------
(***************************************************************************)
(* Theorems about Limiter.tla, for every stack of limiters, callers and     *)
(* connections: its state is well typed, what is served keeps to every      *)
(* quota, responses name the limiters that metered the request, and the     *)
(* waits they announce are enough.                                          *)
(*                                                                          *)
(* ServedWithinQuota counts what was served, but a store counts what it     *)
(* admitted.  The invariant (Covered) adds the requests that are past a     *)
(* limiter and not yet served: together they cost at most what is owed,     *)
(* what the elapsed time has repaid, and a full burst for each bucket that  *)
(* a lossy store forgot (Credit).                                           *)
(***************************************************************************)
EXTENDS Limiter, FiniteSetTheorems, TLAPS

\* Parts that a partition of l may owe.
Full(l) == Stack[l].burst * Stack[l].window

\* Requests that l metered in p and let pass, and that are not yet served.
Passed(l, p) ==
  {c \in DOMAIN conn : conn[c].at > l /\ conn[c].keys[l] = p /\ Meters(l, conn[c].keys)}

Admitted(l, p) == tally[l][p].served + Cardinality(Passed(l, p))

\* A partition that idled for i ticks has this many buckets in the store.
Alive(l, i) == IF i < Stack[l].window THEN 1 ELSE 0

\* What a partition of l may have been admitted that time has not repaid: its
\* debt d, and a burst for each of its b buckets that is gone, unless those
\* that go are full.
CreditOf(l, d, i, b) == d + (IF Lossless(l) THEN 0 ELSE (b - Alive(l, i)) * Full(l))
Credit(l, p) == CreditOf(l, owed[l][p], idle[l][p], tally[l][p].births)

\* A partition without a bucket owes nothing, and each tick that it idles repays
\* count.
Tracked(l, d, i, b) ==
  /\ Alive(l, i) <= b
  /\ Alive(l, i) = 0 => d = 0
  /\ d = 0 \/ d + i * Stack[l].count <= Full(l)

Draining ==
  \A l \in Limiters, p \in Partitions :
    Tracked(l, owed[l][p], idle[l][p], tally[l][p].births)

Covered ==
  \A l \in Limiters, p \in Partitions :
    Admitted(l, p) * Stack[l].window <= Credit(l, p) + clock * Stack[l].count

IInv == TypeOK /\ IsFiniteSet(DOMAIN conn) /\ Draining /\ Covered

-----------------------------------------------------------------------------
(* The stack and its stores.                                                *)

\* What LimiterAssumption says of each limiter of the stack.
LEMMA StackTypes ==
  /\ Len(Stack) \in Nat
  /\ Limiters = 1..Len(Stack)
  /\ Second \in Nat \ {0}
  /\ \A l \in Limiters :
       /\ l \in Nat \ {0}
       /\ l <= Len(Stack)
       /\ Stack[l].count \in Nat
       /\ Stack[l].window \in Nat \ {0}
       /\ Stack[l].burst \in Nat
       /\ Stack[l].missing \in MissingKey
       /\ Stack[l].jitter \in Nat
       /\ Full(l) \in Nat
<1>1. Stack \in Seq(Limiter) /\ Second \in Nat \ {0}
  BY LimiterAssumption
<1>2. Len(Stack) \in Nat /\ Limiters = 1..Len(Stack)
  BY <1>1 DEF Limiters
<1>3. ASSUME NEW l \in Limiters
      PROVE  /\ l \in Nat \ {0} /\ l <= Len(Stack)
             /\ Stack[l] \in Limiter
  BY <1>1, <1>2, <1>3
<1>4. ASSUME NEW l \in Limiters
      PROVE  /\ Stack[l].count \in Nat
             /\ Stack[l].window \in Nat \ {0}
             /\ Stack[l].burst \in Nat
             /\ Stack[l].missing \in MissingKey
             /\ Stack[l].jitter \in Nat
  BY <1>3 DEF Limiter
<1>5. ASSUME NEW l \in Limiters PROVE Full(l) \in Nat
  BY <1>4, <1>5 DEF Full
<1> QED
  BY <1>1, <1>2, <1>3, <1>4, <1>5

\* A key that a caller has at a limiter is a partition.
LEMMA KeyTypes ==
  ASSUME NEW keys \in Callers, NEW l \in Limiters
  PROVE  keys[l] \in Partitions
  BY LimiterAssumption DEF Limiters, Partitions

\* Rounding to the nearest loses less than one whole.
LEMMA NearestCovers ==
  ASSUME NEW l \in Limiters, NEW n \in Nat, NEW d \in Nat \ {0}
  PROVE  /\ Store(l)!Nearest(n, d) \in Nat
         /\ n <= (Store(l)!Nearest(n, d) + 1) * d
<1> DEFINE q == n \div d
           w == Store(l)!Nearest(n, d)
<1>1. q \in Nat /\ n % d \in 0..(d - 1) /\ n = (d * q) + (n % d)
  OBVIOUS
<1>2. w \in Nat /\ q <= w
  BY <1>1 DEF Store!Nearest
<1> HIDE DEF q, w
<1>3. (q + 1) * d = d * q + d
  BY <1>1
<1>4. (q + 1) * d <= (w + 1) * d
  BY <1>1, <1>2
<1> QED
  BY <1>1, <1>2, <1>3, <1>4 DEF w

\* A wait is rounded to the nearest tick, and so one tick short at most.
LEMMA WaitFacts ==
  ASSUME NEW l \in Limiters, NEW parts \in Int
  PROVE  /\ Store(l)!SecondsToRefill(parts) \in Nat
         /\ Stack[l].count > 0 =>
              parts <= (Store(l)!SecondsToRefill(parts) + 1) * Stack[l].count
<1>1. Stack[l].count \in Nat
  BY StackTypes
<1>2. CASE parts <= 0 \/ Stack[l].count = 0
  <2>1. Store(l)!SecondsToRefill(parts) = 0
    BY <1>2 DEF Store!SecondsToRefill
  <2> QED
    BY <1>1, <1>2, <2>1
<1>3. CASE parts > 0 /\ Stack[l].count # 0
  <2>1. Stack[l].count \in Nat \ {0} /\ parts \in Nat
    BY <1>1, <1>3
  <2>2. Store(l)!SecondsToRefill(parts) = Store(l)!Nearest(parts, Stack[l].count)
    BY <1>1, <1>3 DEF Store!SecondsToRefill
  <2> QED
    BY <2>1, <2>2, NearestCovers
<1> QED
  BY <1>1, <1>2, <1>3

\* The verdict of a store (bucket.rs:41-76): what is owed after it stays within
\* the burst, and is a token more just if the request is admitted.
LEMMA MeterFacts ==
  ASSUME NEW l \in Limiters, NEW d \in Nat, d <= Full(l)
  PROVE  LET verdict == Store(l)!Verdict(d, 1)
             after   == Store(l)!Owed(d, 1)
         IN  /\ verdict.allowed \in BOOLEAN
             /\ verdict.allowed <=> d + Stack[l].window <= Full(l)
             /\ after = IF verdict.allowed THEN d + Stack[l].window ELSE d
             /\ after \in Nat
             /\ after <= Full(l)
             /\ verdict.time_to_full = Store(l)!SecondsToRefill(after)
             /\ verdict.retry_after =
                  IF verdict.allowed THEN {}
                  ELSE {Store(l)!SecondsToRefill(d + Stack[l].window - Full(l))}
<1> DEFINE fits == d + Stack[l].window <= Full(l)
<1>1. 1 * Stack[l].window = Stack[l].window /\ Full(l) \in Nat
  BY StackTypes
<1>2. Store(l)!Fits(d, 1) <=> fits
  BY <1>1 DEF Store!Fits, Store!Token, Store!Capacity, Full
<1>3. Store(l)!Owed(d, 1) = IF fits THEN d + Stack[l].window ELSE d
  BY <1>1, <1>2 DEF Store!Owed, Store!Token
<1>4. /\ Store(l)!Verdict(d, 1).allowed = Store(l)!Fits(d, 1)
      /\ Store(l)!Verdict(d, 1).time_to_full = Store(l)!SecondsToRefill(Store(l)!Owed(d, 1))
      /\ Store(l)!Verdict(d, 1).retry_after =
           IF Store(l)!Fits(d, 1) THEN {}
           ELSE {Store(l)!SecondsToRefill(d + Stack[l].window - Full(l))}
  BY <1>1 DEF Store!Verdict, Store!Token, Store!Capacity, Full
<1>5. Store(l)!Fits(d, 1) \in BOOLEAN
  BY DEF Store!Fits
<1> QED
  BY <1>1, <1>2, <1>3, <1>4, <1>5, StackTypes

-----------------------------------------------------------------------------
(* What responses promise.                                                  *)

\* Rounding ticks up to seconds is never early (limiter.rs:235, 252).
LEMMA SecsFacts ==
  ASSUME NEW d \in Nat
  PROVE  SecsCeil(d) \in Nat /\ d <= SecsCeil(d) * Second
<1> DEFINE q == d \div Second
<1>1. Second \in Nat \ {0}
  BY StackTypes
<1>2. q \in Nat /\ d % Second \in 0..(Second - 1) /\ d = (Second * q) + (d % Second)
  BY <1>1
<1>3. SecsCeil(d) = q + (IF d % Second > 0 THEN 1 ELSE 0)
  BY DEF SecsCeil
<1> HIDE DEF q
<1>4. (q + 1) * Second = Second * q + Second /\ q * Second = Second * q
  BY <1>1, <1>2
<1> QED
  BY <1>1, <1>2, <1>3, <1>4

\* An instant that a response newly promises lies late enough for a wait of
\* `ticks` before it.
LEMMA PromisedFacts ==
  ASSUME NEW earlier \in SUBSET Nat, NEW seconds \in SUBSET Nat, clock \in Nat
  PROVE  /\ Promised(seconds, earlier) \in SUBSET Nat
         /\ \A i \in Promised(seconds, earlier) :
              i \in earlier \/ \E s \in seconds : i = clock + s * Second
<1>1. Promised(seconds, earlier) \subseteq earlier \cup {clock + s * Second : s \in seconds}
  BY DEF Promised
<1>2. \A s \in seconds : clock + s * Second \in Nat
  BY StackTypes
<1> QED
  BY <1>1, <1>2

\* An instant `s` seconds from now is `wait` ticks and the jitter away.
LEMMA DueFacts ==
  ASSUME NEW l \in Limiters, NEW parts \in Int, NEW j \in Nat, clock \in Nat,
         Stack[l].count > 0,
         NEW i, i = clock + SecsCeil(Store(l)!SecondsToRefill(parts) + j) * Second
  PROVE  i \in Nat /\ i >= clock /\ parts <= (i + 1 - clock) * Stack[l].count
<1> DEFINE w == Store(l)!SecondsToRefill(parts)
           s == SecsCeil(w + j) * Second
           d == Stack[l].count
<1>1. w \in Nat /\ parts <= (w + 1) * d
  BY WaitFacts
<1>2. d \in Nat
  BY StackTypes
<1> HIDE DEF w
<1>3. w + j \in Nat
  BY <1>1
<1>4. SecsCeil(w + j) \in Nat /\ w + j <= s
  BY <1>3, SecsFacts
<1>5. s \in Nat /\ w <= s
  BY <1>1, <1>4, StackTypes
<1>6. i = clock + s
  BY DEF w
<1> HIDE DEF s, d
<1>7. i \in Nat /\ i + 1 - clock = s + 1
  BY <1>5, <1>6
<1>8. (w + 1) * d <= (s + 1) * d
  BY <1>1, <1>2, <1>5
<1>9. (w + 1) * d \in Nat /\ (s + 1) * d \in Nat
  BY <1>1, <1>2, <1>5
<1> QED
  BY <1>1, <1>5, <1>6, <1>7, <1>8, <1>9 DEF d

\* What a response adds to the promises: an instant newly promised leaves time
\* enough to repay what is in the way of a token, or all that is owed.
LEMMA CountedFacts ==
  ASSUME NEW l \in Limiters, NEW t \in Tallies, NEW born \in BOOLEAN, NEW d \in Nat, d <= Full(l),
         NEW j \in Nat, clock \in Nat
  PROVE  LET verdict == Store(l)!Verdict(d, 1)
             u       == Counted(t, born, verdict, j)
         IN  /\ u \in Tallies
             /\ u.served = t.served
             /\ u.births = t.births + (IF born THEN 1 ELSE 0)
             /\ \A i \in u.retry :
                  /\ ~verdict.allowed
                  /\ \/ i \in t.retry
                     \/ Stack[l].count > 0 =>
                          i >= clock /\ d + Stack[l].window - Full(l) <= (i + 1 - clock) * Stack[l].count
             /\ \A i \in u.full :
                  \/ ~verdict.allowed /\ i \in t.full
                  \/ Stack[l].count > 0 =>
                       i >= clock /\ Store(l)!Owed(d, 1) <= (i + 1 - clock) * Stack[l].count
<1> DEFINE verdict == Store(l)!Verdict(d, 1)
           after   == Store(l)!Owed(d, 1)
           short   == d + Stack[l].window - Full(l)
           u       == Counted(t, born, verdict, j)
           more    == IF born THEN 1 ELSE 0
           retries == IF verdict.allowed THEN {} ELSE t.retry
           fulls   == IF verdict.allowed THEN {} ELSE t.full
<1>1. /\ verdict.allowed \in BOOLEAN
      /\ after \in Nat
      /\ verdict.time_to_full = Store(l)!SecondsToRefill(after)
      /\ verdict.retry_after = IF verdict.allowed THEN {} ELSE {Store(l)!SecondsToRefill(short)}
  BY MeterFacts
<1>2. short \in Int
  BY StackTypes
<1>3. /\ t.served \in Nat /\ t.births \in Nat
      /\ t.retry \in SUBSET Nat /\ t.full \in SUBSET Nat
  BY DEF Tallies
<1>4. u = [served |-> t.served,
           births |-> t.births + more,
           retry  |-> Promised(RetryAfter(verdict, j), retries),
           full   |-> Promised({Reset(verdict, j)}, fulls)]
  BY DEF Counted
<1>5. retries \in SUBSET Nat /\ fulls \in SUBSET Nat
  BY <1>3
<1> HIDE DEF verdict, after, short, u, retries, fulls
<1>12. more \in Nat
  OBVIOUS
<1> HIDE DEF more
<1>6. /\ Reset(verdict, j) = SecsCeil(Store(l)!SecondsToRefill(after) + j)
      /\ Reset(verdict, j) \in Nat
  <2>1. Store(l)!SecondsToRefill(after) + j \in Nat
    BY <1>1, WaitFacts
  <2> QED
    BY <1>1, <2>1, SecsFacts DEF Reset
<1>7. /\ RetryAfter(verdict, j) \in SUBSET Nat
      /\ \A s \in RetryAfter(verdict, j) :
           ~verdict.allowed /\ s = SecsCeil(Store(l)!SecondsToRefill(short) + j)
  <2>1. Store(l)!SecondsToRefill(short) + j \in Nat
    BY <1>2, WaitFacts
  <2>2. SecsCeil(Store(l)!SecondsToRefill(short) + j) \in Nat
    BY <2>1, SecsFacts
  <2> QED
    BY <1>1, <2>2 DEF RetryAfter
<1>8. /\ u.served = t.served
      /\ u.births = t.births + more
      /\ u.retry \in SUBSET Nat
      /\ u.full \in SUBSET Nat
      /\ \A i \in u.retry :
           i \in retries \/ \E s \in RetryAfter(verdict, j) : i = clock + s * Second
      /\ \A i \in u.full :
           i \in fulls \/ \E s \in {Reset(verdict, j)} : i = clock + s * Second
  <2>1. {Reset(verdict, j)} \in SUBSET Nat
    BY <1>6
  <2>2. /\ u.served = t.served /\ u.births = t.births + more
        /\ u.retry = Promised(RetryAfter(verdict, j), retries)
        /\ u.full = Promised({Reset(verdict, j)}, fulls)
    BY <1>4
  <2>3. /\ u.retry \in SUBSET Nat
        /\ \A i \in u.retry :
             i \in retries \/ \E s \in RetryAfter(verdict, j) : i = clock + s * Second
    BY <1>5, <1>7, <2>2, PromisedFacts
  <2>4. /\ u.full \in SUBSET Nat
        /\ \A i \in u.full :
             i \in fulls \/ \E s \in {Reset(verdict, j)} : i = clock + s * Second
    BY <1>5, <2>1, <2>2, PromisedFacts
  <2> QED
    BY <2>2, <2>3, <2>4
<1>9. u \in Tallies
  <2>1. t.births + more \in Nat
    BY <1>3, <1>12
  <2> DEFINE n  == t.births + more
             rs == Promised(RetryAfter(verdict, j), retries)
             fs == Promised({Reset(verdict, j)}, fulls)
  <2>2. /\ t.served \in Nat /\ n \in Nat /\ rs \in SUBSET Nat /\ fs \in SUBSET Nat
        /\ u = [served |-> t.served, births |-> n, retry |-> rs, full |-> fs]
    BY <1>3, <1>4, <1>8, <2>1
  <2> HIDE DEF n, rs, fs
  <2> QED
    BY <2>2 DEF Tallies
<1>10. ASSUME NEW i \in u.retry
       PROVE  /\ ~verdict.allowed
              /\ \/ i \in t.retry
                 \/ Stack[l].count > 0 =>
                      i >= clock /\ short <= (i + 1 - clock) * Stack[l].count
  <2>1. CASE i \in retries
    BY <2>1 DEF retries
  <2>2. ASSUME NEW s \in RetryAfter(verdict, j), i = clock + s * Second
        PROVE  <1>10!2
    BY <2>2, <1>2, <1>7, DueFacts
  <2> QED
    BY <1>8, <2>1, <2>2
<1>11. ASSUME NEW i \in u.full
       PROVE  \/ ~verdict.allowed /\ i \in t.full
              \/ Stack[l].count > 0 =>
                   i >= clock /\ after <= (i + 1 - clock) * Stack[l].count
  <2>1. CASE i \in fulls
    BY <2>1 DEF fulls
  <2>2. ASSUME i = clock + Reset(verdict, j) * Second
        PROVE  Stack[l].count > 0 =>
                 i >= clock /\ after <= (i + 1 - clock) * Stack[l].count
    <3>1. after \in Int
      BY <1>1
    <3>2. i = clock + SecsCeil(Store(l)!SecondsToRefill(after) + j) * Second
      BY <1>6, <2>2
    <3> QED
      BY <3>1, <3>2, DueFacts
  <2> QED
    BY <1>8, <2>1, <2>2
<1> QED
  BY <1>8, <1>9, <1>10, <1>11 DEF verdict, after, short, u, more

-----------------------------------------------------------------------------
(* The steps.                                                               *)

\* A request is at a limiter of the stack or past all of them.
LEMMA RequestFacts ==
  ASSUME TypeOK, NEW c \in DOMAIN conn
  PROVE  /\ conn[c] \in Requests
         /\ conn[c].at \in 1..(Len(Stack) + 1)
         /\ conn[c].keys \in Callers
         /\ conn[c].items \in Seq(Limiters)
         /\ \A l \in Limiters : conn[c].keys[l] \in Partitions
<1>1. conn[c] \in Requests
  BY DEF TypeOK
<1> QED
  BY <1>1, KeyTypes DEF Requests

\* Moving a request leaves its keys alone.
LEMMA AtFacts ==
  ASSUME NEW r \in Requests, NEW a \in 1..(Len(Stack) + 1)
  PROVE  /\ [r EXCEPT !.at = a] \in Requests
         /\ [r EXCEPT !.at = a].at = a
         /\ [r EXCEPT !.at = a].keys = r.keys
  BY DEF Requests

\* A request that moves on is the request it was, but for the limiter it is at.
LEMMA MoveFacts ==
  ASSUME TypeOK, NEW c \in DOMAIN conn, NEW r \in Requests, conn' = [conn EXCEPT ![c] = r]
  PROVE  /\ DOMAIN conn' = DOMAIN conn
         /\ conn' \in [DOMAIN conn' -> Requests]
         /\ conn'[c] = r
         /\ \A e \in DOMAIN conn \ {c} : conn'[e] = conn[e]
  BY DEF TypeOK

\* A request that leaves changes no other.
LEMMA DropFacts ==
  ASSUME TypeOK, NEW c \in DOMAIN conn, conn' = Drop(conn, c)
  PROVE  /\ DOMAIN conn' = DOMAIN conn \ {c}
         /\ conn' \in [DOMAIN conn' -> Requests]
         /\ \A e \in DOMAIN conn' : conn'[e] = conn[e]
  BY DEF TypeOK, Drop

\* What Meter(c, l) does to the stores, the promises and the request.
LEMMA MeterEffect ==
  ASSUME TypeOK, NEW c \in Conns, NEW l \in Limiters, Meter(c, l)
  PROVE  LET p    == conn[c].keys[l]
             fits == owed[l][p] + Stack[l].window <= Full(l)
         IN  /\ TypeOK'
             /\ Before(c, l) /\ Meters(l, conn[c].keys) /\ p \in Partitions
             /\ clock' = clock
             /\ DOMAIN conn' = DOMAIN conn
             /\ conn'[c].keys = conn[c].keys
             /\ conn'[c].at = IF fits THEN l + 1 ELSE l
             /\ conn'[c].halted = ~fits
             /\ \A e \in DOMAIN conn \ {c} : conn'[e] = conn[e]
             /\ owed'[l][p] = IF fits THEN owed[l][p] + Stack[l].window ELSE owed[l][p]
             /\ idle'[l][p] = 0
             /\ tally'[l][p].births =
                  tally[l][p].births + (IF idle[l][p] = Stack[l].window THEN 1 ELSE 0)
             /\ \A m \in Limiters, q \in Partitions :
                  /\ <<m, q>> # <<l, p>> => /\ owed'[m][q] = owed[m][q]
                                           /\ idle'[m][q] = idle[m][q]
                                           /\ tally'[m][q] = tally[m][q]
                  /\ tally'[m][q].served = tally[m][q].served
             /\ \A i \in tally'[l][p].retry :
                  /\ ~fits
                  /\ \/ i \in tally[l][p].retry
                     \/ Stack[l].count > 0 =>
                          i >= clock /\ owed[l][p] + Stack[l].window - Full(l) <= (i + 1 - clock) * Stack[l].count
             /\ \A i \in tally'[l][p].full :
                  \/ ~fits /\ i \in tally[l][p].full
                  \/ Stack[l].count > 0 =>
                       i >= clock /\ owed'[l][p] <= (i + 1 - clock) * Stack[l].count
<1> DEFINE p       == conn[c].keys[l]
           d       == owed[l][p]
           verdict == Store(l)!Verdict(d, 1)
           fits    == d + Stack[l].window <= Full(l)
           born    == idle[l][p] = Stack[l].window
           t       == tally[l][p]
           r       == [at          |-> IF Halts(verdict) THEN l ELSE l + 1,
                       keys        |-> conn[c].keys,
                       items       |-> Appended(conn[c].items, l),
                       halted      |-> Halts(verdict),
                       retry_after |-> verdict.retry_after # {}]
<1>1. Before(c, l) /\ Meters(l, conn[c].keys) /\ c \in DOMAIN conn /\ clock' = clock
  BY DEF Meter, Before
<1>2. /\ conn[c].keys \in Callers /\ conn[c].items \in Seq(Limiters) /\ p \in Partitions
      /\ l \in 1..Len(Stack)
  BY <1>1, RequestFacts, StackTypes
<1>3. d \in Nat /\ d <= Full(l) /\ clock \in Nat /\ tally[l][p] \in Tallies
  BY <1>2 DEF TypeOK, Full
<1>4. /\ verdict.allowed <=> fits
      /\ Store(l)!Owed(d, 1) = IF fits THEN d + Stack[l].window ELSE d
      /\ Store(l)!Owed(d, 1) \in Nat
      /\ Store(l)!Owed(d, 1) <= Full(l)
  BY <1>3, MeterFacts
<1>5. /\ owed' = [owed EXCEPT ![l][p] = Store(l)!Owed(d, 1)]
      /\ idle' = [idle EXCEPT ![l][p] = 0]
      /\ conn' = [conn EXCEPT ![c] = r]
  BY DEF Meter
<1>6. PICK j \in Jitters(l) : tally' = [tally EXCEPT ![l][p] = Counted(@, born, verdict, j)]
  BY DEF Meter
<1>7. j \in Nat
  BY StackTypes DEF Jitters
<1> DEFINE u == Counted(tally[l][p], born, verdict, j)
<1>8. /\ u \in Tallies
      /\ u.served = tally[l][p].served
      /\ u.births = tally[l][p].births + (IF born THEN 1 ELSE 0)
      /\ \A i \in u.retry :
           /\ ~fits
           /\ \/ i \in tally[l][p].retry
              \/ Stack[l].count > 0 =>
                   i >= clock /\ d + Stack[l].window - Full(l) <= (i + 1 - clock) * Stack[l].count
      /\ \A i \in u.full :
           \/ ~fits /\ i \in tally[l][p].full
           \/ Stack[l].count > 0 =>
                i >= clock /\ Store(l)!Owed(d, 1) <= (i + 1 - clock) * Stack[l].count
  <2>1. t \in Tallies /\ born \in BOOLEAN /\ d \in Nat /\ d <= Full(l) /\ clock \in Nat
    BY <1>3
  <2>2. u = Counted(t, born, verdict, j)
    OBVIOUS
  <2> HIDE DEF t, d, u, born
  <2>3. /\ u \in Tallies
        /\ u.served = t.served
        /\ u.births = t.births + (IF born THEN 1 ELSE 0)
        /\ \A i \in u.retry :
             /\ ~verdict.allowed
             /\ \/ i \in t.retry
                \/ Stack[l].count > 0 =>
                     i >= clock /\ d + Stack[l].window - Full(l) <= (i + 1 - clock) * Stack[l].count
        /\ \A i \in u.full :
             \/ ~verdict.allowed /\ i \in t.full
             \/ Stack[l].count > 0 =>
                  i >= clock /\ Store(l)!Owed(d, 1) <= (i + 1 - clock) * Stack[l].count
    BY <1>7, <2>1, <2>2, CountedFacts
  <2> HIDE DEF verdict, fits
  <2> QED
    BY <1>4, <2>3 DEF t
<1>9. /\ r \in Requests
      /\ r.keys = conn[c].keys
      /\ r.at = IF fits THEN l + 1 ELSE l
      /\ r.halted = ~fits
  <2>1. Appended(conn[c].items, l) \in Seq(Limiters)
    BY <1>2 DEF Appended
  <2>2. Halts(verdict) = ~fits /\ (IF Halts(verdict) THEN l ELSE l + 1) \in 1..(Len(Stack) + 1)
    BY <1>2, <1>4, StackTypes DEF Halts
  <2>3. Halts(verdict) \in BOOLEAN /\ (verdict.retry_after # {}) \in BOOLEAN
    BY DEF Halts
  <2> QED
    BY <1>2, <2>1, <2>2, <2>3 DEF Requests
<1>10. tally' = [tally EXCEPT ![l][p] = u]
  BY <1>6
<1> HIDE DEF verdict, r, u, fits, d
<1>17. /\ idle' \in [Limiters -> [Partitions -> Nat]]
       /\ idle'[l][p] = 0
       /\ \A m \in Limiters, q \in Partitions :
            /\ <<m, q>> # <<l, p>> => idle'[m][q] = idle[m][q]
            /\ idle'[m][q] <= Stack[m].window
  <2>1. /\ idle' \in [Limiters -> [Partitions -> Nat]]
        /\ idle'[l][p] = 0
        /\ \A m \in Limiters, q \in Partitions :
             <<m, q>> # <<l, p>> => idle'[m][q] = idle[m][q]
    BY <1>2, <1>5 DEF TypeOK
  <2>2. 0 <= Stack[l].window
    BY StackTypes
  <2> QED
    BY <2>1, <2>2 DEF TypeOK
<1>11. /\ owed' \in [Limiters -> [Partitions -> Nat]]
       /\ owed'[l][p] = Store(l)!Owed(d, 1)
       /\ \A m \in Limiters, q \in Partitions :
            <<m, q>> # <<l, p>> => owed'[m][q] = owed[m][q]
  BY <1>2, <1>4, <1>5 DEF TypeOK
<1>12. /\ tally' \in [Limiters -> [Partitions -> Tallies]]
       /\ tally'[l][p] = u
       /\ \A m \in Limiters, q \in Partitions :
            <<m, q>> # <<l, p>> => tally'[m][q] = tally[m][q]
  BY <1>2, <1>8, <1>10 DEF TypeOK
<1>13. /\ DOMAIN conn' = DOMAIN conn
       /\ conn' \in [DOMAIN conn' -> Requests]
       /\ conn'[c] = r
       /\ \A e \in DOMAIN conn \ {c} : conn'[e] = conn[e]
  BY <1>1, <1>5, <1>9, MoveFacts
<1>14. \A m \in Limiters, q \in Partitions : owed'[m][q] <= Stack[m].burst * Stack[m].window
  BY <1>4, <1>11 DEF TypeOK, Full
<1>15. TypeOK'
  BY <1>1, <1>11, <1>12, <1>13, <1>14, <1>17 DEF TypeOK
<1>16. \A m \in Limiters, q \in Partitions : tally'[m][q].served = tally[m][q].served
  BY <1>8, <1>12
<1> QED
  BY <1>1, <1>2, <1>4, <1>8, <1>9, <1>11, <1>12, <1>13, <1>15, <1>16, <1>17 DEF d, fits

\* One tick repays every debt by count, down to zero, and forgets those that
\* idled one window.
LEMMA TickEffect ==
  ASSUME TypeOK, Tick
  PROVE  /\ TypeOK'
         /\ clock' = clock + 1 /\ conn' = conn /\ tally' = tally
         /\ \A l \in Limiters, p \in Partitions :
              LET left == IF owed[l][p] > Stack[l].count THEN owed[l][p] - Stack[l].count ELSE 0
                  over == idle[l][p] + 1 >= Stack[l].window
              IN  /\ owed'[l][p] = IF over THEN 0 ELSE left
                  /\ idle'[l][p] = IF over THEN Stack[l].window ELSE idle[l][p] + 1
<1> DEFINE left(l, p) == IF owed[l][p] > Stack[l].count THEN owed[l][p] - Stack[l].count ELSE 0
           over(l, p) == idle[l][p] + 1 >= Stack[l].window
<1>1. clock' = clock + 1 /\ conn' = conn /\ tally' = tally
  BY DEF Tick
<1>2. ASSUME NEW l \in Limiters, NEW p \in Partitions
      PROVE  /\ owed[l][p] \in Nat /\ owed[l][p] <= Full(l) /\ idle[l][p] \in Nat
             /\ Stack[l].count \in Nat /\ Stack[l].window \in Nat \ {0} /\ Full(l) \in Nat
  BY StackTypes DEF TypeOK, Full
<1>3. ASSUME NEW l \in Limiters, NEW p \in Partitions
      PROVE  /\ Store(l)!Idled(idle[l][p]) =
                  IF over(l, p) THEN Stack[l].window ELSE idle[l][p] + 1
             /\ Store(l)!Drained(owed[l][p], idle[l][p]) =
                  IF over(l, p) THEN 0 ELSE left(l, p)
  <2>1. Store(l)!Idled(idle[l][p]) = IF over(l, p) THEN Stack[l].window ELSE idle[l][p] + 1
    BY <1>2 DEF Store!Idled, Store!Earlier
  <2>2. Store(l)!Idled(idle[l][p]) = Stack[l].window <=> over(l, p)
    BY <1>2, <2>1
  <2>3. Store(l)!SaturatingSub(owed[l][p], Stack[l].count) = left(l, p)
    BY DEF Store!SaturatingSub
  <2> QED
    BY <2>1, <2>2, <2>3 DEF Store!Drained
<1>4. ASSUME NEW l \in Limiters, NEW p \in Partitions
      PROVE  /\ owed'[l][p] = Store(l)!Drained(owed[l][p], idle[l][p])
             /\ idle'[l][p] = Store(l)!Idled(idle[l][p])
  BY DEF Tick
<1>5. ASSUME NEW l \in Limiters, NEW p \in Partitions
      PROVE  /\ owed'[l][p] \in Nat /\ owed'[l][p] <= Stack[l].burst * Stack[l].window
             /\ idle'[l][p] \in Nat /\ idle'[l][p] <= Stack[l].window
  BY <1>2, <1>3, <1>4 DEF Full
<1>6. /\ owed' \in [Limiters -> [Partitions -> Nat]]
      /\ idle' \in [Limiters -> [Partitions -> Nat]]
  BY <1>5 DEF Tick
<1>7. TypeOK'
  BY <1>1, <1>5, <1>6 DEF TypeOK
<1> QED
  BY <1>1, <1>3, <1>4, <1>7

\* An eviction forgets one partition of a store that may be too small.
LEMMA EvictEffect ==
  ASSUME TypeOK, NEW l \in Limiters, NEW p \in Partitions, Evict(l, p)
  PROVE  /\ TypeOK'
         /\ clock' = clock /\ conn' = conn /\ tally' = tally
         /\ ~Lossless(l) /\ idle[l][p] < Stack[l].window
         /\ owed'[l][p] = 0 /\ idle'[l][p] = Stack[l].window
         /\ \A m \in Limiters, q \in Partitions :
              <<m, q>> # <<l, p>> => owed'[m][q] = owed[m][q] /\ idle'[m][q] = idle[m][q]
<1>1. /\ clock' = clock /\ conn' = conn /\ tally' = tally /\ idle[l][p] < Stack[l].window
      /\ owed' = [owed EXCEPT ![l][p] = 0]
      /\ idle' = [idle EXCEPT ![l][p] = Stack[l].window]
  BY DEF Evict
<1>2. ~Lossless(l)
  BY DEF Evict, Lossless
<1>3. /\ owed' \in [Limiters -> [Partitions -> Nat]] /\ idle' \in [Limiters -> [Partitions -> Nat]]
      /\ owed'[l][p] = 0 /\ idle'[l][p] = Stack[l].window
      /\ \A m \in Limiters, q \in Partitions :
           <<m, q>> # <<l, p>> => owed'[m][q] = owed[m][q] /\ idle'[m][q] = idle[m][q]
  BY <1>1, StackTypes DEF TypeOK
<1>4. \A m \in Limiters, q \in Partitions :
        /\ owed'[m][q] <= Stack[m].burst * Stack[m].window
        /\ idle'[m][q] <= Stack[m].window
  <2>1. Full(l) >= 0 /\ Stack[l].window <= Stack[l].window
    BY StackTypes
  <2> QED
    BY <1>3, <2>1 DEF TypeOK, Full
<1>5. TypeOK'
  BY <1>1, <1>3, <1>4 DEF TypeOK
<1> QED
  BY <1>1, <1>2, <1>3, <1>5

\* A served request is counted by each limiter that metered it.
LEMMA ServeEffect ==
  ASSUME TypeOK, NEW c \in Conns, Serve(c)
  PROVE  /\ TypeOK'
         /\ Before(c, Len(Stack) + 1)
         /\ clock' = clock /\ owed' = owed /\ idle' = idle /\ conn' = Drop(conn, c)
         /\ \A l \in Limiters, p \in Partitions :
              /\ tally'[l][p].births = tally[l][p].births
              /\ tally'[l][p].retry = tally[l][p].retry
              /\ tally'[l][p].full = tally[l][p].full
              /\ tally'[l][p].served =
                   IF Meters(l, conn[c].keys) /\ p = conn[c].keys[l]
                   THEN tally[l][p].served + 1 ELSE tally[l][p].served
<1>1. /\ c \in DOMAIN conn /\ Before(c, Len(Stack) + 1)
      /\ clock' = clock /\ owed' = owed /\ idle' = idle /\ conn' = Drop(conn, c)
  BY DEF Serve, Before
<1>2. ASSUME NEW l \in Limiters
      PROVE  /\ tally'[l] \in [Partitions -> Tallies]
             /\ \A p \in Partitions :
                  /\ tally'[l][p].births = tally[l][p].births
                  /\ tally'[l][p].retry = tally[l][p].retry
                  /\ tally'[l][p].full = tally[l][p].full
                  /\ tally'[l][p].served =
                       IF Meters(l, conn[c].keys) /\ p = conn[c].keys[l]
                       THEN tally[l][p].served + 1 ELSE tally[l][p].served
  <2> DEFINE p == conn[c].keys[l]
             t == tally[l][p]
             u == [t EXCEPT !.served = @ + 1]
  <2>1. p \in Partitions /\ tally[l] \in [Partitions -> Tallies]
    BY <1>1, RequestFacts DEF TypeOK
  <2>2. t \in Tallies
    BY <2>1
  <2> HIDE DEF t
  <2>3. /\ u \in Tallies /\ u.served = t.served + 1 /\ u.births = t.births
        /\ u.retry = t.retry /\ u.full = t.full
    BY <2>2 DEF Tallies
  <2>4. tally'[l] = IF Meters(l, conn[c].keys) THEN [tally[l] EXCEPT ![p] = u] ELSE tally[l]
    BY DEF Serve, t
  <2> HIDE DEF u, p
  <2>5. CASE Meters(l, conn[c].keys)
    <3>1. tally'[l] = [tally[l] EXCEPT ![p] = u]
      BY <2>4, <2>5
    <3>2. tally'[l] \in [Partitions -> Tallies]
      BY <2>1, <2>3, <3>1
    <3>3. ASSUME NEW q \in Partitions
          PROVE  tally'[l][q] = IF q = p THEN u ELSE tally[l][q]
      BY <2>1, <3>1
    <3> QED
      BY <2>3, <2>5, <3>2, <3>3 DEF t, p
  <2>6. CASE ~Meters(l, conn[c].keys)
    BY <2>1, <2>4, <2>6
  <2> QED
    BY <2>5, <2>6
<1>3. tally' \in [Limiters -> [Partitions -> Tallies]]
  BY <1>2 DEF Serve
<1>4. DOMAIN conn' = DOMAIN conn \ {c} /\ conn' \in [DOMAIN conn' -> Requests]
  BY <1>1, DropFacts
<1> QED
  BY <1>1, <1>2, <1>3, <1>4 DEF TypeOK

\* Requests that come, skip a limiter, are rejected or leave: no limiter has let
\* more of them pass than before.
LEMMA QuietEffect ==
  ASSUME TypeOK, NEW c \in Conns,
         \/ \E keys \in Callers : Arrive(c, keys)
         \/ \E l \in Limiters : Skip(c, l) \/ Reject(c, l)
         \/ Refuse(c)
  PROVE  /\ TypeOK'
         /\ clock' = clock /\ owed' = owed /\ idle' = idle /\ tally' = tally
         /\ DOMAIN conn' \subseteq DOMAIN conn \cup {c}
         /\ \A l \in Limiters, p \in Partitions : Passed(l, p)' \subseteq Passed(l, p)
<1> DEFINE Rest == /\ clock' = clock /\ owed' = owed /\ idle' = idle /\ tally' = tally
                   /\ DOMAIN conn' \subseteq DOMAIN conn \cup {c}
                   /\ conn' \in [DOMAIN conn' -> Requests]
                   /\ \A l \in Limiters, p \in Partitions : Passed(l, p)' \subseteq Passed(l, p)
<1>1. ASSUME NEW keys \in Callers, Arrive(c, keys)
      PROVE  Rest
  <2> DEFINE r == [at |-> 1, keys |-> keys, items |-> << >>,
                   halted |-> FALSE, retry_after |-> FALSE]
  <2>1. c \notin DOMAIN conn /\ conn' = Assign(conn, c, r)
        /\ clock' = clock /\ owed' = owed /\ idle' = idle /\ tally' = tally
    BY <1>1 DEF Arrive
  <2>2. r \in Requests /\ r.at = 1
    BY StackTypes DEF Requests
  <2> HIDE DEF r
  <2>3. /\ DOMAIN conn' = DOMAIN conn \cup {c}
        /\ conn'[c] = r
        /\ \A e \in DOMAIN conn : conn'[e] = conn[e]
    BY <2>1 DEF Assign
  <2>4. conn' \in [DOMAIN conn' -> Requests]
    BY <2>1, <2>2 DEF Assign, TypeOK
  <2>5. \A l \in Limiters : ~(conn'[c].at > l)
    BY <2>2, <2>3, StackTypes
  <2> QED
    BY <2>1, <2>3, <2>4, <2>5 DEF Passed
<1>2. ASSUME NEW l \in Limiters, Skip(c, l)
      PROVE  Rest
  <2> DEFINE r == [conn[c] EXCEPT !.at = l + 1]
  <2>1. /\ c \in DOMAIN conn /\ conn[c].at = l /\ ~Meters(l, conn[c].keys)
        /\ conn' = [conn EXCEPT ![c] = r]
        /\ clock' = clock /\ owed' = owed /\ idle' = idle /\ tally' = tally
    BY <1>2 DEF Skip, Before, Meters
  <2>2. conn[c] \in Requests
    BY <2>1, RequestFacts
  <2>3. r \in Requests /\ r.at = l + 1 /\ r.keys = conn[c].keys
    <3>1. l + 1 \in 1..(Len(Stack) + 1)
      BY StackTypes
    <3> QED
      BY <2>2, <3>1, AtFacts
  <2> HIDE DEF r
  <2>4. /\ DOMAIN conn' = DOMAIN conn
        /\ conn' \in [DOMAIN conn' -> Requests]
        /\ conn'[c] = r
        /\ \A e \in DOMAIN conn \ {c} : conn'[e] = conn[e]
    BY <2>1, <2>3, MoveFacts
  <2>5. ASSUME NEW m \in Limiters, conn'[c].at > m, Meters(m, conn'[c].keys)
        PROVE  conn[c].at > m
    BY <2>1, <2>3, <2>4, <2>5, StackTypes
  <2>6. ASSUME NEW m \in Limiters, NEW p \in Partitions, NEW e \in Passed(m, p)'
        PROVE  e \in Passed(m, p)
    <3>1. e \in DOMAIN conn /\ conn'[e].keys = conn[e].keys
      BY <2>3, <2>4, <2>6 DEF Passed
    <3>2. conn'[e].at > m /\ conn'[e].keys[m] = p /\ Meters(m, conn'[e].keys)
      BY <2>6 DEF Passed
    <3> QED
      BY <2>4, <2>5, <3>1, <3>2 DEF Passed
  <2> QED
    BY <2>1, <2>4, <2>6
<1>3. ASSUME NEW l \in Limiters, Reject(c, l)
      PROVE  Rest
  <2> DEFINE r == [conn[c] EXCEPT !.halted = TRUE]
  <2>1. /\ c \in DOMAIN conn
        /\ conn' = [conn EXCEPT ![c] = r]
        /\ clock' = clock /\ owed' = owed /\ idle' = idle /\ tally' = tally
    BY <1>3 DEF Reject, Before
  <2>2. conn[c] \in Requests
    BY <2>1, RequestFacts
  <2>3. r \in Requests /\ r.at = conn[c].at /\ r.keys = conn[c].keys
    BY <2>2 DEF Requests
  <2> HIDE DEF r
  <2>4. /\ DOMAIN conn' = DOMAIN conn
        /\ conn' \in [DOMAIN conn' -> Requests]
        /\ \A e \in DOMAIN conn : conn'[e].at = conn[e].at /\ conn'[e].keys = conn[e].keys
    BY <2>1, <2>3, MoveFacts
  <2> QED
    BY <2>1, <2>4 DEF Passed
<1>4. ASSUME Refuse(c)
      PROVE  Rest
  <2>1. /\ c \in DOMAIN conn
        /\ conn' = Drop(conn, c)
        /\ clock' = clock /\ owed' = owed /\ idle' = idle /\ tally' = tally
    BY <1>4 DEF Refuse
  <2> QED
    BY <2>1, DropFacts DEF Passed
<1>5. Rest
  BY <1>1, <1>2, <1>3, <1>4
<1> QED
  BY <1>5 DEF TypeOK

-----------------------------------------------------------------------------
(* The invariant.                                                           *)

\* The requests past a limiter are finitely many.
LEMMA PassedFacts ==
  ASSUME IsFiniteSet(DOMAIN conn), NEW l, NEW p
  PROVE  IsFiniteSet(Passed(l, p)) /\ Cardinality(Passed(l, p)) \in Nat
<1>1. Passed(l, p) \subseteq DOMAIN conn
  BY DEF Passed
<1> QED
  BY <1>1, FS_Subset, FS_CardinalityType

\* A bucket that goes leaves its partition a whole burst.
LEMMA BucketsGone ==
  ASSUME NEW l \in Limiters, NEW b \in Nat
  PROVE  /\ b * Full(l) \in Nat
         /\ b >= 1 => (b - 1) * Full(l) \in Nat /\ b * Full(l) = (b - 1) * Full(l) + Full(l)
<1>1. Full(l) \in Nat
  BY StackTypes
<1> QED
  BY <1>1

\* A credit is what is owed, and no less.
LEMMA CreditType ==
  ASSUME NEW l \in Limiters, NEW d \in Nat, NEW i \in Nat, NEW b \in Nat,
         Tracked(l, d, i, b)
  PROVE  CreditOf(l, d, i, b) \in Nat
<1>1. Alive(l, i) \in {0, 1} /\ Alive(l, i) <= b
  BY DEF Alive, Tracked
<1>2. b - Alive(l, i) \in Nat
  BY <1>1
<1>3. (b - Alive(l, i)) * Full(l) \in Nat
  BY <1>2, BucketsGone
<1> DEFINE gone == (b - Alive(l, i)) * Full(l)
<1>4. gone \in Nat
  BY <1>3
<1> HIDE DEF gone
<1>5. d + (IF Lossless(l) THEN 0 ELSE gone) \in Nat
  BY <1>4
<1> QED
  BY <1>5 DEF CreditOf, gone

\* A tick takes count off the credit at most, also when the bucket expires: then
\* the idle window has repaid the debt, or else the bucket is one of those gone.
LEMMA TickCredit ==
  ASSUME NEW l \in Limiters, NEW d \in Nat, d <= Full(l), NEW i \in Nat, NEW b \in Nat,
         Tracked(l, d, i, b), NEW e, NEW k,
         LET left == IF d > Stack[l].count THEN d - Stack[l].count ELSE 0
             over == i + 1 >= Stack[l].window
         IN  /\ e = IF over THEN 0 ELSE left
             /\ k = IF over THEN Stack[l].window ELSE i + 1
  PROVE  /\ Tracked(l, e, k, b)
         /\ CreditOf(l, d, i, b) <= CreditOf(l, e, k, b) + Stack[l].count
<1> DEFINE n == Stack[l].count
           w == Stack[l].window
           F == Full(l)
<1>1. n \in Nat /\ w \in Nat \ {0} /\ F \in Nat
  BY StackTypes
<1>2. i * n \in Nat /\ (i + 1) * n = i * n + n
  BY <1>1
<1>3. (d = 0 \/ d + i * n <= F) /\ Alive(l, i) <= b /\ (Alive(l, i) = 0 => d = 0)
  BY DEF Tracked
<1>4. CASE i + 1 < w
  <2>1. e = (IF d > n THEN d - n ELSE 0) /\ k = i + 1
    BY <1>1, <1>4
  <2>2. Alive(l, i) = 1 /\ Alive(l, k) = 1
    BY <1>1, <1>4, <2>1 DEF Alive
  <2>3. e = 0 \/ e + k * n <= F
    <3> DEFINE x == i * n
    <3>1. x \in Nat /\ k * n = x + n /\ (d = 0 \/ d + x <= F)
      BY <1>2, <1>3, <2>1
    <3> HIDE DEF x, n, F
    <3> QED
      BY <1>1, <2>1, <3>1
  <2>4. Tracked(l, e, k, b)
    BY <1>3, <2>2, <2>3 DEF Tracked
  <2> DEFINE gone == IF Lossless(l) THEN 0 ELSE (b - 1) * F
  <2>5. gone \in Nat
    BY <1>3, <2>2, BucketsGone
  <2>6. CreditOf(l, d, i, b) = d + gone /\ CreditOf(l, e, k, b) = e + gone
    BY <2>2 DEF CreditOf
  <2> HIDE DEF gone, n
  <2>7. d + gone <= (e + gone) + n
    BY <1>1, <2>1, <2>5
  <2> QED
    BY <2>4, <2>6, <2>7 DEF n
<1>5. CASE i + 1 >= w
  <2>1. e = 0 /\ k = w
    BY <1>5
  <2>2. Alive(l, k) = 0
    BY <1>1, <2>1 DEF Alive
  <2>3. Tracked(l, e, k, b)
    BY <2>1, <2>2 DEF Tracked
  <2>4. CASE Lossless(l)
    <3>1. CreditOf(l, d, i, b) = d /\ CreditOf(l, e, k, b) = 0
      BY <2>1, <2>4 DEF CreditOf
    <3>2. F <= i * n + n
      <4>1. Stack[l].burst \in Nat /\ Stack[l].burst <= n
        BY <2>4, StackTypes DEF Lossless
      <4>2. F <= w * n
        BY <1>1, <4>1 DEF Full
      <4>3. w <= i + 1
        BY <1>1, <1>5
      <4>4. w * n <= (i + 1) * n
        BY <1>1, <4>3
      <4>5. (i + 1) * n = i * n + n /\ w * n \in Nat /\ (i + 1) * n \in Nat
        BY <1>1, <1>2
      <4> DEFINE x == w * n
                 y == (i + 1) * n
                 z == i * n + n
      <4>6. F <= x /\ x <= y /\ y = z /\ x \in Nat /\ y \in Nat
        BY <4>2, <4>4, <4>5
      <4> HIDE DEF F, x, y, z
      <4>7. F <= z
        BY <1>1, <4>6
      <4> QED
        BY <4>7 DEF z
    <3>3. d <= n
      <4> DEFINE x == i * n
      <4>1. x \in Nat /\ F <= x + n /\ (d = 0 \/ d + x <= F)
        BY <1>2, <1>3, <3>2
      <4> HIDE DEF x, n, F
      <4> QED
        BY <1>1, <4>1
    <3> QED
      BY <1>1, <2>3, <3>1, <3>3
  <2>5. CASE ~Lossless(l)
    <3>1. CreditOf(l, d, i, b) = d + (b - Alive(l, i)) * F
      BY <2>5 DEF CreditOf
    <3>2. CreditOf(l, e, k, b) = b * F
      <4>1. CreditOf(l, e, k, b) = 0 + (b - 0) * F /\ b - 0 = b
        BY <2>1, <2>2, <2>5 DEF CreditOf
      <4>2. b * F \in Nat
        BY BucketsGone
      <4> QED
        BY <4>1, <4>2
    <3>3. d + (b - Alive(l, i)) * F <= b * F
      <4>1. CASE Alive(l, i) = 0
        BY <1>1, <1>3, <4>1
      <4>2. CASE Alive(l, i) = 1
        <5> DEFINE x == (b - 1) * F
                   y == b * F
        <5>1. x \in Nat /\ y = x + F
          BY <1>3, <4>2, BucketsGone
        <5> HIDE DEF x, y, F
        <5>2. d + x <= y
          BY <1>1, <5>1 DEF F
        <5> QED
          BY <4>2, <5>2 DEF x, y
      <4> QED
        BY <4>1, <4>2 DEF Alive
    <3> DEFINE x == d + (b - Alive(l, i)) * F
               y == b * F
    <3>4. x <= y /\ y \in Nat /\ x \in Nat
      BY <3>1, <3>3, BucketsGone, CreditType
    <3> HIDE DEF x, y, n
    <3>5. x <= y + n
      BY <1>1, <3>4
    <3> QED
      BY <2>3, <3>1, <3>2, <3>5 DEF x, y, n
  <2> QED
    BY <2>4, <2>5
<1> QED
  BY <1>1, <1>4, <1>5

\* A request adds to the credit what it is charged, whether it finds a bucket or
\* has one made.
LEMMA RequestCredit ==
  ASSUME NEW l \in Limiters, NEW d \in Nat, NEW i \in Nat, i <= Stack[l].window, NEW b \in Nat,
         Tracked(l, d, i, b), NEW e \in Nat, e <= Full(l), NEW c,
         c = b + (IF i = Stack[l].window THEN 1 ELSE 0)
  PROVE  /\ Tracked(l, e, 0, c)
         /\ CreditOf(l, e, 0, c) = CreditOf(l, d, i, b) + (e - d)
<1>1. /\ Stack[l].window \in Nat \ {0} /\ Stack[l].count \in Nat
  BY StackTypes
<1>2. Alive(l, 0) = 1 /\ Alive(l, i) = (IF i = Stack[l].window THEN 0 ELSE 1) /\ Alive(l, i) <= b
  BY <1>1 DEF Alive, Tracked
<1>3. c \in Nat /\ 1 <= c /\ c - Alive(l, 0) = b - Alive(l, i)
  BY <1>2
<1>4. e + 0 * Stack[l].count = e
  BY <1>1
<1>5. Tracked(l, e, 0, c)
  BY <1>2, <1>3, <1>4 DEF Tracked
<1> DEFINE gone == IF Lossless(l) THEN 0 ELSE (b - Alive(l, i)) * Full(l)
<1>6. gone \in Nat
  <2>1. b - Alive(l, i) \in Nat
    BY <1>2
  <2> QED
    BY <2>1, BucketsGone
<1>7. CreditOf(l, d, i, b) = d + gone /\ CreditOf(l, e, 0, c) = e + gone
  BY <1>3 DEF CreditOf
<1> HIDE DEF gone
<1>8. e + gone = (d + gone) + (e - d)
  BY <1>6
<1> QED
  BY <1>5, <1>7, <1>8

\* An evicted bucket is one of those gone.
LEMMA EvictCredit ==
  ASSUME NEW l \in Limiters, ~Lossless(l), NEW d \in Nat, d <= Full(l),
         NEW i \in Nat, i < Stack[l].window, NEW b \in Nat, Tracked(l, d, i, b)
  PROVE  /\ Tracked(l, 0, Stack[l].window, b)
         /\ CreditOf(l, d, i, b) <= CreditOf(l, 0, Stack[l].window, b)
<1>1. Stack[l].window \in Nat \ {0} /\ Full(l) \in Nat
  BY StackTypes
<1>2. Alive(l, i) = 1 /\ Alive(l, Stack[l].window) = 0 /\ b >= 1
  BY <1>1 DEF Alive, Tracked
<1> DEFINE x == (b - 1) * Full(l)
           y == b * Full(l)
<1>3. CreditOf(l, d, i, b) = d + x
  BY <1>2 DEF CreditOf
<1>4. CreditOf(l, 0, Stack[l].window, b) = y
  <2>1. CreditOf(l, 0, Stack[l].window, b) = 0 + (b - 0) * Full(l) /\ b - 0 = b
    BY <1>2 DEF CreditOf
  <2>2. y \in Nat
    BY BucketsGone
  <2> QED
    BY <2>1, <2>2
<1>5. x \in Nat /\ y = x + Full(l)
  BY <1>2, BucketsGone
<1> HIDE DEF x, y
<1>6. d + x <= y
  BY <1>1, <1>5
<1>7. Tracked(l, 0, Stack[l].window, b)
  BY <1>2 DEF Tracked
<1> QED
  BY <1>3, <1>4, <1>6, <1>7

\* What the invariant says of one partition.
LEMMA PartitionFacts ==
  ASSUME IInv, NEW l \in Limiters, NEW p \in Partitions
  PROVE  /\ tally[l][p].served \in Nat /\ tally[l][p].births \in Nat
         /\ clock \in Nat
         /\ owed[l][p] \in Nat /\ owed[l][p] <= Full(l)
         /\ idle[l][p] \in Nat /\ idle[l][p] <= Stack[l].window
         /\ Tracked(l, owed[l][p], idle[l][p], tally[l][p].births)
         /\ Credit(l, p) \in Nat
         /\ Admitted(l, p) \in Nat
         /\ Admitted(l, p) * Stack[l].window <= Credit(l, p) + clock * Stack[l].count
<1>1. /\ tally[l][p] \in Tallies /\ clock \in Nat
      /\ owed[l][p] \in Nat /\ owed[l][p] <= Full(l)
      /\ idle[l][p] \in Nat /\ idle[l][p] <= Stack[l].window
  BY DEF IInv, TypeOK, Full
<1>2. tally[l][p].served \in Nat /\ tally[l][p].births \in Nat
  BY <1>1 DEF Tallies
<1>3. Tracked(l, owed[l][p], idle[l][p], tally[l][p].births)
  BY DEF IInv, Draining
<1>4. Credit(l, p) \in Nat
  BY <1>1, <1>2, <1>3, CreditType DEF Credit
<1>5. Admitted(l, p) \in Nat
  BY <1>2, PassedFacts DEF IInv, Admitted
<1>6. Admitted(l, p) * Stack[l].window <= Credit(l, p) + clock * Stack[l].count
  BY DEF IInv, Covered
<1> QED
  BY <1>1, <1>2, <1>3, <1>4, <1>5, <1>6

\* A step that leaves a partition's bucket alone leaves its credit alone.
LEMMA CreditKept ==
  ASSUME IInv, NEW l \in Limiters, NEW p \in Partitions,
         owed'[l][p] = owed[l][p], idle'[l][p] = idle[l][p],
         tally'[l][p].births = tally[l][p].births
  PROVE  /\ Tracked(l, owed'[l][p], idle'[l][p], tally'[l][p].births)
         /\ Credit(l, p)' = Credit(l, p)
         /\ Credit(l, p)' \in Nat /\ Credit(l, p)' >= Credit(l, p)
<1>1. Credit(l, p)' = CreditOf(l, owed'[l][p], idle'[l][p], tally'[l][p].births)
  BY DEF Credit
<1>2. Credit(l, p)' = Credit(l, p)
  BY <1>1 DEF Credit
<1>3. Credit(l, p) \in Nat /\ Tracked(l, owed[l][p], idle[l][p], tally[l][p].births)
  BY PartitionFacts
<1> QED
  BY <1>2, <1>3

\* What was admitted costs no more, if no more has passed and no credit is lost.
LEMMA CoveredKept ==
  ASSUME IInv, NEW l \in Limiters, NEW p \in Partitions,
         Admitted(l, p)' \in Int, Admitted(l, p)' <= Admitted(l, p), clock' = clock,
         Credit(l, p)' \in Nat, Credit(l, p)' >= Credit(l, p)
  PROVE  Admitted(l, p)' * Stack[l].window <= Credit(l, p)' + clock' * Stack[l].count
<1>1. Credit(l, p) \in Nat /\ Admitted(l, p) \in Nat /\ clock \in Nat
  BY PartitionFacts
<1>3. Stack[l].window \in Nat /\ Stack[l].count \in Nat
  BY StackTypes
<1>4. Admitted(l, p)' * Stack[l].window <= Admitted(l, p) * Stack[l].window
  BY <1>1, <1>3
<1>5. clock * Stack[l].count \in Nat
  BY <1>1, <1>3
<1>6. Admitted(l, p) * Stack[l].window <= Credit(l, p) + clock * Stack[l].count
  BY PartitionFacts
<1>7. /\ Admitted(l, p) * Stack[l].window \in Int
      /\ Admitted(l, p)' * Stack[l].window \in Int
  BY <1>1, <1>3
<1> DEFINE a == Admitted(l, p)' * Stack[l].window
           b == Admitted(l, p) * Stack[l].window
           e == clock * Stack[l].count
<1>8. a \in Int /\ b \in Int /\ e \in Int /\ a <= b /\ b <= Credit(l, p) + e
  BY <1>4, <1>5, <1>6, <1>7
<1> HIDE DEF a, b, e
<1>9. a <= Credit(l, p)' + e
  BY <1>1, <1>8
<1> QED
  BY <1>9 DEF a, e

\* Nothing is served, owed or under way at first.
LEMMA InitIInv == Init => IInv
<1> SUFFICES ASSUME Init PROVE IInv
  OBVIOUS
<1>1. clock = 0 /\ conn = << >> /\ DOMAIN conn = {}
  BY DEF Init
<1>2. /\ owed = [l \in Limiters |-> [p \in Partitions |-> 0]]
      /\ idle = [l \in Limiters |-> [p \in Partitions |-> Stack[l].window]]
      /\ tally = [l \in Limiters |-> [p \in Partitions |->
                    [served |-> 0, births |-> 0, retry |-> {}, full |-> {}]]]
  BY DEF Init
<1>3. ASSUME NEW l \in Limiters, NEW p \in Partitions
      PROVE  /\ owed[l][p] = 0
             /\ idle[l][p] = Stack[l].window
             /\ tally[l][p] = [served |-> 0, births |-> 0, retry |-> {}, full |-> {}]
             /\ Stack[l].window \in Nat
             /\ Stack[l].burst * Stack[l].window \in Nat
  BY <1>2, StackTypes
<1>4. [served |-> 0, births |-> 0, retry |-> {}, full |-> {}] \in Tallies
  BY DEF Tallies
<1>5. TypeOK
  <2>1. conn \in [DOMAIN conn -> Requests]
    BY <1>1
  <2>2. \A l \in Limiters, p \in Partitions :
          /\ owed[l][p] <= Stack[l].burst * Stack[l].window
          /\ idle[l][p] <= Stack[l].window
    BY <1>3
  <2>3. /\ owed \in [Limiters -> [Partitions -> Nat]]
        /\ idle \in [Limiters -> [Partitions -> Nat]]
        /\ tally \in [Limiters -> [Partitions -> Tallies]]
    BY <1>2, <1>3, <1>4
  <2> QED
    BY <1>1, <2>1, <2>2, <2>3 DEF TypeOK
<1>6. IsFiniteSet(DOMAIN conn)
  BY <1>1, FS_EmptySet
<1>7. ASSUME NEW l \in Limiters, NEW p \in Partitions
      PROVE  Tracked(l, owed[l][p], idle[l][p], tally[l][p].births) /\ Credit(l, p) = 0
  <2>1. owed[l][p] = 0 /\ tally[l][p].births = 0 /\ Alive(l, idle[l][p]) = 0
    BY <1>3 DEF Alive
  <2>2. (0 - 0) * Full(l) = 0
    BY StackTypes
  <2> QED
    BY <2>1, <2>2 DEF Tracked, Credit, CreditOf
<1>8. Draining
  BY <1>7 DEF Draining
<1>9. Covered
  <2> SUFFICES ASSUME NEW l \in Limiters, NEW p \in Partitions
               PROVE  Admitted(l, p) * Stack[l].window <= Credit(l, p) + clock * Stack[l].count
    BY DEF Covered
  <2>1. Passed(l, p) = {}
    BY <1>1 DEF Passed
  <2>2. Admitted(l, p) = 0
    BY <1>3, <2>1, FS_EmptySet DEF Admitted
  <2> QED
    BY <1>1, <1>7, <2>2, StackTypes
<1> QED
  BY <1>5, <1>6, <1>8, <1>9 DEF IInv

\* Time repays no more than count a tick.
LEMMA TickIInv == IInv /\ Tick => IInv'
<1> SUFFICES ASSUME IInv, Tick PROVE IInv'
  OBVIOUS
<1>1. /\ TypeOK' /\ clock' = clock + 1 /\ conn' = conn /\ tally' = tally
      /\ \A l \in Limiters, p \in Partitions :
           LET left == IF owed[l][p] > Stack[l].count THEN owed[l][p] - Stack[l].count ELSE 0
               over == idle[l][p] + 1 >= Stack[l].window
           IN  /\ owed'[l][p] = IF over THEN 0 ELSE left
               /\ idle'[l][p] = IF over THEN Stack[l].window ELSE idle[l][p] + 1
  BY TickEffect DEF IInv
<1>2. ASSUME NEW l \in Limiters, NEW p \in Partitions
      PROVE  /\ Tracked(l, owed'[l][p], idle'[l][p], tally'[l][p].births)
             /\ Credit(l, p) <= Credit(l, p)' + Stack[l].count
             /\ Credit(l, p)' \in Nat
  <2>1. /\ owed[l][p] \in Nat /\ owed[l][p] <= Full(l) /\ idle[l][p] \in Nat
        /\ tally[l][p].births \in Nat
        /\ Tracked(l, owed[l][p], idle[l][p], tally[l][p].births)
    BY PartitionFacts
  <2>2. /\ Tracked(l, owed'[l][p], idle'[l][p], tally[l][p].births)
        /\ CreditOf(l, owed[l][p], idle[l][p], tally[l][p].births)
             <= CreditOf(l, owed'[l][p], idle'[l][p], tally[l][p].births) + Stack[l].count
    BY <1>1, <2>1, TickCredit
  <2>3. owed'[l][p] \in Nat /\ idle'[l][p] \in Nat
    BY <1>1 DEF TypeOK
  <2>4. Credit(l, p)' = CreditOf(l, owed'[l][p], idle'[l][p], tally[l][p].births)
    BY <1>1 DEF Credit
  <2> QED
    BY <1>1, <2>1, <2>2, <2>3, <2>4, CreditType DEF Credit
<1>3. ASSUME NEW l \in Limiters, NEW p \in Partitions
      PROVE  Admitted(l, p)' * Stack[l].window <= Credit(l, p)' + clock' * Stack[l].count
  <2>1. Admitted(l, p)' = Admitted(l, p)
    BY <1>1 DEF Admitted, Passed
  <2>2. /\ Admitted(l, p) * Stack[l].window <= Credit(l, p) + clock * Stack[l].count
        /\ Admitted(l, p) \in Nat /\ Credit(l, p) \in Nat /\ clock \in Nat
    BY PartitionFacts
  <2>3. Stack[l].count \in Nat /\ Stack[l].window \in Nat
    BY StackTypes
  <2>4. /\ (clock + 1) * Stack[l].count = clock * Stack[l].count + Stack[l].count
        /\ clock * Stack[l].count \in Nat
        /\ Admitted(l, p) * Stack[l].window \in Nat
    BY <2>2, <2>3
  <2> DEFINE b == Admitted(l, p) * Stack[l].window
             e == clock * Stack[l].count
  <2>5. /\ b \in Nat /\ e \in Nat /\ b <= Credit(l, p) + e
        /\ clock' * Stack[l].count = e + Stack[l].count
    BY <1>1, <2>2, <2>4
  <2> HIDE DEF b, e
  <2>6. b <= Credit(l, p)' + clock' * Stack[l].count
    BY <1>2, <2>2, <2>3, <2>5
  <2> QED
    BY <2>1, <2>6 DEF b
<1>4. Covered' /\ Draining'
  BY <1>2, <1>3 DEF Covered, Draining
<1> QED
  BY <1>1, <1>4 DEF IInv

\* A step that lets no more requests pass, and charges none, keeps the invariant.
LEMMA QuietIInv ==
  ASSUME IInv, NEW c \in Conns,
         \/ \E keys \in Callers : Arrive(c, keys)
         \/ \E l \in Limiters : Skip(c, l) \/ Reject(c, l)
         \/ Refuse(c)
  PROVE  IInv'
<1>1. /\ TypeOK'
      /\ clock' = clock /\ owed' = owed /\ idle' = idle /\ tally' = tally
      /\ DOMAIN conn' \subseteq DOMAIN conn \cup {c}
      /\ \A l \in Limiters, p \in Partitions : Passed(l, p)' \subseteq Passed(l, p)
  BY QuietEffect DEF IInv
<1>2. IsFiniteSet(DOMAIN conn')
  <2>1. IsFiniteSet(DOMAIN conn \cup {c})
    BY FS_AddElement DEF IInv
  <2> QED
    BY <1>1, <2>1, FS_Subset
<1>3. ASSUME NEW l \in Limiters, NEW p \in Partitions
      PROVE  /\ Tracked(l, owed'[l][p], idle'[l][p], tally'[l][p].births)
             /\ Admitted(l, p)' * Stack[l].window <= Credit(l, p)' + clock' * Stack[l].count
  <2>1. IsFiniteSet(Passed(l, p)) /\ Cardinality(Passed(l, p)) \in Nat
    BY PassedFacts DEF IInv
  <2>2. /\ Cardinality(Passed(l, p)') <= Cardinality(Passed(l, p))
        /\ Cardinality(Passed(l, p)') \in Nat
    BY <1>1, <2>1, FS_Subset, FS_CardinalityType
  <2>3. tally[l][p].served \in Nat
    BY PartitionFacts
  <2>4. /\ Admitted(l, p) = tally[l][p].served + Cardinality(Passed(l, p))
        /\ Admitted(l, p)' = tally[l][p].served + Cardinality(Passed(l, p)')
    BY <1>1 DEF Admitted
  <2>5. Admitted(l, p)' <= Admitted(l, p) /\ Admitted(l, p)' \in Int
    BY <2>1, <2>2, <2>3, <2>4
  <2>6. /\ Tracked(l, owed'[l][p], idle'[l][p], tally'[l][p].births)
        /\ Credit(l, p)' \in Nat /\ Credit(l, p)' >= Credit(l, p)
    BY <1>1, CreditKept
  <2> QED
    BY <1>1, <2>5, <2>6, CoveredKept
<1> QED
  BY <1>1, <1>2, <1>3 DEF IInv, Covered, Draining

\* A request that passes l owes l one token; a rejected one neither passes nor
\* owes, but the limiters before l keep what they charged (limiter.rs:248-254).
LEMMA MeterIInv ==
  ASSUME IInv, NEW c \in Conns, NEW l \in Limiters, Meter(c, l)
  PROVE  IInv'
<1> DEFINE p    == conn[c].keys[l]
           fits == owed[l][p] + Stack[l].window <= Full(l)
<1>1. /\ TypeOK'
      /\ Before(c, l) /\ Meters(l, conn[c].keys) /\ p \in Partitions
      /\ clock' = clock
      /\ DOMAIN conn' = DOMAIN conn
      /\ conn'[c].keys = conn[c].keys
      /\ conn'[c].at = IF fits THEN l + 1 ELSE l
      /\ \A e \in DOMAIN conn \ {c} : conn'[e] = conn[e]
      /\ owed'[l][p] = IF fits THEN owed[l][p] + Stack[l].window ELSE owed[l][p]
      /\ idle'[l][p] = 0
      /\ tally'[l][p].births =
           tally[l][p].births + (IF idle[l][p] = Stack[l].window THEN 1 ELSE 0)
      /\ \A m \in Limiters, q \in Partitions :
           /\ <<m, q>> # <<l, p>> => /\ owed'[m][q] = owed[m][q]
                                    /\ idle'[m][q] = idle[m][q]
                                    /\ tally'[m][q] = tally[m][q]
           /\ tally'[m][q].served = tally[m][q].served
  BY MeterEffect DEF IInv
<1>2. c \in DOMAIN conn /\ conn[c].at = l
  BY <1>1 DEF Before
<1>5. owed'[l][p] \in Nat /\ owed'[l][p] <= Full(l)
  BY <1>1 DEF TypeOK, Full
<1> HIDE DEF p, fits
<1> DEFINE Later(m, q) == CreditOf(m, owed'[m][q], idle'[m][q], tally'[m][q].births)
<1>6. /\ Tracked(l, owed'[l][p], idle'[l][p], tally'[l][p].births)
      /\ Later(l, p) = Credit(l, p) + (owed'[l][p] - owed[l][p])
  <2>1. /\ owed[l][p] \in Nat /\ idle[l][p] \in Nat /\ idle[l][p] <= Stack[l].window
        /\ tally[l][p].births \in Nat
        /\ Tracked(l, owed[l][p], idle[l][p], tally[l][p].births)
    BY <1>1, PartitionFacts
  <2> DEFINE d == owed[l][p]
             e == owed'[l][p]
             i == idle[l][p]
             b == tally[l][p].births
             n == tally'[l][p].births
  <2>2. /\ d \in Nat /\ i \in Nat /\ i <= Stack[l].window /\ b \in Nat /\ Tracked(l, d, i, b)
        /\ e \in Nat /\ e <= Full(l)
        /\ n = b + (IF i = Stack[l].window THEN 1 ELSE 0)
    BY <1>1, <1>5, <2>1
  <2>3. Credit(l, p) = CreditOf(l, d, i, b) /\ idle'[l][p] = 0
    BY <1>1 DEF Credit
  <2> HIDE DEF d, e, i, b, n
  <2>4. Tracked(l, e, 0, n) /\ CreditOf(l, e, 0, n) = CreditOf(l, d, i, b) + (e - d)
    BY <2>2, RequestCredit
  <2> QED
    BY <2>3, <2>4 DEF d, e, n
<1>7. \A m \in Limiters, q \in Partitions : Credit(m, q)' = Later(m, q)
  BY DEF Credit
<1> HIDE DEF Later
<1>3. ASSUME NEW m \in Limiters, NEW q \in Partitions
      PROVE  /\ Tracked(m, owed'[m][q], idle'[m][q], tally'[m][q].births)
             /\ Admitted(m, q)' * Stack[m].window <= Credit(m, q)' + clock' * Stack[m].count
  <2>1. /\ IsFiniteSet(Passed(m, q)) /\ Cardinality(Passed(m, q)) \in Nat
        /\ tally[m][q].served \in Nat /\ owed[m][q] \in Nat /\ clock \in Nat
        /\ Credit(m, q) \in Nat
    BY PassedFacts, PartitionFacts DEF IInv
  <2>5. /\ Tracked(m, owed'[m][q], idle'[m][q], tally'[m][q].births)
        /\ ~(fits /\ m = l /\ q = p) =>
             Credit(m, q)' \in Nat /\ Credit(m, q)' >= Credit(m, q)
    <3>1. CASE m = l /\ q = p
      <4>1. ~fits => Later(m, q) = Credit(m, q)
        BY <1>1, <1>6, <2>1, <3>1
      <4>2. ~fits => Credit(m, q)' = Credit(m, q)
        BY <1>7, <4>1, Zenon
      <4> QED
        BY <1>6, <2>1, <3>1, <4>2
    <3>2. CASE <<m, q>> # <<l, p>>
      BY <1>1, <3>2, CreditKept
    <3> QED
      BY <3>1, <3>2
  <2>2. /\ Admitted(m, q) = tally[m][q].served + Cardinality(Passed(m, q))
        /\ Admitted(m, q)' = tally[m][q].served + Cardinality(Passed(m, q)')
    BY <1>1 DEF Admitted
  <2>3. CASE fits /\ m = l /\ q = p
    <3>1. Passed(m, q)' = Passed(m, q) \cup {c} /\ c \notin Passed(m, q)
      <4>1. c \in Passed(m, q)' /\ c \notin Passed(m, q)
        BY <1>1, <1>2, <2>3, StackTypes DEF Passed, p
      <4> QED
        BY <1>1, <1>2, <4>1 DEF Passed
    <3>2. Admitted(m, q)' = Admitted(m, q) + 1 /\ Admitted(m, q) \in Nat
      <4>1. Cardinality(Passed(m, q)') = Cardinality(Passed(m, q)) + 1
        BY <2>1, <3>1, FS_AddElement
      <4> QED
        BY <2>1, <2>2, <4>1
    <3>3. Admitted(m, q) * Stack[m].window <= Credit(m, q) + clock * Stack[m].count
      BY DEF IInv, Covered
    <3>4. Stack[m].window \in Nat /\ Stack[m].count \in Nat
      BY StackTypes
    <3>5. /\ (Admitted(m, q) + 1) * Stack[m].window
               = Admitted(m, q) * Stack[m].window + Stack[m].window
          /\ Admitted(m, q) * Stack[m].window \in Nat /\ clock * Stack[m].count \in Nat
      BY <2>1, <3>2, <3>4
    <3>6. Credit(m, q)' = Credit(m, q) + Stack[m].window
      <4>1. Later(m, q) = Credit(m, q) + Stack[m].window
        BY <1>1, <1>6, <2>1, <2>3, <3>4
      <4> QED
        BY <1>7, <4>1, Zenon
    <3> DEFINE b == Admitted(m, q) * Stack[m].window
               e == clock * Stack[m].count
    <3>7. b \in Nat /\ e \in Nat /\ b <= Credit(m, q) + e
      BY <3>3, <3>5
    <3>8. Admitted(m, q)' * Stack[m].window = b + Stack[m].window /\ clock' * Stack[m].count = e
      BY <1>1, <3>2, <3>5
    <3> HIDE DEF b, e
    <3> QED
      BY <2>1, <2>5, <3>4, <3>6, <3>7, <3>8
  <2>4. CASE ~(fits /\ m = l /\ q = p)
    <3>1. c \in Passed(m, q)' => c \in Passed(m, q)
      <4> SUFFICES ASSUME c \in Passed(m, q)' PROVE c \in Passed(m, q)
        OBVIOUS
      <4>1. conn'[c].at > m /\ conn[c].keys[m] = q /\ Meters(m, conn[c].keys)
        BY <1>1 DEF Passed
      <4>2. m # l
        BY <1>1, <2>4, <4>1, StackTypes DEF p
      <4>3. conn[c].at > m
        BY <1>1, <1>2, <4>1, <4>2, StackTypes
      <4> QED
        BY <1>2, <4>1, <4>3 DEF Passed
    <3>2. Passed(m, q)' \subseteq Passed(m, q)
      BY <1>1, <3>1 DEF Passed
    <3>3. /\ Cardinality(Passed(m, q)') <= Cardinality(Passed(m, q))
          /\ Cardinality(Passed(m, q)') \in Nat
      BY <2>1, <3>2, FS_Subset, FS_CardinalityType
    <3>4. Admitted(m, q)' <= Admitted(m, q) /\ Admitted(m, q)' \in Int
      BY <2>1, <2>2, <3>3
    <3> QED
      BY <1>1, <2>4, <2>5, <3>4, CoveredKept
  <2> QED
    BY <2>3, <2>4
<1>4. IsFiniteSet(DOMAIN conn')
  BY <1>1 DEF IInv
<1> QED
  BY <1>1, <1>3, <1>4 DEF IInv, Covered, Draining

\* A served request goes from those that passed to those served.
LEMMA ServeIInv ==
  ASSUME IInv, NEW c \in Conns, Serve(c)
  PROVE  IInv'
<1>1. /\ TypeOK'
      /\ Before(c, Len(Stack) + 1)
      /\ clock' = clock /\ owed' = owed /\ idle' = idle /\ conn' = Drop(conn, c)
      /\ \A l \in Limiters, p \in Partitions :
           /\ tally'[l][p].births = tally[l][p].births
           /\ tally'[l][p].served =
                IF Meters(l, conn[c].keys) /\ p = conn[c].keys[l]
                THEN tally[l][p].served + 1 ELSE tally[l][p].served
  BY ServeEffect DEF IInv
<1>2. c \in DOMAIN conn /\ conn[c].at = Len(Stack) + 1
  BY <1>1 DEF Before
<1>3. /\ DOMAIN conn' = DOMAIN conn \ {c}
      /\ \A e \in DOMAIN conn' : conn'[e] = conn[e]
  BY <1>1, <1>2, DropFacts DEF IInv
<1>4. ASSUME NEW l \in Limiters, NEW p \in Partitions
      PROVE  /\ Tracked(l, owed'[l][p], idle'[l][p], tally'[l][p].births)
             /\ Admitted(l, p)' * Stack[l].window <= Credit(l, p)' + clock' * Stack[l].count
  <2>1. /\ IsFiniteSet(Passed(l, p)) /\ Cardinality(Passed(l, p)) \in Nat
        /\ tally[l][p].served \in Nat
    BY PassedFacts, PartitionFacts DEF IInv
  <2>2. Passed(l, p)' = Passed(l, p) \ {c}
    BY <1>3 DEF Passed
  <2>3. c \in Passed(l, p) <=> Meters(l, conn[c].keys) /\ p = conn[c].keys[l]
    BY <1>2, StackTypes DEF Passed
  <2>4. Cardinality(Passed(l, p)') =
          IF c \in Passed(l, p) THEN Cardinality(Passed(l, p)) - 1 ELSE Cardinality(Passed(l, p))
    BY <2>1, <2>2, FS_RemoveElement
  <2>5. Admitted(l, p)' = Admitted(l, p) /\ Admitted(l, p) \in Nat
    BY <1>1, <2>1, <2>3, <2>4 DEF Admitted
  <2>6. /\ Tracked(l, owed'[l][p], idle'[l][p], tally'[l][p].births)
        /\ Credit(l, p)' \in Nat /\ Credit(l, p)' >= Credit(l, p)
    BY <1>1, CreditKept
  <2> QED
    BY <1>1, <2>5, <2>6, CoveredKept
<1>5. IsFiniteSet(DOMAIN conn')
  BY <1>3, FS_RemoveElement DEF IInv
<1> QED
  BY <1>1, <1>4, <1>5 DEF IInv, Covered, Draining

\* An eviction forgives a debt, but not the burst of the bucket that goes.
LEMMA EvictIInv ==
  ASSUME IInv, NEW l \in Limiters, NEW p \in Partitions, Evict(l, p)
  PROVE  IInv'
<1>1. /\ TypeOK'
      /\ clock' = clock /\ conn' = conn /\ tally' = tally
      /\ ~Lossless(l) /\ idle[l][p] < Stack[l].window
      /\ owed'[l][p] = 0 /\ idle'[l][p] = Stack[l].window
      /\ \A m \in Limiters, q \in Partitions :
           <<m, q>> # <<l, p>> => owed'[m][q] = owed[m][q] /\ idle'[m][q] = idle[m][q]
  BY EvictEffect DEF IInv
<1>2. ASSUME NEW m \in Limiters, NEW q \in Partitions
      PROVE  /\ Tracked(m, owed'[m][q], idle'[m][q], tally'[m][q].births)
             /\ Credit(m, q)' \in Nat /\ Credit(m, q)' >= Credit(m, q)
  <2>1. CASE m = l /\ q = p
    <3>1. /\ owed[l][p] \in Nat /\ owed[l][p] <= Full(l) /\ idle[l][p] \in Nat
          /\ tally[l][p].births \in Nat
          /\ Tracked(l, owed[l][p], idle[l][p], tally[l][p].births)
      BY PartitionFacts
    <3>2. /\ Tracked(l, 0, Stack[l].window, tally[l][p].births)
          /\ CreditOf(l, owed[l][p], idle[l][p], tally[l][p].births)
               <= CreditOf(l, 0, Stack[l].window, tally[l][p].births)
      BY <1>1, <3>1, EvictCredit
    <3>3. Credit(l, p)' = CreditOf(l, owed'[l][p], idle'[l][p], tally'[l][p].births)
      BY DEF Credit
    <3>4. CreditOf(l, 0, Stack[l].window, tally[l][p].births) \in Nat
      BY <3>1, <3>2, StackTypes, CreditType
    <3>5. Credit(l, p) \in Nat
      BY PartitionFacts
    <3> QED
      BY <1>1, <2>1, <3>2, <3>3, <3>4, <3>5 DEF Credit
  <2>2. CASE <<m, q>> # <<l, p>>
    BY <1>1, <2>2, CreditKept
  <2> QED
    BY <2>1, <2>2
<1>3. ASSUME NEW m \in Limiters, NEW q \in Partitions
      PROVE  Admitted(m, q)' * Stack[m].window <= Credit(m, q)' + clock' * Stack[m].count
  <2>1. Admitted(m, q)' = Admitted(m, q)
    BY <1>1 DEF Admitted, Passed
  <2>2. Admitted(m, q) \in Nat
    BY PartitionFacts
  <2> QED
    BY <1>1, <1>2, <2>1, <2>2, CoveredKept
<1> QED
  BY <1>1, <1>2, <1>3 DEF IInv, Covered, Draining

\* Every step keeps the invariant.
LEMMA NextIInv == IInv /\ [Next]_vars => IInv'
<1> SUFFICES ASSUME IInv, [Next]_vars PROVE IInv'
  OBVIOUS
<1>1. CASE Tick
  BY <1>1, TickIInv
<1>2. ASSUME NEW c \in Conns,
             \/ \E keys \in Callers : Arrive(c, keys)
             \/ \E l \in Limiters : Skip(c, l) \/ Reject(c, l)
             \/ Refuse(c)
      PROVE  IInv'
  BY <1>2, QuietIInv
<1>3. ASSUME NEW c \in Conns, NEW l \in Limiters, Meter(c, l) PROVE IInv'
  BY <1>3, MeterIInv
<1>4. ASSUME NEW c \in Conns, Serve(c) PROVE IInv'
  BY <1>4, ServeIInv
<1>5. ASSUME NEW l \in Limiters, NEW p \in Partitions, Evict(l, p) PROVE IInv'
  BY <1>5, EvictIInv
<1>6. CASE UNCHANGED vars
  BY <1>6 DEF vars, IInv, TypeOK, Draining, Covered, Credit, Admitted, Passed
<1> QED
  BY <1>1, <1>2, <1>3, <1>4, <1>5, <1>6 DEF Next

\* In every behaviour, what each limiter has let pass, served or not, costs at
\* most what is owed, what time has repaid, and a burst for each bucket that a
\* lossy store forgot (limiter.rs:215-256, store.rs:31-32).
THEOREM LimiterInvariant == Spec => []IInv
<1>1. Init => IInv
  BY InitIInv
<1> QED
  BY <1>1, NextIInv, PTL DEF Spec

-----------------------------------------------------------------------------
(* What responses announce.                                                 *)

\* What Announced says of one request.
Told(q) ==
  LET handled == 1..(IF q.halted THEN q.at ELSE q.at - 1)
  IN  /\ {q.items[i] : i \in DOMAIN q.items} = {l \in handled : Meters(l, q.keys)}
      /\ \A i, j \in DOMAIN q.items : i < j => q.items[i] < q.items[j]
      /\ q.halted /\ Meters(q.at, q.keys) => q.retry_after

\* A limiter that does not meter a request adds nothing to its response.
LEMMA UnmeteredTold ==
  ASSUME NEW q, Told(q), ~q.halted, q.at \in Nat, ~Meters(q.at, q.keys), NEW r,
         r.items = q.items, r.keys = q.keys,
         (r.halted /\ r.at = q.at) \/ (~r.halted /\ r.at = q.at + 1)
  PROVE  Told(r)
<1> DEFINE handled(s) == 1..(IF s.halted THEN s.at ELSE s.at - 1)
<1>1. handled(r) = 1..q.at /\ handled(q) = 1..(q.at - 1)
  BY DEF Told
<1>2. 1..q.at \subseteq 1..(q.at - 1) \cup {q.at}
  OBVIOUS
<1>3. 1..(q.at - 1) \subseteq 1..q.at
  OBVIOUS
<1>4. {l \in 1..q.at : Meters(l, q.keys)} = {l \in 1..(q.at - 1) : Meters(l, q.keys)}
  BY <1>2, <1>3
<1>5. ~(r.halted /\ Meters(r.at, r.keys))
  OBVIOUS
<1> HIDE DEF handled
<1>6. {r.items[i] : i \in DOMAIN r.items} = {l \in handled(r) : Meters(l, r.keys)}
  BY <1>1, <1>4 DEF Told, handled
<1>7. \A i, j \in DOMAIN r.items : i < j => r.items[i] < r.items[j]
  BY DEF Told
<1> QED
  BY <1>5, <1>6, <1>7 DEF Told, handled

\* One that does appends its own item.
LEMMA MeteredTold ==
  ASSUME NEW q, Told(q), ~q.halted, NEW l \in Limiters, q.at = l, Meters(l, q.keys),
         q.items \in Seq(Limiters), NEW r,
         r.items = Append(q.items, l), r.keys = q.keys, r.halted => r.retry_after,
         (r.halted /\ r.at = l) \/ (~r.halted /\ r.at = l + 1)
  PROVE  Told(r)
<1> DEFINE n == Len(q.items)
<1>1. l \in Nat \ {0} /\ Limiters \subseteq Nat
  BY StackTypes
<1>2. n \in Nat /\ DOMAIN q.items = 1..n
  OBVIOUS
<1>3. /\ DOMAIN r.items = 1..(n + 1)
      /\ r.items[n + 1] = l
      /\ \A i \in 1..n : r.items[i] = q.items[i]
  OBVIOUS
<1>4. {q.items[i] : i \in 1..n} = {m \in 1..(l - 1) : Meters(m, q.keys)}
  BY <1>2 DEF Told
<1>5. \A i, j \in 1..n : i < j => q.items[i] < q.items[j]
  BY <1>2 DEF Told
<1>6. \A i \in 1..n : q.items[i] \in 1..(l - 1)
  BY <1>4
<1> HIDE DEF n
<1>7. 1..(n + 1) = 1..n \cup {n + 1} /\ 1..l = 1..(l - 1) \cup {l}
  BY <1>1, <1>2
<1>8. {r.items[i] : i \in 1..(n + 1)} = {q.items[i] : i \in 1..n} \cup {l}
  BY <1>3, <1>7
<1>9. {m \in 1..l : Meters(m, q.keys)} = {m \in 1..(l - 1) : Meters(m, q.keys)} \cup {l}
  BY <1>7
<1>10. ASSUME NEW i \in 1..(n + 1), NEW j \in 1..(n + 1), i < j
       PROVE  r.items[i] < r.items[j]
  <2>1. i \in 1..n
    BY <1>2, <1>10
  <2>2. CASE j \in 1..n
    BY <1>3, <1>5, <1>10, <2>1, <2>2
  <2>3. CASE j = n + 1
    <3>1. q.items[i] \in 1..(l - 1)
      BY <1>6, <2>1
    <3> QED
      BY <1>1, <1>3, <2>1, <2>3, <3>1
  <2> QED
    BY <1>7, <2>2, <2>3
<1>11. (IF r.halted THEN r.at ELSE r.at - 1) = l
  BY <1>1
<1> QED
  BY <1>3, <1>4, <1>8, <1>9, <1>10, <1>11 DEF Told

\* Every step keeps what is told of the requests.
LEMMA NextTold ==
  ASSUME IInv, Announced, [Next]_vars
  PROVE  Announced'
<1> SUFFICES ASSUME NEW c \in DOMAIN conn' PROVE Told(conn'[c])
  BY DEF Announced, Told, Meters
<1>1. TypeOK /\ \A e \in DOMAIN conn : Told(conn[e])
  BY DEF IInv, Announced, Told
<1>2. CASE c \in DOMAIN conn /\ conn'[c] = conn[c]
  BY <1>1, <1>2
<1>3. ASSUME NEW keys \in Callers, Arrive(c, keys)
      PROVE  Told(conn'[c])
  <2>1. conn'[c] = [at |-> 1, keys |-> keys, items |-> << >>,
                    halted |-> FALSE, retry_after |-> FALSE]
    BY <1>3 DEF Arrive, Assign
  <2>2. {<< >>[i] : i \in DOMAIN << >>} = {} /\ 1..(1 - 1) = {}
    OBVIOUS
  <2> QED
    BY <2>1, <2>2 DEF Told
<1>4. ASSUME NEW l \in Limiters, Skip(c, l) \/ Reject(c, l)
      PROVE  Told(conn'[c])
  <2>1. /\ c \in DOMAIN conn /\ conn[c].at = l /\ ~conn[c].halted
        /\ ~Meters(l, conn[c].keys)
        /\ \/ conn' = [conn EXCEPT ![c].at = @ + 1]
           \/ conn' = [conn EXCEPT ![c].halted = TRUE]
    BY <1>4 DEF Skip, Reject, Before, Meters
  <2>2. conn[c] \in Requests /\ conn[c].at \in Nat
    BY <1>1, <2>1, RequestFacts, StackTypes
  <2> DEFINE q == conn[c]
             r == conn'[c]
  <2>3. /\ r.items = q.items /\ r.keys = q.keys
        /\ \/ r.halted /\ r.at = q.at
           \/ ~r.halted /\ r.at = q.at + 1
    <3>1. CASE conn' = [conn EXCEPT ![c].at = @ + 1]
      <4>1. r = [q EXCEPT !.at = q.at + 1]
        BY <2>1, <3>1
      <4> QED
        BY <2>1, <2>2, <4>1 DEF Requests
    <3>2. CASE conn' = [conn EXCEPT ![c].halted = TRUE]
      <4>1. r = [q EXCEPT !.halted = TRUE]
        BY <2>1, <3>2
      <4> QED
        BY <2>1, <2>2, <4>1 DEF Requests
    <3> QED
      BY <2>1, <3>1, <3>2
  <2>4. Told(q)
    BY <1>1, <2>1
  <2> HIDE DEF r
  <2> QED
    BY <2>1, <2>2, <2>3, <2>4, UnmeteredTold DEF r
<1>5. ASSUME NEW l \in Limiters, c \in Conns, Meter(c, l)
      PROVE  Told(conn'[c])
  <2> DEFINE q       == conn[c]
             r       == conn'[c]
             verdict == Store(l)!Verdict(owed[l][q.keys[l]], 1)
  <2>1. /\ c \in DOMAIN conn /\ q.at = l /\ ~q.halted /\ Meters(l, q.keys)
        /\ r = [at          |-> IF Halts(verdict) THEN l ELSE l + 1,
                keys        |-> q.keys,
                items       |-> Appended(q.items, l),
                halted      |-> Halts(verdict),
                retry_after |-> verdict.retry_after # {}]
    BY <1>5 DEF Meter, Before
  <2>2. q.items \in Seq(Limiters) /\ q.keys[l] \in Partitions
    BY <1>1, <2>1, RequestFacts
  <2>3. Halts(verdict) => verdict.retry_after # {}
    <3>1. owed[l][q.keys[l]] \in Nat /\ owed[l][q.keys[l]] <= Full(l)
      BY <1>1, <2>2 DEF TypeOK, Full
    <3> QED
      BY <3>1, MeterFacts DEF Halts
  <2> HIDE DEF verdict
  <2>4. /\ r.items = Append(q.items, l)
        /\ r.keys = q.keys
        /\ r.halted => r.retry_after
        /\ \/ r.halted /\ r.at = l
           \/ ~r.halted /\ r.at = l + 1
    <3>1. /\ r.items = Append(q.items, l)
          /\ r.keys = q.keys
          /\ r.halted = Halts(verdict)
          /\ r.retry_after = (verdict.retry_after # {})
          /\ r.at = IF Halts(verdict) THEN l ELSE l + 1
      BY <2>1 DEF Appended
    <3>2. Halts(verdict) = TRUE \/ Halts(verdict) = FALSE
      BY DEF Halts
    <3> HIDE DEF q, r
    <3>3. r.halted => r.retry_after
      BY <2>3, <3>1, Zenon
    <3> QED
      BY <3>1, <3>2, <3>3
  <2>5. Told(q)
    BY <1>1, <2>1
  <2> HIDE DEF q, r
  <2> QED
    BY <2>1, <2>2, <2>4, <2>5, MeteredTold DEF r
<1>6. \/ c \in DOMAIN conn /\ conn'[c] = conn[c]
      \/ \E keys \in Callers : Arrive(c, keys)
      \/ \E l \in Limiters : Skip(c, l) \/ Reject(c, l)
      \/ c \in Conns /\ \E l \in Limiters : Meter(c, l)
  <2>1. CASE Tick \/ UNCHANGED vars \/ \E l \in Limiters, p \in Partitions : Evict(l, p)
    BY <2>1 DEF Tick, Evict, vars
  <2>2. ASSUME NEW e \in Conns, NEW keys \in Callers, Arrive(e, keys), e # c
        PROVE  c \in DOMAIN conn /\ conn'[c] = conn[c]
    BY <2>2 DEF Arrive, Assign
  <2>3. ASSUME NEW e \in Conns, NEW l \in Limiters,
               Skip(e, l) \/ Reject(e, l) \/ Meter(e, l), e # c
        PROVE  c \in DOMAIN conn /\ conn'[c] = conn[c]
    BY <1>1, <2>3 DEF Skip, Reject, Meter, TypeOK
  <2>4. ASSUME NEW e \in Conns, Serve(e) \/ Refuse(e)
        PROVE  c \in DOMAIN conn /\ conn'[c] = conn[c]
    BY <2>4 DEF Serve, Refuse, Drop
  <2> QED
    BY <2>1, <2>2, <2>3, <2>4 DEF Next
<1> QED
  BY <1>2, <1>3, <1>4, <1>5, <1>6

-----------------------------------------------------------------------------
(* The theorems.                                                            *)

\* The limiters' state is well typed, whatever the stack: no partition ever owes
\* more than its burst (limiter.rs:215-256 with bucket.rs:45-55).
THEOREM TypeCorrect == Spec => []TypeOK
<1>1. IInv => TypeOK
  BY DEF IInv
<1> QED
  BY <1>1, LimiterInvariant, PTL

\* What is served keeps to the quota of every limiter that metered it, however
\* the requests interleave between the limiters of the stack, which halt some
\* of them after others have charged them (limiter.rs:248-254).  A limiter whose
\* buckets expire early or are evicted (store.rs:31-32) serves a burst for each
\* bucket that was made; the others serve one burst, and what time repays.
THEOREM ServedWithinQuotaHolds == Spec => []ServedWithinQuota
<1>1. ASSUME IInv, NEW l \in Limiters, NEW p \in Partitions
      PROVE  LET bursts == IF Lossless(l) THEN 1 ELSE tally[l][p].births
             IN  tally[l][p].served * Stack[l].window <=
                   bursts * (Stack[l].burst * Stack[l].window) + clock * Stack[l].count
  <2> DEFINE bursts == IF Lossless(l) THEN 1 ELSE tally[l][p].births
             f      == bursts * Full(l)
  <2>1. /\ tally[l][p].served \in Nat /\ Cardinality(Passed(l, p)) \in Nat
        /\ tally[l][p].births \in Nat /\ clock \in Nat
        /\ owed[l][p] \in Nat /\ owed[l][p] <= Full(l)
        /\ Tracked(l, owed[l][p], idle[l][p], tally[l][p].births)
        /\ Credit(l, p) \in Nat
        /\ Admitted(l, p) * Stack[l].window <= Credit(l, p) + clock * Stack[l].count
    BY <1>1, PartitionFacts, PassedFacts DEF IInv
  <2>2. Stack[l].window \in Nat /\ Stack[l].count \in Nat /\ Full(l) \in Nat
    BY StackTypes
  <2>3. /\ Admitted(l, p) \in Nat /\ tally[l][p].served <= Admitted(l, p)
    BY <2>1 DEF Admitted
  <2>4. tally[l][p].served * Stack[l].window <= Admitted(l, p) * Stack[l].window
    BY <2>1, <2>2, <2>3
  <2>5. Credit(l, p) <= f /\ f \in Nat
    <3>1. CASE Lossless(l)
      <4>1. Credit(l, p) = owed[l][p] + 0 /\ f = 1 * Full(l)
        BY <3>1 DEF Credit, CreditOf
      <4> HIDE DEF f
      <4> QED
        BY <2>1, <2>2, <4>1
    <3>2. CASE ~Lossless(l)
      <4> DEFINE b == tally[l][p].births
                 a == Alive(l, idle[l][p])
                 d == owed[l][p]
      <4>1. Credit(l, p) = d + (b - a) * Full(l) /\ f = b * Full(l)
        BY <3>2 DEF Credit, CreditOf
      <4>2. (a = 0 \/ a = 1) /\ a <= b /\ (a = 0 => d = 0)
        BY <2>1 DEF Tracked, Alive
      <4>3. b \in Nat /\ d \in Nat /\ d <= Full(l)
        BY <2>1
      <4> HIDE DEF f, a, b, d
      <4>4. b * Full(l) \in Nat
        BY <4>3, BucketsGone
      <4>5. CASE a = 0
        BY <4>1, <4>2, <4>3, <4>4, <4>5
      <4>6. CASE a = 1
        <5> DEFINE x == (b - 1) * Full(l)
                   y == b * Full(l)
        <5>1. x \in Nat /\ y = x + Full(l)
          BY <4>2, <4>3, <4>6, BucketsGone
        <5>2. Credit(l, p) = d + x /\ f = y
          BY <4>1, <4>6
        <5> HIDE DEF x, y
        <5> QED
          BY <2>2, <4>3, <5>1, <5>2
      <4> QED
        BY <4>2, <4>5, <4>6
    <3> QED
      BY <3>1, <3>2
  <2> DEFINE a == tally[l][p].served * Stack[l].window
             b == Admitted(l, p) * Stack[l].window
             e == clock * Stack[l].count
  <2>6. /\ a \in Nat /\ b \in Nat /\ e \in Nat
        /\ a <= b /\ b <= Credit(l, p) + e
    BY <2>1, <2>2, <2>3, <2>4
  <2> HIDE DEF a, b, e, f
  <2>7. a <= f + e
    BY <2>1, <2>5, <2>6
  <2> HIDE DEF bursts
  <2>8. tally[l][p].served * Stack[l].window <=
          bursts * (Stack[l].burst * Stack[l].window) + clock * Stack[l].count
    BY <2>7 DEF a, e, f, Full
  <2> QED
    BY <2>8 DEF bursts
<1>2. IInv => ServedWithinQuota
  BY <1>1 DEF ServedWithinQuota
<1> QED
  BY <1>2, LimiterInvariant, PTL

\* A response names just the limiters that metered the request, each once and in
\* the order of the stack, however requests interleave: limiters that skip or
\* reject a request add nothing (limiter.rs:215-256), and whoever refuses one says
\* Retry-After.
THEOREM AnnouncedHolds == Spec => []Announced
<1>1. Init => Announced
  BY DEF Init, Announced
<1>2. IInv /\ Announced /\ [Next]_vars => Announced'
  BY NextTold
<1> QED
  BY <1>1, <1>2, LimiterInvariant, PTL DEF Spec

-----------------------------------------------------------------------------
(* Promises: Retry-After and the reset t are kept, if every quota refills and *)
(* admits at least one request.                                             *)
(*                                                                          *)
(* The invariant (PInv) says how fast a debt drains: Retriable, in time for a *)
(* token one tick after each Retry-After; Replenished, to nothing one tick   *)
(* after each t.  The tick is what rounding to the nearest nanosecond loses  *)
(* (bucket.rs:57-68).                                                       *)

\* Every quota refills, and holds the one token a request costs; otherwise it
\* admits nothing, whatever it promises.
Refilling == \A l \in Limiters : Stack[l].count > 0 /\ Stack[l].burst > 0

\* Ticks from now until the one after instant i.
Until(i) == IF i >= clock THEN i + 1 - clock ELSE 0

\* One tick after each retry instant a token fits; one tick after each instant
\* of a full quota nothing is owed.
Retriable ==
  \A l \in Limiters, p \in Partitions : \A i \in tally[l][p].retry :
    owed[l][p] + Stack[l].window <= Full(l) + Until(i) * Stack[l].count

Replenished ==
  \A l \in Limiters, p \in Partitions : \A i \in tally[l][p].full :
    owed[l][p] <= Until(i) * Stack[l].count

PInv == TypeOK /\ Retriable /\ Replenished

-----------------------------------------------------------------------------

\* The types of a partition's debt and promises.
LEMMA DebtFacts ==
  ASSUME TypeOK, NEW l \in Limiters, NEW p \in Partitions
  PROVE  /\ owed[l][p] \in Nat /\ owed[l][p] <= Full(l) /\ clock \in Nat
         /\ tally[l][p].retry \in SUBSET Nat /\ tally[l][p].full \in SUBSET Nat
         /\ Stack[l].count \in Nat /\ Stack[l].window \in Nat /\ Full(l) \in Nat
  BY StackTypes DEF TypeOK, Tallies, Full

\* Until counts down to the tick after an instant, and then is zero.
LEMMA UntilFacts ==
  ASSUME clock \in Nat, NEW i \in Nat, NEW d \in Nat
  PROVE  /\ Until(i) \in Nat /\ Until(i) * d \in Nat
         /\ i >= clock => Until(i) * d = (i + 1 - clock) * d
         /\ i < clock => Until(i) * d = 0
<1>1. Until(i) \in Nat
  BY DEF Until
<1>2. i < clock => Until(i) = 0
  BY DEF Until
<1>3. i >= clock => Until(i) = i + 1 - clock
  BY DEF Until
<1> QED
  BY <1>1, <1>2, <1>3

\* A tick is taken off what is left, if anything is.
LEMMA UntilTicks ==
  ASSUME clock \in Nat, clock' = clock + 1, NEW i \in Nat, NEW d \in Nat
  PROVE  /\ Until(i)' * d \in Nat
         /\ i >= clock => Until(i)' * d = Until(i) * d - d
         /\ i < clock => Until(i) * d = 0
<1>1. Until(i) \in Nat /\ Until(i)' \in Nat
  BY DEF Until
<1>2. i >= clock => Until(i)' = Until(i) - 1
  BY DEF Until
<1>3. (Until(i) - 1) * d = Until(i) * d - d /\ Until(i)' * d \in Nat
  BY <1>1
<1>4. i >= clock => Until(i)' * d = Until(i) * d - d
  BY <1>2, <1>3
<1>5. i < clock => Until(i) * d = 0
  BY UntilFacts
<1> QED
  BY <1>3, <1>4, <1>5

\* A tick repays count of every debt, and takes a tick off every wait.
LEMMA TickPInv ==
  ASSUME Refilling, PInv, Tick
  PROVE  PInv'
<1>1. /\ TypeOK' /\ clock' = clock + 1 /\ tally' = tally
      /\ \A l \in Limiters, p \in Partitions :
           \/ owed'[l][p] = 0
           \/ /\ owed[l][p] > Stack[l].count
              /\ owed'[l][p] = owed[l][p] - Stack[l].count
  BY TickEffect DEF PInv
<1>2. ASSUME NEW l \in Limiters, NEW p \in Partitions
      PROVE  /\ \A i \in tally[l][p].retry :
                  owed'[l][p] + Stack[l].window <= Full(l) + Until(i)' * Stack[l].count
             /\ \A i \in tally[l][p].full : owed'[l][p] <= Until(i)' * Stack[l].count
  <2>1. /\ owed[l][p] \in Nat /\ clock \in Nat
        /\ tally[l][p].retry \in SUBSET Nat /\ tally[l][p].full \in SUBSET Nat
        /\ Stack[l].count \in Nat /\ Stack[l].window \in Nat /\ Full(l) \in Nat
    BY DebtFacts DEF PInv
  <2>2. Stack[l].window <= Full(l)
    <3>1. Stack[l].burst \in Nat /\ Stack[l].burst > 0
      BY StackTypes DEF Refilling
    <3> QED
      BY <2>1, <3>1 DEF Full
  <2>3. ASSUME NEW i \in tally[l][p].retry
        PROVE  owed'[l][p] + Stack[l].window <= Full(l) + Until(i)' * Stack[l].count
    <3>1. i \in Nat /\ owed[l][p] + Stack[l].window <= Full(l) + Until(i) * Stack[l].count
      BY <2>1 DEF PInv, Retriable
    <3> DEFINE u == Until(i) * Stack[l].count
               v == Until(i)' * Stack[l].count
    <3>2. /\ u \in Nat /\ v \in Nat
          /\ i >= clock => v = u - Stack[l].count
          /\ i < clock => u = 0
      BY <1>1, <2>1, <3>1, UntilFacts, UntilTicks
    <3>3. owed[l][p] + Stack[l].window <= Full(l) + u
      BY <3>1
    <3> HIDE DEF u, v
    <3>4. owed'[l][p] + Stack[l].window <= Full(l) + v
      BY <1>1, <2>1, <2>2, <3>1, <3>2, <3>3
    <3> QED
      BY <3>4 DEF v
  <2>4. ASSUME NEW i \in tally[l][p].full
        PROVE  owed'[l][p] <= Until(i)' * Stack[l].count
    <3>1. i \in Nat /\ owed[l][p] <= Until(i) * Stack[l].count
      BY <2>1 DEF PInv, Replenished
    <3> DEFINE u == Until(i) * Stack[l].count
               v == Until(i)' * Stack[l].count
    <3>2. /\ u \in Nat /\ v \in Nat
          /\ i >= clock => v = u - Stack[l].count
          /\ i < clock => u = 0
      BY <1>1, <2>1, <3>1, UntilFacts, UntilTicks
    <3>3. owed[l][p] <= u
      BY <3>1
    <3> HIDE DEF u, v
    <3>4. owed'[l][p] <= v
      BY <1>1, <2>1, <3>1, <3>2, <3>3
    <3> QED
      BY <3>4 DEF v
  <2> QED
    BY <2>3, <2>4
<1> QED
  BY <1>1, <1>2 DEF PInv, Retriable, Replenished

\* Steps that meter nothing promise nothing, and charge nothing.
LEMMA QuietPInv ==
  ASSUME Refilling, PInv, TypeOK', clock' = clock,
         \A l \in Limiters, p \in Partitions :
           /\ owed'[l][p] = owed[l][p] \/ owed'[l][p] = 0
           /\ tally'[l][p].retry = tally[l][p].retry
           /\ tally'[l][p].full = tally[l][p].full
  PROVE  PInv'
<1>1. \A i : Until(i)' = Until(i)
  BY DEF Until
<1>2. ASSUME NEW l \in Limiters, NEW p \in Partitions
      PROVE  /\ \A i \in tally[l][p].retry :
                  owed'[l][p] + Stack[l].window <= Full(l) + Until(i) * Stack[l].count
             /\ \A i \in tally[l][p].full : owed'[l][p] <= Until(i) * Stack[l].count
  <2>1. /\ owed[l][p] \in Nat /\ clock \in Nat
        /\ tally[l][p].retry \in SUBSET Nat /\ tally[l][p].full \in SUBSET Nat
        /\ Stack[l].count \in Nat /\ Stack[l].window \in Nat /\ Full(l) \in Nat
    BY DebtFacts DEF PInv
  <2>2. CASE owed'[l][p] = owed[l][p]
    BY <2>2 DEF PInv, Retriable, Replenished
  <2>3. CASE owed'[l][p] = 0
    <3>1. Stack[l].window <= Full(l)
      <4>1. Stack[l].burst \in Nat /\ Stack[l].burst > 0
        BY StackTypes DEF Refilling
      <4> QED
        BY <2>1, <4>1 DEF Full
    <3>2. ASSUME NEW i \in Nat PROVE Until(i) * Stack[l].count \in Nat
      BY <2>1, UntilFacts
    <3>3. ASSUME NEW i \in Nat
          PROVE  /\ 0 + Stack[l].window <= Full(l) + Until(i) * Stack[l].count
                 /\ 0 <= Until(i) * Stack[l].count
      <4> DEFINE u == Until(i) * Stack[l].count
      <4>1. u \in Nat
        BY <3>2
      <4> HIDE DEF u
      <4>2. 0 + Stack[l].window <= Full(l) + u /\ 0 <= u
        BY <2>1, <3>1, <4>1
      <4> QED
        BY <4>2 DEF u
    <3> QED
      BY <2>1, <2>3, <3>3
  <2> QED
    BY <2>2, <2>3
<1> QED
  BY <1>1, <1>2 DEF PInv, Retriable, Replenished

\* What a limiter newly promises leaves time enough; what it admits withdraws the
\* promises made before (limiter.rs:233-253).
LEMMA MeterPInv ==
  ASSUME Refilling, PInv, NEW c \in Conns, NEW l \in Limiters, Meter(c, l)
  PROVE  PInv'
<1> DEFINE p    == conn[c].keys[l]
           fits == owed[l][p] + Stack[l].window <= Full(l)
<1>1. /\ TypeOK' /\ p \in Partitions /\ clock' = clock
      /\ owed'[l][p] = IF fits THEN owed[l][p] + Stack[l].window ELSE owed[l][p]
      /\ \A m \in Limiters, q \in Partitions :
           <<m, q>> # <<l, p>> => owed'[m][q] = owed[m][q] /\ tally'[m][q] = tally[m][q]
      /\ \A i \in tally'[l][p].retry :
           /\ ~fits
           /\ \/ i \in tally[l][p].retry
              \/ Stack[l].count > 0 =>
                   i >= clock /\ owed[l][p] + Stack[l].window - Full(l) <= (i + 1 - clock) * Stack[l].count
      /\ \A i \in tally'[l][p].full :
           \/ ~fits /\ i \in tally[l][p].full
           \/ Stack[l].count > 0 =>
                i >= clock /\ owed'[l][p] <= (i + 1 - clock) * Stack[l].count
  BY MeterEffect DEF PInv
<1>2. Stack[l].count > 0
  BY DEF Refilling
<1> HIDE DEF p, fits
<1>3. /\ owed[l][p] \in Nat /\ clock \in Nat
      /\ Stack[l].count \in Nat /\ Stack[l].window \in Nat /\ Full(l) \in Nat
      /\ tally'[l][p].retry \in SUBSET Nat /\ tally'[l][p].full \in SUBSET Nat
  BY <1>1, DebtFacts DEF PInv, TypeOK, Tallies
<1>4. ASSUME NEW i \in tally'[l][p].retry
      PROVE  owed'[l][p] + Stack[l].window <= Full(l) + Until(i) * Stack[l].count
  <2>1. i \in Nat /\ owed'[l][p] = owed[l][p]
    BY <1>1, <1>3
  <2>2. CASE i \in tally[l][p].retry
    BY <1>1, <2>1, <2>2 DEF PInv, Retriable
  <2>3. CASE i >= clock /\ owed[l][p] + Stack[l].window - Full(l) <= (i + 1 - clock) * Stack[l].count
    <3>1. (i + 1 - clock) * Stack[l].count = Until(i) * Stack[l].count /\ Until(i) * Stack[l].count \in Nat
      BY <1>3, <2>1, <2>3, UntilFacts
    <3> DEFINE u == Until(i) * Stack[l].count
    <3>2. u \in Nat /\ owed[l][p] + Stack[l].window - Full(l) <= u
      BY <2>3, <3>1
    <3> HIDE DEF u
    <3>3. owed[l][p] + Stack[l].window <= Full(l) + u
      BY <1>3, <3>2
    <3> QED
      BY <2>1, <3>3 DEF u
  <2> QED
    BY <1>1, <1>2, <2>2, <2>3
<1>5. ASSUME NEW i \in tally'[l][p].full
      PROVE  owed'[l][p] <= Until(i) * Stack[l].count
  <2>1. i \in Nat
    BY <1>3
  <2>2. CASE ~fits /\ i \in tally[l][p].full
    BY <1>1, <2>2 DEF PInv, Replenished
  <2>3. CASE i >= clock /\ owed'[l][p] <= (i + 1 - clock) * Stack[l].count
    BY <1>3, <2>1, <2>3, UntilFacts
  <2> QED
    BY <1>1, <1>2, <2>2, <2>3
<1>6. \A i : Until(i)' = Until(i)
  BY <1>1 DEF Until
<1>7. Retriable'
  <2> SUFFICES ASSUME NEW m \in Limiters, NEW q \in Partitions, NEW i \in tally'[m][q].retry
               PROVE  owed'[m][q] + Stack[m].window <= Full(m) + Until(i)' * Stack[m].count
    BY DEF Retriable
  <2>1. CASE m = l /\ q = p
    BY <1>4, <1>6, <2>1
  <2>2. CASE ~(m = l /\ q = p)
    BY <1>1, <1>6, <2>2 DEF PInv, Retriable
  <2> QED
    BY <2>1, <2>2
<1>8. Replenished'
  <2> SUFFICES ASSUME NEW m \in Limiters, NEW q \in Partitions, NEW i \in tally'[m][q].full
               PROVE  owed'[m][q] <= Until(i)' * Stack[m].count
    BY DEF Replenished
  <2>1. CASE m = l /\ q = p
    BY <1>5, <1>6, <2>1
  <2>2. CASE ~(m = l /\ q = p)
    BY <1>1, <1>6, <2>2 DEF PInv, Replenished
  <2> QED
    BY <2>1, <2>2
<1> QED
  BY <1>1, <1>7, <1>8 DEF PInv

\* Every step keeps the promises' invariant.
LEMMA NextPInv ==
  ASSUME Refilling, PInv, [Next]_vars
  PROVE  PInv'
<1>1. CASE Tick
  BY <1>1, TickPInv
<1>2. ASSUME NEW c \in Conns,
             \/ \E keys \in Callers : Arrive(c, keys)
             \/ \E l \in Limiters : Skip(c, l) \/ Reject(c, l)
             \/ Refuse(c)
      PROVE  PInv'
  BY <1>2, QuietEffect, QuietPInv DEF PInv
<1>3. ASSUME NEW c \in Conns, NEW l \in Limiters, Meter(c, l) PROVE PInv'
  BY <1>3, MeterPInv
<1>4. ASSUME NEW c \in Conns, Serve(c) PROVE PInv'
  BY <1>4, ServeEffect, QuietPInv DEF PInv
<1>5. ASSUME NEW l \in Limiters, NEW p \in Partitions, Evict(l, p) PROVE PInv'
  <2>1. /\ TypeOK' /\ clock' = clock /\ tally' = tally
        /\ \A m \in Limiters, q \in Partitions :
             owed'[m][q] = owed[m][q] \/ owed'[m][q] = 0
    BY <1>5, EvictEffect DEF PInv
  <2> QED
    BY <2>1, QuietPInv
<1>6. CASE UNCHANGED vars
  BY <1>6 DEF vars, PInv, TypeOK, Retriable, Replenished, Until
<1> QED
  BY <1>1, <1>2, <1>3, <1>4, <1>5, <1>6 DEF Next

\* Nothing is promised at first.
LEMMA InitPInv == Init => PInv
<1> SUFFICES ASSUME Init PROVE PInv
  OBVIOUS
<1>1. TypeOK
  BY InitIInv DEF IInv
<1>2. tally = [l \in Limiters |-> [p \in Partitions |->
                [served |-> 0, births |-> 0, retry |-> {}, full |-> {}]]]
  BY DEF Init
<1>3. ASSUME NEW l \in Limiters, NEW p \in Partitions
      PROVE  tally[l][p].retry = {} /\ tally[l][p].full = {}
  BY <1>2
<1> QED
  BY <1>1, <1>3 DEF PInv, Retriable, Replenished

\* In every behaviour each debt drains in time for what was promised.
LEMMA PromiseInvariant ==
  ASSUME Refilling
  PROVE  Spec => []PInv
<1>1. PInv /\ [Next]_vars => PInv'
  BY NextPInv
<1> QED
  BY <1>1, InitPInv, PTL DEF Spec

\* Only the limiter that meters a request refuses it so.
LEMMA RefusedByMeter ==
  ASSUME TypeOK, [Next]_vars, NEW c \in DOMAIN conn, NEW l \in Limiters, Refused(c, l)
  PROVE  c \in Conns /\ Meter(c, l)
<1>1. /\ c \in DOMAIN conn' /\ conn'[c].halted /\ ~conn[c].halted /\ conn[c].at = l
      /\ Meters(l, conn[c].keys) /\ l # Len(Stack) + 1
  BY StackTypes DEF Refused, Before
<1>2. conn[c] \in Requests
  BY RequestFacts
<1>3. ~(conn'[c] = conn[c])
  BY <1>1
<1>4. CASE Tick \/ UNCHANGED vars \/ \E m \in Limiters, p \in Partitions : Evict(m, p)
  BY <1>3, <1>4 DEF Tick, Evict, vars
<1>5. ASSUME NEW e \in Conns, NEW keys \in Callers, Arrive(e, keys) PROVE FALSE
  BY <1>3, <1>5 DEF Arrive, Assign
<1>6. ASSUME NEW e \in Conns, NEW m \in Limiters, Skip(e, m) PROVE FALSE
  <2>1. conn' = [conn EXCEPT ![e] = [conn[e] EXCEPT !.at = m + 1]]
    BY <1>6 DEF Skip, Before
  <2>2. [conn[c] EXCEPT !.at = m + 1].halted = conn[c].halted
    BY <1>2 DEF Requests
  <2> QED
    BY <1>1, <1>3, <2>1, <2>2 DEF TypeOK
<1>7. ASSUME NEW e \in Conns, NEW m \in Limiters, Reject(e, m) PROVE FALSE
  <2>1. e # c
    BY <1>1, <1>7 DEF Reject, Before, Meters
  <2> QED
    BY <1>3, <1>7, <2>1 DEF Reject, TypeOK
<1>8. ASSUME NEW e \in Conns, Serve(e) \/ Refuse(e) PROVE FALSE
  BY <1>1, <1>3, <1>8 DEF Serve, Refuse, Drop
<1>9. ASSUME NEW e \in Conns, NEW m \in Limiters, Meter(e, m) PROVE e = c /\ m = l
  <2>1. \A f \in DOMAIN conn \ {e} : conn'[f] = conn[f]
    BY <1>9, MeterEffect
  <2>2. conn[e].at = m
    BY <1>9 DEF Meter, Before
  <2> QED
    BY <1>1, <1>3, <2>1, <2>2
<1> QED
  BY <1>4, <1>5, <1>6, <1>7, <1>8, <1>9 DEF Next

-----------------------------------------------------------------------------
(* The theorems.                                                            *)

\* A request that comes to a limiter one tick after its Retry-After or later is
\* admitted, unless the partition had an admission in between: jitter, both
\* roundings and all other callers included (limiter.rs:251-253, bucket.rs:57-68).
THEOREM RetryKeptHolds ==
  ASSUME Refilling
  PROVE  Spec => RetryKept
<1>1. ASSUME PInv, [Next]_vars, NEW c \in DOMAIN conn, NEW l \in Limiters, Refused(c, l),
             NEW i \in tally[l][conn[c].keys[l]].retry
      PROVE  clock <= i
  <2> DEFINE p == conn[c].keys[l]
  <2>1. c \in Conns /\ Meter(c, l) /\ conn'[c].halted
    BY <1>1, RefusedByMeter DEF PInv, Refused
  <2>2. p \in Partitions /\ conn'[c].halted = ~(owed[l][p] + Stack[l].window <= Full(l))
    BY <1>1, <2>1, MeterEffect DEF PInv
  <2> HIDE DEF p
  <2>3. /\ owed[l][p] \in Nat /\ clock \in Nat /\ i \in Nat
        /\ Stack[l].count \in Nat /\ Stack[l].window \in Nat /\ Full(l) \in Nat
    BY <1>1, <2>2, DebtFacts DEF PInv, p
  <2>4. owed[l][p] + Stack[l].window <= Full(l) + Until(i) * Stack[l].count
    BY <1>1, <2>2 DEF PInv, Retriable, p
  <2>5. ~(owed[l][p] + Stack[l].window <= Full(l))
    BY <2>1, <2>2
  <2>6. i < clock => Until(i) * Stack[l].count = 0
    BY <2>3, UntilFacts
  <2>7. ~(i < clock)
    BY <2>3, <2>4, <2>5, <2>6
  <2> QED
    BY <2>3, <2>7
<1>2. PInv /\ [Next]_vars =>
        [\A c \in DOMAIN conn, l \in Limiters :
           Refused(c, l) => \A i \in tally[l][conn[c].keys[l]].retry : clock <= i]_vars
  BY <1>1
<1> QED
  BY <1>2, PromiseInvariant, PTL DEF Spec, RetryKept

\* One tick after the reset t, a partition that had no further admission owes
\* nothing (limiter.rs:233-237, bucket.rs:65-67).
THEOREM ResetKeptHolds ==
  ASSUME Refilling
  PROVE  Spec => []ResetKept
<1>1. PInv => ResetKept
  <2> SUFFICES ASSUME PInv, NEW l \in Limiters, NEW p \in Partitions,
                      NEW i \in tally[l][p].full, clock > i
               PROVE  owed[l][p] = 0
    BY DEF ResetKept
  <2>1. owed[l][p] \in Nat /\ clock \in Nat /\ i \in Nat /\ Stack[l].count \in Nat
    BY DebtFacts DEF PInv
  <2>2. owed[l][p] <= Until(i) * Stack[l].count
    BY DEF PInv, Replenished
  <2>3. Until(i) * Stack[l].count = 0
    BY <2>1, UntilFacts
  <2> QED
    BY <2>1, <2>2, <2>3
<1> QED
  BY <1>1, PromiseInvariant, PTL
=============================================================================
