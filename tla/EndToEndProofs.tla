--------------------------- MODULE EndToEndProofs ---------------------------
(***************************************************************************)
(* Theorems about EndToEnd.tla, for all clients, quotas, addresses, limiters *)
(* and delays.                                                              *)
(*                                                                          *)
(* A key of the limiter stands for one network, so that, of clients with a   *)
(* network each, nobody is charged for another's requests.                   *)
(*                                                                          *)
(* Pacing (PInv).  The slots of a client are an interval apart but for one   *)
(* burst of them (Spaced), and behind its schedule (Claimed).  The debt of   *)
(* its network is at most what it would be if the limiter charged an         *)
(* interval per request and repaid one per tick (Mirror); that debt and the  *)
(* slots still to come keep within the schedule's burst, so that a due       *)
(* request fits.                                                            *)
(*                                                                          *)
(* Listening (LInv).  Whichever of the schedule, the slot or the answer a    *)
(* client is waiting by, the bucket has room when that wait is over          *)
(* (Awaited).                                                               *)
(***************************************************************************)
EXTENDS EndToEnd, FiniteSetTheorems, SequenceTheorems, TLAPS

\* The limiter's capacity in parts; the interval, headroom and burst of the
\* throttle of c.
Full    == Server.burst * Server.window
Pace(c) == Throttle(c)!Interval
Headroom(c) == Throttle(c)!Tolerance
Most(c) == Throttle(c)!Later(Profile[c].burst, 1)

-----------------------------------------------------------------------------
(* Facts about the constants.                                               *)

\* What EndToEndAssumption says of the limiter.
LEMMA ServerTypes ==
  /\ Server.count \in Nat
  /\ Server.window \in Nat \ {0}
  /\ Server.burst \in Nat
  /\ Server.jitter \in Nat
  /\ Full \in Nat
  /\ Second \in Nat \ {0}
  /\ MaxLate \in Nat
  /\ MaxAhead \in Nat
<1>1. /\ Server.count \in Nat
      /\ Server.window \in Nat \ {0}
      /\ Server.burst \in Nat
      /\ Server.jitter \in Nat
      /\ Second \in Nat \ {0}
      /\ MaxLate \in Nat
      /\ MaxAhead \in Nat
  BY EndToEndAssumption
<1> QED
  BY <1>1 DEF Full

\* The numbers of a throttle (client.rs:75-90).
LEMMA PaceTypes ==
  ASSUME NEW c \in Clients
  PROVE  /\ Pace(c) \in Nat
         /\ Most(c) \in Nat \ {0}
         /\ Headroom(c) \in Nat
         /\ Headroom(c) = Pace(c) * Most(c) - Pace(c)
<1> DEFINE count == Throttle(c)!Later(Profile[c].count, 1)
           q     == Profile[c].window \div count
<1>1. /\ Profile[c].count \in Nat
      /\ Profile[c].window \in Nat \ {0}
      /\ Profile[c].burst \in Nat
  BY EndToEndAssumption
<1>2. count \in Nat \ {0} /\ Most(c) \in Nat \ {0}
  BY <1>1 DEF Throttle!Later, Most
<1>3. q \in Nat
  BY <1>1, <1>2
<1>4. Pace(c) \in Nat
  BY <1>3 DEF Pace, Throttle!Interval, Throttle!Nearest
<1>5. Throttle(c)!SaturatingSub(Profile[c].burst, 1) = Most(c) - 1
  BY <1>1 DEF Throttle!SaturatingSub, Throttle!Later, Most
<1>6. Headroom(c) = Pace(c) * (Most(c) - 1)
  BY <1>5 DEF Headroom, Pace, Throttle!Tolerance
<1>7. Pace(c) * (Most(c) - 1) = Pace(c) * Most(c) - Pace(c) /\ Pace(c) * (Most(c) - 1) \in Nat
  BY <1>2, <1>4
<1> QED
  BY <1>2, <1>4, <1>6, <1>7

\* A request belongs to one client.
LEMMA OwnerFacts ==
  /\ \A r \in Tasks : Owner(r) \in Clients /\ r \in Profile[Owner(r)].tasks
  /\ \A c \in Clients : \A r \in Profile[c].tasks : r \in Tasks /\ Owner(r) = c
<1>1. ASSUME NEW r \in Tasks
      PROVE  Owner(r) \in Clients /\ r \in Profile[Owner(r)].tasks
  <2>1. \E c \in Clients : r \in Profile[c].tasks
    BY DEF Tasks
  <2> QED
    BY <2>1 DEF Owner
<1>2. ASSUME NEW c \in Clients, NEW r \in Profile[c].tasks
      PROVE  r \in Tasks /\ Owner(r) = c
  <2>1. r \in Tasks
    BY DEF Tasks
  <2>2. Owner(r) \in Clients /\ r \in Profile[Owner(r)].tasks
    BY <1>1, <2>1
  <2> QED
    BY <2>1, <2>2, EndToEndAssumption
<1> QED
  BY <1>1, <1>2

-----------------------------------------------------------------------------
(* The operators of the throttle, at the present instant, 0.                *)

\* claim: the slot is at most the headroom before the schedule, and the
\* schedule moves on by one interval.
LEMMA SlotFacts ==
  ASSUME NEW c \in Clients, NEW a \in Nat, a + Pace(c) <= MaxAhead
  PROVE  /\ Throttle(c)!ProceedAt(a, 0) \in Nat
         /\ Throttle(c)!ProceedAt(a, 0) <= a
         /\ Throttle(c)!ProceedAt(a, 0) >= a - Headroom(c)
         /\ Throttle(c)!ProceedAt(a, 0) > 0 => Throttle(c)!ProceedAt(a, 0) = a - Headroom(c)
         /\ Throttle(c)!Advanced(a, 0) = a + Pace(c)
<1>1. Throttle(c)!ProceedAt(a, 0) = IF a - Headroom(c) >= 0 THEN a - Headroom(c) ELSE 0
  BY DEF Throttle!ProceedAt, Throttle!Later, Headroom
<1>2. Throttle(c)!Later(a, 0) = a
  BY DEF Throttle!Later
<1>3. Throttle(c)!Advanced(a, 0) = IF a + Pace(c) <= MaxAhead THEN a + Pace(c) ELSE a
  BY <1>2 DEF Throttle!Advanced, Pace
<1> QED
  BY <1>1, <1>3, PaceTypes

\* server_backoff gives natural waits, and one at most.
LEMMA BackoffFacts ==
  ASSUME NEW response \in ResponseType
  PROVE  /\ ServerBackoff(response) \subseteq Nat
         /\ \A v, w \in ServerBackoff(response) : v = w
<1> DEFINE waits == response.retry_after
                      \cup UNION {l.reset : l \in {k \in response.limits : k.remaining = 0}}
<1>1. /\ response.retry_after \subseteq Nat
      /\ response.limits \subseteq [remaining : Nat, reset : SUBSET Nat]
  BY DEF ResponseType
<1>2. \A l \in response.limits : l.reset \subseteq Nat
  BY <1>1
<1>3. waits \subseteq Nat
  BY <1>1, <1>2
<1>4. ServerBackoff(response) = {w \in waits : \A v \in waits : v <= w}
  BY DEF ServerBackoff
<1> HIDE DEF waits
<1>5. ASSUME NEW v \in ServerBackoff(response), NEW w \in ServerBackoff(response)
      PROVE  v \in Nat /\ v = w
  <2>1. v \in waits /\ w \in waits /\ v <= w /\ w <= v
    BY <1>4
  <2> QED
    BY <1>3, <2>1
<1> QED
  BY <1>5

\* back_off: the schedule is never lowered, and ends up the headroom beyond the
\* wait of a response that is honoured.
LEMMA PushedFacts ==
  ASSUME NEW c \in Clients, NEW response \in ResponseType, ahead \in [Clients -> Nat]
  PROVE  /\ Pushed(c, response) \in Nat
         /\ Pushed(c, response) >= ahead[c]
         /\ Profile[c].honors =>
              \A w \in ServerBackoff(response) : Pushed(c, response) >= w + Headroom(c)
<1> DEFINE waits == IF Profile[c].honors THEN ServerBackoff(response) ELSE {}
           raised(w) == Throttle(c)!Raised(c, Throttle(c)!Target(w))
<1>1. waits \subseteq Nat /\ \A v, w \in waits : v = w
  BY BackoffFacts
<1>2. ASSUME NEW w \in Nat
      PROVE  /\ raised(w) \in Nat
             /\ raised(w) >= ahead[c]
             /\ raised(w) >= w + Headroom(c)
  <2>1. Throttle(c)!Target(w) = w + Headroom(c)
    BY PaceTypes DEF Throttle!Target, Headroom
  <2>2. raised(w) = IF ahead[c] >= w + Headroom(c) THEN ahead[c] ELSE w + Headroom(c)
    BY <2>1 DEF Throttle!Raised, Throttle!Later
  <2>3. ahead[c] \in Nat /\ Headroom(c) \in Nat
    BY PaceTypes
  <2> HIDE DEF raised
  <2> QED
    BY <2>2, <2>3
<1>3. Pushed(c, response) =
        IF waits = {} THEN ahead[c] ELSE CHOOSE a \in {raised(w) : w \in waits} : TRUE
  BY DEF Pushed
<1>4. CASE waits = {}
  BY <1>3, <1>4
<1>5. CASE waits # {}
  <2>1. PICK w \in waits : TRUE
    BY <1>5
  <2>2. {raised(v) : v \in waits} = {raised(w)}
    BY <1>1, <2>1
  <2> HIDE DEF raised, waits
  <2>3. Pushed(c, response) = raised(w)
    BY <1>3, <1>5, <2>2
  <2>4. w \in Nat
    BY <1>1, <2>1
  <2>5. \A v \in waits : Pushed(c, response) >= v + Headroom(c)
    BY <1>1, <1>2, <2>1, <2>3, <2>4
  <2> QED
    BY <1>2, <2>3, <2>4, <2>5 DEF waits
<1> QED
  BY <1>4, <1>5

-----------------------------------------------------------------------------
(* The operators of the limiter.                                            *)

\* What one tick of rounding costs: nothing if the quota refills a token in a
\* whole number of ticks.
Exact == \E k \in Nat : Server.window = k * Server.count
Slack == IF Exact THEN 0 ELSE Server.count

\* A wait is rounded to the nearest tick (bucket.rs:80-87): it is one tick short
\* at most, and not at all for a debt that is refilled in whole ticks.
LEMMA WaitFacts ==
  ASSUME NEW d \in Nat
  PROVE  /\ Buckets!SecondsToRefill(d) \in Nat
         /\ Server.count > 0 /\ (Exact => \E q \in Nat : d = q * Server.count)
              => d <= Slack + Server.count * Buckets!SecondsToRefill(d)
<1> DEFINE C == Server.count
           w == Buckets!SecondsToRefill(d)
           q == d \div C
           r == d % C
<1>1. C \in Nat
  BY ServerTypes
<1>2. CASE d <= 0 \/ C = 0
  <2>1. w = 0
    BY <1>2 DEF Buckets!SecondsToRefill
  <2>2. Slack \in Nat
    BY <1>1 DEF Slack
  <2>3. C * 0 = 0
    BY <1>1
  <2> HIDE DEF C, w
  <2> QED
    BY <1>1, <1>2, <2>1, <2>2, <2>3 DEF C, w
<1>3. CASE d > 0 /\ C # 0
  <2>1. C \in Nat \ {0}
    BY <1>1, <1>3
  <2>2. w = IF 2 * r < C \/ (2 * r = C /\ q % 2 = 0) THEN q ELSE q + 1
    BY <1>3, <2>1 DEF Buckets!SecondsToRefill, Buckets!Nearest
  <2> HIDE DEF C, w
  <2>3. q \in Nat /\ r \in 0..(C - 1) /\ d = C * q + r
    BY <2>1
  <2> HIDE DEF q, r
  <2>4. w \in Nat /\ q <= w
    BY <2>2, <2>3
  <2>5. C * q <= C * w
    BY <2>1, <2>3, <2>4
  <2>6. CASE ~Exact
    <3>1. Slack = C
      BY <2>6 DEF Slack, C
    <3> QED
      BY <2>1, <2>3, <2>4, <2>5, <3>1 DEF C, w
  <2>7. CASE Exact /\ \E k \in Nat : d = k * C
    <3>1. PICK k \in Nat : d = k * C
      BY <2>7
    <3>2. C * (k - q) = r
      BY <2>1, <2>3, <3>1
    <3>3. k = q
      <4>1. CASE k - q >= 1
        <5>1. C * (k - q) >= C
          BY <2>1, <2>3, <4>1
        <5> QED
          BY <2>1, <2>3, <3>2, <5>1
      <4>2. CASE k - q <= -1
        <5>1. C * (k - q) <= -C
          BY <2>1, <2>3, <4>2
        <5> QED
          BY <2>1, <2>3, <3>2, <5>1
      <4> QED
        BY <2>3, <4>1, <4>2
    <3>4. d = C * q
      BY <2>1, <2>3, <3>1, <3>3
    <3>5. Slack = 0
      BY <2>7 DEF Slack
    <3>6. C * w \in Nat
      BY <2>1, <2>4
    <3>7. d <= Slack + C * w
      BY <2>5, <3>4, <3>5, <3>6
    <3> QED
      BY <2>4, <3>7 DEF C, w
  <2> QED
    BY <2>4, <2>6, <2>7 DEF C, w
<1> QED
  BY <1>1, <1>2, <1>3

\* try_consume of one token (bucket.rs:41-76), as the meter answers it.
LEMMA MeterFacts ==
  ASSUME NEW d \in Nat, d <= Full
  PROVE  LET verdict == Buckets!Verdict(d, 1)
             after   == Buckets!Owed(d, 1)
         IN  /\ verdict.allowed \in BOOLEAN
             /\ verdict.allowed <=> d + Server.window <= Full
             /\ after \in Nat /\ after <= Full
             /\ after = IF d + Server.window <= Full THEN d + Server.window ELSE d
             /\ verdict.remaining \in Nat
             /\ verdict.remaining # 0 => after + Server.window <= Full
             /\ verdict.time_to_full = Buckets!SecondsToRefill(after)
             /\ verdict.retry_after = {}
                  \/ \E w \in Nat : verdict.retry_after = {w}
<1> DEFINE W == Server.window
           verdict == Buckets!Verdict(d, 1)
           after   == Buckets!Owed(d, 1)
<1>1. W \in Nat \ {0} /\ Full \in Nat
  BY ServerTypes
<1>2. Buckets!Capacity = Full /\ Buckets!Token = W
  BY DEF Full, Buckets!Capacity, Buckets!Token
<1>3. Buckets!Fits(d, 1) <=> d + W <= Full
  BY <1>1, <1>2 DEF Buckets!Fits
<1>4. after = IF d + W <= Full THEN d + W ELSE d
  BY <1>1, <1>2, <1>3 DEF Buckets!Owed
<1>5. /\ verdict.allowed = Buckets!Fits(d, 1)
      /\ verdict.remaining = (Full - after) \div W
      /\ verdict.time_to_full = Buckets!SecondsToRefill(after)
      /\ verdict.retry_after = IF Buckets!Fits(d, 1) THEN {}
                               ELSE {Buckets!SecondsToRefill(d + 1 * W - Full)}
  BY <1>2 DEF Buckets!Verdict
<1>6. Buckets!Fits(d, 1) \in BOOLEAN
  BY DEF Buckets!Fits
<1> HIDE DEF verdict, after, W
<1>7. after \in Nat /\ after <= Full
  BY <1>1, <1>4
<1>8. verdict.remaining \in Nat /\ (verdict.remaining # 0 => after + W <= Full)
  <2> DEFINE n == Full - after
  <2>1. n \in Nat
    BY <1>1, <1>7
  <2>2. n \div W \in Nat /\ (n < W => n \div W = 0)
    BY <1>1, <2>1
  <2> QED
    BY <1>1, <1>5, <1>7, <2>1, <2>2
<1>9. CASE Buckets!Fits(d, 1)
  <2>1. verdict.retry_after = {}
    BY <1>5, <1>9
  <2> QED
    BY <1>3, <1>4, <1>5, <1>6, <1>7, <1>8, <2>1 DEF verdict, after, W
<1>10. CASE ~Buckets!Fits(d, 1)
  <2>1. d + 1 * W - Full \in Nat
    BY <1>1, <1>3, <1>10
  <2>2. verdict.retry_after = {Buckets!SecondsToRefill(d + 1 * W - Full)}
    BY <1>5, <1>10
  <2>3. Buckets!SecondsToRefill(d + 1 * W - Full) \in Nat
    BY <2>1, WaitFacts
  <2> QED
    BY <1>3, <1>4, <1>5, <1>6, <1>7, <1>8, <2>2, <2>3 DEF verdict, after, W
<1> QED
  BY <1>9, <1>10

\* secs_ceil (limiter.rs:273-275) loses nothing.
LEMMA SecsFacts ==
  ASSUME NEW d \in Nat
  PROVE  /\ Limiter!SecsCeil(d) \in Nat
         /\ Limiter!SecsCeil(d) * Second \in Nat
         /\ Limiter!SecsCeil(d) * Second >= d
<1> DEFINE q == d \div Second
           r == d % Second
           s == Limiter!SecsCeil(d)
<1>1. Second \in Nat \ {0}
  BY ServerTypes
<1>2. q \in Nat /\ r \in 0..(Second - 1) /\ d = Second * q + r
  BY <1>1
<1>3. s = q + (IF r > 0 THEN 1 ELSE 0)
  BY DEF Limiter!SecsCeil
<1> HIDE DEF q, r, s
<1>4. s \in Nat
  BY <1>2, <1>3
<1>5. s * Second = IF r > 0 THEN Second * q + Second ELSE Second * q
  BY <1>1, <1>2, <1>3
<1>6. s * Second \in Nat
  BY <1>1, <1>4
<1>7. s * Second >= d
  BY <1>1, <1>2, <1>5
<1> QED
  BY <1>4, <1>6, <1>7 DEF s

\* What the limiter writes can be read, and if it says that nothing is left, then
\* a client that honours it waits until the quota is replenished.
LEMMA ResponseFacts ==
  ASSUME NEW d \in Nat, d <= Full, NEW j \in Limiter!Jitters(1)
  PROVE  LET verdict  == Buckets!Verdict(d, 1)
             response == Response(verdict, j)
         IN  /\ response \in ResponseType
             /\ verdict.remaining = 0 =>
                  \E w \in ServerBackoff(response) : w >= verdict.time_to_full
<1> DEFINE verdict  == Buckets!Verdict(d, 1)
           response == Response(verdict, j)
           reset    == Limiter!SecsCeil(verdict.time_to_full + j) * Second
           secs(w)  == Limiter!SecsCeil(w + j) * Second
           item     == [remaining |-> verdict.remaining, reset |-> {reset}]
<1>1. j \in Nat
  BY ServerTypes DEF Limiter!Jitters
<1>2. /\ verdict.remaining \in Nat
      /\ verdict.time_to_full \in Nat
      /\ verdict.retry_after = {} \/ \E w \in Nat : verdict.retry_after = {w}
  BY MeterFacts, WaitFacts
<1>3. response = [retry_after |-> {s * Second : s \in Limiter!RetryAfter(verdict, j)},
                  limits      |-> {item}]
  BY DEF Response, Limiter!Reset
<1>4. response.retry_after = {secs(w) : w \in verdict.retry_after}
  BY <1>3 DEF Limiter!RetryAfter
<1> HIDE DEF verdict
<1>5. reset \in Nat /\ reset >= verdict.time_to_full
  <2>1. verdict.time_to_full + j \in Nat
    BY <1>1, <1>2
  <2>2. reset \in Nat /\ reset >= verdict.time_to_full + j
    BY <2>1, SecsFacts
  <2> HIDE DEF reset
  <2> QED
    BY <1>1, <1>2, <2>2
<1>6. ASSUME NEW w \in Nat PROVE secs(w) \in Nat
  <2>1. w + j \in Nat
    BY <1>1
  <2> QED
    BY <2>1, SecsFacts
<1> HIDE DEF reset, secs
<1>7. response.retry_after = {} \/ \E v \in Nat : response.retry_after = {v}
  <2>1. CASE verdict.retry_after = {}
    BY <1>4, <2>1
  <2>2. CASE verdict.retry_after # {}
    <3>1. PICK w \in Nat : verdict.retry_after = {w}
      BY <1>2, <2>2
    <3>2. response.retry_after = {secs(w)}
      BY <1>4, <3>1
    <3> QED
      BY <1>6, <3>2
  <2> QED
    BY <2>1, <2>2
<1>8. response \in ResponseType
  <2>1. item \in [remaining : Nat, reset : SUBSET Nat]
    BY <1>2, <1>5
  <2>2. response.retry_after \in SUBSET Nat
    BY <1>7
  <2>3. response = [retry_after |-> response.retry_after, limits |-> {item}]
    BY <1>3
  <2> HIDE DEF item
  <2> QED
    BY <2>1, <2>2, <2>3 DEF ResponseType
<1>9. ASSUME verdict.remaining = 0
      PROVE  \E w \in ServerBackoff(response) : w >= verdict.time_to_full
  <2> DEFINE waits == response.retry_after
                        \cup UNION {l.reset : l \in {k \in response.limits : k.remaining = 0}}
  <2>1. response.limits = {item}
    BY <1>3
  <2>2. item.remaining = 0 /\ item.reset = {reset}
    BY <1>9
  <2> HIDE DEF item
  <2>3. waits = response.retry_after \cup {reset}
    BY <2>1, <2>2
  <2>4. ServerBackoff(response) = {w \in waits : \A v \in waits : v <= w}
    BY DEF ServerBackoff
  <2> HIDE DEF waits, response
  <2>5. CASE response.retry_after = {}
    <3>1. reset \in ServerBackoff(response)
      BY <1>5, <2>3, <2>4, <2>5
    <3> QED
      BY <1>5, <3>1
  <2>6. CASE response.retry_after # {}
    <3>1. PICK v \in Nat : response.retry_after = {v}
      BY <1>7, <2>6
    <3>2. waits = {v, reset}
      BY <2>3, <3>1
    <3>3. CASE v >= reset
      <4>1. v \in ServerBackoff(response)
        BY <1>5, <2>4, <3>2, <3>3
      <4> QED
        BY <1>2, <1>5, <3>3, <4>1
    <3>4. CASE reset > v
      <4>1. reset \in ServerBackoff(response)
        BY <1>5, <2>4, <3>2, <3>4
      <4> QED
        BY <1>5, <4>1
    <3> QED
      BY <1>5, <3>3, <3>4
  <2> QED
    BY <2>5, <2>6 DEF response
<1> QED
  BY <1>8, <1>9 DEF verdict, response

-----------------------------------------------------------------------------
(* What each action does, for a well-typed state.                           *)

\* A request is either sleeping, to a slot at most MaxLate ago, or answered.
LEMMA RequestFacts ==
  ASSUME TypeOK, NEW r \in DOMAIN task
  PROVE  /\ r \in Tasks
         /\ Sleeping(r) <=> ~Answered(r)
         /\ Sleeping(r) => /\ task[r].left \in Int
                           /\ task[r].left >= -MaxLate
                           /\ task[r] = [stage |-> "sleeping", left |-> task[r].left]
         /\ Answered(r) => /\ task[r].allowed \in BOOLEAN
                           /\ task[r].response \in ResponseType
<1>1. task[r] \in Requests /\ r \in Tasks
  BY DEF TypeOK
<1>2. CASE task[r] \in [stage : {"sleeping"}, left : {i \in Int : i >= -MaxLate}]
  BY <1>1, <1>2 DEF Sleeping, Answered
<1>3. CASE task[r] \in [stage : {"answered"}, allowed : BOOLEAN, response : ResponseType]
  BY <1>1, <1>3 DEF Sleeping, Answered
<1> QED
  BY <1>1, <1>2, <1>3 DEF Requests

\* Requests of either kind.
LEMMA RequestTypes ==
  /\ \A left \in Int : left >= -MaxLate => [stage |-> "sleeping", left |-> left] \in Requests
  /\ \A allowed \in BOOLEAN, response \in ResponseType :
       [stage |-> "answered", allowed |-> allowed, response |-> response] \in Requests
  BY DEF Requests

\* No other request changes than that of r.
OthersKeep(r) ==
  \A q \in Tasks \ {r} : /\ q \in DOMAIN task' <=> q \in DOMAIN task
                         /\ q \in DOMAIN task => task'[q] = task[q]

\* A tick takes at most one from what lies ahead and Count from what is owed,
\* and brings every slot closer.
LEMMA TickEffect ==
  ASSUME TypeOK, Tick
  PROVE  /\ TypeOK'
         /\ \A c \in Clients : ahead'[c] >= ahead[c] - 1
         /\ \A n \in Peers : owed'[n] = IF owed[n] > Server.count
                                        THEN owed[n] - Server.count ELSE 0
         /\ \A r \in Tasks :
              /\ Sleeping(r)' <=> Sleeping(r)
              /\ Answered(r)' <=> Answered(r)
              /\ Sleeping(r) => task'[r].left = task[r].left - 1 /\ task[r].left > -MaxLate
              /\ Answered(r) => task'[r] = task[r]
         /\ \A c \in Clients : heard'[c] => heard[c] \/ \A n \in Networks(c) : owed'[n] = 0
<1>1. /\ ahead \in [Clients -> Nat]
      /\ owed \in [Peers -> 0..Full]
      /\ DOMAIN task \subseteq Tasks
      /\ heard \in [Clients -> BOOLEAN]
  BY DEF TypeOK, Full
<1>2. /\ \A r \in Tasks : Sleeping(r) => task[r].left > -MaxLate
      /\ ahead' = [c \in Clients |-> Buckets!SaturatingSub(ahead[c], 1)]
      /\ owed' = [n \in Peers |-> Buckets!SaturatingSub(owed[n], Server.count)]
      /\ task' = [r \in DOMAIN task |->
                   IF Sleeping(r) THEN [task[r] EXCEPT !.left = @ - 1] ELSE task[r]]
      /\ heard' = [c \in Clients |-> heard[c] \/ \A n \in Networks(c) : owed'[n] = 0]
  BY DEF Tick
<1>3. ASSUME NEW c \in Clients PROVE ahead'[c] \in Nat /\ ahead'[c] >= ahead[c] - 1
  BY <1>1, <1>2 DEF Buckets!SaturatingSub
<1>4. ASSUME NEW n \in Peers
      PROVE  /\ owed'[n] \in 0..Full
             /\ owed'[n] = IF owed[n] > Server.count THEN owed[n] - Server.count ELSE 0
  BY <1>1, <1>2, ServerTypes DEF Buckets!SaturatingSub
<1>5. /\ heard' \in [Clients -> BOOLEAN]
      /\ \A c \in Clients : heard'[c] => heard[c] \/ \A n \in Networks(c) : owed'[n] = 0
  BY <1>1, <1>2
<1>6. DOMAIN task' = DOMAIN task
  BY <1>2
<1>7. ASSUME NEW r \in DOMAIN task, Sleeping(r)
      PROVE  /\ task'[r] = [stage |-> "sleeping", left |-> task[r].left - 1]
             /\ task'[r] \in Requests
             /\ task'[r].left = task[r].left - 1
             /\ task[r].left > -MaxLate
  <2>1. task[r] = [stage |-> "sleeping", left |-> task[r].left]
    BY <1>7, RequestFacts
  <2>2. task'[r] = [task[r] EXCEPT !.left = task[r].left - 1]
    BY <1>2, <1>7
  <2>3. task'[r] = [stage |-> "sleeping", left |-> task[r].left - 1]
    BY <2>1, <2>2
  <2>4. task[r].left \in Int /\ task[r].left > -MaxLate
    BY <1>1, <1>2, <1>7, RequestFacts
  <2>5. task[r].left - 1 \in Int /\ task[r].left - 1 >= -MaxLate
    BY <2>4, ServerTypes
  <2> QED
    BY <2>3, <2>4, <2>5, RequestTypes
<1>8. ASSUME NEW r \in DOMAIN task, ~Sleeping(r)
      PROVE  task'[r] = task[r] /\ task'[r] \in Requests
  BY <1>2, <1>8 DEF TypeOK
<1>9. \A r \in DOMAIN task : task'[r] \in Requests
  BY <1>7, <1>8
<1>10. TypeOK'
  <2>1. ahead' \in [Clients -> Nat]
    BY <1>2, <1>3
  <2>2. owed' \in [Peers -> 0..(Server.burst * Server.window)]
    BY <1>2, <1>4 DEF Full
  <2>3. task' \in [DOMAIN task' -> Requests]
    BY <1>2, <1>6, <1>9
  <2> QED
    BY <1>1, <1>5, <1>6, <2>1, <2>2, <2>3 DEF TypeOK
<1>11. ASSUME NEW r \in Tasks
       PROVE  /\ Sleeping(r)' <=> Sleeping(r)
              /\ Answered(r)' <=> Answered(r)
              /\ Sleeping(r) => task'[r].left = task[r].left - 1 /\ task[r].left > -MaxLate
              /\ Answered(r) => task'[r] = task[r]
  <2>1. CASE r \notin DOMAIN task
    BY <1>6, <2>1 DEF Sleeping, Answered
  <2>2. CASE r \in DOMAIN task /\ Sleeping(r)
    BY <1>6, <1>7, <2>2, RequestFacts DEF Sleeping, Answered
  <2>3. CASE r \in DOMAIN task /\ ~Sleeping(r)
    BY <1>6, <1>8, <2>3 DEF Sleeping, Answered
  <2> QED
    BY <2>1, <2>2, <2>3
<1> QED
  BY <1>3, <1>4, <1>5, <1>10, <1>11

\* A claim: a new slot, and the schedule one interval on.
LEMMA AskEffect ==
  ASSUME TypeOK, NEW c \in Clients, NEW r \in Profile[c].tasks, Ask(c, r)
  PROVE  /\ TypeOK'
         /\ UNCHANGED <<owed, heard>>
         /\ ahead'[c] = ahead[c] + Pace(c)
         /\ \A d \in Clients \ {c} : ahead'[d] = ahead[d]
         /\ OthersKeep(r)
         /\ ~Sleeping(r) /\ ~Answered(r)
         /\ Sleeping(r)' /\ ~Answered(r)'
         /\ task'[r].left \in Nat
         /\ task'[r].left <= ahead[c]
         /\ task'[r].left >= ahead[c] - Headroom(c)
         /\ task'[r].left > 0 => task'[r].left = ahead[c] - Headroom(c)
<1> DEFINE slot == Throttle(c)!ProceedAt(ahead[c], 0)
<1>1. /\ ahead \in [Clients -> Nat]
      /\ DOMAIN task \subseteq Tasks
      /\ task \in [DOMAIN task -> Requests]
      /\ r \in Tasks
  BY OwnerFacts DEF TypeOK
<1>2. /\ r \notin DOMAIN task
      /\ ahead[c] + Pace(c) <= MaxAhead
      /\ task' = Assign(task, r, [stage |-> "sleeping", left |-> slot])
      /\ ahead' = [ahead EXCEPT ![c] = Throttle(c)!Advanced(ahead[c], 0)]
      /\ UNCHANGED <<owed, heard>>
  BY DEF Ask, Pace
<1>3. /\ slot \in Nat
      /\ slot <= ahead[c]
      /\ slot >= ahead[c] - Headroom(c)
      /\ slot > 0 => slot = ahead[c] - Headroom(c)
      /\ Throttle(c)!Advanced(ahead[c], 0) = ahead[c] + Pace(c)
  BY <1>1, <1>2, SlotFacts
<1> HIDE DEF slot
<1>4. /\ ahead' \in [Clients -> Nat]
      /\ ahead'[c] = ahead[c] + Pace(c)
      /\ \A d \in Clients \ {c} : ahead'[d] = ahead[d]
  BY <1>1, <1>2, <1>3, PaceTypes
<1>5. /\ DOMAIN task' = DOMAIN task \cup {r}
      /\ task'[r] = [stage |-> "sleeping", left |-> slot]
      /\ \A q \in DOMAIN task : task'[q] = task[q]
  BY <1>2 DEF Assign
<1>6. [stage |-> "sleeping", left |-> slot] \in Requests
  BY <1>3, RequestTypes, ServerTypes
<1>7. TypeOK'
  <2>1. task' \in [DOMAIN task' -> Requests]
    BY <1>1, <1>2, <1>5, <1>6 DEF Assign
  <2> QED
    BY <1>1, <1>2, <1>4, <1>5, <2>1 DEF TypeOK
<1>8. /\ ~Sleeping(r) /\ ~Answered(r)
      /\ Sleeping(r)' /\ ~Answered(r)'
      /\ task'[r].left = slot
  BY <1>2, <1>5 DEF Sleeping, Answered
<1>9. OthersKeep(r)
  BY <1>5 DEF OthersKeep
<1> QED
  BY <1>2, <1>3, <1>4, <1>7, <1>8, <1>9

\* A due request is metered at one network of its client's.
LEMMA ReachEffect ==
  ASSUME TypeOK, NEW r \in Tasks, NEW a \in Profile[Owner(r)].addresses, Reach(r, a)
  PROVE  LET n == network_key(a)
         IN  /\ TypeOK'
             /\ UNCHANGED <<ahead, heard>>
             /\ n \in Networks(Owner(r)) /\ n \in Peers
             /\ owed'[n] = Buckets!Owed(owed[n], 1)
             /\ \A p \in Peers \ {n} : owed'[p] = owed[p]
             /\ OthersKeep(r)
             /\ Sleeping(r) /\ task[r].left <= 0
             /\ ~Sleeping(r)' /\ Answered(r)'
             /\ task'[r].allowed <=> owed[n] + Server.window <= Full
             /\ \/ owed'[n] + Server.window <= Full
                \/ \E w \in ServerBackoff(task'[r].response) :
                     w >= Buckets!SecondsToRefill(owed'[n])
<1> DEFINE n == network_key(a)
           verdict == Buckets!Verdict(owed[n], 1)
           after   == Buckets!Owed(owed[n], 1)
<1>1. /\ ahead \in [Clients -> Nat]
      /\ owed \in [Peers -> 0..Full]
      /\ DOMAIN task \subseteq Tasks
      /\ task \in [DOMAIN task -> Requests]
      /\ heard \in [Clients -> BOOLEAN]
  BY DEF TypeOK, Full
<1>2. n \in Networks(Owner(r)) /\ n \in Peers
  BY OwnerFacts DEF Networks, Peers
<1>3. /\ Sleeping(r) /\ task[r].left <= 0
      /\ owed' = [owed EXCEPT ![n] = after]
      /\ UNCHANGED <<ahead, heard>>
  BY DEF Reach, Due
<1>4. PICK j \in Limiter!Jitters(1) :
        task' = [task EXCEPT ![r] = [stage |-> "answered", allowed |-> verdict.allowed,
                                     response |-> Response(verdict, j)]]
  BY DEF Reach
<1> DEFINE response == Response(verdict, j)
           answered == [stage |-> "answered", allowed |-> verdict.allowed,
                        response |-> response]
<1>5. owed[n] \in Nat /\ owed[n] <= Full
  BY <1>1, <1>2, ServerTypes
<1>6. /\ verdict.allowed \in BOOLEAN
      /\ verdict.allowed <=> owed[n] + Server.window <= Full
      /\ after \in Nat /\ after <= Full
      /\ verdict.remaining \in Nat
      /\ verdict.remaining # 0 => after + Server.window <= Full
      /\ verdict.time_to_full = Buckets!SecondsToRefill(after)
  BY <1>5, MeterFacts
<1>7. /\ response \in ResponseType
      /\ verdict.remaining = 0 =>
           \E w \in ServerBackoff(response) : w >= verdict.time_to_full
  BY <1>5, ResponseFacts
<1> HIDE DEF verdict, after, n, response
<1>8. r \in DOMAIN task /\ DOMAIN task' = DOMAIN task /\ task'[r] = answered
  BY <1>3, <1>4 DEF Sleeping, response
<1>9. answered \in Requests
  BY <1>6, <1>7, RequestTypes
<1>10. task' \in [DOMAIN task' -> Requests]
  BY <1>1, <1>4, <1>8, <1>9 DEF response
<1>11. owed' \in [Peers -> 0..Full] /\ owed'[n] = after /\ \A p \in Peers \ {n} : owed'[p] = owed[p]
  BY <1>1, <1>2, <1>3, <1>6, ServerTypes
<1>12. TypeOK'
  BY <1>1, <1>3, <1>8, <1>10, <1>11 DEF TypeOK, Full
<1>13. OthersKeep(r)
  BY <1>4, <1>8 DEF OthersKeep
<1>14. task'[r].allowed = verdict.allowed /\ task'[r].response = response
  BY <1>8
<1>15. ~Sleeping(r)' /\ Answered(r)'
  BY <1>8 DEF Sleeping, Answered
<1>16. \/ owed'[n] + Server.window <= Full
       \/ \E w \in ServerBackoff(task'[r].response) :
            w >= Buckets!SecondsToRefill(owed'[n])
  BY <1>6, <1>7, <1>11, <1>14
<1> QED
  BY <1>2, <1>3, <1>6, <1>11, <1>12, <1>13, <1>14, <1>15, <1>16 DEF n, after

\* A response raises the schedule of its client, if anything.
LEMMA HearEffect ==
  ASSUME TypeOK, NEW r \in Tasks, Hear(r)
  PROVE  /\ TypeOK'
         /\ UNCHANGED owed
         /\ ahead'[Owner(r)] = Pushed(Owner(r), task[r].response)
         /\ \A c \in Clients : ahead'[c] >= ahead[c]
         /\ \A c \in Clients \ {Owner(r)} : ahead'[c] = ahead[c] /\ heard'[c] = heard[c]
         /\ OthersKeep(r)
         /\ Answered(r) /\ ~Sleeping(r)
         /\ ~Sleeping(r)' /\ ~Answered(r)'
<1>1. /\ ahead \in [Clients -> Nat]
      /\ DOMAIN task \subseteq Tasks
      /\ task \in [DOMAIN task -> Requests]
      /\ heard \in [Clients -> BOOLEAN]
      /\ Owner(r) \in Clients
  BY OwnerFacts DEF TypeOK
<1>2. /\ Answered(r)
      /\ ahead' = [ahead EXCEPT ![Owner(r)] = Pushed(Owner(r), task[r].response)]
      /\ task' = Drop(task, r)
      /\ heard' = [heard EXCEPT ![Owner(r)] = TRUE]
      /\ UNCHANGED owed
  BY DEF Hear
<1>3. r \in DOMAIN task /\ task[r].response \in ResponseType
  BY <1>2, RequestFacts DEF Answered
<1>4. /\ Pushed(Owner(r), task[r].response) \in Nat
      /\ Pushed(Owner(r), task[r].response) >= ahead[Owner(r)]
  BY <1>1, <1>3, PushedFacts
<1>5. /\ DOMAIN task' = DOMAIN task \ {r}
      /\ \A q \in DOMAIN task \ {r} : task'[q] = task[q]
      /\ task' \in [DOMAIN task' -> Requests]
  BY <1>1, <1>2 DEF Drop
<1>6. ahead' \in [Clients -> Nat] /\ heard' \in [Clients -> BOOLEAN]
  BY <1>1, <1>2, <1>4
<1>7. TypeOK'
  BY <1>1, <1>2, <1>5, <1>6 DEF TypeOK
<1>8. /\ ahead'[Owner(r)] = Pushed(Owner(r), task[r].response)
      /\ \A c \in Clients \ {Owner(r)} : ahead'[c] = ahead[c] /\ heard'[c] = heard[c]
  BY <1>1, <1>2
<1>9. \A c \in Clients : ahead'[c] >= ahead[c]
  BY <1>1, <1>4, <1>6, <1>8
<1>10. OthersKeep(r)
  BY <1>5 DEF OthersKeep
<1>11. ~Sleeping(r) /\ ~Sleeping(r)' /\ ~Answered(r)'
  BY <1>2, <1>5 DEF Sleeping, Answered
<1> QED
  BY <1>2, <1>7, <1>8, <1>9, <1>10, <1>11

\* Of a request that is given up, the slot and the debt remain.
LEMMA CancelEffect ==
  ASSUME TypeOK, NEW r \in Tasks, Cancel(r)
  PROVE  /\ TypeOK'
         /\ UNCHANGED <<ahead, owed>>
         /\ OthersKeep(r)
         /\ r \in DOMAIN task
         /\ ~Sleeping(r)' /\ ~Answered(r)'
         /\ heard'[Owner(r)] => heard[Owner(r)] /\ ~Answered(r)
         /\ \A c \in Clients \ {Owner(r)} : heard'[c] = heard[c]
<1>1. /\ DOMAIN task \subseteq Tasks
      /\ task \in [DOMAIN task -> Requests]
      /\ heard \in [Clients -> BOOLEAN]
      /\ Owner(r) \in Clients
  BY OwnerFacts DEF TypeOK
<1>2. /\ r \in DOMAIN task
      /\ heard' = [heard EXCEPT ![Owner(r)] = heard[Owner(r)] /\ ~Answered(r)]
      /\ task' = Drop(task, r)
      /\ UNCHANGED <<ahead, owed>>
  BY DEF Cancel
<1>3. /\ DOMAIN task' = DOMAIN task \ {r}
      /\ \A q \in DOMAIN task \ {r} : task'[q] = task[q]
      /\ task' \in [DOMAIN task' -> Requests]
  BY <1>1, <1>2 DEF Drop
<1>4. /\ heard' \in [Clients -> BOOLEAN]
      /\ heard'[Owner(r)] => heard[Owner(r)] /\ ~Answered(r)
      /\ \A c \in Clients \ {Owner(r)} : heard'[c] = heard[c]
  BY <1>1, <1>2
<1>5. TypeOK'
  BY <1>1, <1>2, <1>3, <1>4 DEF TypeOK
<1>6. OthersKeep(r) /\ ~Sleeping(r)' /\ ~Answered(r)'
  BY <1>3 DEF OthersKeep, Sleeping, Answered
<1> QED
  BY <1>2, <1>4, <1>5, <1>6

\* A debt that is forgotten is nothing, and nothing else changes.
LEMMA ForgetEffect ==
  ASSUME TypeOK, NEW n \in Peers, Forget(n)
  PROVE  /\ TypeOK'
         /\ ahead' = ahead /\ task' = task /\ heard' = heard
         /\ owed'[n] = 0
         /\ \A m \in Peers \ {n} : owed'[m] = owed[m]
         /\ \A m \in Peers : owed[m] \in Nat /\ owed'[m] \in Nat /\ owed'[m] <= owed[m]
<1>1. /\ owed \in [Peers -> 0..Full] /\ Full \in Nat
      /\ owed' = [owed EXCEPT ![n] = 0]
      /\ ahead' = ahead /\ task' = task /\ heard' = heard
  BY ServerTypes DEF TypeOK, Full, Forget
<1>2. /\ owed' \in [Peers -> 0..Full] /\ owed'[n] = 0
      /\ \A m \in Peers \ {n} : owed'[m] = owed[m]
  BY <1>1
<1>3. TypeOK'
  BY <1>1, <1>2 DEF TypeOK, Full
<1>4. \A m \in Peers : owed[m] \in Nat /\ owed'[m] \in Nat /\ owed'[m] <= owed[m]
  BY <1>1, <1>2
<1> QED
  BY <1>1, <1>2, <1>3, <1>4

\* The steps of the system, one by one.
LEMMA NextCases ==
  ASSUME Next
  PROVE  \/ Tick
         \/ \E c \in Clients : \E r \in Profile[c].tasks : Ask(c, r)
         \/ \E r \in Tasks : \E a \in Profile[Owner(r)].addresses : Reach(r, a)
         \/ \E r \in Tasks : Hear(r) \/ Cancel(r)
         \/ \E n \in Peers : Forget(n)
  BY DEF Next, Arrival

-----------------------------------------------------------------------------
(* Networks.                                                                *)

Hosts == [1..2 -> Segments]

\* ip is the IPv4 address h, plain or mapped into IPv6.
Carries(ip, h) ==
  \/ ip = [v4 |-> h]
  \/ /\ "v6" \in DOMAIN ip
     /\ \A i \in 1..5 : ip.v6[i] = 0
     /\ ip.v6[6] = Ones
     /\ \A i \in 1..2 : ip.v6[6 + i] = h[i]

\* Two addresses are on one network: they are the same IPv4 address, or IPv6
\* addresses that share a /64 prefix.
SameNetwork(a, b) ==
  \/ \E h \in Hosts : Carries(a, h) /\ Carries(b, h)
  \/ /\ \A h \in Hosts : ~Carries(a, h) /\ ~Carries(b, h)
     /\ \A i \in 1..4 : a.v6[i] = b.v6[i]

\* Segments that are cut out of an address, and zeros.
LEMMA SegmentFacts ==
  ASSUME NEW s \in [1..8 -> Segments]
  PROVE  /\ \A n \in 1..8 : /\ SubSeq(s, 1, n) \in Seq(Segments)
                            /\ Len(SubSeq(s, 1, n)) = n
                            /\ \A i \in 1..n : SubSeq(s, 1, n)[i] = s[i]
         /\ SubSeq(s, 7, 8) \in Seq(Segments)
         /\ Len(SubSeq(s, 7, 8)) = 2
         /\ \A i \in 1..2 : SubSeq(s, 7, 8)[i] = s[6 + i]
<1>1. ASSUME NEW n \in 1..8
      PROVE  /\ SubSeq(s, 1, n) \in Seq(Segments)
             /\ Len(SubSeq(s, 1, n)) = n
             /\ \A i \in 1..n : SubSeq(s, 1, n)[i] = s[i]
  <2>1. n \in Int /\ 1 \in Int /\ \A i \in 1..n : s[i] \in Segments
    OBVIOUS
  <2> QED
    BY <2>1, SubSeqProperties
<1>2. \A i \in 7..8 : s[i] \in Segments
  OBVIOUS
<1>3. /\ SubSeq(s, 7, 8) \in Seq(Segments)
      /\ Len(SubSeq(s, 7, 8)) = 2
      /\ \A i \in 1..2 : SubSeq(s, 7, 8)[i] = s[6 + i]
  BY <1>2, SubSeqProperties
<1> QED
  BY <1>1, <1>3

\* Segments are numbers.
LEMMA OnesFacts == Ones \in Nat /\ Ones \in Segments /\ 0 \in Segments
<1>1. Ones \in Nat
  BY DEF Ones
<1> QED
  BY <1>1 DEF Segments

\* Zeros are segments.
LEMMA ZeroFacts ==
  ASSUME NEW n \in Nat
  PROVE  Zeros(n) \in Seq(Segments) /\ Len(Zeros(n)) = n /\ \A i \in 1..n : Zeros(n)[i] = 0
<1>1. 0 \in Segments
  BY OnesFacts
<1>2. Zeros(n) \in [1..n -> Segments] /\ \A i \in 1..n : Zeros(n)[i] = 0
  BY <1>1 DEF Zeros
<1>3. Zeros(n) \in Seq(Segments) /\ Len(Zeros(n)) = n
  BY <1>2
<1> QED
  BY <1>2, <1>3

\* The first 96 bits of a mapped address.
LEMMA MappedFacts ==
  ASSUME NEW s \in [1..8 -> Segments]
  PROVE  SubSeq(s, 1, 6) = Zeros(5) \o <<Ones>> <=> (\A i \in 1..5 : s[i] = 0) /\ s[6] = Ones
<1> DEFINE z == Zeros(5)
           e == <<Ones>>
           m == z \o e
           u == SubSeq(s, 1, 6)
<1>1. Ones \in Segments
  BY OnesFacts
<1>2. /\ z \in Seq(Segments) /\ Len(z) = 5
      /\ \A i \in 1..5 : z[i] = 0
  BY ZeroFacts
<1> HIDE DEF z
<1>3. e \in Seq(Segments) /\ Len(e) = 1 /\ e[1] = Ones
  BY <1>1
<1> HIDE DEF e
<1>4. /\ m \in Seq(Segments) /\ Len(m) = Len(z) + Len(e)
      /\ \A i \in 1..(Len(z) + Len(e)) :
           m[i] = IF i <= Len(z) THEN z[i] ELSE e[i - Len(z)]
  BY <1>2, <1>3, ConcatProperties
<1>5. /\ u \in Seq(Segments) /\ Len(u) = 6 /\ \A i \in 1..6 : u[i] = s[i]
  BY SegmentFacts
<1> HIDE DEF m, u
<1>6. (\A i \in 1..5 : m[i] = 0) /\ m[6] = Ones /\ Len(m) = 6
  <2>1. \A i \in 1..6 : m[i] = IF i <= 5 THEN z[i] ELSE e[i - 5]
    BY <1>2, <1>3, <1>4
  <2>2. \A i \in 1..5 : i \in 1..6 /\ i <= 5
    OBVIOUS
  <2>3. \A i \in 1..5 : m[i] = 0
    BY <1>2, <2>1, <2>2
  <2>4. 6 \in 1..6 /\ ~(6 <= 5) /\ 6 - 5 = 1
    OBVIOUS
  <2>5. m[6] = Ones
    BY <1>3, <2>1, <2>4
  <2>6. Len(m) = 6
    BY <1>2, <1>3, <1>4
  <2> QED
    BY <2>3, <2>5, <2>6
<1>7. ASSUME u = m PROVE (\A i \in 1..5 : s[i] = 0) /\ s[6] = Ones
  BY <1>5, <1>6, <1>7
<1>8. ASSUME \A i \in 1..5 : s[i] = 0, s[6] = Ones PROVE u = m
  <2>1. \A i \in 1..6 : i \in 1..5 \/ i = 6
    OBVIOUS
  <2>2. \A i \in 1..6 : u[i] = m[i]
    BY <1>5, <1>6, <1>8, <2>1
  <2> QED
    BY <1>4, <1>5, <1>6, <2>2, SeqEqual
<1> QED
  BY <1>7, <1>8 DEF m, u, z, e

\* A masked address is told by the segments that are kept.
LEMMA PrefixFacts ==
  ASSUME NEW s \in [1..8 -> Segments], NEW t \in [1..8 -> Segments]
  PROVE  SubSeq(s, 1, 4) \o Zeros(4) = SubSeq(t, 1, 4) \o Zeros(4)
           <=> \A i \in 1..4 : s[i] = t[i]
<1> DEFINE p == SubSeq(s, 1, 4)
           q == SubSeq(t, 1, 4)
<1>1. /\ p \in Seq(Segments) /\ Len(p) = 4 /\ \A i \in 1..4 : p[i] = s[i]
      /\ q \in Seq(Segments) /\ Len(q) = 4 /\ \A i \in 1..4 : q[i] = t[i]
  BY SegmentFacts
<1>2. Zeros(4) \in Seq(Segments)
  BY ZeroFacts
<1> HIDE DEF p, q
<1>3. ASSUME \A i \in 1..4 : s[i] = t[i] PROVE p = q
  BY <1>1, <1>3, SeqEqual
<1>4. ASSUME p \o Zeros(4) = q \o Zeros(4) PROVE \A i \in 1..4 : s[i] = t[i]
  <2>1. \A i \in 1..(Len(p) + Len(Zeros(4))) :
          (p \o Zeros(4))[i] = IF i <= Len(p) THEN p[i] ELSE Zeros(4)[i - Len(p)]
    BY <1>1, <1>2, ConcatProperties
  <2>2. \A i \in 1..(Len(q) + Len(Zeros(4))) :
          (q \o Zeros(4))[i] = IF i <= Len(q) THEN q[i] ELSE Zeros(4)[i - Len(q)]
    BY <1>1, <1>2, ConcatProperties
  <2>3. Len(Zeros(4)) = 4
    BY ZeroFacts
  <2>4. \A i \in 1..4 : /\ i \in 1..(Len(p) + Len(Zeros(4))) /\ i <= Len(p)
                       /\ i \in 1..(Len(q) + Len(Zeros(4))) /\ i <= Len(q)
    BY <1>1, <2>3
  <2> QED
    BY <1>1, <1>4, <2>1, <2>2, <2>4
<1> QED
  BY <1>3, <1>4 DEF p, q

\* network_key keeps IPv4 addresses whole, and the /64 prefix of the others.
LEMMA KeyFacts ==
  ASSUME NEW a \in Addresses
  PROVE  /\ \A h \in Hosts : Carries(a, h) => network_key(a) = [v4 |-> h]
         /\ (\A h \in Hosts : ~Carries(a, h)) =>
              /\ a.v6 \in [1..8 -> Segments]
              /\ network_key(a) = [v6 |-> SubSeq(a.v6, 1, 4) \o Zeros(4)]
<1>1. CASE a \in [v4 : Hosts]
  <2>1. "v4" \in DOMAIN a /\ "v6" \notin DOMAIN a /\ a.v4 \in Hosts /\ a = [v4 |-> a.v4]
    BY <1>1
  <2>2. network_key(a) = a /\ Carries(a, a.v4)
    <3>1. ~IsMapped(a)
      BY <2>1 DEF IsMapped
    <3> QED
      BY <2>1, <3>1 DEF network_key, Carries
  <2>3. \A h \in Hosts : Carries(a, h) => a = [v4 |-> h]
    BY <2>1 DEF Carries
  <2> QED
    BY <2>1, <2>2, <2>3
<1>2. CASE a \in [v6 : [1..8 -> Segments]]
  <2> DEFINE s == a.v6
             g == SubSeq(s, 7, 8)
  <2>1. "v4" \notin DOMAIN a /\ "v6" \in DOMAIN a /\ s \in [1..8 -> Segments]
    BY <1>2
  <2>2. \A h : a # [v4 |-> h]
    BY <2>1
  <2>3. /\ g \in Seq(Segments) /\ Len(g) = 2 /\ \A i \in 1..2 : g[i] = s[6 + i]
    BY <2>1, SegmentFacts
  <2> HIDE DEF s, g
  <2>4. g \in Hosts
    BY <2>3, LenProperties DEF Hosts
  <2>5. IsMapped(a) <=> (\A i \in 1..5 : s[i] = 0) /\ s[6] = Ones
    BY <2>1, MappedFacts DEF IsMapped, s
  <2>6. ASSUME NEW h \in Hosts, Carries(a, h)
        PROVE  IsMapped(a) /\ h = g
    <3>1. /\ \A i \in 1..5 : s[i] = 0
          /\ s[6] = Ones
          /\ \A i \in 1..2 : s[6 + i] = h[i]
      BY <2>2, <2>6 DEF Carries, s
    <3>2. h \in Seq(Segments) /\ Len(h) = 2
      <4>1. h \in [1..2 -> Segments] /\ 2 \in Nat
        BY DEF Hosts
      <4>2. h \in Seq(Segments)
        BY <4>1, SeqDef
      <4>3. DOMAIN h = 1..2 /\ Len(h) \in Nat /\ DOMAIN h = 1..Len(h)
        BY <4>1, <4>2, LenProperties
      <4> QED
        BY <4>2, <4>3
    <3>3. \A i \in 1..2 : h[i] = g[i]
      BY <2>3, <3>1
    <3> QED
      BY <2>3, <2>5, <3>1, <3>2, <3>3, SeqEqual
  <2>7. IsMapped(a) => Carries(a, g)
    BY <2>1, <2>3, <2>5 DEF Carries, s
  <2>8. IsMapped(a) => network_key(a) = [v4 |-> g]
    BY <2>1 DEF network_key, g, s
  <2>9. ~IsMapped(a) => network_key(a) = [v6 |-> SubSeq(s, 1, 4) \o Zeros(4)]
    <3>1. 8 - 4 = 4
      OBVIOUS
    <3> QED
      BY <2>1, <3>1 DEF network_key, Prefix, s
  <2> QED
    BY <2>1, <2>4, <2>6, <2>7, <2>8, <2>9 DEF s
<1>3. a \in [v4 : Hosts] \/ a \in [v6 : [1..8 -> Segments]]
  BY DEF Addresses, Hosts
<1> QED
  BY <1>1, <1>2, <1>3

\* Masking a mapped address "as IPv6 would zero precisely the bits that
\* distinguish one client from another" (limiter.rs:195-197): two addresses have
\* the same key just if they are on one network, an IPv4 address, plain or
\* mapped, or an IPv6 /64.
THEOREM NetworkKeyTellsNetworks ==
  \A a, b \in Addresses : network_key(a) = network_key(b) <=> SameNetwork(a, b)
<1> SUFFICES ASSUME NEW a \in Addresses, NEW b \in Addresses
             PROVE  network_key(a) = network_key(b) <=> SameNetwork(a, b)
  OBVIOUS
<1>1. CASE \E h \in Hosts : Carries(a, h)
  <2>1. PICK h \in Hosts : Carries(a, h)
    BY <1>1
  <2>2. network_key(a) = [v4 |-> h]
    BY <2>1, KeyFacts
  <2>3. ASSUME NEW g \in Hosts, Carries(b, g)
        PROVE  network_key(b) = [v4 |-> g] /\ ([v4 |-> g] = [v4 |-> h] <=> g = h)
    <3>1. [v4 |-> g].v4 = g /\ [v4 |-> h].v4 = h
      OBVIOUS
    <3> QED
      BY <2>3, <3>1, KeyFacts
  <2>4. ASSUME \A g \in Hosts : ~Carries(b, g)
        PROVE  network_key(b) # [v4 |-> h]
    <3>1. network_key(b) = [v6 |-> SubSeq(b.v6, 1, 4) \o Zeros(4)]
      BY <2>4, KeyFacts
    <3>2. "v4" \notin DOMAIN network_key(b)
      BY <3>1
    <3>3. "v4" \in DOMAIN [v4 |-> h]
      OBVIOUS
    <3> QED
      BY <3>2, <3>3
  <2>5. \A g \in Hosts : Carries(a, g) => g = h
    <3>1. ASSUME NEW g \in Hosts, Carries(a, g) PROVE g = h
      <4>1. network_key(a) = [v4 |-> g]
        BY <3>1, KeyFacts
      <4>2. [v4 |-> g].v4 = g /\ [v4 |-> h].v4 = h
        OBVIOUS
      <4> QED
        BY <2>2, <4>1, <4>2
    <3> QED
      BY <3>1
  <2> QED
    BY <2>1, <2>2, <2>3, <2>4, <2>5 DEF SameNetwork
<1>2. CASE \A h \in Hosts : ~Carries(a, h)
  <2>1. /\ a.v6 \in [1..8 -> Segments]
        /\ network_key(a) = [v6 |-> SubSeq(a.v6, 1, 4) \o Zeros(4)]
    BY <1>2, KeyFacts
  <2>2. CASE \E g \in Hosts : Carries(b, g)
    <3>1. PICK g \in Hosts : Carries(b, g)
      BY <2>2
    <3>2. network_key(b) = [v4 |-> g]
      BY <3>1, KeyFacts
    <3>3. "v4" \in DOMAIN network_key(b) /\ "v4" \notin DOMAIN network_key(a)
      BY <2>1, <3>2
    <3> QED
      BY <1>2, <3>1, <3>3 DEF SameNetwork
  <2>3. CASE \A g \in Hosts : ~Carries(b, g)
    <3> DEFINE p == SubSeq(a.v6, 1, 4) \o Zeros(4)
               q == SubSeq(b.v6, 1, 4) \o Zeros(4)
    <3>1. /\ b.v6 \in [1..8 -> Segments]
          /\ network_key(b) = [v6 |-> q]
      BY <2>3, KeyFacts
    <3>2. p = q <=> \A i \in 1..4 : a.v6[i] = b.v6[i]
      BY <2>1, <3>1, PrefixFacts
    <3>3. network_key(a) = [v6 |-> p]
      BY <2>1
    <3> HIDE DEF p, q
    <3>4. network_key(a) = network_key(b) <=> p = q
      <4>1. [v6 |-> p].v6 = p /\ [v6 |-> q].v6 = q
        OBVIOUS
      <4> QED
        BY <3>1, <3>3, <4>1
    <3> QED
      BY <1>2, <2>3, <3>2, <3>4 DEF SameNetwork
  <2> QED
    BY <2>2, <2>3
<1> QED
  BY <1>1, <1>2

-----------------------------------------------------------------------------
(* Slots.                                                                   *)

\* The requests of c that sleep until y ticks from now or later, and those
\* of them until at most x ticks from now.
From(c, y)       == {r \in Profile[c].tasks : Sleeping(r) /\ task[r].left >= y}
Between(c, y, x) == {r \in From(c, y) : task[r].left <= x}

\* Sets that differ in one element at most, counted.
LEMMA OneApart ==
  ASSUME NEW A, NEW B, NEW r, IsFiniteSet(A), B \ {r} = A \ {r}
  PROVE  /\ Cardinality(A) \in Nat /\ Cardinality(B) \in Nat
         /\ Cardinality(B) <= Cardinality(A) + 1
         /\ r \notin B => Cardinality(B) <= Cardinality(A)
         /\ r \in A /\ r \notin B => Cardinality(A) = Cardinality(B) + 1
<1> DEFINE D == A \ {r}
<1>1. /\ IsFiniteSet(D)
      /\ Cardinality(D) = IF r \in A THEN Cardinality(A) - 1 ELSE Cardinality(A)
  BY FS_RemoveElement
<1>2. Cardinality(A) \in Nat /\ Cardinality(D) \in Nat
  BY <1>1, FS_CardinalityType
<1>3. /\ IsFiniteSet(D \cup {r})
      /\ Cardinality(D \cup {r}) = IF r \in D THEN Cardinality(D) ELSE Cardinality(D) + 1
  BY <1>1, FS_AddElement
<1>4. r \notin D
  OBVIOUS
<1>5. CASE r \in B
  <2>1. B = D \cup {r}
    BY <1>5
  <2>2. Cardinality(B) = Cardinality(D) + 1
    BY <1>3, <1>4, <2>1
  <2> HIDE DEF D
  <2> QED
    BY <1>1, <1>2, <1>5, <2>2
<1>6. CASE r \notin B
  <2>1. B = D
    BY <1>6
  <2> HIDE DEF D
  <2> QED
    BY <1>1, <1>2, <1>6, <2>1
<1> QED
  BY <1>5, <1>6

\* Slots are finitely many.
LEMMA SlotCounts ==
  ASSUME NEW c \in Clients, NEW y \in Int, NEW x \in Int
  PROVE  /\ IsFiniteSet(From(c, y)) /\ Cardinality(From(c, y)) \in Nat
         /\ IsFiniteSet(Between(c, y, x)) /\ Cardinality(Between(c, y, x)) \in Nat
         /\ Cardinality(Between(c, y, x)) <= Cardinality(From(c, y))
<1>1. IsFiniteSet(Profile[c].tasks)
  BY EndToEndAssumption
<1>2. From(c, y) \subseteq Profile[c].tasks /\ Between(c, y, x) \subseteq From(c, y)
  BY DEF From, Between
<1>3. IsFiniteSet(From(c, y)) /\ IsFiniteSet(Between(c, y, x))
  BY <1>1, <1>2, FS_Subset
<1> QED
  BY <1>2, <1>3, FS_Subset, FS_CardinalityType

\* A tick brings every slot one closer; none was as late as may be.
LEMMA TickSlots ==
  ASSUME TypeOK, Tick, NEW c \in Clients, NEW y \in Int, NEW x \in Int
  PROVE  /\ From(c, y)' = From(c, y + 1)
         /\ Between(c, y, x)' = Between(c, y + 1, x + 1)
         /\ From(c, -MaxLate)' = From(c, -MaxLate)
         /\ Between(c, -MaxLate, x)' = Between(c, -MaxLate, x + 1)
<1>1. \A r \in Profile[c].tasks : r \in Tasks
  BY OwnerFacts
<1>2. \A r \in Profile[c].tasks :
        /\ Sleeping(r)' <=> Sleeping(r)
        /\ Sleeping(r) => /\ task'[r].left = task[r].left - 1
                          /\ task[r].left > -MaxLate
                          /\ task[r].left \in Int
  <2>1. ASSUME NEW r \in Tasks, Sleeping(r)
        PROVE  task[r].left \in Int
    <3>1. r \in DOMAIN task
      BY <2>1 DEF Sleeping
    <3> QED
      BY <2>1, <3>1, RequestFacts
  <2> QED
    BY <1>1, <2>1, TickEffect
<1>3. From(c, y)' = {r \in Profile[c].tasks : Sleeping(r)' /\ task'[r].left >= y}
  BY DEF From
<1>4. From(c, -MaxLate)' = {r \in Profile[c].tasks : Sleeping(r)' /\ task'[r].left >= -MaxLate}
  BY DEF From
<1>5. From(c, y)' = From(c, y + 1)
  BY <1>2, <1>3 DEF From
<1>6. From(c, -MaxLate)' = From(c, -MaxLate)
  BY <1>2, <1>4, ServerTypes DEF From
<1>7. Between(c, y, x)' = {r \in From(c, y)' : task'[r].left <= x}
  BY DEF Between
<1>8. Between(c, -MaxLate, x)' = {r \in From(c, -MaxLate)' : task'[r].left <= x}
  BY DEF Between
<1>9. \A r \in From(c, y + 1) \cup From(c, -MaxLate) :
        task'[r].left = task[r].left - 1 /\ task[r].left \in Int
  BY <1>2 DEF From
<1>10. Between(c, y, x)' = Between(c, y + 1, x + 1)
  BY <1>5, <1>7, <1>9 DEF Between
<1>11. Between(c, -MaxLate, x)' = Between(c, -MaxLate, x + 1)
  BY <1>6, <1>8, <1>9 DEF Between
<1> QED
  BY <1>5, <1>6, <1>10, <1>11

\* Any other step adds or removes the slot of one request at most.
LEMMA OtherSlots ==
  ASSUME TypeOK, NEW r \in Tasks, OthersKeep(r),
         NEW c \in Clients, NEW y \in Int, NEW x \in Int
  PROVE  /\ From(c, y)' \ {r} = From(c, y) \ {r}
         /\ Between(c, y, x)' \ {r} = Between(c, y, x) \ {r}
         /\ r \notin Profile[c].tasks => /\ From(c, y)' = From(c, y)
                                         /\ Between(c, y, x)' = Between(c, y, x)
<1>1. \A q \in Profile[c].tasks : q \in Tasks
  BY OwnerFacts
<1>2. \A q \in Profile[c].tasks \ {r} :
        /\ Sleeping(q)' <=> Sleeping(q)
        /\ Sleeping(q) => task'[q] = task[q]
  BY <1>1 DEF OthersKeep, Sleeping
<1>3. /\ From(c, y)' = {q \in Profile[c].tasks : Sleeping(q)' /\ task'[q].left >= y}
      /\ Between(c, y, x)' = {q \in Profile[c].tasks :
                                (Sleeping(q)' /\ task'[q].left >= y) /\ task'[q].left <= x}
      /\ From(c, y) = {q \in Profile[c].tasks : Sleeping(q) /\ task[q].left >= y}
      /\ Between(c, y, x) = {q \in Profile[c].tasks :
                                (Sleeping(q) /\ task[q].left >= y) /\ task[q].left <= x}
  BY DEF From, Between
<1>4. \A q \in Profile[c].tasks \ {r} :
        /\ q \in From(c, y)' <=> q \in From(c, y)
        /\ q \in Between(c, y, x)' <=> q \in Between(c, y, x)
  BY <1>2, <1>3
<1>5. /\ From(c, y)' \subseteq Profile[c].tasks /\ Between(c, y, x)' \subseteq Profile[c].tasks
      /\ From(c, y) \subseteq Profile[c].tasks /\ Between(c, y, x) \subseteq Profile[c].tasks
  BY <1>3
<1> QED
  BY <1>4, <1>5

\* A step that leaves r awake adds no slot.
LEMMA FewerSlots ==
  ASSUME TypeOK, NEW r \in Tasks, OthersKeep(r),
         NEW c \in Clients, NEW y \in Int, NEW x \in Int, ~Sleeping(r)'
  PROVE  /\ Cardinality(From(c, y)') \in Nat /\ Cardinality(Between(c, y, x)') \in Nat
         /\ Cardinality(From(c, y)') <= Cardinality(From(c, y))
         /\ Cardinality(Between(c, y, x)') <= Cardinality(Between(c, y, x))
         /\ r \in From(c, y) => Cardinality(From(c, y)) = Cardinality(From(c, y)') + 1
         /\ r \in Between(c, y, x) =>
              Cardinality(Between(c, y, x)) = Cardinality(Between(c, y, x)') + 1
         /\ From(c, y)' # {} => From(c, y) # {}
<1>1. r \notin From(c, y)' /\ r \notin Between(c, y, x)'
  BY DEF From, Between
<1>2. /\ From(c, y)' \ {r} = From(c, y) \ {r}
      /\ Between(c, y, x)' \ {r} = Between(c, y, x) \ {r}
  BY OtherSlots
<1>3. IsFiniteSet(From(c, y)) /\ IsFiniteSet(Between(c, y, x))
  BY SlotCounts
<1>4. /\ Cardinality(From(c, y)') \in Nat
      /\ Cardinality(From(c, y)') <= Cardinality(From(c, y))
      /\ r \in From(c, y) => Cardinality(From(c, y)) = Cardinality(From(c, y)') + 1
  BY <1>1, <1>2, <1>3, OneApart
<1>5. /\ Cardinality(Between(c, y, x)') \in Nat
      /\ Cardinality(Between(c, y, x)') <= Cardinality(Between(c, y, x))
      /\ r \in Between(c, y, x) =>
              Cardinality(Between(c, y, x)) = Cardinality(Between(c, y, x)') + 1
  BY <1>1, <1>2, <1>3, OneApart
<1>6. From(c, y)' # {} => From(c, y) # {}
  BY <1>1, <1>2
<1> QED
  BY <1>4, <1>5, <1>6

\* A claim adds one slot.
LEMMA AskSlots ==
  ASSUME TypeOK, NEW c \in Clients, NEW r \in Profile[c].tasks, Ask(c, r),
         NEW y \in Int, NEW x \in Int
  PROVE  /\ Cardinality(From(c, y)') \in Nat /\ Cardinality(Between(c, y, x)') \in Nat
         /\ Cardinality(From(c, y)') <= Cardinality(From(c, y)) + 1
         /\ Cardinality(Between(c, y, x)') <= Cardinality(Between(c, y, x)) + 1
         /\ task'[r].left < y =>
              /\ From(c, y)' = From(c, y)
              /\ Between(c, y, x)' = Between(c, y, x)
         /\ task'[r].left > x => Between(c, y, x)' = Between(c, y, x)
<1>1. OthersKeep(r) /\ r \in Tasks /\ ~Sleeping(r) /\ task'[r].left \in Nat
  BY AskEffect, OwnerFacts
<1>2. /\ From(c, y)' \ {r} = From(c, y) \ {r}
      /\ Between(c, y, x)' \ {r} = Between(c, y, x) \ {r}
  BY <1>1, OtherSlots
<1>3. IsFiniteSet(From(c, y)) /\ IsFiniteSet(Between(c, y, x))
  BY SlotCounts
<1>4. r \notin From(c, y) /\ r \notin Between(c, y, x)
  BY <1>1 DEF From, Between
<1>5. task'[r].left < y => r \notin From(c, y)' /\ r \notin Between(c, y, x)'
  BY <1>1 DEF From, Between
<1>6. task'[r].left > x => r \notin Between(c, y, x)'
  BY <1>1 DEF Between
<1>7. /\ Cardinality(From(c, y)') \in Nat
      /\ Cardinality(From(c, y)') <= Cardinality(From(c, y)) + 1
  BY <1>2, <1>3, OneApart
<1>8. /\ Cardinality(Between(c, y, x)') \in Nat
      /\ Cardinality(Between(c, y, x)') <= Cardinality(Between(c, y, x)) + 1
  BY <1>2, <1>3, OneApart
<1>9. /\ r \notin From(c, y)' => From(c, y)' = From(c, y)
      /\ r \notin Between(c, y, x)' => Between(c, y, x)' = Between(c, y, x)
  BY <1>2, <1>4
<1> QED
  BY <1>5, <1>6, <1>7, <1>8, <1>9

-----------------------------------------------------------------------------
(* The schedule runs ahead of every slot, by an interval for each of them.  *)

\* From y ticks on, each slot has moved the schedule one interval further.
Claimed ==
  \A c \in Clients, y \in Int :
    From(c, y) # {} => Cardinality(From(c, y)) * Pace(c) + y <= ahead[c]

\* Slots are an interval apart, but for one burst of them.
Spaced ==
  \A c \in Clients, y \in Int, x \in Int :
    y <= x => Cardinality(Between(c, y, x)) * Pace(c) <= Most(c) * Pace(c) + x - y

\* Multiples.
LEMMA Products ==
  ASSUME NEW p \in Nat, NEW k \in Nat
  PROVE  /\ k * p \in Nat
         /\ (k + 1) * p = k * p + p
         /\ \A j \in Nat : j <= k => j * p <= k * p
<1>1. k * p \in Nat /\ (k + 1) * p = k * p + p
  OBVIOUS
<1>2. ASSUME NEW j \in Nat, j <= k PROVE j * p <= k * p
  BY <1>2
<1> QED
  BY <1>1, <1>2

\* A step that adds no slot and lowers no schedule keeps both.
LEMMA FewerKeep ==
  ASSUME TypeOK, TypeOK', Claimed, Spaced, NEW r \in Tasks, OthersKeep(r),
         \A c \in Clients : ahead'[c] >= ahead[c], ~Sleeping(r)'
  PROVE  Claimed' /\ Spaced'
<1>1. ASSUME NEW c \in Clients, NEW y \in Int, From(c, y)' # {}
      PROVE  Cardinality(From(c, y)') * Pace(c) + y <= ahead'[c]
  <2> DEFINE k == Cardinality(From(c, y))
             j == Cardinality(From(c, y)')
  <2>1. j \in Nat /\ j <= k /\ k \in Nat /\ From(c, y) # {}
    BY <1>1, FewerSlots, SlotCounts
  <2>2. k * Pace(c) + y <= ahead[c]
    BY <2>1 DEF Claimed
  <2>3. ahead[c] \in Nat /\ ahead'[c] \in Nat /\ ahead'[c] >= ahead[c] /\ Pace(c) \in Nat
    BY PaceTypes DEF TypeOK
  <2> HIDE DEF k, j
  <2>4. j * Pace(c) \in Nat /\ k * Pace(c) \in Nat /\ j * Pace(c) <= k * Pace(c)
    BY <2>1, <2>3, Products
  <2>5. j * Pace(c) + y <= ahead'[c]
    BY <2>2, <2>3, <2>4
  <2> QED
    BY <2>5 DEF j
<1>2. ASSUME NEW c \in Clients, NEW y \in Int, NEW x \in Int, y <= x
      PROVE  Cardinality(Between(c, y, x)') * Pace(c) <= Most(c) * Pace(c) + x - y
  <2> DEFINE k == Cardinality(Between(c, y, x))
             j == Cardinality(Between(c, y, x)')
  <2>1. j \in Nat /\ j <= k /\ k \in Nat
    BY FewerSlots, SlotCounts
  <2>2. k * Pace(c) <= Most(c) * Pace(c) + x - y
    BY <1>2 DEF Spaced
  <2>3. Pace(c) \in Nat /\ Most(c) \in Nat
    BY PaceTypes
  <2> HIDE DEF k, j
  <2>4. j * Pace(c) \in Nat /\ k * Pace(c) \in Nat /\ j * Pace(c) <= k * Pace(c)
        /\ Most(c) * Pace(c) \in Nat
    BY <2>1, <2>3, Products
  <2>5. j * Pace(c) <= Most(c) * Pace(c) + x - y
    BY <2>2, <2>4
  <2> QED
    BY <2>5 DEF j
<1>3. Claimed'
  BY <1>1 DEF Claimed, Pace, Throttle!Interval, Throttle!Nearest, Throttle!Later
<1>4. Spaced'
  BY <1>2 DEF Spaced, Pace, Throttle!Interval, Throttle!Nearest, Most, Throttle!Later
<1> QED
  BY <1>3, <1>4

\* A tick shifts both; the schedule falls by one at most.
LEMMA TickKeeps ==
  ASSUME TypeOK, Claimed, Spaced, Tick
  PROVE  Claimed' /\ Spaced'
<1>1. ASSUME NEW c \in Clients, NEW y \in Int, From(c, y)' # {}
      PROVE  Cardinality(From(c, y)') * Pace(c) + y <= ahead'[c]
  <2> DEFINE k == Cardinality(From(c, y + 1))
  <2>1. From(c, y)' = From(c, y + 1)
    BY TickSlots
  <2>2. y + 1 \in Int /\ k \in Nat
    <3>1. y + 1 \in Int
      OBVIOUS
    <3> QED
      BY <3>1, SlotCounts
  <2>3. k * Pace(c) + (y + 1) <= ahead[c]
    BY <1>1, <2>1, <2>2 DEF Claimed
  <2>4. TypeOK' /\ ahead'[c] >= ahead[c] - 1
    BY TickEffect
  <2>5. ahead[c] \in Nat /\ ahead'[c] \in Nat
    BY <2>4 DEF TypeOK
  <2> HIDE DEF k
  <2>6. k * Pace(c) \in Nat
    BY <2>2, PaceTypes, Products
  <2>7. k * Pace(c) + y <= ahead'[c]
    BY <2>3, <2>4, <2>5, <2>6
  <2> QED
    BY <2>1, <2>7 DEF k
<1>2. ASSUME NEW c \in Clients, NEW y \in Int, NEW x \in Int, y <= x
      PROVE  Cardinality(Between(c, y, x)') * Pace(c) <= Most(c) * Pace(c) + x - y
  <2> DEFINE k == Cardinality(Between(c, y + 1, x + 1))
  <2>1. Between(c, y, x)' = Between(c, y + 1, x + 1)
    BY TickSlots
  <2>2. y + 1 \in Int /\ x + 1 \in Int /\ y + 1 <= x + 1 /\ k \in Nat
    BY <1>2, SlotCounts
  <2>3. k * Pace(c) <= Most(c) * Pace(c) + (x + 1) - (y + 1)
    BY <2>2 DEF Spaced
  <2>4. Pace(c) \in Nat /\ Most(c) \in Nat
    BY PaceTypes
  <2> HIDE DEF k
  <2>5. k * Pace(c) \in Nat /\ Most(c) * Pace(c) \in Nat
    BY <2>2, <2>4, Products
  <2>6. k * Pace(c) <= Most(c) * Pace(c) + x - y
    BY <2>3, <2>5
  <2> QED
    BY <2>1, <2>6 DEF k
<1>3. Claimed'
  BY <1>1 DEF Claimed, Pace, Throttle!Interval, Throttle!Nearest, Throttle!Later
<1>4. Spaced'
  BY <1>2 DEF Spaced, Pace, Throttle!Interval, Throttle!Nearest, Most, Throttle!Later
<1> QED
  BY <1>3, <1>4

\* A claim takes a slot no later than the schedule and, but for the headroom,
\* no earlier, and moves the schedule on.
LEMMA AskKeeps ==
  ASSUME TypeOK, Claimed, Spaced, NEW d \in Clients, NEW r \in Profile[d].tasks, Ask(d, r)
  PROVE  Claimed' /\ Spaced'
<1> DEFINE slot == task'[r].left
           a    == ahead[d]
           p    == Pace(d)
<1>1. /\ OthersKeep(r)
      /\ ahead'[d] = a + p
      /\ \A c \in Clients \ {d} : ahead'[c] = ahead[c]
      /\ slot \in Nat /\ slot <= a /\ slot >= a - Headroom(d)
  BY AskEffect
<1>2. r \in Tasks /\ \A c \in Clients \ {d} : r \notin Profile[c].tasks
  BY OwnerFacts
<1>3. /\ a \in Nat /\ p \in Nat /\ Most(d) \in Nat \ {0}
      /\ Headroom(d) = p * Most(d) - p
  BY PaceTypes DEF TypeOK
<1>4. Most(d) * p \in Nat /\ Headroom(d) = Most(d) * p - p
  BY <1>3
<1> HIDE DEF slot, a, p
<1>5. ASSUME NEW c \in Clients, NEW y \in Int, From(c, y)' # {}
      PROVE  Cardinality(From(c, y)') * Pace(c) + y <= ahead'[c]
  <2>1. CASE c # d
    <3>1. From(c, y)' = From(c, y)
      BY <1>1, <1>2, <2>1, OtherSlots
    <3> QED
      BY <1>1, <1>5, <2>1, <3>1 DEF Claimed
  <2>2. CASE c = d
    <3> DEFINE k == Cardinality(From(c, y))
               j == Cardinality(From(c, y)')
    <3>1. /\ k \in Nat /\ j \in Nat /\ j <= k + 1
          /\ slot < y => From(c, y)' = From(c, y)
      BY <2>2, AskSlots, SlotCounts DEF slot
    <3>2. From(c, y) # {} => k * p + y <= a
      BY <2>2 DEF Claimed, p, a
    <3>3. From(c, y) = {} => k = 0
      BY FS_EmptySet
    <3> HIDE DEF k
    <3>4. CASE slot < y
      <4>1. j = k /\ From(c, y) # {}
        BY <1>5, <3>1, <3>4 DEF k
      <4> HIDE DEF j
      <4>2. k * p \in Nat
        BY <1>3, <3>1, Products
      <4>3. j * p + y <= a + p
        BY <1>3, <3>2, <4>1, <4>2
      <4> QED
        BY <1>1, <2>2, <4>3 DEF j, p
    <3>5. CASE slot >= y
      <4> HIDE DEF j
      <4>1. j * p <= k * p + p /\ j * p \in Nat /\ k * p \in Nat
        BY <1>3, <3>1, Products
      <4>2. k * p + y <= a
        <5>1. CASE From(c, y) = {}
          BY <1>1, <1>3, <3>3, <3>5, <5>1
        <5> QED
          BY <3>2, <5>1
      <4>3. j * p + y <= a + p
        BY <1>3, <4>1, <4>2
      <4> QED
        BY <1>1, <2>2, <4>3 DEF j, p
    <3> QED
      BY <1>1, <3>4, <3>5
  <2> QED
    BY <2>1, <2>2
<1>6. ASSUME NEW c \in Clients, NEW y \in Int, NEW x \in Int, y <= x
      PROVE  Cardinality(Between(c, y, x)') * Pace(c) <= Most(c) * Pace(c) + x - y
  <2>1. CASE Between(c, y, x)' = Between(c, y, x)
    BY <1>6, <2>1 DEF Spaced
  <2>2. CASE Between(c, y, x)' # Between(c, y, x)
    <3> DEFINE k == Cardinality(From(c, y))
               i == Cardinality(Between(c, y, x))
               j == Cardinality(Between(c, y, x)')
    <3>1. c = d
      BY <1>1, <1>2, <2>2, OtherSlots
    <3>2. /\ k \in Nat /\ i \in Nat /\ i <= k /\ j \in Nat /\ j <= i + 1
          /\ ~(slot < y) /\ ~(slot > x)
      BY <2>2, <3>1, AskSlots, SlotCounts DEF slot
    <3>3. From(c, y) # {} => k * p + y <= a
      BY <3>1 DEF Claimed, p, a
    <3>4. From(c, y) = {} => k = 0
      BY FS_EmptySet
    <3> HIDE DEF k, i, j
    <3>5. j * p <= k * p + p /\ j * p \in Nat /\ k * p \in Nat
      <4>1. k + 1 \in Nat /\ j <= k + 1
        BY <3>2
      <4> QED
        BY <1>3, <3>2, <4>1, Products
    <3>6. CASE From(c, y) = {}
      <4>1. k * p = 0
        BY <1>3, <3>4, <3>6
      <4>2. p <= Most(d) * p
        BY <1>3
      <4>3. j * p <= Most(d) * p + x - y
        BY <1>3, <1>4, <1>6, <3>5, <4>1, <4>2
      <4> QED
        BY <3>1, <4>3 DEF j, p
    <3>7. CASE From(c, y) # {}
      <4>1. j * p <= Most(d) * p + x - y
        BY <1>1, <1>3, <1>4, <3>2, <3>3, <3>5, <3>7
      <4> QED
        BY <3>1, <4>1 DEF j, p
    <3> QED
      BY <3>6, <3>7
  <2> QED
    BY <2>1, <2>2
<1>7. Claimed'
  BY <1>5 DEF Claimed, Pace, Throttle!Interval, Throttle!Nearest, Throttle!Later
<1>8. Spaced'
  BY <1>6 DEF Spaced, Pace, Throttle!Interval, Throttle!Nearest, Most, Throttle!Later
<1> QED
  BY <1>7, <1>8

-----------------------------------------------------------------------------
(* The limiter's bucket, mirrored at the pace of the client.                *)

\* v is what the network n would owe if every request of c cost one interval
\* and every tick repaid one: the limiter's own debt is no more than that, and
\* v and the requests still to come keep within what the schedule allows.
Mirror(c, n, v) ==
  /\ owed[n] * Pace(c) <= v * Server.window
  /\ v + Cardinality(From(c, -MaxLate)) * Pace(c) <= ahead[c] + MaxLate
  /\ \A x \in Nat :
       v + Cardinality(Between(c, -MaxLate, x)) * Pace(c) <= Most(c) * Pace(c) + x + MaxLate

Mirrored ==
  \A c \in Clients : Paced(c) => \A n \in Networks(c) : \E v \in Nat : Mirror(c, n, v)

\* No network is that of two clients.
Apart == \A c, d \in Clients : c # d => Networks(c) \cap Networks(d) = {}

PInv == TypeOK /\ Claimed /\ Spaced /\ Mirrored /\ PacedNeverRefused

\* What it means to be paced, and that no step changes it.
LEMMA PacedFacts ==
  ASSUME NEW c \in Clients
  PROVE  /\ Pace(c)' = Pace(c) /\ Most(c)' = Most(c)
         /\ Paced(c)' <=> Paced(c)
         /\ Paced(c) => /\ Pace(c) * Server.count >= Server.window
                        /\ Most(c) * Server.window + MaxLate * Server.count <= Full
                        /\ Pace(c) > 0
<1>1. Pace(c)' = Pace(c)
  BY DEF Pace, Throttle!Interval, Throttle!Nearest, Throttle!Later
<1>2. Most(c)' = Most(c)
  BY DEF Most, Throttle!Later
<1>3. Buckets!Later(Profile[c].burst, 1) = Most(c)
  BY DEF Buckets!Later, Throttle!Later, Most
<1>4. Paced(c) <=> /\ Pace(c) * Server.count >= Server.window
                   /\ Most(c) * Server.window + MaxLate * Server.count <= Full
  BY <1>3 DEF Paced, Pace, Full
<1>5. Paced(c)' <=> Paced(c)
  BY <1>1 DEF Paced, Pace, Buckets!Later
<1>6. ASSUME Pace(c) * Server.count >= Server.window PROVE Pace(c) > 0
  <2>1. Pace(c) # 0
    BY <1>6, ServerTypes
  <2> QED
    BY <2>1, PaceTypes
<1> QED
  BY <1>1, <1>2, <1>4, <1>5, <1>6

\* A due request of a paced client fits: with the debt it makes no more than a
\* burst at the client's pace, and what may bunch up by being late.
LEMMA MirrorFits ==
  ASSUME TypeOK, NEW c \in Clients, Paced(c), NEW n \in Networks(c), NEW v \in Nat,
         Mirror(c, n, v), NEW r \in Profile[c].tasks, Sleeping(r), task[r].left <= 0
  PROVE  owed[n] + Server.window <= Full
<1> DEFINE p == Pace(c)
           m == Most(c)
           W == Server.window
           C == Server.count
           L == MaxLate
           k == Cardinality(Between(c, -L, 0))
           d == owed[n]
<1>1. r \in Between(c, -L, 0)
  <2>1. r \in DOMAIN task
    BY DEF Sleeping
  <2>2. task[r].left >= -L
    BY <2>1, RequestFacts
  <2> QED
    BY <2>2 DEF From, Between
<1>2. k \in Nat /\ k >= 1
  <2>1. -L \in Int /\ 0 \in Int
    BY ServerTypes
  <2>2. IsFiniteSet(Between(c, -L, 0))
    BY <2>1, SlotCounts
  <2>3. k # 0
    BY <1>1, <2>2, FS_EmptySet
  <2>4. k \in Nat
    BY <2>2, FS_CardinalityType
  <2> HIDE DEF k
  <2> QED
    BY <2>3, <2>4
<1>3. v + k * p <= m * p + 0 + L /\ d * p <= v * W
  BY DEF Mirror
<1>4. /\ p \in Nat /\ p > 0 /\ m \in Nat /\ W \in Nat /\ C \in Nat /\ L \in Nat /\ Full \in Nat
      /\ p * C >= W
      /\ m * W + L * C <= Full
  BY PaceTypes, PacedFacts, ServerTypes
<1>5. n \in Peers /\ d \in Nat
  <2>1. n \in Peers
    BY DEF Peers
  <2> QED
    BY <1>4, <2>1 DEF TypeOK, Full
<1> HIDE DEF p, m, W, C, L, k, d
<1>6. v + p <= m * p + L
  <2>1. k * p >= p
    BY <1>2, <1>4
  <2> QED
    BY <1>2, <1>3, <1>4, <2>1
<1>7. (d + W) * p <= (v + p) * W
  <2>1. (d + W) * p = d * p + W * p /\ (v + p) * W = v * W + p * W /\ W * p = p * W
    BY <1>4, <1>5
  <2> QED
    BY <1>3, <1>4, <1>5, <2>1
<1>8. (v + p) * W <= (m * p + L) * W
  BY <1>4, <1>6
<1>9. (m * p + L) * W = (m * W) * p + L * W
  BY <1>4
<1>10. L * W <= L * (p * C) /\ L * (p * C) = (L * C) * p
  BY <1>4
<1>11. (m * W) * p + (L * C) * p = (m * W + L * C) * p
  BY <1>4
<1>12. (m * W + L * C) * p <= Full * p
  <2>1. m * W + L * C \in Nat
    BY <1>4
  <2> QED
    BY <1>4, <2>1
<1>13. (d + W) * p <= Full * p
  <2>1. /\ (d + W) * p \in Int /\ (v + p) * W \in Int /\ (m * p + L) * W \in Int
        /\ (m * W) * p \in Int /\ L * W \in Int /\ (L * C) * p \in Int
        /\ (m * W + L * C) * p \in Int /\ Full * p \in Int
    BY <1>4, <1>5
  <2> QED
    BY <1>7, <1>8, <1>9, <1>10, <1>11, <1>12, <2>1
<1>14. ASSUME d + W > Full PROVE FALSE
  <2>1. (d + W) * p >= (Full + 1) * p
    BY <1>4, <1>5, <1>14
  <2>2. (Full + 1) * p = Full * p + p
    BY <1>4
  <2> QED
    BY <1>4, <1>5, <1>13, <2>1, <2>2
<1>15. d + W <= Full
  BY <1>4, <1>5, <1>14
<1> QED
  BY <1>15 DEF d, W

\* The mirror still holds of a network with the same debt, when there are no
\* more slots and the schedule is no lower.
LEMMA FewerMirror ==
  ASSUME TypeOK, TypeOK', NEW c \in Clients, NEW n \in Networks(c), NEW v \in Nat,
         Mirror(c, n, v), NEW r \in Tasks, OthersKeep(r), ahead'[c] >= ahead[c],
         owed'[n] = owed[n], ~Sleeping(r)'
  PROVE  Mirror(c, n, v)'
<1> DEFINE p == Pace(c)
<1>1. /\ p \in Nat /\ MaxLate \in Nat /\ -MaxLate \in Int /\ Most(c) * p \in Nat
      /\ ahead[c] \in Nat /\ ahead'[c] \in Nat
  BY PaceTypes, ServerTypes DEF TypeOK
<1>2. v + Cardinality(From(c, -MaxLate)') * p <= ahead'[c] + MaxLate
  <2> DEFINE k == Cardinality(From(c, -MaxLate))
             j == Cardinality(From(c, -MaxLate)')
  <2>1. k \in Nat /\ j \in Nat /\ j <= k
    BY <1>1, FewerSlots, SlotCounts
  <2>2. v + k * p <= ahead[c] + MaxLate
    BY DEF Mirror
  <2> HIDE DEF k, j, p
  <2>3. j * p <= k * p /\ j * p \in Nat /\ k * p \in Nat
    BY <1>1, <2>1, Products
  <2>4. v + j * p <= ahead'[c] + MaxLate
    BY <1>1, <2>2, <2>3
  <2> QED
    BY <2>4 DEF j
<1>3. ASSUME NEW x \in Nat
      PROVE  v + Cardinality(Between(c, -MaxLate, x)') * p <= Most(c) * p + x + MaxLate
  <2> DEFINE k == Cardinality(Between(c, -MaxLate, x))
             j == Cardinality(Between(c, -MaxLate, x)')
  <2>1. x \in Int
    OBVIOUS
  <2>2. k \in Nat /\ j \in Nat /\ j <= k
    BY <1>1, <2>1, FewerSlots, SlotCounts
  <2>3. v + k * p <= Most(c) * p + x + MaxLate
    BY DEF Mirror
  <2> HIDE DEF k, j, p
  <2>4. j * p <= k * p /\ j * p \in Nat /\ k * p \in Nat
    BY <1>1, <2>2, Products
  <2>5. v + j * p <= Most(c) * p + x + MaxLate
    BY <1>1, <2>3, <2>4
  <2> QED
    BY <2>5 DEF j
<1>4. owed'[n] * p <= v * Server.window
  BY DEF Mirror
<1> QED
  BY <1>2, <1>3, <1>4, PacedFacts DEF Mirror

\* A claim adds a slot, and an interval to the schedule.
LEMMA AskMirror ==
  ASSUME TypeOK, NEW c \in Clients, NEW n \in Networks(c), NEW v \in Nat,
         Mirror(c, n, v), NEW r \in Profile[c].tasks, Ask(c, r)
  PROVE  Mirror(c, n, v)'
<1> DEFINE p == Pace(c)
           a == ahead[c]
           slot == task'[r].left
           k == Cardinality(From(c, -MaxLate))
<1>1. /\ p \in Nat /\ MaxLate \in Nat /\ -MaxLate \in Int /\ Most(c) * p \in Nat
      /\ a \in Nat /\ Headroom(c) = Most(c) * p - p
  <2>1. Most(c) \in Nat /\ p \in Nat /\ Headroom(c) = p * Most(c) - p
    BY PaceTypes
  <2> QED
    BY <2>1, ServerTypes DEF TypeOK
<1>2. /\ ahead'[c] = a + p
      /\ slot \in Nat /\ slot >= a - Headroom(c)
      /\ owed' = owed
  BY AskEffect
<1>3. k \in Nat
  BY <1>1, SlotCounts
<1>4. v + k * p <= a + MaxLate
  BY DEF Mirror
<1>5. k * p \in Nat
  BY <1>1, <1>3, Products
<1>6. v + Cardinality(From(c, -MaxLate)') * p <= ahead'[c] + MaxLate
  <2> DEFINE j == Cardinality(From(c, -MaxLate)')
  <2>1. j \in Nat /\ j <= k + 1
    BY <1>1, AskSlots
  <2> HIDE DEF k, j, p, a
  <2>2. j * p <= k * p + p /\ j * p \in Nat
    <3>1. k + 1 \in Nat
      BY <1>3
    <3> QED
      BY <1>1, <1>3, <2>1, <3>1, Products
  <2>3. v + j * p <= ahead'[c] + MaxLate
    BY <1>1, <1>2, <1>4, <1>5, <2>2
  <2> QED
    BY <2>3 DEF j
<1>7. ASSUME NEW x \in Nat
      PROVE  v + Cardinality(Between(c, -MaxLate, x)') * p <= Most(c) * p + x + MaxLate
  <2> DEFINE i == Cardinality(Between(c, -MaxLate, x))
             j == Cardinality(Between(c, -MaxLate, x)')
  <2>1. x \in Int
    OBVIOUS
  <2>2. /\ i \in Nat /\ i <= k /\ j \in Nat /\ j <= i + 1
        /\ slot > x => Between(c, -MaxLate, x)' = Between(c, -MaxLate, x)
    BY <1>1, <2>1, AskSlots, SlotCounts
  <2>3. CASE slot > x
    <3>1. v + i * p <= Most(c) * p + x + MaxLate
      BY DEF Mirror
    <3> QED
      BY <2>2, <2>3, <3>1
  <2>4. CASE slot <= x
    <3> HIDE DEF i, j, k, p, a, slot
    <3>1. j * p <= k * p + p /\ j * p \in Nat
      <4>1. k + 1 \in Nat /\ j <= k + 1
        BY <1>3, <2>2
      <4> QED
        BY <1>1, <1>3, <2>2, <4>1, Products
    <3>2. a <= x + Headroom(c)
      BY <1>1, <1>2, <2>4
    <3>3. v + j * p <= Most(c) * p + x + MaxLate
      BY <1>1, <1>4, <1>5, <3>1, <3>2
    <3> QED
      BY <3>3 DEF j
  <2> QED
    BY <1>2, <2>1, <2>3, <2>4
<1>8. owed'[n] * p <= v * Server.window
  BY <1>2 DEF Mirror
<1> QED
  BY <1>6, <1>7, <1>8, PacedFacts DEF Mirror

\* A tick repays one, unless nothing is left to repay.  Then there are only the
\* slots, spaced as they are and not later than may be.
LEMMA TickMirror ==
  ASSUME TypeOK, Claimed', Spaced', NEW c \in Clients, Paced(c), NEW n \in Networks(c),
         NEW v \in Nat, Mirror(c, n, v), Tick
  PROVE  \E w \in Nat : Mirror(c, n, w)'
<1> DEFINE p == Pace(c)
           L == MaxLate
           W == Server.window
           C == Server.count
           d == owed[n]
<1>1. /\ p \in Nat /\ p > 0 /\ L \in Nat /\ -L \in Int /\ Most(c) * p \in Nat
      /\ W \in Nat \ {0} /\ C \in Nat /\ Full \in Nat
      /\ p * C >= W
  BY PaceTypes, PacedFacts, ServerTypes
<1>2. n \in Peers
  BY DEF Peers
<1>3. TypeOK' /\ ahead'[c] >= ahead[c] - 1 /\ owed'[n] = IF d > C THEN d - C ELSE 0
  BY <1>2, TickEffect
<1>4. d \in Nat /\ ahead[c] \in Nat /\ ahead'[c] \in Nat
  BY <1>1, <1>2, <1>3 DEF TypeOK, Full
<1>5. d * p <= v * W
  BY DEF Mirror
<1>6. CASE v = 0
  <2>1. owed'[n] = 0
    <3> HIDE DEF p, W, C, d
    <3>1. d = 0
      BY <1>1, <1>4, <1>5, <1>6
    <3> QED
      BY <1>1, <1>3, <3>1
  <2>2. owed'[n] * p <= 0 * W
    BY <1>1, <2>1
  <2>3. 0 + Cardinality(From(c, -L)') * p <= ahead'[c] + L
    <3> DEFINE k == Cardinality(From(c, -L)')
    <3>1. k \in Nat
      BY <1>1, TickSlots, SlotCounts
    <3>2. CASE From(c, -L)' = {}
      <4>1. k = 0
        BY <3>2, FS_EmptySet
      <4> QED
        BY <1>1, <1>4, <4>1
    <3>3. CASE From(c, -L)' # {}
      <4>1. k * p + (-L) <= ahead'[c]
        BY <1>1, <3>3, PacedFacts DEF Claimed
      <4> HIDE DEF k, p
      <4>2. k * p \in Nat
        BY <1>1, <3>1, Products
      <4>3. 0 + k * p <= ahead'[c] + L
        BY <1>1, <1>4, <4>1, <4>2
      <4> QED
        BY <4>3 DEF k, p
    <3> QED
      BY <3>2, <3>3
  <2>4. ASSUME NEW x \in Nat
        PROVE  0 + Cardinality(Between(c, -L, x)') * p <= Most(c) * p + x + L
    <3> DEFINE k == Cardinality(Between(c, -L, x)')
    <3>1. x \in Int /\ x + 1 \in Int /\ -L <= x
      BY <1>1
    <3>2. k * p <= Most(c) * p + x - (-L)
      BY <1>1, <3>1, PacedFacts DEF Spaced
    <3>3. Between(c, -L, x)' = Between(c, -L, x + 1)
      BY <1>1, <3>1, TickSlots
    <3>4. k \in Nat
      BY <1>1, <3>1, <3>3, SlotCounts
    <3> HIDE DEF k, p
    <3>5. k * p \in Nat
      BY <1>1, <3>4, Products
    <3>6. 0 + k * p <= Most(c) * p + x + L
      BY <1>1, <3>2, <3>5
    <3> QED
      BY <3>6 DEF k, p
  <2>5. Mirror(c, n, 0)'
    BY <2>2, <2>3, <2>4, PacedFacts DEF Mirror
  <2> QED
    BY <2>5
<1>7. CASE v > 0
  <2> DEFINE w == v - 1
  <2>1. w \in Nat
    BY <1>7
  <2>2. owed'[n] * p <= w * W
    <3> HIDE DEF p, W, C, d
    <3>1. w * W = v * W - W /\ w * W \in Nat
      BY <1>1, <2>1
    <3> HIDE DEF w
    <3>2. CASE d > C
      <4>1. (d - C) * p = d * p - p * C
        BY <1>1, <1>4
      <4>2. d * p \in Nat /\ p * C \in Nat /\ v * W \in Nat
        BY <1>1, <1>4
      <4> QED
        BY <1>1, <1>3, <1>5, <3>1, <3>2, <4>1, <4>2
    <3>3. CASE ~(d > C)
      <4>1. owed'[n] = 0 /\ 0 * p = 0
        BY <1>1, <1>3, <3>3
      <4> QED
        BY <3>1, <4>1
    <3> QED
      BY <3>2, <3>3
  <2>3. w + Cardinality(From(c, -L)') * p <= ahead'[c] + L
    <3> DEFINE k == Cardinality(From(c, -L))
    <3>1. From(c, -L)' = From(c, -L) /\ k \in Nat
      BY <1>1, TickSlots, SlotCounts
    <3>2. v + k * p <= ahead[c] + L
      BY DEF Mirror
    <3> HIDE DEF k, p
    <3>3. k * p \in Nat
      BY <1>1, <3>1, Products
    <3>4. w + k * p <= ahead'[c] + L
      BY <1>1, <1>3, <1>4, <3>2, <3>3
    <3> QED
      BY <3>1, <3>4 DEF k, p
  <2>4. ASSUME NEW x \in Nat
        PROVE  w + Cardinality(Between(c, -L, x)') * p <= Most(c) * p + x + L
    <3> DEFINE k == Cardinality(Between(c, -L, x + 1))
    <3>1. x \in Int /\ x + 1 \in Int /\ x + 1 \in Nat
      OBVIOUS
    <3>2. Between(c, -L, x)' = Between(c, -L, x + 1) /\ k \in Nat
      BY <1>1, <3>1, TickSlots, SlotCounts
    <3>3. v + k * p <= Most(c) * p + (x + 1) + L
      BY <3>1 DEF Mirror
    <3> HIDE DEF k, p
    <3>4. k * p \in Nat
      BY <1>1, <3>2, Products
    <3>5. w + k * p <= Most(c) * p + x + L
      BY <1>1, <3>3, <3>4
    <3> QED
      BY <3>2, <3>5 DEF k, p
  <2> HIDE DEF w
  <2>5. Mirror(c, n, w)'
    BY <2>2, <2>3, <2>4, PacedFacts DEF Mirror
  <2> QED
    BY <2>1, <2>5
<1> QED
  BY <1>6, <1>7

\* A request that is metered moves from the slots into the mirrored debt.
LEMMA ReachMirror ==
  ASSUME TypeOK, NEW r \in Tasks, NEW a \in Profile[Owner(r)].addresses, NEW v \in Nat,
         Mirror(Owner(r), network_key(a), v), Reach(r, a)
  PROVE  \E w \in Nat : Mirror(Owner(r), network_key(a), w)'
<1> DEFINE c == Owner(r)
           n == network_key(a)
           p == Pace(c)
           W == Server.window
           d == owed[n]
           w == v + p
<1>1. c \in Clients /\ r \in Profile[c].tasks
  BY OwnerFacts
<1>2. /\ OthersKeep(r)
      /\ ~Sleeping(r)'
      /\ ahead' = ahead
      /\ n \in Peers
      /\ owed'[n] = Buckets!Owed(d, 1)
      /\ Sleeping(r) /\ task[r].left <= 0
  BY ReachEffect
<1>3. /\ p \in Nat /\ W \in Nat /\ Full \in Nat /\ w \in Nat /\ ahead[c] \in Nat
      /\ MaxLate \in Nat /\ -MaxLate \in Int /\ Most(c) * p \in Nat
  BY <1>1, PaceTypes, ServerTypes DEF TypeOK
<1>4. /\ d \in Nat
      /\ owed'[n] = IF d + W <= Full THEN d + W ELSE d
  <2>1. d \in Nat /\ d <= Full
    BY <1>2, <1>3 DEF TypeOK, Full
  <2> QED
    BY <1>2, <2>1, MeterFacts
<1>5. d * p <= v * W
  BY DEF Mirror
<1>6. owed'[n] * p <= w * W
  <2> HIDE DEF p, W, d, n
  <2>1. (d + W) * p = d * p + p * W /\ w * W = v * W + p * W
    BY <1>3, <1>4
  <2>2. d * p \in Nat /\ p * W \in Nat /\ v * W \in Nat
    BY <1>3, <1>4
  <2> HIDE DEF w
  <2> QED
    BY <1>4, <1>5, <2>1, <2>2
<1>7. r \in From(c, -MaxLate) /\ \A x \in Nat : r \in Between(c, -MaxLate, x)
  <2>1. r \in DOMAIN task
    BY <1>2 DEF Sleeping
  <2>2. task[r].left >= -MaxLate /\ task[r].left \in Int
    BY <1>2, <2>1, RequestFacts
  <2> QED
    BY <1>1, <1>2, <2>2 DEF From, Between
<1>8. w + Cardinality(From(c, -MaxLate)') * p <= ahead'[c] + MaxLate
  <2> DEFINE k == Cardinality(From(c, -MaxLate))
             j == Cardinality(From(c, -MaxLate)')
  <2>1. j \in Nat /\ k = j + 1
    BY <1>1, <1>2, <1>3, <1>7, FewerSlots
  <2>2. v + k * p <= ahead[c] + MaxLate
    BY DEF Mirror
  <2> HIDE DEF k, j, p
  <2>3. k * p = j * p + p /\ j * p \in Nat
    BY <1>3, <2>1, Products
  <2>4. w + j * p <= ahead'[c] + MaxLate
    BY <1>2, <1>3, <2>2, <2>3
  <2> QED
    BY <2>4 DEF j, p
<1>9. ASSUME NEW x \in Nat
      PROVE  w + Cardinality(Between(c, -MaxLate, x)') * p <= Most(c) * p + x + MaxLate
  <2> DEFINE k == Cardinality(Between(c, -MaxLate, x))
             j == Cardinality(Between(c, -MaxLate, x)')
  <2>1. x \in Int
    OBVIOUS
  <2>2. j \in Nat /\ k = j + 1
    BY <1>1, <1>2, <1>3, <1>7, <2>1, FewerSlots
  <2>3. v + k * p <= Most(c) * p + x + MaxLate
    BY DEF Mirror
  <2> HIDE DEF k, j, p
  <2>4. k * p = j * p + p /\ j * p \in Nat
    BY <1>3, <2>2, Products
  <2>5. w + j * p <= Most(c) * p + x + MaxLate
    BY <1>3, <2>3, <2>4
  <2> QED
    BY <2>5 DEF j, p
<1> HIDE DEF w
<1>10. Mirror(c, n, w)'
  BY <1>1, <1>6, <1>8, <1>9, PacedFacts DEF Mirror
<1> QED
  BY <1>3, <1>10

\* What others do on other networks leaves the mirror as it is.
LEMMA OtherMirror ==
  ASSUME TypeOK, NEW c \in Clients, NEW n \in Networks(c), NEW v \in Nat,
         Mirror(c, n, v), NEW r \in Tasks, OthersKeep(r), r \notin Profile[c].tasks,
         ahead'[c] = ahead[c], owed'[n] = owed[n]
  PROVE  Mirror(c, n, v)'
<1>1. -MaxLate \in Int /\ \A x \in Nat : x \in Int
  BY ServerTypes
<1>2. From(c, -MaxLate)' = From(c, -MaxLate)
  BY <1>1, OtherSlots
<1>3. \A x \in Nat : Between(c, -MaxLate, x)' = Between(c, -MaxLate, x)
  BY <1>1, OtherSlots
<1> QED
  BY <1>2, <1>3, PacedFacts DEF Mirror

\* The answers to other requests stay.
LEMMA OtherAnswers ==
  ASSUME NEW r \in Tasks, OthersKeep(r), PacedNeverRefused,
         NEW c \in Clients, NEW q \in Profile[c].tasks, q # r, Paced(c), Answered(q)'
  PROVE  task'[q].allowed
<1>1. q \in Tasks \ {r}
  BY OwnerFacts
<1>2. Answered(q) /\ task'[q] = task[q]
  BY <1>1 DEF OthersKeep, Answered
<1> QED
  BY <1>2 DEF PacedNeverRefused

-----------------------------------------------------------------------------
(* The invariant of pacing, one action at a time.                           *)

\* Nobody has asked for anything yet.
LEMMA InitPInv == Init => PInv
<1> SUFFICES ASSUME Init PROVE PInv
  OBVIOUS
<1>1. /\ ahead = [c \in Clients |-> 0]
      /\ owed = [n \in Peers |-> 0]
      /\ task = << >>
      /\ heard = [c \in Clients |-> TRUE]
  BY DEF Init
<1>2. DOMAIN task = {} /\ task \in [DOMAIN task -> Requests]
  BY <1>1
<1>3. TypeOK
  <2>1. 0 \in 0..(Server.burst * Server.window)
    BY ServerTypes DEF Full
  <2> QED
    BY <1>1, <1>2, <2>1 DEF TypeOK
<1>4. \A c \in Clients, y \in Int : From(c, y) = {}
  BY <1>2 DEF From, Sleeping
<1>5. \A c \in Clients, y \in Int, x \in Int : Between(c, y, x) = {}
  BY <1>4 DEF Between
<1>6. Claimed
  BY <1>4 DEF Claimed
<1>7. Cardinality({}) = 0
  BY FS_EmptySet
<1>8. \A c \in Clients : /\ Pace(c) \in Nat /\ Most(c) * Pace(c) \in Nat
                         /\ 0 * Pace(c) = 0
  <2>1. ASSUME NEW c \in Clients
        PROVE  Pace(c) \in Nat /\ Most(c) \in Nat
    BY PaceTypes
  <2>2. ASSUME NEW c \in Clients
        PROVE  Most(c) * Pace(c) \in Nat /\ 0 * Pace(c) = 0
    BY <2>1
  <2> QED
    BY <2>1, <2>2
<1>9. Spaced
  <2> SUFFICES ASSUME NEW c \in Clients, NEW y \in Int, NEW x \in Int, y <= x
               PROVE  Cardinality(Between(c, y, x)) * Pace(c) <= Most(c) * Pace(c) + x - y
    BY DEF Spaced
  <2>1. Cardinality(Between(c, y, x)) * Pace(c) = 0
    BY <1>5, <1>7, <1>8
  <2> QED
    BY <1>8, <2>1
<1>10. ASSUME NEW c \in Clients, NEW n \in Networks(c)
       PROVE  Mirror(c, n, 0)
  <2>1. n \in Peers
    BY DEF Peers
  <2>2. -MaxLate \in Int /\ MaxLate \in Nat /\ Server.window \in Nat
    BY ServerTypes
  <2>3. owed[n] * Pace(c) <= 0 * Server.window
    BY <1>1, <1>8, <2>1, <2>2
  <2>4. 0 + Cardinality(From(c, -MaxLate)) * Pace(c) <= ahead[c] + MaxLate
    <3>1. From(c, -MaxLate) = {}
      BY <1>4, <2>2
    <3>2. Cardinality(From(c, -MaxLate)) * Pace(c) = 0
      BY <1>7, <1>8, <3>1
    <3>3. ahead[c] = 0
      BY <1>1
    <3> QED
      BY <2>2, <3>2, <3>3
  <2>5. ASSUME NEW x \in Nat
        PROVE  0 + Cardinality(Between(c, -MaxLate, x)) * Pace(c)
                 <= Most(c) * Pace(c) + x + MaxLate
    <3>1. x \in Int
      OBVIOUS
    <3>2. Between(c, -MaxLate, x) = {}
      BY <1>5, <2>2, <3>1
    <3>3. Cardinality(Between(c, -MaxLate, x)) * Pace(c) = 0
      BY <1>7, <1>8, <3>2
    <3> QED
      BY <1>8, <2>2, <3>3
  <2> QED
    BY <2>3, <2>4, <2>5 DEF Mirror
<1>11. Mirrored
  BY <1>10 DEF Mirrored
<1>12. PacedNeverRefused
  BY <1>2 DEF PacedNeverRefused, Answered
<1> QED
  BY <1>3, <1>6, <1>9, <1>11, <1>12 DEF PInv

\* Time passes.
LEMMA TickPInv == PInv /\ Tick => PInv'
<1> SUFFICES ASSUME PInv, Tick PROVE PInv'
  OBVIOUS
<1> USE DEF PInv
<1>1. TypeOK'
  BY TickEffect
<1>2. Claimed' /\ Spaced'
  BY TickKeeps
<1>3. Mirrored'
  <2> SUFFICES ASSUME NEW c \in Clients, Paced(c)', NEW n \in Networks(c)
               PROVE  \E w \in Nat : Mirror(c, n, w)'
    BY DEF Mirrored, Networks
  <2>1. Paced(c)
    BY PacedFacts
  <2>2. PICK v \in Nat : Mirror(c, n, v)
    BY <2>1 DEF Mirrored
  <2> QED
    BY <1>2, <2>1, <2>2, TickMirror
<1>4. PacedNeverRefused'
  <2> SUFFICES ASSUME NEW c \in Clients, Paced(c)', NEW r \in Profile[c].tasks, Answered(r)'
               PROVE  task'[r].allowed
    BY DEF PacedNeverRefused
  <2>1. Paced(c) /\ r \in Tasks
    BY PacedFacts, OwnerFacts
  <2>2. Answered(r) /\ task'[r] = task[r]
    BY <2>1, TickEffect
  <2> QED
    BY <2>1, <2>2 DEF PacedNeverRefused
<1> QED
  BY <1>1, <1>2, <1>3, <1>4

\* A client claims a slot.
LEMMA AskPInv ==
  ASSUME PInv, NEW d \in Clients, NEW r \in Profile[d].tasks, Ask(d, r)
  PROVE  PInv'
<1> USE DEF PInv
<1>1. /\ TypeOK'
      /\ owed' = owed
      /\ \A c \in Clients \ {d} : ahead'[c] = ahead[c]
      /\ OthersKeep(r)
      /\ ~Answered(r)'
  BY AskEffect
<1>2. r \in Tasks /\ \A c \in Clients \ {d} : r \notin Profile[c].tasks
  BY OwnerFacts
<1>3. Claimed' /\ Spaced'
  BY AskKeeps
<1>4. Mirrored'
  <2> SUFFICES ASSUME NEW c \in Clients, Paced(c)', NEW n \in Networks(c)
               PROVE  \E w \in Nat : Mirror(c, n, w)'
    BY DEF Mirrored, Networks
  <2>1. Paced(c)
    BY PacedFacts
  <2>2. PICK v \in Nat : Mirror(c, n, v)
    BY <2>1 DEF Mirrored
  <2>3. CASE c = d
    BY <2>2, <2>3, AskMirror
  <2>4. CASE c # d
    BY <1>1, <1>2, <2>2, <2>4, OtherMirror
  <2> QED
    BY <2>3, <2>4
<1>5. PacedNeverRefused'
  <2> SUFFICES ASSUME NEW c \in Clients, Paced(c)', NEW q \in Profile[c].tasks, Answered(q)'
               PROVE  task'[q].allowed
    BY DEF PacedNeverRefused
  <2> QED
    BY <1>1, <1>2, PacedFacts, OtherAnswers
<1> QED
  BY <1>1, <1>3, <1>4, <1>5

\* A request reaches the limiter.
LEMMA ReachPInv ==
  ASSUME Apart, PInv, NEW r \in Tasks, NEW a \in Profile[Owner(r)].addresses, Reach(r, a)
  PROVE  PInv'
<1> DEFINE o == Owner(r)
           m == network_key(a)
<1> USE DEF PInv
<1>1. /\ TypeOK'
      /\ ahead' = ahead
      /\ m \in Networks(o)
      /\ \A n \in Peers \ {m} : owed'[n] = owed[n]
      /\ OthersKeep(r)
      /\ Sleeping(r) /\ task[r].left <= 0
      /\ ~Sleeping(r)'
      /\ task'[r].allowed <=> owed[m] + Server.window <= Full
  BY ReachEffect
<1>2. o \in Clients /\ r \in Profile[o].tasks
      /\ \A c \in Clients \ {o} : r \notin Profile[c].tasks
  BY OwnerFacts
<1> HIDE DEF m, o
<1>3. \A c \in Clients : ahead'[c] >= ahead[c]
  BY <1>1 DEF TypeOK
<1>4. Claimed' /\ Spaced'
  BY <1>1, <1>3, FewerKeep
<1>5. Mirrored'
  <2> SUFFICES ASSUME NEW c \in Clients, Paced(c)', NEW n \in Networks(c)
               PROVE  \E w \in Nat : Mirror(c, n, w)'
    BY DEF Mirrored, Networks
  <2>1. Paced(c)
    BY PacedFacts
  <2>2. n \in Peers
    BY DEF Peers
  <2>3. PICK v \in Nat : Mirror(c, n, v)
    BY <2>1 DEF Mirrored
  <2>4. CASE c = o /\ n = m
    BY <2>3, <2>4, ReachMirror DEF o, m
  <2>5. CASE c = o /\ n # m
    BY <1>1, <1>3, <2>2, <2>3, <2>5, FewerMirror
  <2>6. CASE c # o
    <3>1. n # m
      BY <1>1, <1>2, <2>6 DEF Apart
    <3> QED
      BY <1>1, <1>2, <2>2, <2>3, <2>6, <3>1, OtherMirror
  <2> QED
    BY <2>4, <2>5, <2>6
<1>6. PacedNeverRefused'
  <2> SUFFICES ASSUME NEW c \in Clients, Paced(c)', NEW q \in Profile[c].tasks, Answered(q)'
               PROVE  task'[q].allowed
    BY DEF PacedNeverRefused
  <2>1. Paced(c)
    BY PacedFacts
  <2>2. CASE q = r
    <3>1. c = o
      BY <1>2, <2>2
    <3>2. PICK v \in Nat : Mirror(c, m, v)
      BY <1>1, <2>1, <3>1 DEF Mirrored
    <3>3. owed[m] + Server.window <= Full
      BY <1>1, <1>2, <2>1, <3>1, <3>2, MirrorFits
    <3> QED
      BY <1>1, <2>2, <3>3
  <2>3. CASE q # r
    BY <1>1, <2>1, <2>3, OtherAnswers
  <2> QED
    BY <2>2, <2>3
<1> QED
  BY <1>1, <1>4, <1>5, <1>6

\* A response is heard, or a request is given up.
LEMMA EndPInv ==
  ASSUME PInv, NEW r \in Tasks, Hear(r) \/ Cancel(r)
  PROVE  PInv'
<1> USE DEF PInv
<1>1. /\ TypeOK'
      /\ owed' = owed
      /\ OthersKeep(r)
      /\ ~Sleeping(r)' /\ ~Answered(r)'
      /\ \A c \in Clients : ahead'[c] >= ahead[c]
  <2>1. CASE Hear(r)
    BY <2>1, HearEffect
  <2>2. CASE Cancel(r)
    <3>1. /\ TypeOK'
          /\ owed' = owed /\ ahead' = ahead
          /\ OthersKeep(r)
          /\ ~Sleeping(r)' /\ ~Answered(r)'
      BY <2>2, CancelEffect
    <3>2. \A c \in Clients : ahead'[c] >= ahead[c]
      BY <3>1 DEF TypeOK
    <3> QED
      BY <3>1, <3>2
  <2> QED
    BY <2>1, <2>2
<1>2. Claimed' /\ Spaced'
  BY <1>1, FewerKeep
<1>3. Mirrored'
  <2> SUFFICES ASSUME NEW c \in Clients, Paced(c)', NEW n \in Networks(c)
               PROVE  \E w \in Nat : Mirror(c, n, w)'
    BY DEF Mirrored, Networks
  <2>1. Paced(c)
    BY PacedFacts
  <2>2. PICK v \in Nat : Mirror(c, n, v)
    BY <2>1 DEF Mirrored
  <2> QED
    BY <1>1, <2>2, FewerMirror
<1>4. PacedNeverRefused'
  <2> SUFFICES ASSUME NEW c \in Clients, Paced(c)', NEW q \in Profile[c].tasks, Answered(q)'
               PROVE  task'[q].allowed
    BY DEF PacedNeverRefused
  <2> QED
    BY <1>1, PacedFacts, OtherAnswers
<1> QED
  BY <1>1, <1>2, <1>3, <1>4

\* Nothing happens, or debts are forgotten: the mirror still covers them.
LEMMA StutterPInv ==
  ASSUME PInv, UNCHANGED vars \/ \E n \in Peers : Forget(n)
  PROVE  PInv'
<1> USE DEF PInv
<1>1. /\ ahead' = ahead /\ task' = task
      /\ TypeOK'
      /\ \A n \in Peers : owed[n] \in Nat /\ owed'[n] \in Nat /\ owed'[n] <= owed[n]
  <2>1. CASE UNCHANGED vars
    <3>1. ahead' = ahead /\ owed' = owed /\ task' = task /\ heard' = heard
      BY <2>1 DEF vars
    <3>2. \A n \in Peers : owed[n] \in Nat
      BY ServerTypes DEF TypeOK, Full
    <3> QED
      BY <3>1, <3>2 DEF TypeOK
  <2>2. CASE \E n \in Peers : Forget(n)
    BY <2>2, ForgetEffect
  <2> QED
    BY <2>1, <2>2
<1>2. /\ \A c \in Clients, y \in Int : From(c, y)' = From(c, y)
      /\ \A c \in Clients, y \in Int, x \in Int : Between(c, y, x)' = Between(c, y, x)
  BY <1>1 DEF From, Between, Sleeping
<1>4. Claimed'
  BY <1>1, <1>2, PacedFacts DEF Claimed
<1>5. Spaced'
  BY <1>2, PacedFacts DEF Spaced
<1>6. -MaxLate \in Int /\ \A x \in Nat : x \in Int
  BY ServerTypes
<1>7. ASSUME NEW c \in Clients, NEW n \in Networks(c), NEW v \in Nat, Mirror(c, n, v)
      PROVE  Mirror(c, n, v)'
  <2>1. n \in Peers /\ Pace(c) \in Nat /\ Server.window \in Nat
    BY PaceTypes, ServerTypes DEF Peers
  <2>2. owed'[n] * Pace(c) <= owed[n] * Pace(c)
    BY <1>1, <2>1
  <2>3. /\ owed[n] * Pace(c) <= v * Server.window
        /\ owed[n] * Pace(c) \in Nat /\ owed'[n] * Pace(c) \in Nat /\ v * Server.window \in Nat
    BY <1>1, <1>7, <2>1 DEF Mirror
  <2>4. owed'[n] * Pace(c) <= v * Server.window
    <3> DEFINE a == owed'[n] * Pace(c)
               b == owed[n] * Pace(c)
               d == v * Server.window
    <3>1. a <= b /\ b <= d /\ a \in Nat /\ b \in Nat /\ d \in Nat
      BY <2>2, <2>3
    <3> HIDE DEF a, b, d
    <3>2. a <= d
      BY <3>1
    <3> QED
      BY <3>2 DEF a, d
  <2> QED
    BY <1>1, <1>2, <1>6, <1>7, <2>4, PacedFacts DEF Mirror
<1>8. Mirrored'
  BY <1>7, PacedFacts DEF Mirrored, Networks
<1>9. PacedNeverRefused'
  BY <1>1, PacedFacts DEF PacedNeverRefused, Answered
<1> QED
  BY <1>1, <1>4, <1>5, <1>8, <1>9

\* Every step keeps the invariant of pacing.
LEMMA NextPInv == Apart /\ PInv /\ [Next]_vars => PInv'
<1> SUFFICES ASSUME Apart, PInv, [Next]_vars PROVE PInv'
  OBVIOUS
<1>1. CASE Tick
  BY <1>1, TickPInv
<1>2. ASSUME NEW c \in Clients, NEW r \in Profile[c].tasks, Ask(c, r)
      PROVE  PInv'
  BY <1>2, AskPInv
<1>3. ASSUME NEW r \in Tasks, NEW a \in Profile[Owner(r)].addresses, Reach(r, a)
      PROVE  PInv'
  BY <1>3, ReachPInv
<1>4. ASSUME NEW r \in Tasks, Hear(r) \/ Cancel(r)
      PROVE  PInv'
  BY <1>4, EndPInv
<1>5. CASE UNCHANGED vars \/ \E n \in Peers : Forget(n)
  BY <1>5, StutterPInv
<1> QED
  BY <1>1, <1>2, <1>3, <1>4, <1>5, NextCases

-----------------------------------------------------------------------------
(* Types.                                                                   *)

\* No request yet, nothing owed.
LEMMA InitTypes == Init => TypeOK
  BY InitPInv DEF PInv

\* Every step keeps the state well typed.
LEMMA NextTypes == TypeOK /\ [Next]_vars => TypeOK'
<1> SUFFICES ASSUME TypeOK, [Next]_vars PROVE TypeOK'
  OBVIOUS
<1>1. CASE Tick
  BY <1>1, TickEffect
<1>2. ASSUME NEW c \in Clients, NEW r \in Profile[c].tasks, Ask(c, r)
      PROVE  TypeOK'
  BY <1>2, AskEffect
<1>3. ASSUME NEW r \in Tasks, NEW a \in Profile[Owner(r)].addresses, Reach(r, a)
      PROVE  TypeOK'
  BY <1>3, ReachEffect
<1>4. ASSUME NEW r \in Tasks, Hear(r) PROVE TypeOK'
  BY <1>4, HearEffect
<1>5. ASSUME NEW r \in Tasks, Cancel(r) PROVE TypeOK'
  BY <1>5, CancelEffect
<1>6. ASSUME NEW n \in Peers, Forget(n) PROVE TypeOK'
  BY <1>6, ForgetEffect
<1>7. CASE UNCHANGED vars
  BY <1>7 DEF TypeOK, vars
<1> QED
  BY <1>1, <1>2, <1>3, <1>4, <1>5, <1>6, <1>7, NextCases

-----------------------------------------------------------------------------
(* Who is metered with whom.                                                *)

\* No two clients come from one network.
NoneShared ==
  \A c, d \in Clients : c # d =>
    \A a \in Profile[c].addresses, b \in Profile[d].addresses : ~SameNetwork(a, b)

\* The same of the limiter's keys.
LEMMA NoneSharedFacts == NoneShared => Apart
<1> SUFFICES ASSUME NoneShared, NEW c \in Clients, NEW d \in Clients, c # d,
                    NEW n \in Networks(c), n \in Networks(d)
             PROVE  FALSE
  BY DEF Apart
<1>1. PICK a \in Profile[c].addresses : n = network_key(a)
  BY DEF Networks
<1>2. PICK b \in Profile[d].addresses : n = network_key(b)
  BY DEF Networks
<1>3. a \in Addresses /\ b \in Addresses
  BY EndToEndAssumption
<1>4. ~SameNetwork(a, b)
  BY DEF NoneShared
<1> QED
  BY <1>1, <1>2, <1>3, <1>4, NetworkKeyTellsNetworks

\* The clients come from one network each, and no two from the same.
OneNetworkEach ==
  \A c, d \in Clients : \A a \in Profile[c].addresses, b \in Profile[d].addresses :
    SameNetwork(a, b) <=> c = d

\* A client then has one key, and no other client has it.
LEMMA NetworksFacts ==
  ASSUME OneNetworkEach
  PROVE  /\ Apart
         /\ \A c \in Clients : \A m, n \in Networks(c) : m = n
<1>1. ASSUME NEW c \in Clients, NEW d \in Clients, NEW m \in Networks(c), NEW n \in Networks(d)
      PROVE  m = n <=> c = d
  <2>1. PICK a \in Profile[c].addresses : m = network_key(a)
    BY DEF Networks
  <2>2. PICK b \in Profile[d].addresses : n = network_key(b)
    BY DEF Networks
  <2>3. a \in Addresses /\ b \in Addresses
    BY EndToEndAssumption
  <2>4. SameNetwork(a, b) <=> c = d
    BY DEF OneNetworkEach
  <2> QED
    BY <2>1, <2>2, <2>3, <2>4, NetworkKeyTellsNetworks
<1>2. Apart
  BY <1>1 DEF Apart
<1> QED
  BY <1>1, <1>2

\* A request is answered in no other way than by reaching the limiter.
LEMMA ReachedFacts ==
  ASSUME TypeOK, Next, NEW r \in Tasks, Reached(r)
  PROVE  \E a \in Profile[Owner(r)].addresses : Reach(r, a)
<1>1. Sleeping(r) /\ ~Answered(r) /\ r \in DOMAIN task
  BY DEF Reached, Sleeping, Answered
<1>2. Answered(r)'
  BY DEF Reached, Answered
<1>3. ASSUME NEW q \in Tasks, OthersKeep(q), q # r PROVE FALSE
  <2>1. task'[r] = task[r]
    BY <1>1, <1>3 DEF OthersKeep
  <2> QED
    BY <1>1, <1>2, <2>1 DEF Sleeping, Answered
<1>4. CASE Tick
  BY <1>1, <1>2, <1>4, TickEffect
<1>5. ASSUME NEW c \in Clients, NEW q \in Profile[c].tasks, Ask(c, q)
      PROVE  FALSE
  <2>1. OthersKeep(q) /\ ~Sleeping(q) /\ q \in Tasks
    BY <1>5, AskEffect, OwnerFacts
  <2> QED
    BY <1>1, <1>3, <2>1
<1>6. ASSUME NEW q \in Tasks, NEW a \in Profile[Owner(q)].addresses, Reach(q, a), q # r
      PROVE  FALSE
  BY <1>3, <1>6, ReachEffect
<1>7. ASSUME NEW q \in Tasks, Hear(q) PROVE FALSE
  <2>1. OthersKeep(q) /\ Answered(q)
    BY <1>7, HearEffect
  <2> QED
    BY <1>1, <1>3, <2>1
<1>8. ASSUME NEW q \in Tasks, Cancel(q) PROVE FALSE
  <2>1. OthersKeep(q)
    BY <1>8, CancelEffect
  <2>2. q # r
    <3>1. ASSUME Cancel(r) PROVE FALSE
      <4>1. ~Answered(r)'
        BY <3>1, CancelEffect
      <4> QED
        BY <1>2, <4>1
    <3> QED
      BY <1>8, <3>1
  <2> QED
    BY <1>3, <2>1, <2>2
<1>9. ASSUME NEW n \in Peers, Forget(n) PROVE FALSE
  BY <1>1, <1>2, <1>9, ForgetEffect DEF Sleeping, Answered
<1> QED
  BY <1>4, <1>5, <1>6, <1>7, <1>8, <1>9, NextCases

\* A request that reaches the limiter from address a is charged to the network
\* of a, which is all of its client's.
LEMMA ReachMeters ==
  ASSUME OneNetworkEach, TypeOK, NEW r \in Tasks,
         NEW a \in Profile[Owner(r)].addresses, Reach(r, a),
         NEW c \in Clients, NEW n \in Peers, n \in Networks(c)
  PROVE  owed'[n] = IF c = Owner(r) THEN Buckets!Owed(owed[n], 1) ELSE owed[n]
<1> DEFINE m == network_key(a)
<1>1. /\ m \in Networks(Owner(r))
      /\ owed'[m] = Buckets!Owed(owed[m], 1)
      /\ \A p \in Peers \ {m} : owed'[p] = owed[p]
  BY ReachEffect
<1>2. Owner(r) \in Clients
  BY OwnerFacts
<1> HIDE DEF m
<1>3. CASE c = Owner(r)
  <2>1. n = m
    BY <1>1, <1>3, NetworksFacts
  <2> QED
    BY <1>1, <1>3, <2>1
<1>4. CASE c # Owner(r)
  <2>1. n # m
    BY <1>1, <1>2, <1>4, NetworksFacts DEF Apart
  <2> QED
    BY <1>1, <1>4, <2>1
<1> QED
  BY <1>3, <1>4

-----------------------------------------------------------------------------
(* A client that listens.                                                   *)

\* A request more fits into the bucket of network n; it will in t ticks.
Fits(n)     == owed[n] + Server.window <= Full
Clear(n, t) == Fits(n) \/ owed[n] <= Slack + Server.count * t

\* The limiter's quota admits anything at all, what its clock rounds off
\* included.
Steady == Server.count > 0 /\ Server.window + Slack <= Full

\* c sends one request at a time, and honours what it is told.
Listener(c) == Cardinality(Profile[c].tasks) = 1 /\ Profile[c].honors

\* The client waits for its bucket: with its schedule while it has no request,
\* with the slot while one sleeps, and with the answer when there is one.
Awaited(c, r, n) ==
  /\ ~Sleeping(r) /\ ~Answered(r) /\ heard[c] => Clear(n, ahead[c] - Headroom(c))
  /\ Sleeping(r) => /\ heard[c] => Clear(n, task[r].left)
                    /\ task[r].left <= 0 \/ task[r].left <= ahead[c] - Headroom(c)
  /\ Answered(r) => Fits(n) \/ \E w \in ServerBackoff(task[r].response) : Clear(n, w)

\* Debts are whole ticks' replenishment if the cost of a request is.
Whole == Exact => \A n \in Peers : \E q \in Nat : owed[n] = q * Server.count

LInv ==
  /\ TypeOK
  /\ Whole
  /\ \A c \in Clients : Listener(c) =>
       \A r \in Profile[c].tasks, n \in Networks(c) : Awaited(c, r, n)

\* What may clear may clear later.
LEMMA ClearLater ==
  ASSUME TypeOK, NEW n \in Peers, NEW t \in Int, NEW u \in Int, t <= u, Clear(n, t)
  PROVE  Clear(n, u)
<1>1. Server.count \in Nat
  BY ServerTypes
<1>2. Server.count * t <= Server.count * u /\ Server.count * t \in Int /\ Server.count * u \in Int
  BY <1>1
<1>3. Slack \in Nat /\ owed[n] \in Nat
  BY ServerTypes DEF Slack, TypeOK, Full
<1> QED
  BY <1>2, <1>3 DEF Clear

\* What was to be clear at a time that has come fits.
LEMMA ClearNow ==
  ASSUME TypeOK, Steady, NEW n \in Peers, NEW t \in Int, t <= 0, Clear(n, t)
  PROVE  Fits(n)
<1>1. Clear(n, 0)
  BY ClearLater
<1>2. Server.count * 0 = 0
  BY ServerTypes
<1>3. Slack \in Nat /\ owed[n] \in Nat /\ Server.window \in Nat /\ Full \in Nat
  BY ServerTypes DEF Slack, TypeOK, Full
<1> QED
  BY <1>1, <1>2, <1>3 DEF Clear, Fits, Steady

\* What fits goes on fitting while time passes, and what will be clear comes
\* closer.
LEMMA TickClears ==
  ASSUME TypeOK, Steady, Tick, NEW n \in Peers
  PROVE  /\ owed'[n] = 0 => Fits(n)'
         /\ Fits(n) => Fits(n)'
         /\ \A t \in Int : Clear(n, t) => Clear(n, t - 1)'
<1> DEFINE C == Server.count
           W == Server.window
           o == owed[n]
           p == owed'[n]
<1>1. C \in Nat /\ W \in Nat /\ Full \in Nat /\ Slack \in Nat
  BY ServerTypes DEF Slack
<1>2. o \in Nat
  BY ServerTypes DEF TypeOK, Full
<1>3. p = IF o > C THEN o - C ELSE 0
  BY TickEffect
<1>4. W + Slack <= Full
  BY DEF Steady
<1>5. Fits(n) <=> o + W <= Full
  BY DEF Fits
<1>6. Fits(n)' <=> p + W <= Full
  BY DEF Fits, Full
<1> HIDE DEF C, W, o, p
<1>7. p \in Nat /\ p <= o
  BY <1>1, <1>2, <1>3
<1>8. p = 0 => Fits(n)'
  BY <1>1, <1>4, <1>6
<1>9. Fits(n) => Fits(n)'
  BY <1>1, <1>2, <1>5, <1>6, <1>7
<1>10. ASSUME NEW t \in Int, o <= Slack + C * t, p # 0
       PROVE  p <= Slack + C * (t - 1)
  <2>1. p = o - C
    BY <1>3, <1>10
  <2>2. C * (t - 1) = C * t - C /\ C * t \in Int
    BY <1>1
  <2> QED
    BY <1>1, <1>2, <1>10, <2>1, <2>2
<1>11. ASSUME NEW t \in Int, Clear(n, t) PROVE Clear(n, t - 1)'
  <2>1. CASE Fits(n) \/ p = 0
    BY <1>8, <1>9, <2>1 DEF Clear
  <2>2. CASE ~Fits(n) /\ p # 0
    <3>1. o <= Slack + C * t
      BY <1>11, <2>2 DEF Clear, o, C
    <3>2. p <= Slack + C * (t - 1)
      BY <1>10, <2>2, <3>1
    <3>3. Slack' = Slack
      BY DEF Slack, Exact
    <3> QED
      BY <3>2, <3>3 DEF Clear, p, C
  <2> QED
    BY <2>1, <2>2
<1> QED
  BY <1>8, <1>9, <1>11 DEF p

\* A listener has one request.
LEMMA OneTask ==
  ASSUME NEW c \in Clients, Listener(c), NEW q \in Profile[c].tasks, NEW r \in Profile[c].tasks
  PROVE  q = r
<1>1. IsFiniteSet(Profile[c].tasks) /\ Cardinality(Profile[c].tasks) = 1
  BY EndToEndAssumption DEF Listener
<1>2. PICK x : Profile[c].tasks = {x}
  BY <1>1, FS_Singleton
<1> QED
  BY <1>2

\* What does not change.
LEMMA SameClear ==
  ASSUME NEW n \in Peers, owed'[n] = owed[n]
  PROVE  /\ Fits(n)' <=> Fits(n)
         /\ \A t \in Int : Clear(n, t)' <=> Clear(n, t)
<1>1. Fits(n)' <=> Fits(n)
  BY DEF Fits, Full
<1>2. Slack' = Slack
  BY DEF Slack, Exact
<1> QED
  BY <1>1, <1>2 DEF Clear

\* Awaited speaks of one client, its request and its network only.
LEMMA SameAwaited ==
  ASSUME TypeOK, NEW c \in Clients, NEW r \in Profile[c].tasks, NEW n \in Networks(c),
         owed'[n] = owed[n], ahead'[c] = ahead[c], heard'[c] = heard[c],
         r \in DOMAIN task' <=> r \in DOMAIN task,
         r \in DOMAIN task => task'[r] = task[r],
         Awaited(c, r, n)
  PROVE  Awaited(c, r, n)'
<1>1. n \in Peers /\ r \in Tasks
  BY OwnerFacts DEF Peers
<1>2. /\ Sleeping(r)' <=> Sleeping(r)
      /\ Answered(r)' <=> Answered(r)
      /\ Sleeping(r) \/ Answered(r) => task'[r] = task[r]
  BY DEF Sleeping, Answered
<1>3. Headroom(c)' = Headroom(c) /\ Slack' = Slack /\ Full' = Full
  BY DEF Headroom, Throttle!Tolerance, Throttle!Interval, Throttle!Nearest, Throttle!Later,
         Throttle!SaturatingSub, Slack, Exact, Full
<1>4. Fits(n)' <=> Fits(n)
  BY <1>1, SameClear
<1>5. (~Sleeping(r) /\ ~Answered(r) /\ heard[c] => Clear(n, ahead[c] - Headroom(c)))'
  BY <1>2, <1>3, <1>4 DEF Awaited, Clear
<1>6. (Sleeping(r) => /\ heard[c] => Clear(n, task[r].left)
                      /\ task[r].left <= 0 \/ task[r].left <= ahead[c] - Headroom(c))'
  BY <1>2, <1>3, <1>4 DEF Awaited, Clear
<1>7. (Answered(r) => Fits(n) \/ \E w \in ServerBackoff(task[r].response) : Clear(n, w))'
  BY <1>2, <1>3, <1>4 DEF Awaited, Clear
<1> QED
  BY <1>5, <1>6, <1>7 DEF Awaited

\* A debt stays whole: requests cost, and ticks repay, whole ticks' worth.
LEMMA WholeTick == TypeOK /\ Whole /\ Tick => Whole'
<1> SUFFICES ASSUME TypeOK, Whole, Tick, Exact, NEW n \in Peers
             PROVE  \E q \in Nat : owed'[n] = q * Server.count
  BY DEF Whole, Exact
<1>1. PICK q \in Nat : owed[n] = q * Server.count
  BY DEF Whole
<1>2. Server.count \in Nat
  BY ServerTypes
<1>3. owed'[n] = IF owed[n] > Server.count THEN owed[n] - Server.count ELSE 0
  BY TickEffect
<1>4. CASE owed[n] > Server.count
  <2>1. q # 0
    BY <1>1, <1>2, <1>4
  <2>2. q - 1 \in Nat /\ (q - 1) * Server.count = q * Server.count - Server.count
    BY <1>2, <2>1
  <2> QED
    BY <1>1, <1>3, <1>4, <2>2
<1>5. CASE ~(owed[n] > Server.count)
  <2>1. 0 * Server.count = 0 /\ 0 \in Nat
    BY <1>2
  <2> QED
    BY <1>3, <1>5, <2>1
<1> QED
  BY <1>4, <1>5

\* The same of a request that is metered.
LEMMA WholeReach ==
  ASSUME TypeOK, Whole, NEW r \in Tasks, NEW a \in Profile[Owner(r)].addresses, Reach(r, a)
  PROVE  Whole'
<1> SUFFICES ASSUME Exact, NEW n \in Peers
             PROVE  \E q \in Nat : owed'[n] = q * Server.count
  BY DEF Whole, Exact
<1>1. PICK q \in Nat : owed[n] = q * Server.count
  BY DEF Whole
<1>2. PICK k \in Nat : Server.window = k * Server.count
  BY DEF Exact
<1>3. Server.count \in Nat
  BY ServerTypes
<1>4. owed[n] \in Nat /\ owed[n] <= Full
  BY ServerTypes DEF TypeOK, Full
<1>5. \/ owed'[n] = owed[n]
      \/ owed'[n] = owed[n] + Server.window
  <2>1. CASE n = network_key(a)
    <3>1. owed'[n] = Buckets!Owed(owed[n], 1)
      BY <2>1, ReachEffect
    <3> QED
      BY <1>4, <3>1, MeterFacts
  <2>2. CASE n # network_key(a)
    BY <2>2, ReachEffect
  <2> QED
    BY <2>1, <2>2
<1>6. q + k \in Nat /\ (q + k) * Server.count = q * Server.count + k * Server.count
  BY <1>3
<1> QED
  BY <1>1, <1>2, <1>5, <1>6

\* No step changes the numbers of the limiter and of the throttles.
LEMMA SameNumbers ==
  /\ Slack' = Slack /\ Full' = Full
  /\ \A c \in Clients : Headroom(c)' = Headroom(c) /\ (Listener(c)' <=> Listener(c))
  BY DEF Headroom, Throttle!Tolerance, Throttle!Interval, Throttle!Nearest, Throttle!Later,
         Throttle!SaturatingSub, Slack, Exact, Full, Listener

\* The quantities that Awaited compares.
LEMMA AwaitedTypes ==
  ASSUME TypeOK, NEW c \in Clients, NEW r \in Profile[c].tasks, NEW n \in Networks(c)
  PROVE  /\ r \in Tasks /\ n \in Peers /\ Owner(r) = c
         /\ ahead[c] \in Nat /\ Headroom(c) \in Nat /\ ahead[c] - Headroom(c) \in Int
         /\ Sleeping(r) => task[r].left \in Int
         /\ Answered(r) => /\ task[r].response \in ResponseType
                           /\ ServerBackoff(task[r].response) \subseteq Nat
<1>1. r \in Tasks /\ Owner(r) = c
  BY OwnerFacts
<1>2. n \in Peers
  BY DEF Peers
<1>3. ahead[c] \in Nat /\ Headroom(c) \in Nat
  BY PaceTypes DEF TypeOK
<1>4. /\ Sleeping(r) => task[r].left \in Int
      /\ Answered(r) => task[r].response \in ResponseType
  BY RequestFacts DEF Sleeping, Answered
<1>5. Answered(r) => ServerBackoff(task[r].response) \subseteq Nat
  BY <1>4, BackoffFacts
<1>6. ahead[c] - Headroom(c) \in Int
  BY <1>3
<1> QED
  BY <1>1, <1>2, <1>3, <1>4, <1>5, <1>6

\* What may clear may clear later, after a step as before it.
LEMMA LaterClears ==
  ASSUME TypeOK', NEW n \in Peers, NEW t \in Int, NEW u \in Int, t <= u, Clear(n, t)'
  PROVE  Clear(n, u)'
<1>1. Server.count \in Nat
  BY ServerTypes
<1>2. Server.count * t <= Server.count * u /\ Server.count * t \in Int /\ Server.count * u \in Int
  BY <1>1
<1>3. Slack \in Nat /\ owed'[n] \in Nat
  BY ServerTypes DEF Slack, TypeOK, Full
<1> QED
  BY <1>2, <1>3, SameNumbers DEF Clear

\* What a client waits for comes closer as time passes.
LEMMA TickAwaited ==
  ASSUME TypeOK, Steady, Tick, NEW c \in Clients, NEW r \in Profile[c].tasks,
         NEW n \in Networks(c), Awaited(c, r, n)
  PROVE  Awaited(c, r, n)'
<1>1. TypeOK'
  BY TickEffect
<1>2. n \in Peers /\ r \in Tasks /\ Headroom(c) \in Nat /\ ahead[c] \in Nat
  BY AwaitedTypes
<1>3. /\ owed'[n] = 0 => Fits(n)'
      /\ Fits(n) => Fits(n)'
      /\ \A t \in Int : Clear(n, t) => Clear(n, t - 1)'
  BY <1>2, TickClears
<1>4. /\ Sleeping(r)' <=> Sleeping(r)
      /\ Answered(r)' <=> Answered(r)
      /\ Sleeping(r) => task'[r].left = task[r].left - 1
      /\ Answered(r) => task'[r] = task[r]
      /\ ahead'[c] >= ahead[c] - 1
      /\ heard'[c] => heard[c] \/ owed'[n] = 0
  BY <1>2, TickEffect
<1>5. ahead'[c] \in Nat
  BY <1>1 DEF TypeOK
<1>6. (~Sleeping(r) /\ ~Answered(r) /\ heard[c] => Clear(n, ahead[c] - Headroom(c)))'
  <2> SUFFICES ASSUME ~Sleeping(r), ~Answered(r), heard'[c]
               PROVE  Clear(n, ahead[c] - Headroom(c))'
    BY <1>4
  <2>1. CASE owed'[n] = 0
    BY <1>3, <2>1 DEF Clear
  <2>2. CASE heard[c]
    <3>1. PICK t \in Int : t = ahead[c] - Headroom(c)
      BY <1>2
    <3>2. PICK u \in Int : u = ahead'[c] - Headroom(c)
      BY <1>2, <1>5
    <3>3. t - 1 \in Int /\ t - 1 <= u
      BY <1>2, <1>4, <1>5, <3>1, <3>2
    <3>4. Clear(n, t - 1)'
      BY <1>3, <2>2, <3>1 DEF Awaited
    <3>5. Clear(n, u)'
      BY <1>1, <1>2, <3>3, <3>4, LaterClears
    <3> QED
      BY <3>2, <3>5, SameNumbers DEF Clear
  <2> QED
    BY <1>4, <2>1, <2>2
<1>7. (Sleeping(r) => /\ heard[c] => Clear(n, task[r].left)
                      /\ task[r].left <= 0 \/ task[r].left <= ahead[c] - Headroom(c))'
  <2> SUFFICES ASSUME Sleeping(r)
               PROVE  /\ heard'[c] => Clear(n, task[r].left)'
                      /\ task'[r].left <= 0 \/ task'[r].left <= ahead'[c] - Headroom(c)
    BY <1>4, SameNumbers
  <2>1. task[r].left \in Int
    BY AwaitedTypes
  <2>2. task'[r].left <= 0 \/ task'[r].left <= ahead'[c] - Headroom(c)
    BY <1>2, <1>4, <1>5, <2>1 DEF Awaited
  <2>3. CASE owed'[n] = 0
    BY <1>3, <2>2, <2>3 DEF Clear
  <2>4. ASSUME heard[c] PROVE Clear(n, task[r].left)'
    <3>1. Clear(n, task[r].left)
      BY <2>4 DEF Awaited
    <3>2. \A t \in Int : t = task[r].left => Clear(n, t - 1)'
      BY <1>3, <3>1
    <3> QED
      BY <1>4, <2>1, <3>2 DEF Clear
  <2> QED
    BY <1>4, <2>2, <2>3, <2>4
<1>8. (Answered(r) => Fits(n) \/ \E w \in ServerBackoff(task[r].response) : Clear(n, w))'
  <2> SUFFICES ASSUME Answered(r)
               PROVE  (Fits(n) \/ \E w \in ServerBackoff(task[r].response) : Clear(n, w))'
    BY <1>4
  <2>1. task'[r] = task[r]
    BY <1>4
  <2>2. CASE Fits(n)
    BY <1>3, <2>2
  <2>3. ASSUME NEW w \in ServerBackoff(task[r].response), owed[n] <= Slack + Server.count * w
        PROVE  owed'[n] <= Slack + Server.count * w
    <3>1. w \in Nat /\ Server.count \in Nat
      BY AwaitedTypes, ServerTypes
    <3>2. Server.count * w \in Nat /\ Slack \in Nat
      BY <3>1 DEF Slack
    <3>3. owed[n] \in Nat /\ owed'[n] <= owed[n] /\ owed'[n] \in Nat
      <4>1. owed[n] \in Nat
        BY <1>2, ServerTypes DEF TypeOK, Full
      <4> QED
        BY <1>2, <4>1, ServerTypes, TickEffect
    <3> QED
      BY <2>3, <3>2, <3>3
  <2>4. Fits(n) \/ \E w \in ServerBackoff(task[r].response) : Clear(n, w)
    BY DEF Awaited
  <2> QED
    BY <2>1, <2>2, <2>3, <2>4, SameNumbers DEF Clear
<1> QED
  BY <1>6, <1>7, <1>8 DEF Awaited

\* The slot that is claimed is what the schedule stood for.
LEMMA AskAwaited ==
  ASSUME TypeOK, NEW c \in Clients, NEW r \in Profile[c].tasks, NEW n \in Networks(c),
         Awaited(c, r, n), Ask(c, r)
  PROVE  Awaited(c, r, n)'
<1>1. /\ TypeOK'
      /\ owed' = owed /\ heard' = heard
      /\ ahead'[c] = ahead[c] + Pace(c)
      /\ ~Sleeping(r) /\ ~Answered(r)
      /\ Sleeping(r)' /\ ~Answered(r)'
      /\ task'[r].left \in Nat
      /\ task'[r].left >= ahead[c] - Headroom(c)
      /\ task'[r].left > 0 => task'[r].left = ahead[c] - Headroom(c)
  BY AskEffect
<1>2. /\ n \in Peers /\ Headroom(c) \in Nat /\ ahead[c] \in Nat
      /\ ahead[c] - Headroom(c) \in Int
  BY AwaitedTypes
<1>3. Pace(c) \in Nat
  BY PaceTypes
<1>4. PICK t \in Int : t = ahead[c] - Headroom(c)
  BY <1>2
<1>5. PICK u \in Nat : u = task'[r].left
  BY <1>1
<1>6. u <= 0 \/ u <= ahead'[c] - Headroom(c)
  BY <1>1, <1>2, <1>3, <1>5
<1>7. ASSUME heard'[c] PROVE Clear(n, u)'
  <2>1. Clear(n, t)
    BY <1>1, <1>4, <1>7 DEF Awaited
  <2>2. Clear(n, t)'
    BY <1>1, <1>2, <2>1, SameClear
  <2>3. t <= u /\ u \in Int
    BY <1>1, <1>4, <1>5
  <2> QED
    BY <1>1, <1>2, <2>2, <2>3, LaterClears
<1>8. (Sleeping(r) => /\ heard[c] => Clear(n, task[r].left)
                      /\ task[r].left <= 0 \/ task[r].left <= ahead[c] - Headroom(c))'
  BY <1>5, <1>6, <1>7, SameNumbers DEF Clear
<1> QED
  BY <1>1, <1>8 DEF Awaited

\* The answer says how long to wait, if no other request fits.
LEMMA ReachAwaited ==
  ASSUME OneNetworkEach, Steady, TypeOK, Whole, Whole', NEW r \in Tasks,
         NEW a \in Profile[Owner(r)].addresses, Reach(r, a), NEW n \in Networks(Owner(r))
  PROVE  Awaited(Owner(r), r, n)'
<1>1. /\ TypeOK'
      /\ network_key(a) \in Networks(Owner(r))
      /\ ~Sleeping(r)' /\ Answered(r)'
      /\ \/ owed'[network_key(a)] + Server.window <= Full
         \/ \E w \in ServerBackoff(task'[r].response) :
              w >= Buckets!SecondsToRefill(owed'[network_key(a)])
  BY ReachEffect
<1>2. Owner(r) \in Clients /\ r \in Profile[Owner(r)].tasks
  BY OwnerFacts
<1>3. n = network_key(a) /\ n \in Peers
  BY <1>1, <1>2, NetworksFacts DEF Peers
<1>4. PICK d \in Nat : d = owed'[n]
  BY <1>1, <1>3, ServerTypes DEF TypeOK, Full
<1>5. ASSUME NEW w \in ServerBackoff(task'[r].response), w >= Buckets!SecondsToRefill(d)
      PROVE  Clear(n, w)'
  <2>1. task'[r].response \in ResponseType
    <3>1. task'[r] \in Requests /\ task'[r].stage = "answered"
      BY <1>1 DEF TypeOK, Answered
    <3> QED
      BY <3>1 DEF Requests
  <2>2. w \in Nat
    BY <2>1, BackoffFacts
  <2>3. Exact => \E q \in Nat : d = q * Server.count
    BY <1>3, <1>4 DEF Whole, Exact
  <2>4. PICK s \in Nat : s = Buckets!SecondsToRefill(d)
    BY WaitFacts
  <2>5. d <= Slack + Server.count * s
    BY <2>3, <2>4, WaitFacts DEF Steady
  <2>6. s \in Int /\ w \in Int /\ s <= w
    BY <1>5, <2>2, <2>4
  <2>7. Clear(n, s)'
    BY <1>4, <2>5, SameNumbers DEF Clear
  <2> QED
    BY <1>1, <1>3, <2>6, <2>7, LaterClears
<1>6. Fits(n)' \/ \E w \in ServerBackoff(task'[r].response) : w >= Buckets!SecondsToRefill(d)
  <2>1. CASE owed'[n] + Server.window <= Full
    BY <2>1, SameNumbers DEF Fits
  <2>2. CASE ~(owed'[n] + Server.window <= Full)
    BY <1>1, <1>3, <1>4, <2>2
  <2> QED
    BY <2>1, <2>2
<1>7. (Answered(r) => Fits(n) \/ \E w \in ServerBackoff(task[r].response) : Clear(n, w))'
  BY <1>5, <1>6, SameNumbers DEF Clear
<1> QED
  BY <1>1, <1>7 DEF Awaited

\* The schedule takes the answer over.
LEMMA HearAwaited ==
  ASSUME TypeOK, NEW r \in Tasks, Hear(r), Listener(Owner(r)), NEW n \in Networks(Owner(r)),
         Awaited(Owner(r), r, n)
  PROVE  Awaited(Owner(r), r, n)'
<1> DEFINE c == Owner(r)
<1>1. c \in Clients /\ r \in Profile[c].tasks
  BY OwnerFacts
<1>2. /\ TypeOK'
      /\ owed' = owed
      /\ ahead'[c] = Pushed(c, task[r].response)
      /\ Answered(r) /\ ~Sleeping(r)' /\ ~Answered(r)'
  BY HearEffect
<1> HIDE DEF c
<1>3. /\ n \in Peers /\ Headroom(c) \in Nat /\ ahead[c] \in Nat
      /\ task[r].response \in ResponseType
      /\ ServerBackoff(task[r].response) \subseteq Nat
  BY <1>1, <1>2, AwaitedTypes DEF c
<1>4. PICK u \in Int : u = ahead'[c] - Headroom(c)
  <2>1. ahead'[c] \in Nat
    BY <1>1, <1>2 DEF TypeOK
  <2> QED
    BY <1>3, <2>1
<1>5. Clear(n, u)'
  <2>1. CASE Fits(n)
    BY <1>2, <1>3, <2>1, SameClear DEF Clear
  <2>2. ASSUME NEW w \in ServerBackoff(task[r].response), Clear(n, w)
        PROVE  Clear(n, u)'
    <3>1. w \in Int /\ w \in Nat
      BY <1>3, <2>2
    <3>2. Pushed(c, task[r].response) >= w + Headroom(c)
          /\ Pushed(c, task[r].response) \in Nat
      <4>1. Profile[c].honors /\ ahead \in [Clients -> Nat]
        BY DEF Listener, c, TypeOK
      <4> QED
        BY <1>1, <1>3, <4>1, PushedFacts
    <3>3. w <= u
      BY <1>2, <1>3, <1>4, <3>1, <3>2
    <3>4. Clear(n, w)'
      BY <1>2, <1>3, <2>2, <3>1, SameClear
    <3> QED
      BY <1>2, <1>3, <3>1, <3>3, <3>4, LaterClears
  <2>3. Fits(n) \/ \E w \in ServerBackoff(task[r].response) : Clear(n, w)
    BY <1>2 DEF Awaited
  <2> QED
    BY <2>1, <2>2, <2>3
<1>6. (~Sleeping(r) /\ ~Answered(r) /\ heard[c] => Clear(n, ahead[c] - Headroom(c)))'
  BY <1>1, <1>4, <1>5, SameNumbers DEF Clear, c
<1> QED
  BY <1>1, <1>2, <1>6, SameNumbers DEF Awaited, c

\* A slot that is given up was no later than what the schedule stands for.
LEMMA CancelAwaited ==
  ASSUME Steady, TypeOK, NEW r \in Tasks, Cancel(r), NEW n \in Networks(Owner(r)),
         Awaited(Owner(r), r, n)
  PROVE  Awaited(Owner(r), r, n)'
<1> DEFINE c == Owner(r)
<1>1. c \in Clients /\ r \in Profile[c].tasks
  BY OwnerFacts
<1>2. /\ TypeOK'
      /\ owed' = owed /\ ahead' = ahead
      /\ r \in DOMAIN task
      /\ ~Sleeping(r)' /\ ~Answered(r)'
      /\ heard'[c] => heard[c] /\ ~Answered(r)
  BY CancelEffect
<1> HIDE DEF c
<1>3. n \in Peers /\ Headroom(c) \in Nat /\ ahead[c] \in Nat
  BY <1>1, AwaitedTypes DEF c
<1>4. PICK u \in Int : u = ahead[c] - Headroom(c)
  BY <1>3
<1>5. ASSUME heard'[c] PROVE Clear(n, u)'
  <2>1. Sleeping(r) /\ heard[c]
    BY <1>2, <1>5, RequestFacts
  <2>2. PICK t \in Int : t = task[r].left
    BY <1>1, <2>1, AwaitedTypes DEF c
  <2>3. Clear(n, t) /\ (t <= 0 \/ t <= u)
    BY <1>4, <2>1, <2>2 DEF Awaited, c
  <2>4. Fits(n) \/ t <= u
    BY <1>3, <2>3, ClearNow
  <2>5. Clear(n, t)' /\ (Fits(n) => Fits(n)')
    BY <1>2, <1>3, <2>3, SameClear
  <2> QED
    <3>1. CASE Fits(n)'
      BY <3>1 DEF Clear
    <3>2. CASE t <= u
      BY <1>2, <1>3, <2>5, <3>2, LaterClears
    <3> QED
      BY <2>4, <2>5, <3>1, <3>2
<1>6. (~Sleeping(r) /\ ~Answered(r) /\ heard[c] => Clear(n, ahead[c] - Headroom(c)))'
  BY <1>1, <1>2, <1>4, <1>5, SameNumbers DEF Clear, c
<1> QED
  BY <1>1, <1>2, <1>6, SameNumbers DEF Awaited, c

\* Steps of the requests of other clients leave c and its network alone.
LEMMA OtherAwaited ==
  ASSUME TypeOK, NEW r \in Tasks, OthersKeep(r),
         NEW c \in Clients, c # Owner(r), NEW q \in Profile[c].tasks, NEW n \in Networks(c),
         ahead'[c] = ahead[c], owed'[n] = owed[n], heard'[c] = heard[c],
         Awaited(c, q, n)
  PROVE  Awaited(c, q, n)'
<1>1. q \in Tasks \ {r}
  BY OwnerFacts
<1>2. /\ q \in DOMAIN task' <=> q \in DOMAIN task
      /\ q \in DOMAIN task => task'[q] = task[q]
  BY <1>1 DEF OthersKeep
<1> QED
  BY <1>2, SameAwaited

\* Nobody has asked for anything yet.
LEMMA InitLInv == Steady /\ Init => LInv
<1> SUFFICES ASSUME Steady, Init PROVE LInv
  OBVIOUS
<1>1. TypeOK
  BY InitPInv DEF PInv
<1>2. /\ owed = [n \in Peers |-> 0]
      /\ task = << >>
  BY DEF Init
<1>3. Whole
  <2>1. 0 \in Nat /\ 0 = 0 * Server.count
    BY ServerTypes
  <2> QED
    BY <1>2, <2>1 DEF Whole
<1>4. ASSUME NEW c \in Clients, NEW r \in Profile[c].tasks, NEW n \in Networks(c)
      PROVE  Awaited(c, r, n)
  <2>1. ~Sleeping(r) /\ ~Answered(r)
    BY <1>2 DEF Sleeping, Answered
  <2>2. Fits(n)
    <3>1. n \in Peers
      BY DEF Peers
    <3>2. owed[n] = 0
      BY <1>2, <3>1
    <3>3. 0 + Server.window <= Full
      BY ServerTypes DEF Steady, Slack
    <3> QED
      BY <3>2, <3>3 DEF Fits
  <2> QED
    BY <2>1, <2>2 DEF Awaited, Clear
<1> QED
  BY <1>1, <1>3, <1>4 DEF LInv

\* Steps that concern the request of one client.
LEMMA OneLInv ==
  ASSUME LInv, NEW r \in Tasks, TypeOK', Whole', OthersKeep(r),
         \A c \in Clients \ {Owner(r)} :
           /\ ahead'[c] = ahead[c] /\ heard'[c] = heard[c]
           /\ \A n \in Networks(c) : owed'[n] = owed[n],
         Listener(Owner(r)) => \A n \in Networks(Owner(r)) : Awaited(Owner(r), r, n)'
  PROVE  LInv'
<1> SUFFICES ASSUME NEW c \in Clients, Listener(c), NEW q \in Profile[c].tasks,
                    NEW n \in Networks(c)
             PROVE  Awaited(c, q, n)'
  BY SameNumbers DEF LInv, Networks
<1>1. CASE c = Owner(r)
  <2>1. q = r
    BY <1>1, OwnerFacts, OneTask
  <2> QED
    BY <1>1, <2>1
<1>2. CASE c # Owner(r)
  BY <1>2, OtherAwaited DEF LInv
<1> QED
  BY <1>1, <1>2

\* Where nothing is consumed, debts stay whole.
LEMMA WholeStays == Whole /\ UNCHANGED owed => Whole'
  BY DEF Whole, Exact

\* Time passes.
LEMMA TickLInv == Steady /\ LInv /\ Tick => LInv'
<1> SUFFICES ASSUME Steady, LInv, Tick PROVE LInv'
  OBVIOUS
<1>1. TypeOK'
  BY TickEffect DEF LInv
<1>2. Whole'
  BY WholeTick DEF LInv
<1>3. ASSUME NEW c \in Clients, Listener(c), NEW r \in Profile[c].tasks, NEW n \in Networks(c)
      PROVE  Awaited(c, r, n)'
  BY <1>3, TickAwaited DEF LInv
<1> QED
  BY <1>1, <1>2, <1>3, SameNumbers DEF LInv, Networks

\* A client claims a slot.
LEMMA AskLInv ==
  ASSUME LInv, NEW c \in Clients, NEW r \in Profile[c].tasks, Ask(c, r)
  PROVE  LInv'
<1>1. r \in Tasks /\ Owner(r) = c
  BY OwnerFacts
<1>2. /\ TypeOK' /\ UNCHANGED <<owed, heard>> /\ OthersKeep(r)
      /\ \A d \in Clients \ {c} : ahead'[d] = ahead[d]
  BY AskEffect DEF LInv
<1>3. Whole'
  BY <1>2, WholeStays DEF LInv
<1>4. Listener(c) => \A n \in Networks(c) : Awaited(c, r, n)'
  BY AskAwaited DEF LInv
<1> QED
  BY <1>1, <1>2, <1>3, <1>4, OneLInv

\* A request reaches the limiter.
LEMMA ReachLInv ==
  ASSUME OneNetworkEach, Steady, LInv,
         NEW r \in Tasks, NEW a \in Profile[Owner(r)].addresses, Reach(r, a)
  PROVE  LInv'
<1>1. /\ TypeOK' /\ UNCHANGED <<ahead, heard>> /\ OthersKeep(r)
      /\ network_key(a) \in Networks(Owner(r))
      /\ \A p \in Peers \ {network_key(a)} : owed'[p] = owed[p]
  BY ReachEffect DEF LInv
<1>2. Whole'
  BY WholeReach DEF LInv
<1>3. \A n \in Networks(Owner(r)) : Awaited(Owner(r), r, n)'
  BY <1>2, ReachAwaited DEF LInv
<1>4. ASSUME NEW c \in Clients \ {Owner(r)}, NEW n \in Networks(c)
      PROVE  owed'[n] = owed[n]
  <2>1. n \in Peers
    BY DEF Peers
  <2>2. n # network_key(a)
    BY <1>1, OwnerFacts, NetworksFacts DEF Apart
  <2> QED
    BY <1>1, <2>1, <2>2
<1> QED
  BY <1>1, <1>2, <1>3, <1>4, OneLInv

\* A response is heard, or a request is given up.
LEMMA EndLInv ==
  ASSUME Steady, LInv, NEW r \in Tasks, Hear(r) \/ Cancel(r)
  PROVE  LInv'
<1>1. CASE Hear(r)
  <2>1. /\ TypeOK' /\ UNCHANGED owed /\ OthersKeep(r)
        /\ \A c \in Clients \ {Owner(r)} : ahead'[c] = ahead[c] /\ heard'[c] = heard[c]
    BY <1>1, HearEffect DEF LInv
  <2>2. Whole'
    BY <2>1, WholeStays DEF LInv
  <2>3. Listener(Owner(r)) => \A n \in Networks(Owner(r)) : Awaited(Owner(r), r, n)'
    BY <1>1, HearAwaited, OwnerFacts DEF LInv
  <2> QED
    BY <2>1, <2>2, <2>3, OneLInv
<1>2. CASE Cancel(r)
  <2>1. /\ TypeOK' /\ UNCHANGED <<ahead, owed>> /\ OthersKeep(r)
        /\ \A c \in Clients \ {Owner(r)} : heard'[c] = heard[c]
    BY <1>2, CancelEffect DEF LInv
  <2>2. Whole'
    BY <2>1, WholeStays DEF LInv
  <2>3. Listener(Owner(r)) => \A n \in Networks(Owner(r)) : Awaited(Owner(r), r, n)'
    BY <1>2, CancelAwaited, OwnerFacts DEF LInv
  <2> QED
    BY <2>1, <2>2, <2>3, OneLInv
<1> QED
  BY <1>1, <1>2

\* Nothing happens.
LEMMA StutterLInv == LInv /\ UNCHANGED vars => LInv'
<1> SUFFICES ASSUME LInv, UNCHANGED vars PROVE LInv'
  OBVIOUS
<1>1. ahead' = ahead /\ owed' = owed /\ task' = task /\ heard' = heard
  BY DEF vars
<1>2. TypeOK' /\ Whole'
  BY <1>1, WholeStays DEF TypeOK, LInv
<1>3. ASSUME NEW c \in Clients, Listener(c), NEW r \in Profile[c].tasks, NEW n \in Networks(c)
      PROVE  Awaited(c, r, n)'
  BY <1>1, <1>3, SameAwaited DEF LInv
<1> QED
  BY <1>2, <1>3, SameNumbers DEF LInv, Networks

\* A debt is forgotten: a request fits into the bucket then.
LEMMA ForgetLInv ==
  ASSUME Steady, LInv, NEW m \in Peers, Forget(m)
  PROVE  LInv'
<1>1. /\ TypeOK'
      /\ ahead' = ahead /\ task' = task /\ heard' = heard
      /\ owed'[m] = 0
      /\ \A n \in Peers \ {m} : owed'[n] = owed[n]
  BY ForgetEffect DEF LInv
<1>2. Whole'
  <2> SUFFICES ASSUME Exact, NEW n \in Peers
               PROVE  \E q \in Nat : owed'[n] = q * Server.count
    BY DEF Whole, Exact
  <2>1. CASE n = m
    <3>1. 0 * Server.count = 0 /\ 0 \in Nat
      BY ServerTypes
    <3> QED
      BY <1>1, <2>1, <3>1
  <2>2. CASE n # m
    BY <1>1, <2>2 DEF LInv, Whole
  <2> QED
    BY <2>1, <2>2
<1>3. Fits(m)'
  <2>1. 0 + Server.window <= Full
    BY ServerTypes DEF Steady, Slack
  <2> QED
    BY <1>1, <2>1, SameNumbers DEF Fits
<1>4. ASSUME NEW c \in Clients, Listener(c), NEW r \in Profile[c].tasks, NEW n \in Networks(c)
      PROVE  Awaited(c, r, n)'
  <2>1. CASE n = m
    <3>1. /\ Sleeping(r) => (task[r].left <= 0 \/ task[r].left <= ahead[c] - Headroom(c))
          /\ Sleeping(r)' <=> Sleeping(r)
      BY <1>1, <1>4 DEF LInv, Awaited, Sleeping
    <3> QED
      BY <1>1, <1>3, <2>1, <3>1, SameNumbers DEF Awaited, Clear
  <2>2. CASE n # m
    <3>1. owed'[n] = owed[n]
      BY <1>1, <2>2 DEF Peers
    <3> QED
      BY <1>1, <1>4, <3>1, SameAwaited DEF LInv
  <2> QED
    BY <2>1, <2>2
<1> QED
  BY <1>1, <1>2, <1>4, SameNumbers DEF LInv, Networks

\* Every step keeps the invariant of listening.
LEMMA NextLInv == OneNetworkEach /\ Steady /\ LInv /\ [Next]_vars => LInv'
<1> SUFFICES ASSUME OneNetworkEach, Steady, LInv, [Next]_vars PROVE LInv'
  OBVIOUS
<1>1. CASE Tick
  BY <1>1, TickLInv
<1>2. ASSUME NEW c \in Clients, NEW r \in Profile[c].tasks, Ask(c, r)
      PROVE  LInv'
  BY <1>2, AskLInv
<1>3. ASSUME NEW r \in Tasks, NEW a \in Profile[Owner(r)].addresses, Reach(r, a)
      PROVE  LInv'
  BY <1>3, ReachLInv
<1>4. ASSUME NEW r \in Tasks, Hear(r) \/ Cancel(r)
      PROVE  LInv'
  BY <1>4, EndLInv
<1>5. ASSUME NEW n \in Peers, Forget(n) PROVE LInv'
  BY <1>5, ForgetLInv
<1>6. CASE UNCHANGED vars
  BY <1>6, StutterLInv
<1> QED
  BY <1>1, <1>2, <1>3, <1>4, <1>5, <1>6, NextCases

\* A listener's request is due no earlier than it fits.
LEMMA ListenerReach ==
  ASSUME OneNetworkEach, Steady, LInv, Next, NEW r \in Tasks, Reached(r),
         Listener(Owner(r)), heard[Owner(r)]
  PROVE  task'[r].allowed
<1>1. PICK a \in Profile[Owner(r)].addresses : Reach(r, a)
  BY ReachedFacts DEF LInv
<1>2. /\ network_key(a) \in Networks(Owner(r))
      /\ Sleeping(r) /\ task[r].left <= 0
      /\ task'[r].allowed <=> Fits(network_key(a))
  BY <1>1, ReachEffect DEF LInv, Fits
<1>3. Owner(r) \in Clients /\ r \in Profile[Owner(r)].tasks
  BY OwnerFacts
<1>4. network_key(a) \in Peers /\ task[r].left \in Int
  BY <1>2, <1>3, AwaitedTypes DEF LInv
<1>5. Clear(network_key(a), task[r].left)
  BY <1>2, <1>3 DEF LInv, Awaited
<1> QED
  BY <1>2, <1>4, <1>5, ClearNow DEF LInv

-----------------------------------------------------------------------------
(* The theorems.                                                            *)

\* The schedules, debts and requests are well typed, and no network ever owes
\* more than a burst (client.rs:96-152, bucket.rs:45-55).
THEOREM TypeCorrect == Spec => []TypeOK
<1>1. Init => TypeOK
  BY InitTypes
<1>2. TypeOK /\ [Next]_vars => TypeOK'
  BY NextTypes
<1> QED
  BY <1>1, <1>2, PTL DEF Spec

\* The throttle is the limiter's dual (client.rs:43): a client whose quota is
\* within the limiter's, with the lateness of its requests, is never refused,
\* unless somebody else uses its network.
THEOREM PacedNeverRefusedHolds ==
  ASSUME NoneShared
  PROVE  Spec => []PacedNeverRefused
<1>1. Init => PInv
  BY InitPInv
<1>2. PInv /\ [Next]_vars => PInv'
  BY NextPInv, NoneSharedFacts
<1>3. PInv => PacedNeverRefused
  BY DEF PInv
<1> QED
  BY <1>1, <1>2, <1>3, PTL DEF Spec

\* Whatever addresses a client comes from, its requests are metered against all
\* of them and nobody else's, if it has a network to itself (limiter.rs:195-207).
THEOREM PeerMeteredHolds ==
  ASSUME OneNetworkEach
  PROVE  Spec => PeerMetered
<1> DEFINE A == \A r \in Tasks : Reached(r) =>
                  \A c \in Clients, n \in Peers : n \in Networks(c) =>
                    owed'[n] = IF c = Owner(r) THEN Buckets!Owed(owed[n], 1) ELSE owed[n]
<1>1. TypeOK /\ [Next]_vars => [A]_vars
  <2> SUFFICES ASSUME TypeOK, Next PROVE A
    OBVIOUS
  <2> SUFFICES ASSUME NEW r \in Tasks, Reached(r), NEW c \in Clients, NEW n \in Peers,
                      n \in Networks(c)
               PROVE  owed'[n] = IF c = Owner(r) THEN Buckets!Owed(owed[n], 1) ELSE owed[n]
    OBVIOUS
  <2>1. PICK a \in Profile[Owner(r)].addresses : Reach(r, a)
    BY ReachedFacts
  <2> QED
    BY <2>1, ReachMeters
<1>2. Spec => []TypeOK
  BY TypeCorrect
<1>3. PeerMetered <=> [][A]_vars
  BY DEF PeerMetered
<1> HIDE DEF A
<1> QED
  BY <1>1, <1>2, <1>3, PTL DEF Spec

\* A client that sends one request at a time, and has heard the answer to all it
\* consumed, is never refused, whatever its own quota (client.rs:50-53): for every
\* limiter whose burst has room for one token and what a rounded wait leaves short.
THEOREM ListenerNeverRefusedHolds ==
  ASSUME OneNetworkEach, Steady
  PROVE  Spec => ListenerNeverRefused
<1> DEFINE A == \A r \in Tasks : Reached(r) =>
                  LET c == Owner(r)
                  IN  Cardinality(Profile[c].tasks) = 1 /\ Profile[c].honors /\ heard[c]
                        => task'[r].allowed
<1>1. Init => LInv
  BY InitLInv
<1>2. LInv /\ [Next]_vars => LInv'
  BY NextLInv
<1>3. LInv /\ [Next]_vars => [A]_vars
  BY ListenerReach DEF Listener
<1>4. ListenerNeverRefused <=> [][A]_vars
  BY DEF ListenerNeverRefused
<1> HIDE DEF A
<1> QED
  BY <1>1, <1>2, <1>3, <1>4, PTL DEF Spec
=============================================================================
