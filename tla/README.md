# Models of trillium-ratelimit

TLA+ specifications of trillium-ratelimit, model-checked with TLC and, for the
results that matter most, proved with TLAPS for every value of the constants.
Line numbers refer to the files under `src/`.

## 1. The system

trillium-ratelimit meters HTTP requests on the server and paces them on the
client.  Both sides compute with instants and durations and share their state
between threads; neither persists anything.

| Component | State | Operations |
|---|---|---|
| Quota (`headers/quota.rs`) | none: `count`, `window`, `burst` | constructors and getters |
| Token bucket (`bucket.rs`) | `tokens` (f64), `last_update` | `new`, `try_consume` |
| Bucket store (`store.rs`) | moka cache: key → bucket | `consume` |
| Limiter handler (`limiter.rs`) | the store, configuration | `run` on a connection |
| Network key (`limiter.rs:198-209`) | none | `network_key` |
| Client throttle (`client.rs`) | mutex-guarded map: scope → theoretical arrival time (`tat`) | `run` (`claim`, sleep), `after_response` (`server_backoff`, `back_off`) |
| Header types (`headers/rate_limit.rs`, `headers/rate_limit_policy.rs`) | none | `parse_list`, `from_headers`, `Display` |
| Structured-field helpers (`headers/sf.rs`) | none | quoting, unescaping, skipping items |

How they interact:

* A `RateLimiter` turns a connection into a key (an upstream handler put it in
  the connection's state), calls `Store::consume`, appends a `RateLimit` and a
  `RateLimit-Policy` line to the response and passes the request on, or halts
  it with `Retry-After`.  Several limiters may be stacked in a handler tuple.
* `Store::consume` reads the clock, then runs `Bucket::try_consume` inside
  moka's per-key compute lock.  moka drops entries that idled for one window
  and evicts entries when there are too many.
* A `Throttle` claims a slot for each request under a mutex and sleeps until
  it comes; after each response it raises the scope's schedule if the response
  carries `Retry-After` or an exhausted `RateLimit` item.

What is hard to get right, and hard to test:

* **Stale instants.**  The store and the throttle read the clock before they
  take their lock, so calls are computed out of the order of their instants.
* **Lazy accounting.**  Refill happens on access, from timestamps; idle expiry
  and eviction replace a bucket by a full one; the result must be the same as
  if tokens had trickled in all along.
* **Promises about the future.**  `retry_after`, `Retry-After` and `t` say when
  something will be true, through two roundings and a jitter, while others call.
* **Burst against back-off.**  The throttle lets requests go `tolerance` before
  their arrival time, and must not when a server has asked it to wait.
* **Relative timers.**  A sleep starts after the lock is released; tasks are
  woken late, cancelled, or preempted before they start to sleep.
* **Several limiters.**  A request denied by one has already been charged by
  those before it.
* **Two parties.**  Limiter and throttle mirror each other's arithmetic, on
  clocks of their own, through responses that may be lost and requests that
  arrive late and from other addresses.
* **Shared fields.**  Every limiter on the way adds to the same two header
  fields, and one malformed line spoils all of them.
* **Edges.**  A count of zero, a burst above the count, sums beyond the last
  `Instant`, waits of whole seconds plus a fraction of a nanosecond.

`PROJECT.json` lists every hazard at its line, with the properties that bear on
it.

What makes each component correct:

* *Bucket and store*: a key is never admitted more than one full bucket plus
  what the elapsed time refilled (`NoOverAdmission`; with stale instants,
  `AdmissionLaw`); expiry loses nothing (`IdleIsFull`); a denied request that
  waits as told is admitted (`PromiseKept`); caller by caller the answers are
  those of a meter without timestamps, cache or expiry (`ImplementsMeter`).
* *Limiter*: what is served keeps to every quota of the stack
  (`ServedWithinQuota`); `Retry-After` and `t` are kept (`RetryKept`,
  `ResetKept`); a response names the limiters that metered it (`Announced`).
* *Throttle*: slots keep their spacing (`SlotSpacing`), what goes out keeps to
  the quota (`WithinQuota`), and later claims wait out every back-off
  (`BackoffHonoured`).
* *Headers*: what is heard is what was said, all of a field or nothing
  (`LimitsHeard`, `PoliciesHeard`), and a client waits as long as it was asked to
  (`PushbackHeard`).
* *Limiter and throttle together*: each peer is metered alone, by its network
  (`PeerMetered`); clients that pace themselves, or that listen, are not refused
  (`PacedNeverRefused`, `ListenerNeverRefused`); every claimed request goes out
  (`GoesOut`) and nobody is refused for ever (`ServedAgain`).

## 2. The modules

| Module | Models | Uses |
|---|---|---|
| `Quota` | the quota, rounding of durations | |
| `Maps` | finite maps (HashMap, moka, Option) | |
| `Bucket` | `bucket.rs` as operators | `Quota` |
| `Meter` | what the store promises: a debt per key that drains by itself | `Bucket` |
| `Store` | `store.rs` with racing threads, expiry and eviction | `Bucket`, `Maps`; `Meter` by refinement |
| `Limiter` | `limiter.rs`, stacked, on the abstract store | one `Meter` per limiter, `Maps` |
| `Signals` | `server_backoff` of `client.rs`, on parsed fields | |
| `Throttle` | `client.rs` with racing tasks | `Quota`, `Signals`, `Maps` |
| `NetworkKey` | `network_key` of `limiter.rs` | |
| `Headers` | both header fields, written, read and relayed (`headers/`) | `Signals` |
| `EndToEnd` | throttled clients against a `by_network` limiter, with relative time | operators of `Throttle`, `Limiter`, `Meter`; `Signals`, `NetworkKey` |
| `MCStore`, `MCLimiter`, `MCThrottle`, `MCHeaders`, `MCEndToEnd` | values for TLC | |
| `Lemmas` | facts about arithmetic, quotas, maps | `Quota`, `Maps` |
| `BucketLemmas` | facts about the bucket's operators | `Bucket` |
| `StoreProofs`, `StoreMeter` | theorems about `Store`; `StoreMeter`: it implements `Meter` | `Store` |
| `LimiterProofs` | theorems about `Limiter` | `Limiter` |
| `ThrottleProofs` | theorems about `Throttle` | `Throttle` |
| `HeadersProofs` | theorems about `Headers` | `Headers` |
| `EndToEndProofs` | theorems about `EndToEnd` and `NetworkKey` | `EndToEnd` |

**Time and tokens.**  Time is an integer; a tick stands for the nanosecond that
`Duration` counts in.  The code keeps levels as `f64` and refills them at
`count / window` tokens per second.  The models divide a token into `Window`
equal parts, so that one tick refills exactly `Count` parts and levels are
integers: the code's arithmetic over the rationals.  Rounding of an `f64` level
is therefore *not* modelled; rounding of a duration to whole nanoseconds
(`Duration::from_secs_f64`, in `seconds_to_refill` and in the throttle's
interval) is (`Nearest`), and so is rounding up to whole seconds (`SecsCeil`).

**Bucket.**  `TryConsume(b, now, cost)` is `try_consume`: `Refill` credits the
saturating elapsed time, caps and stamps; `Spend` pays if `Admits`;
`DecisionOf` is the `Decision`.  `Option<Duration>` is a set of at most one.

**Meter.**  The abstract store keeps a debt per key, which drains by itself.  All that
a caller can tell of moka is when debts are forgotten, and `Meter` says so: that of a
key idle for one window, paid or not (`Drained`), and, when there are more keys than
room, that of any key at any time (`Forget`).  `idle` counts the ticks since the last
request.  With a burst within the count an idle window has repaid every debt, and
forgetting it changes nothing.

**Store.**  `ReadClock` is `let now = Instant::now()` (store.rs:43); `Compute` is
the whole compute closure (store.rs:45-56), atomic because moka runs it under a
per-key lock.  Between the two a thread may be stalled for up to `MaxStall`
ticks.  moka is external: `Sweep` drops an entry once it is idle, `Evict` drops
any entry while there are too many (its choice by frequency is left open), and
`Live` does not serve an idle entry that has not been swept.  `ledger` is a
history variable; `births` in it also bounds `Evict`.

**Limiter.**  `Skip`, `Reject` and `Meter` are the branches of `run`
(limiter.rs:215-256).  Which keys the extractors of a stack return for a request
is its caller's (`Callers`).  Its store is the abstract one, `Meter`, which forgets:
`Tick` expires what idled for a window, `Evict` drops a partition when the callers
use more of them than the capacity.  That `Store` implements it with instantaneous
calls, `store_meter` shows for stores that forget nothing unpaid and
`ImplementsMeterHolds` for any burst and any capacity.  `births` in `tally` counts the
buckets made for a partition, and also bounds `Evict`.  `r`, `t` and `Retry-After` are
values here; their text, and `pk`, are in `Headers`.

**Throttle.**  `Arrive` evaluates the clock (client.rs:149), `Claim` is `claim`
under the mutex and the test of the delay, `Sleep` starts the relative timer,
`Wake` is the poll after it ran out, at any later time.  `Push`, `Panic` and
`Respond` are `after_response` up to the mutex, by what the response asks for;
`BackOff` is `back_off` under the mutex.  `Cancel` drops a future at an await
point.  `Horizon` is the last instant that `Instant` can represent: beyond it
`checked_add` leaves the schedule as it is and `Instant::now() + backoff` panics.
`log`, and a request's `ticket` and `until`, are history; the number of claims
in `log` also bounds `Arrive`.  `Tolerance` is without the clamps of client.rs:73-76
(to `u32::MAX` intervals and to `Duration::MAX`): where they bite, the code's tolerance
is smaller than the model's, and its requests go later.

**Headers.**  A field is a sequence of lines, a line a sequence of items, an item a
value and parameters; a text is a sequence of symbols in which only `\`, `"` and
unprintable runs are told apart.  A parameter's key is one
of the six that the parsers know, or `other`.  A partition key is taken in its base64
wire form: `RateLimiter` always encodes it (limiter.rs:225), and `with_partition_key`
asks for that form but takes any string (rate_limit.rs:54-55); what one that is no
base64 does to the field is not modelled.  `DisplayLimit` and `DisplayPolicy` are
the `Display` impls, `ParseLimit` and `ParsePolicy` one turn of the loop of
`parse_list`, `FromHeaders` is `from_headers` with its early return.  sfparse is
external and modelled as the RFC 9651 syntax it accepts (`WellFormed`).
`Advertise` is the end of `RateLimiter::run` (limiter.rs:225-256); `Foreign` adds
lines of other servers; `Relay` is a program that parses both fields and formats
what it got.  `MeantLimit`, `MeantPolicy` and the `means` of a foreign line are
the oracle: they say in values, without any syntax, what ought to be heard.
Three things cannot be said at all, and the oracle says so: a window under a
second (written `w=0` and dropped), a name that is not printable ASCII, and an
integer of more than 15 digits, be it a count, a reset or a window in seconds; the
latter two spoil the field.

**EndToEnd.**  `Ask` is `claim` and the start of the sleep, `Reach` the arrival of
the request at the limiter and its `run`, `Hear` is `after_response`.  The
operators are those of `Throttle` (`ProceedAt`, `Advanced`, `Target`, `Raised`),
`Limiter` (`Reset`, `RetryAfter`) and `Meter` (`Verdict`, `Owed`), evaluated at
the present instant, 0: schedules, timers and debts are kept relative to the
clock, so that the system may run for ever in finitely many states.  That is
exact for a schedule in the past, as `claim` starts from `max(now, tat)`.  `Forget`
lets the store forget any debt at any time, which covers expiry and every eviction.
The limiter's clock and the clients' run at the same pace.  `heard` is history.

## 3. What TLC checks

| Run | Expect | States | Shows |
|---|---|---|---|
| `store_meter` | pass | 1.2M | two threads, two keys, instantaneous calls: no over-admission, and `Store` implements `Meter` answer by answer |
| `store_threads` | pass | 1.8M | two threads stalled up to two ticks, with evictions: `AdmissionLaw`, `IdleIsFull`, `PromiseKept` |
| `store_stale` | violation | | out-of-order instants admit more than burst plus refill |
| `store_burst` | violation | | expiry forgets debt when the burst exceeds the count |
| `store_zero` | violation | | with a count of zero, a denied request is denied again after the advertised wait of zero |
| `limiter_stack` | pass | 2.1M | two connections through three limiters with all missing-key policies, one of which forgets debts |
| `limiter_ceil` | violation | | `Retry-After` may be short by a fraction of a nanosecond |
| `throttle_pacing` | pass | 2.7M | three tasks, stale instants, late wake-ups, cancellations, push-backs, horizon |
| `throttle_order` | violation | | a request preempted before its sleep is overtaken by a later claim |
| `throttle_inflight` | violation | | a request that holds a slot goes out during a back-off |
| `headers_relay` | pass | 73K | three limiters' and six other servers' lines, in any order, relayed at any time |
| `end_to_end` | pass | 112K | a paced client with two tasks and a hasty one, one limiter, for ever |

Each property of a passing run is also shown to fail when one operator of the
model is replaced by a plausible slip of the code; these variants stand in the
modules, marked as wrong, and `PROJECT.json` pairs them with the properties.

### Bounds

* `store_threads`: one key suffices, as `Compute` on one key touches no other.
  A capacity of zero partitions makes every entry evictable, so that each of
  three births can follow an eviction; six ticks are two windows of three; two
  stalls of two ticks give instants out of order by up to two ticks; costs of
  one and two tokens give partial levels.
* `store_meter`: two keys, and `Count` 3 per `Window` 2, so that tokens arrive at
  fractions of a tick and waits are rounded; five ticks are two and a half
  windows, so that entries expire.
* `store_zero`: the clock ends a tick before the window of four, so that the
  denials are those of one bucket; after an idle window there is a fresh, full one.
* `limiter_stack`: first a limiter that everybody shares, of one token per two ticks
  with a burst of two and no room in its store: it forgets debts, as the burst takes
  two windows to refill and as every entry is evictable.  Then one of two tokens per
  three ticks with a burst of one and a jitter of one, which skips some callers, and
  one of one token per tick, which rejects the callers that the second skips; these
  two are lossless (`Lossless`).  Seconds of three ticks, so that rounding up matters;
  six ticks, so that every window passes at least twice; only the
  first bucket of a partition is evicted, later ones expire.
* `throttle_pacing`: an interval of two ticks and a tolerance of two; four claims
  are more than the burst covers; a wait of three ticks and one beyond the
  horizon, which lies at 12, past the clock's bound of 6 by less than the
  schedule can run ahead.
* `headers_relay`: up to six lines in both fields together, three limiters among
  them, so that a malformed line stands before, between and after good ones;
  `Relay` is unbounded and reaches a fixed point.  The five limiters and six lines
  of `MCHeaders` are one of each kind: quoting, a window of one and a half
  seconds and of half a second, `pk`, a refusal, a name and a quota that cannot
  be written; repeated, misplaced and ill-typed parameters, items of other kinds,
  inner lists well formed and not, bytes that are no text, units of both kinds.
* `end_to_end`: the limiter refills a token in two ticks, one second, and holds
  two; the paced client has that rate, a burst of one and two tasks, and connects
  from an IPv4 address plain and mapped; the hasty one has twice the rate and
  twice the burst, one task, and two addresses of a /64.  Requests are up to one
  tick late.  `MaxAhead` (6) bounds schedules from above in `Ask` only: three
  intervals of the paced client, which has two tasks, but may cancel.
* `MaxClock` and `MaxClaims` end a throttle run, and a response in
  `headers_relay` is complete at some point, so their deadlock checks are off.
  The other runs check for deadlock: some thread or connection can always go on.

Every bound is a CONSTANT used in a guard (`MaxClock`, `MaxBirths`, `MaxClaims`,
`MaxLines`, `MaxAhead`); the theorems hold for all their values.  `MaxLate` is, like
`MaxStall`, an assumption: the runtime and the network deliver within it.  `MaxStall` is an assumption, not only a
bound: `AdmissionLaw` is stated in terms of it.

### Fairness

`end_to_end` assumes that time goes on, `WF(Tick)`, and that a request whose timer
has run out gets to the limiter, `WF(Arrival(r))` for each task: the runtime polls
a future whose timer fired, and the network delivers (or the request is
cancelled, which disables the action).  `Tick` waits for requests that are
`MaxLate` late, so that the two cannot starve one another.  Nothing is assumed of
`Ask`, `Hear` and `Cancel`: a client need not send again, its responses may be lost
and its futures dropped.  `GoesOut` and `ServedAgain` follow nevertheless.  Weak
fairness is enough, as a sleeping request stays enabled once it is due until it
goes out or is cancelled.  The other runs check safety and assume no fairness.

## 4. Where the code and its documentation differ

1. *Concurrent calls can over-admit* (`store_stale`).  store.rs:39-40 says that
   they cannot, because of moka's lock; but `now` is read before the lock
   (store.rs:43) and `try_consume` stamps the bucket with it even when it is
   older than the stamp (bucket.rs:49), so the interval in between is credited
   twice.  `AdmissionLaw` bounds the excess: one stall's refill per call
   computed out of order.
2. *Expiry is not lossless for bursts above the count* (`store_burst`;
   store.rs:26-27 and 32).
3. *A count of zero advertises a wait of zero* (`store_zero`; bucket.rs:27
   and 77-78): a request denied and told to retry at once is denied again.  Only an
   idle window helps it, as the store then builds a fresh, full bucket.
4. *Retry-After may be short by less than half a nanosecond* (`limiter_ceil`;
   limiter.rs:271-272 and bucket.rs:80).  `RetryKept` allows for one tick.
5. *Requests need not wake in claim order* (`throttle_order`; client.rs:122-124
   and 151).
6. *A back-off does not delay requests that already hold a slot*
   (`throttle_inflight`; client.rs:51-53 and 142-143).
7. *Retry-After is on refusals only*: README.md:21-22 has the handler advertise
   `RateLimit`, `RateLimit-Policy` and `Retry-After` "on every metered response", and
   lib.rs:6-8 "on metered responses", but `run` returns before it inserts `Retry-After`
   if the request is allowed (limiter.rs:248-254).  In `Limiter` this is one assignment
   of `Meter`, so no run is spent on it; `Announced` asks for `Retry-After` where code
   and documentation agree, on refusals.

## 5. What is proved

| Theorem | Module | Assumes |
|---|---|---|
| `TypeCorrect` | `StoreProofs` | |
| `AdmissionLawHolds` | `StoreProofs` | |
| `IdleIsFullHolds` | `StoreProofs` | `Burst <= Count` |
| `PromiseKeptHolds` | `StoreProofs` | `Count > 0`, every cost at most `Burst` |
| `ImplementsMeterHolds` | `StoreMeter` | `MaxStall = 0` |
| `NoOverAdmissionHolds` | `StoreMeter` | `MaxStall = 0`, `Burst <= Count`, finitely many keys, room for all |
| `TypeCorrect` | `LimiterProofs` | |
| `ServedWithinQuotaHolds` | `LimiterProofs` | |
| `AnnouncedHolds` | `LimiterProofs` | |
| `RetryKeptHolds` | `LimiterProofs` | every limiter's count and burst positive |
| `ResetKeptHolds` | `LimiterProofs` | every limiter's count and burst positive |
| `TypeCorrect` | `ThrottleProofs` | |
| `SlotSpacingHolds` | `ThrottleProofs` | |
| `BackoffHonouredHolds` | `ThrottleProofs` | |
| `WithinQuotaHolds` | `ThrottleProofs` | `Interval * Later(Count, 1) >= Window` |
| `QuoteRoundTrip` | `HeadersProofs` | |
| `LimitRoundTrip` | `HeadersProofs` | |
| `PolicyRoundTrip` | `HeadersProofs` | |
| `TypeCorrect` | `HeadersProofs` | |
| `LimitsHeardHolds` | `HeadersProofs` | `Understood` |
| `PoliciesHeardHolds` | `HeadersProofs` | `Understood` |
| `PushbackHeardHolds` | `HeadersProofs` | `Understood` |
| `NetworkKeyTellsNetworks` | `EndToEndProofs` | |
| `TypeCorrect` | `EndToEndProofs` | |
| `PeerMeteredHolds` | `EndToEndProofs` | `OneNetworkEach` |
| `PacedNeverRefusedHolds` | `EndToEndProofs` | `NoneShared` |
| `ListenerNeverRefusedHolds` | `EndToEndProofs` | `OneNetworkEach`, `Steady` |

Each holds for every quota, every set of keys, threads, scopes, tasks and
responses, every stack of limiters with its callers and connections, every
alphabet and all field lines of any length, every set
of clients with their quotas, tasks and addresses, and every bound, under the
named assumptions on the constants (`QuotaAssumption`, `StoreAssumption`,
`LimiterAssumption`, `ThrottleAssumption`, `HeadersAssumption`,
`EndToEndAssumption`), which TLC evaluates on each run.  The extra assumptions are needed: `store_burst` is the
counterexample without `Burst <= Count`, `store_stale` without `MaxStall = 0`,
`store_zero` without a positive count; an eviction forgets what a key owes; a
burst of zero admits nobody, whatever it promises; and an interval rounded down
paces requests a trace faster than the quota.

`ServedWithinQuotaHolds` needs no assumption because the property distinguishes: a
limiter that forgets nothing unpaid (`Lossless`: a burst within the count, and room for
every partition that its callers use) serves one burst and what time refills; any
other, one burst for each bucket that was made.  `LimitRoundTrip` and `PolicyRoundTrip`
are about every value that the builders make of base64 partition keys, with any reset
or window, and say what comes back: a reset rounded down to whole seconds (one below a
second as zero), a window likewise, or none below one second.

Between the parties, `NoneShared` says that no two clients come from one
network, as the limiter charges a network for whatever comes from it;
`OneNetworkEach` says besides that a client has only one, as what it is told of
one network says nothing of another.  Both are stated in terms of addresses
(`SameNetwork`), not of keys.  `Steady` asks for a count above zero and, unless
an interval is a whole number of nanoseconds, for room for one nanosecond's
refill above the one token: with a count of 2 per window of 3 and a burst of
one, and seconds of one tick, TLC finds a client that is refused after a wait
rounded down, the same shortfall as difference 4 of section 4.  The clients and
the limiter of `end_to_end` satisfy all three.

Of the fields, `Understood` says that a line of another server means what the
parser reads of that line alone.  The theorems are about what becomes of it among
other lines, behind malformed ones and through relays.  `headers_relay` checks it
for its own lines, whose meanings are written out by hand: when the first step adds
one of them, its field has only that line, and `LimitsHeard` or `PoliciesHeard` says
of it what `Understood` does.  What limiters advertise needs no hypothesis: its
meaning (`MeantLimit`, `MeantPolicy`) is stated without any syntax, and the theorems
cover the quoting and parsing of every name, number and key.

**The store.**  `AdmissionLaw` speaks of admissions alone and is not inductive.
The invariant adds to it what the bucket holds: for each live bucket,
admissions plus level are at most one capacity per birth plus the refill up to
the bucket's own stamp, plus one stall's refill for each rewind.  A refill moves
the stamp forward by exactly what it credits; a stale call moves it back by at
most `MaxStall` and is counted as a rewind; expiry and eviction only forget a
level, and the next birth pays for a capacity.

**The promise.**  A denial at instant `n` promises admission from an instant on.
The invariant says that, for each outstanding promise of a key with a bucket,
the bucket's level plus the refill from its stamp to the promised instant covers
the promised cost.  Denials leave the level as refilled (credit taken is credit
stamped), stale stamps only add credit, a fresh bucket is full, and rounding is
covered by the one tick that the promise allows.

**The refinement.**  A key's debt is what its bucket is short of its capacity,
less what the time since its stamp will credit (`Lacking`); a key without a live
entry owes nothing.  That falls by `Count` with each tick, down to zero, or to zero at
once in the tick in which its entry has idled for a window (`Drained`); it is what
refilling leaves short, so that `try_consume` answers as the meter does, in all four
fields of the `Decision`.  Sweeping is a stutter, as an idle entry is dead before it is
swept, and so is the eviction of a dead entry; that of a live one is `Forget`.  The
invariant of `StoreProofs` supplies the rest: stamps are not in the future, and no
later than the last access.  `NoOverAdmission` follows by counting in terms of debts:
with a burst within the count and room for all keys what a key was admitted, it owes
or time has repaid (`Repaid`).

**The limiter stack.**  `ServedWithinQuota` counts what was served, but a limiter
charges what it lets pass, which a later limiter may still refuse.  The invariant
(`Covered`) adds the requests past a limiter and not yet served: together with
those served they cost at most what their partition owes and what time has
repaid.  Passing moves one token into what is owed, a refusal further on only
takes a request out of the count, serving moves it from one summand to the other,
and a tick repays at most what it adds.  A debt that is forgotten unpaid was at most
a burst, so a lossy limiter is credited with one for each bucket that is gone
(`Credit`).  A lossless one needs none: each tick without a request repays count, and an
idle window the whole burst (`Draining`).  The promises need how fast a debt drains
instead: one tick after each `Retry-After` a token fits (`Retriable`), one tick
after each `t` nothing is owed (`Replenished`).  Rounding up to seconds and the
jitter only delay an instant; rounding to the nearest nanosecond costs that tick.
An admission withdraws the promises made before, so no debt grows under one.
`Announced` needs to know of a request under way what it collected: one item for
each limiter that metered it, in the order of the stack (`MeteredTold`), and none
from those that let it by (`UnmeteredTold`).

**The throttle.**  `SlotSpacing` relates any two slots, but `claim` knows only
`tat`.  The invariant says how far `tat` runs ahead: of each slot claimed, by one
interval for it and for every later claim (`Ahead`), and of each wait asked for,
by the tolerance (`Floors`).  A claim reads a slot at most `tolerance` before
`tat` and moves `tat` on by an interval, from which spacing and back-off follow;
near the horizon the schedule stands still, hence `BeforeHorizon`.  For
`WithinQuota`, what is on the wire has a slot no later than the clock, some
ticket among n is at least n, and n spaced slots need n less burst intervals.

**The fields.**  Texts, items and lines are built and read by concatenation.  That
concatenation may be taken apart at any point is shown by induction, stated as a
fact about sets of naturals, on the length of the sequence.  `QuoteRoundTrip`: each
character is quoted by itself and a quoted piece ends outside an escape, so
the escapes of a quoted text are those of its pieces.  `LimitRoundTrip` and
`PolicyRoundTrip`: the parameters that `Display` writes have different keys, so that
the last one of a key is the only one.  Two invariants carry these over to the
system.  `FieldsTyped` says that lines are lines, whoever wrote them.  `FieldsHeard`
says that for both fields reading gives what was meant, and that what was meant can
be written again without loss: names and units are printable, numbers have at most
15 digits, windows are whole and positive seconds, and a unit that has a name of its
own is not spelled out.  The latter is why `Relay` is a fixed point, and is not part of
`LimitsHeard`, which is therefore not inductive.  A malformed line makes both sides
empty for good, as lines are only added and `Relay` is then disabled.
`PushbackHeard` follows; a longest wait exists, as waits have a bound.

**Whom a key stands for.**  `NetworkKeyTellsNetworks` says which addresses
`network_key` tells apart, with no reference to how it does: two addresses get the
same key just if both carry the same IPv4 address, plain or mapped, or neither
carries one and they share their first four segments.  `PeerMetered` follows, with
the lemma that a step that reaches the limiter is that of the request's owner.

**Pacing.**  `PacedNeverRefused` sees neither the schedule nor the debt, and has to
allow for other rates, for lateness and for requests cancelled in their sleep.
Of the schedule, the invariant (`PInv`) says that for every point y, each slot
from y on has moved it one interval further (`Claimed`), and that the slots between
any two points are an interval apart, less one burst (`Spaced`).  A debt drains at
the limiter's pace, slots pass at the client's; so the limiter's debt is
compared with a virtual one that costs one interval per request and repays one
tick per tick (`Mirror`).  The real one stays below, as the client's pace is no
faster.  The virtual debt and the slots still sleeping keep within the schedule's
burst and the lateness; `Reach` moves an interval from the slots to the debt,
`Tick` lowers both sides by one, `Cancel` only takes a slot out of the sum.  A due
request then finds the debt at most a burst less one interval, which is room for it.

**Listening.**  A client that honours signals is always waiting by something
for as long as its bucket needs: by its schedule while it has no request, by the
slot while one sleeps, and by the answer until it has been heard (`Awaited`).
What is left of that wait falls by one per tick, the debt by `Count`.  When `t` is
computed the rounding costs up to one tick's refill (`Slack`), unless an interval
is a whole number of ticks and thus every debt too (`Whole`).

Every safety property that a passing run checks is proved.  Only model-checked
is liveness under fairness (`GoesOut`, `ServedAgain`), as it and ENABLED are out of
the prover's reach.  No module has a RECURSIVE operator.

## 6. Plan

Done: the store with its abstract meter, the limiter stack on that meter, the
throttle, the header fields, the network key and the composition of client and
limiter, with the proofs of section 5.  To come, in this order:

1. `EndToEnd` without the atomicity of `Ask`: the clock read and the timer's
   start apart from the claim, as in `Throttle`, and a step simulation between
   the two modules' schedules.
2. A throttle run with a rounded interval, where `WithinQuota` needs the
   assumption of the theorem.

## 7. Not modelled

* `Debug` impls, feature gates, getters and `into_owned`: no behaviour, or the
  identity; `with_status` changes a number nobody reads.
* moka's eviction policy (any entry may go), the runtime's timers beyond "not
  before the delay", f64 rounding of levels, the clamps of a tolerance of more than
  `u32::MAX` intervals or `Duration::MAX` (client.rs:73-76), and the scope closure (a
  set of scopes).
* Partition keys that are not base64, which only a caller of `with_partition_key` can
  make (rate_limit.rs:54-55).
* sfparse beyond what it accepts: where in a malformed line it stops does not
  matter, as the whole field is dropped.
* A `Retry-After` with an HTTP date: `server_backoff` ignores it (client.rs:175-179),
  as it does an absent one.  `QuotaUnit::Other("requests")`, which can be built by
  hand and is read back as `Requests`: no parser returns it.
* Clocks of client and server that run at different rates.
* Poisoned mutexes: `claim` and `back_off` recover the guard
  (`PoisonError::into_inner`), and nothing under the lock panics, as the one sum
  that can (client.rs:140) is computed before it is taken.
* The growth of the throttle's scope map, which is never pruned.
