------------------------------ MODULE Limiter ------------------------------
(***************************************************************************)
(* The handler of src/src/limiter.rs, stacked: a request meets the limiters *)
(* of a Stack in turn, each with its own quota, key extractor and store,    *)
(* until one of them halts it or the handler behind them all serves it.     *)
(* Requests on several connections interleave between any two handlers.     *)
(*                                                                          *)
(* A limiter's store is the abstract one, Meter.tla, which Store.tla        *)
(* implements: consuming from it is one atomic step, time repays what its   *)
(* partitions owe, and what they owe is forgotten once they idled for one   *)
(* window or when the store evicts them.                                    *)
(*                                                                          *)
(* `tally` is a history variable: only the bound in Evict reads it.          *)
(***************************************************************************)
EXTENDS Integers, Sequences, FiniteSets, Maps

CONSTANTS
  Stack,     \* the limiters in the order of the handler tuple: see Limiter
  Keys,      \* values that key extractors may return
  Callers,   \* what the extractors of the stack return for a request
  Conns,     \* connections, each carrying one request at a time
  Second,    \* ticks in one second
  MaxClock,  \* bound on the clock, for model checking
  MaxBirths  \* bound on evictions of one partition, for model checking

\* What a limiter does with a request that has no key.
MissingKey == {"Skip", "Reject", "Shared"}

\* jitter is in ticks, capacity in partitions.  The policy name of a limiter is
\* its place in Stack.
Limiter == [count : Nat, window : Nat \ {0}, burst : Nat,
            missing : MissingKey, jitter : Nat, capacity : Nat]

\* Quota::per and its burst, and the limiter built from a quota.
Per(count, window)   == [count |-> count, window |-> window, burst |-> count]
AllowBurst(q, burst) == [q EXCEPT !.burst = burst]

NewLimiter(q) == [count |-> q.count, window |-> q.window, burst |-> q.burst,
                  missing |-> "Skip", jitter |-> 0, capacity |-> 100000]
WithMissingKey(l, missing) == [l EXCEPT !.missing = missing]
WithJitter(l, jitter)      == [l EXCEPT !.jitter = jitter]
WithCapacity(l, capacity)  == [l EXCEPT !.capacity = capacity]

ASSUME LimiterAssumption == /\ Stack \in Seq(Limiter)
                            /\ Callers \subseteq [DOMAIN Stack -> {{}} \cup {{k} : k \in Keys}]
                            /\ Second \in Nat \ {0}
                            /\ MaxClock \in Nat
                            /\ MaxBirths \in Nat

Limiters == DOMAIN Stack

\* The keys of a store are Option<K>: a set with at most one key.
Partitions == {{}} \cup {{k} : k \in Keys}

\* Limiter l meters a request if there is a key, or all requests without one
\* share a bucket.
Meters(l, keys) == keys[l] # {} \/ Stack[l].missing = "Shared"

\* The partitions that limiter l may meter.
Used(l) == {keys[l] : keys \in {all \in Callers : Meters(l, all)}}

VARIABLES
  clock,   \* the time
  owed,    \* limiter -> partition -> parts consumed and not yet refilled
  idle,    \* limiter -> partition -> ticks since its last request, window at most
  conn,    \* connection -> the request on it: see Requests
  tally    \* history, per limiter and partition: see Tallies

vars == <<clock, owed, idle, conn, tally>>

\* at: the limiter the request has come to.  keys: of its caller.  items: the
\* limiters that the RateLimit and RateLimit-Policy fields of the response name
\* so far (what they say of them is in tally).
Requests == [at : 1..(Len(Stack) + 1), keys : Callers,
             items : Seq(Limiters), halted : BOOLEAN, retry_after : BOOLEAN]

\* served: metered requests that were served in the end.  births: buckets made
\* for the partition.  retry, full: the earliest instants at which, by the
\* responses since the last admission, a request was to be admitted and the
\* quota to be replenished.
Tallies == [served : Nat, births : Nat, retry : SUBSET Nat, full : SUBSET Nat]

TypeOK ==
  /\ clock \in Nat
  /\ owed \in [Limiters -> [Partitions -> Nat]]
  /\ \A l \in Limiters, p \in Partitions :
       owed[l][p] <= Stack[l].burst * Stack[l].window
  /\ idle \in [Limiters -> [Partitions -> Nat]]
  /\ \A l \in Limiters, p \in Partitions : idle[l][p] <= Stack[l].window
  /\ DOMAIN conn \subseteq Conns
  /\ conn \in [DOMAIN conn -> Requests]
  /\ tally \in [Limiters -> [Partitions -> Tallies]]

-----------------------------------------------------------------------------

\* The store of limiter l.
Store(l) == INSTANCE Meter WITH
              Count         <- Stack[l].count,
              Window        <- Stack[l].window,
              Burst         <- Stack[l].burst,
              Keys          <- Used(l),
              Costs         <- {1},
              MaxPartitions <- Stack[l].capacity,
              debt          <- owed[l],
              idle          <- idle[l],
              answer        <- << >>

(* Deliberately wrong variants of the operators below, standing for         *)
(* plausible slips in limiter.rs; the properties are shown to notice them.  *)

\* Whole seconds are rounded down.
SecsFloor(d) == d \div Second

\* A header line replaces those of the limiters before: insert, not append.
Replaced(items, item) == <<item>>

\* The status is set on an over-quota request, but the connection not halted.
HaltsNever(verdict) == FALSE
-----------------------------------------------------------------------------

\* secs_ceil: whole seconds, rounded up.
SecsCeil(d) == d \div Second + (IF d % Second > 0 THEN 1 ELSE 0)

\* random_jitter: any delay up to the configured one.
Jitters(l) == 0..Stack[l].jitter

\* headers.append.
Appended(items, item) == Append(items, item)

\* A request over quota goes no further.
Halts(verdict) == ~verdict.allowed

\* The advertised reset, t, and Retry-After, in seconds, j being the jitter
\* drawn for the response.
Reset(verdict, j) == SecsCeil(verdict.time_to_full + j)
RetryAfter(verdict, j) == {SecsCeil(wait + j) : wait \in verdict.retry_after}

\* The request on c is before a limiter, or the handler behind them.
Before(c, l) == c \in DOMAIN conn /\ conn[c].at = l /\ ~conn[c].halted

\* Bookkeeping: a response gives the advertised instants, in seconds from now.
Promised(seconds, earlier) ==
  LET all == earlier \cup {clock + s * Second : s \in seconds}
  IN  {i \in all : \A k \in all : i <= k}

Counted(t, born, verdict, j) ==
  LET earlier(instants) == IF verdict.allowed THEN {} ELSE instants
  IN  [served |-> t.served,
       births |-> t.births + (IF born THEN 1 ELSE 0),
       retry  |-> Promised(RetryAfter(verdict, j), earlier(t.retry)),
       full   |-> Promised({Reset(verdict, j)}, earlier(t.full))]

-----------------------------------------------------------------------------

Init ==
  /\ clock = 0
  /\ owed = [l \in Limiters |-> [p \in Partitions |-> 0]]
  /\ idle = [l \in Limiters |-> [p \in Partitions |-> Stack[l].window]]
  /\ conn = << >>
  /\ tally = [l \in Limiters |-> [p \in Partitions |->
                [served |-> 0, births |-> 0, retry |-> {}, full |-> {}]]]

\* Time passes, for every store.
Tick ==
  /\ clock < MaxClock
  /\ clock' = clock + 1
  /\ owed' = [l \in Limiters |-> [p \in Partitions |->
                Store(l)!Drained(owed[l][p], idle[l][p])]]
  /\ idle' = [l \in Limiters |-> [p \in Partitions |-> Store(l)!Idled(idle[l][p])]]
  /\ UNCHANGED <<conn, tally>>

\* A request comes in.
Arrive(c, keys) ==
  /\ c \notin DOMAIN conn
  /\ conn' = Assign(conn, c, [at |-> 1, keys |-> keys, items |-> << >>,
                              halted |-> FALSE, retry_after |-> FALSE])
  /\ UNCHANGED <<clock, owed, idle, tally>>

\* run, no key, MissingKey::Skip.
Skip(c, l) ==
  /\ Before(c, l)
  /\ conn[c].keys[l] = {}
  /\ Stack[l].missing = "Skip"
  /\ conn' = [conn EXCEPT ![c].at = @ + 1]
  /\ UNCHANGED <<clock, owed, idle, tally>>

\* run, no key, MissingKey::Reject.
Reject(c, l) ==
  /\ Before(c, l)
  /\ conn[c].keys[l] = {}
  /\ Stack[l].missing = "Reject"
  /\ conn' = [conn EXCEPT ![c].halted = TRUE]
  /\ UNCHANGED <<clock, owed, idle, tally>>

\* run, with a key or the shared one: consume, advertise, pass on or halt.
Meter(c, l) ==
  /\ Before(c, l)
  /\ Meters(l, conn[c].keys)
  /\ LET p       == conn[c].keys[l]
         verdict == Store(l)!Verdict(owed[l][p], 1)
         halts   == Halts(verdict)
         born    == idle[l][p] = Stack[l].window
     IN  /\ owed' = [owed EXCEPT ![l][p] = Store(l)!Owed(@, 1)]
         /\ idle' = [idle EXCEPT ![l][p] = 0]
         /\ \E j \in Jitters(l) :
              tally' = [tally EXCEPT ![l][p] = Counted(@, born, verdict, j)]
         /\ conn' = [conn EXCEPT ![c] =
                       [at          |-> IF halts THEN l ELSE l + 1,
                        keys        |-> @.keys,
                        items       |-> Appended(@.items, l),
                        halted      |-> halts,
                        retry_after |-> verdict.retry_after # {}]]
  /\ UNCHANGED clock

\* The handler behind the limiters serves the request.
Serve(c) ==
  /\ Before(c, Len(Stack) + 1)
  /\ tally' = [l \in Limiters |->
                 IF Meters(l, conn[c].keys)
                 THEN [tally[l] EXCEPT ![conn[c].keys[l]].served = @ + 1]
                 ELSE tally[l]]
  /\ conn' = Drop(conn, c)
  /\ UNCHANGED <<clock, owed, idle>>

\* The response to a halted request is sent.
Refuse(c) ==
  /\ c \in DOMAIN conn
  /\ conn[c].halted
  /\ conn' = Drop(conn, c)
  /\ UNCHANGED <<clock, owed, idle, tally>>

\* The store of limiter l, with fewer partitions than keys, forgets one.
Evict(l, p) ==
  /\ ~Store(l)!Roomy
  /\ idle[l][p] < Stack[l].window
  /\ tally[l][p].births < MaxBirths
  /\ owed' = [owed EXCEPT ![l][p] = 0]
  /\ idle' = [idle EXCEPT ![l][p] = Stack[l].window]
  /\ UNCHANGED <<clock, conn, tally>>

Next ==
  \/ Tick
  \/ \E c \in Conns, keys \in Callers : Arrive(c, keys)
  \/ \E c \in Conns, l \in Limiters : Skip(c, l) \/ Reject(c, l) \/ Meter(c, l)
  \/ \E c \in Conns : Serve(c) \/ Refuse(c)
  \/ \E l \in Limiters, p \in Partitions : Evict(l, p)

Spec == Init /\ [][Next]_vars

-----------------------------------------------------------------------------
(* Properties.                                                              *)

\* Forgetting loses nothing: no eviction, and an idle window repays any debt.
Lossless(l) == Store(l)!Roomy /\ Stack[l].burst <= Stack[l].count

\* "Stack several limiters to enforce overlapping scopes" (limiter.rs:41):
\* the requests served keep to the quota of every limiter that metered them,
\* each on its own partition, at once.  A partition whose debts were forgotten
\* has a full burst for each bucket that was made for it (limiter.rs:127-128).
ServedWithinQuota ==
  \A l \in Limiters, p \in Partitions :
    LET bursts == IF Lossless(l) THEN 1 ELSE tally[l][p].births
    IN  tally[l][p].served * Stack[l].window <=
          bursts * (Stack[l].burst * Stack[l].window) + clock * Stack[l].count

\* The request on c has just been metered by l, and was refused.
Refused(c, l) ==
  /\ Before(c, l)
  /\ c \in DOMAIN conn'
  /\ conn'[c].halted
  /\ Meters(l, conn[c].keys)

\* Retry-After, jitter and rounding included, is enough: a request that comes
\* to the limiter at any time after it is admitted, unless the partition had
\* another admission in between, and whatever the rest of the stack did.
RetryKept ==
  [][\A c \in DOMAIN conn, l \in Limiters :
       Refused(c, l) => \A i \in tally[l][conn[c].keys[l]].retry : clock <= i]_vars

\* "we never advertise a retry sooner than the bucket can actually admit"
\* (limiter.rs:271-272): as RetryKept, also at the very instant advertised.
RetryNotTooSoon ==
  [][\A c \in DOMAIN conn, l \in Limiters :
       Refused(c, l) => \A i \in tally[l][conn[c].keys[l]].retry : clock < i]_vars

\* The reset t is "the delay until the available quota is replenished"
\* (rate_limit.rs:48-49): once it has passed, a partition that had no further
\* admission owes nothing.
ResetKept ==
  \A l \in Limiters, p \in Partitions :
    \A i \in tally[l][p].full : clock > i => owed[l][p] = 0

\* "each appends its own policy to the response headers" (limiter.rs:42): a
\* response names the limiters that metered the request, each once, in the
\* order of the stack, and one that the last of them refused says Retry-After.
\* (Whether others do, README.md:21-22 and limiter.rs:248-254 disagree.)
Announced ==
  \A c \in DOMAIN conn :
    LET q       == conn[c]
        handled == 1..(IF q.halted THEN q.at ELSE q.at - 1)
    IN  /\ {q.items[i] : i \in DOMAIN q.items} = {l \in handled : Meters(l, q.keys)}
        /\ \A i, j \in DOMAIN q.items : i < j => q.items[i] < q.items[j]
        /\ q.halted /\ Meters(q.at, q.keys) => q.retry_after
=============================================================================
