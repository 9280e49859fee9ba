------------------------------- MODULE EndToEnd -------------------------------
(***************************************************************************)
(* Throttled clients (client.rs) against one limiter (limiter.rs) that       *)
(* meters them by network: requests claim slots, reach the limiter, and the  *)
(* response's Retry-After and RateLimit fields push the client's schedule.   *)
(*                                                                          *)
(* The operators are those of Throttle, Limiter and Meter.  What is new is   *)
(* that there are no instants: a schedule is how far it lies ahead of the    *)
(* clock, a sleep is what is left of it, and a debt drains by itself.  The    *)
(* system may then run for ever in finitely many states.  (A schedule in the *)
(* past behaves as one at the present: claim starts from max(now, tat).)     *)
(* Steps between two awaits take no time here; Throttle has them apart.       *)
(* The limiter's store may forget a debt at any time, which covers the idle   *)
(* windows and the evictions that Meter and Store tell apart.                 *)
(*                                                                          *)
(* `heard` is a history variable: no action reads it.                        *)
(***************************************************************************)
EXTENDS Integers, FiniteSets, Sequences, Signals, NetworkKey, Maps

CONSTANTS
  Clients,    \* processes with a Throttle each, all calling one origin
  Profile,    \* client -> count, window, burst: its throttle's quota; honors: its
              \* honor_server_signals; tasks; addresses it connects from
  Server,     \* the limiter: see Limiter in Limiter.tla
  Second,     \* ticks in one second
  MaxLate,    \* ticks by which a due request may reach the limiter late
  MaxAhead    \* bound on the schedule, for model checking

Tasks       == UNION {Profile[c].tasks : c \in Clients}
Networks(c) == {network_key(a) : a \in Profile[c].addresses}
Peers       == UNION {Networks(c) : c \in Clients}
Owner(r)    == CHOOSE c \in Clients : r \in Profile[c].tasks

ASSUME EndToEndAssumption ==
  /\ \A c \in Clients : Profile[c].count \in Nat /\ Profile[c].window \in Nat \ {0}
                        /\ Profile[c].burst \in Nat /\ Profile[c].honors \in BOOLEAN
                        /\ IsFiniteSet(Profile[c].tasks)
                        /\ Profile[c].addresses \subseteq Addresses
  /\ Server.count \in Nat /\ Server.window \in Nat \ {0} /\ Server.burst \in Nat
  /\ Server.jitter \in Nat /\ Server.capacity \in Nat
  /\ \A c, d \in Clients : c # d => Profile[c].tasks \cap Profile[d].tasks = {}
  /\ Second \in Nat \ {0}
  /\ MaxLate \in Nat
  /\ MaxAhead \in Nat

VARIABLES
  ahead,   \* client -> ticks from now to its schedule's theoretical arrival time
  owed,    \* network -> parts consumed at the limiter and not yet refilled
  task,    \* task -> its request: see Requests
  heard    \* history: client -> knows the limiter's answer to all it consumed

vars == <<ahead, owed, task, heard>>

\* left: ticks until the slot; negative when the request is late.
Requests ==
  [stage : {"sleeping"}, left : {i \in Int : i >= -MaxLate}]
    \cup [stage : {"answered"}, allowed : BOOLEAN, response : ResponseType]

TypeOK ==
  /\ ahead \in [Clients -> Nat]
  /\ owed \in [Peers -> 0..(Server.burst * Server.window)]
  /\ DOMAIN task \subseteq Tasks
  /\ task \in [DOMAIN task -> Requests]
  /\ heard \in [Clients -> BOOLEAN]

-----------------------------------------------------------------------------

\* The throttle of client c, at the present instant, 0.
Throttle(c) == INSTANCE Throttle WITH
                 Count <- Profile[c].count, Window <- Profile[c].window,
                 Burst <- Profile[c].burst, HonorSignals <- Profile[c].honors,
                 Scopes <- Clients, Responses <- {}, Horizon <- MaxAhead,
                 MaxClock <- 0, MaxClaims <- 0,
                 clock <- 0, tat <- ahead, log <- << >>

\* The limiter, and the buckets of its store.
Limiter == INSTANCE Limiter WITH
             Stack <- <<Server>>, Keys <- {}, Callers <- {}, Conns <- {},
             MaxClock <- 0, MaxBirths <- 0, clock <- 0, owed <- <<owed>>,
             idle <- << >>, conn <- << >>, tally <- << >>
Buckets == INSTANCE Meter WITH
             Count <- Server.count, Window <- Server.window, Burst <- Server.burst,
             Keys <- Peers, Costs <- {1}, MaxPartitions <- Server.capacity,
             debt <- owed, idle <- << >>, answer <- << >>

\* What the limiter writes in the response, in ticks, j being the jitter drawn.
Response(verdict, j) ==
  [retry_after |-> {s * Second : s \in Limiter!RetryAfter(verdict, j)},
   limits      |-> {[remaining |-> verdict.remaining,
                     reset     |-> {Limiter!Reset(verdict, j) * Second}]}]

\* The schedule after_response leaves behind.
Pushed(c, response) ==
  LET waits == IF Profile[c].honors THEN ServerBackoff(response) ELSE {}
  IN  IF waits = {} THEN ahead[c]
      ELSE CHOOSE a \in {Throttle(c)!Raised(c, Throttle(c)!Target(w)) : w \in waits} : TRUE

\* A deliberately wrong variant of Due: on waking, the request looks at the
\* schedule again, and sleeps on while later claims have moved it.
DueOnSchedule(r) ==
  task[r].left <= 0 /\ ahead[Owner(r)] <= Throttle(Owner(r))!Tolerance

\* The timer of a sleeping request has run out.
Due(r) == task[r].left <= 0

Sleeping(r) == r \in DOMAIN task /\ task[r].stage = "sleeping"
Answered(r) == r \in DOMAIN task /\ task[r].stage = "answered"

-----------------------------------------------------------------------------

Init ==
  /\ ahead = [c \in Clients |-> 0]
  /\ owed = [n \in Peers |-> 0]
  /\ task = << >>
  /\ heard = [c \in Clients |-> TRUE]

\* Time passes, for the schedules, the buckets and the timers; no request that
\* is due is later than MaxLate.
Tick ==
  /\ \A r \in Tasks : Sleeping(r) => task[r].left > -MaxLate
  /\ ahead' = [c \in Clients |-> Buckets!SaturatingSub(ahead[c], 1)]
  /\ owed' = [n \in Peers |-> Buckets!SaturatingSub(owed[n], Server.count)]
  /\ task' = [r \in DOMAIN task |->
                IF Sleeping(r) THEN [task[r] EXCEPT !.left = @ - 1] ELSE task[r]]
  /\ heard' = [c \in Clients |-> heard[c] \/ \A n \in Networks(c) : owed'[n] = 0]

\* run: claim a slot and sleep until it comes.
Ask(c, r) ==
  /\ r \in Profile[c].tasks \ DOMAIN task
  /\ ahead[c] + Throttle(c)!Interval <= MaxAhead
  /\ task' = Assign(task, r, [stage |-> "sleeping",
                              left  |-> Throttle(c)!ProceedAt(ahead[c], 0)])
  /\ ahead' = [ahead EXCEPT ![c] = Throttle(c)!Advanced(@, 0)]
  /\ UNCHANGED <<owed, heard>>

\* The request goes out, reaches the limiter from address a, and is metered.
Reach(r, a) ==
  /\ Sleeping(r)
  /\ Due(r)
  /\ LET n       == network_key(a)
         verdict == Buckets!Verdict(owed[n], 1)
     IN  /\ owed' = [owed EXCEPT ![n] = Buckets!Owed(@, 1)]
         /\ \E j \in Limiter!Jitters(1) :
              task' = [task EXCEPT ![r] = [stage    |-> "answered",
                                           allowed  |-> verdict.allowed,
                                           response |-> Response(verdict, j)]]
  /\ UNCHANGED <<ahead, heard>>

\* after_response.
Hear(r) ==
  /\ Answered(r)
  /\ ahead' = [ahead EXCEPT ![Owner(r)] = Pushed(Owner(r), task[r].response)]
  /\ task' = Drop(task, r)
  /\ heard' = [heard EXCEPT ![Owner(r)] = TRUE]
  /\ UNCHANGED owed

\* The future is dropped while it sleeps, or the response is lost; the slot
\* and what was consumed stay so.
Cancel(r) ==
  /\ r \in DOMAIN task
  /\ heard' = [heard EXCEPT ![Owner(r)] = @ /\ ~Answered(r)]
  /\ task' = Drop(task, r)
  /\ UNCHANGED <<ahead, owed>>

\* The store forgets what a network owes: it idled for a window, whatever it
\* still owed, or was evicted.  No client hears of it.
Forget(n) ==
  /\ owed[n] > 0
  /\ owed' = [owed EXCEPT ![n] = 0]
  /\ UNCHANGED <<ahead, task, heard>>

Arrival(r) == \E a \in Profile[Owner(r)].addresses : Reach(r, a)

Next ==
  \/ Tick
  \/ \E c \in Clients : \E r \in Profile[c].tasks : Ask(c, r)
  \/ \E r \in Tasks : Arrival(r) \/ Hear(r) \/ Cancel(r)
  \/ \E n \in Peers : Forget(n)

\* Time goes on, and the runtime and the network deliver what is due.  That
\* clients ask, hear or cancel is not assumed.
Fairness == WF_vars(Tick) /\ \A r \in Tasks : WF_vars(Arrival(r))

Spec == Init /\ [][Next]_vars /\ Fairness

-----------------------------------------------------------------------------
(* Properties.                                                              *)

\* The request of r has just reached the limiter, from the state before.
Reached(r) == Sleeping(r) /\ r \in DOMAIN task' /\ task'[r].stage = "answered"

\* "Masking it as IPv6 would [collapse] every IPv4 peer on the internet onto a
\* single :: partition" (limiter.rs:195-197): whatever addresses a client
\* comes from, and mapped or not, its requests count against all of them, and
\* against nobody else's.
PeerMetered ==
  [][\A r \in Tasks : Reached(r) =>
       \A c \in Clients, n \in Peers : n \in Networks(c) =>
         owed'[n] = IF c = Owner(r) THEN Buckets!Owed(owed[n], 1) ELSE owed[n]]_vars

\* The quota of c, with what lateness can bunch up, is within the limiter's.
Paced(c) ==
  /\ Throttle(c)!Interval * Server.count >= Server.window
  /\ Buckets!Later(Profile[c].burst, 1) * Server.window + MaxLate * Server.count
       <= Server.burst * Server.window

\* The throttle's schedule is "its virtual-scheduling (GCRA) dual" of the
\* limiter's bucket (client.rs:43): a client that paces itself within the
\* limiter's quota is never refused, with any number of tasks, cancellations
\* and lost responses.
PacedNeverRefused ==
  \A c \in Clients : Paced(c) =>
    \A r \in Profile[c].tasks : Answered(r) => task[r].allowed

\* "an API whose fixed request rate isn't advertised" aside (client.rs:5-9), a
\* client need not know the quota: with one request at a time, and all answers
\* heard, r=0 makes it wait before it is ever refused, however fast its own
\* quota (client.rs:50-53, limiter.rs:233-246).
ListenerNeverRefused ==
  [][\A r \in Tasks : Reached(r) =>
       LET c == Owner(r)
       IN  Cardinality(Profile[c].tasks) = 1 /\ Profile[c].honors /\ heard[c]
             => task'[r].allowed]_vars

\* "sleeping when necessary rather than failing" (client.rs:2-3): each request
\* that claimed a slot goes out in the end, unless it is cancelled, whatever
\* push-backs and later claims do to the schedule.
GoesOut == \A r \in Tasks : Sleeping(r) ~> ~Sleeping(r)

\* A limiter does not starve a caller by refusing it: a client that is refused
\* again and again is also admitted again and again, even if it hears nothing
\* (only admitted requests consume: bucket.rs:51-55).
ServedAgain ==
  \A c \in Clients :
    []<><<\E r \in Profile[c].tasks : Reached(r) /\ ~task'[r].allowed>>_vars
      => []<><<\E r \in Profile[c].tasks : Reached(r) /\ task'[r].allowed>>_vars
=============================================================================
