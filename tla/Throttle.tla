------------------------------ MODULE Throttle ------------------------------
(***************************************************************************)
(* The client handler of src/src/client.rs: requests to one scope claim     *)
(* slots from a shared schedule and sleep until their slot comes.           *)
(*                                                                          *)
(* A scope's schedule is its theoretical arrival time, tat.  `run` reads    *)
(* the clock (Arrive), claims a slot under the mutex (Claim), and, if there  *)
(* is a delay, starts a timer of that length (Sleep) and is woken some time *)
(* after it has elapsed (Wake).  `after_response` computes a new target     *)
(* before it takes the mutex (Respond) and raises tat under it (BackOff).   *)
(* Tasks interleave between any two of these.  A future that sleeps or      *)
(* waits for its response may be dropped (Cancel).                          *)
(*                                                                          *)
(* `log` is a history variable: only the bound in Arrive reads it.           *)
(***************************************************************************)
EXTENDS Quota, Signals, Sequences, FiniteSets, Maps

CONSTANTS
  Scopes,        \* what with_scope maps URLs to
  Tasks,         \* tasks sending requests through clones of the handler
  Responses,     \* what servers may say: see ResponseType in Signals.tla
  HonorSignals,  \* honor_server_signals
  Horizon,       \* the last instant that Instant can represent
  MaxClock,      \* bound on the clock, for model checking
  MaxClaims      \* bound on the slots claimed per scope, for model checking

ASSUME ThrottleAssumption == /\ Responses \subseteq ResponseType
                             /\ HonorSignals \in BOOLEAN
                             /\ Horizon \in Nat
                             /\ MaxClock \in Nat
                             /\ MaxClaims \in Nat

VARIABLES
  clock,   \* the time Instant::now() returns
  tat,     \* state: scope -> theoretical arrival time
  task,    \* task -> its request
  log      \* history, per scope: see Logs

vars == <<clock, tat, task, log>>

\* arrived: has read the clock, at `time`.  claimed: has a slot, and `time` to
\* sleep.  sleeping: until `time`.  inflight: on the wire.  pushed: back from a
\* server that pushed back, with a target `time` for the schedule.
Stages == {"arrived", "claimed", "sleeping", "inflight", "pushed"}

\* History: ticket numbers the slot of the request among its scope's; until is
\* the end of the wait that the server asked for.
Requests == [stage : Stages, scope : Scopes, time : Nat, ticket : Nat, until : Nat]

\* slots: the instants from which claims were told they may proceed, in claim
\* order.  sent: the tickets of the requests put on the wire.  floor: the
\* latest instant that completed back-offs asked to wait for.
Logs == [slots : Seq(Nat), sent : SUBSET Nat, floor : Nat]

TypeOK ==
  /\ clock \in Nat
  /\ DOMAIN tat \subseteq Scopes
  /\ tat \in [DOMAIN tat -> Nat]
  /\ DOMAIN task \subseteq Tasks
  /\ task \in [DOMAIN task -> Requests]
  /\ log \in [Scopes -> Logs]

-----------------------------------------------------------------------------
(* Throttle::new.                                                           *)

Interval  == Nearest(Window, Later(Count, 1))

\* Without the clamps to u32::MAX and Duration::MAX (client.rs:73-76): where they
\* bite, the code's tolerance is smaller, and requests go later than here.
Tolerance == Interval * SaturatingSub(Burst, 1)

-----------------------------------------------------------------------------
(* Deliberately wrong variants of the operators below, standing for         *)
(* plausible slips in client.rs; the properties are shown to notice them.   *)

\* One request too many may go early.
ProceedAtTooSoon(old, now) == Later(old - Tolerance - Interval, now)

\* The slot is not kept from lying before the clock.
ProceedAtUnclamped(old, now) == old - Tolerance

\* The schedule advances from tat even after idle time.
AdvancedFromTat(old, now) == old + Interval

\* Burst headroom shortens the push-back.
TargetWithoutHeadroom(backoff) == clock + backoff

-----------------------------------------------------------------------------
(* claim.                                                                   *)

\* tat before the claim: a new scope starts at the caller's instant.
Scheduled(s, now) == IF s \in DOMAIN tat THEN tat[s] ELSE now

\* A request may proceed `Tolerance` before its theoretical arrival time.
\* (checked_sub fails only where the difference is far below any instant.)
ProceedAt(old, now) == Later(old - Tolerance, now)

\* The schedule advances by one interval, or not at all if it cannot.
Advanced(old, now) ==
  LET next == Later(old, now) + Interval
  IN  IF next <= Horizon THEN next ELSE old

(* back_off.                                                                *)

Target(backoff) == clock + backoff + Tolerance

\* tat after a back-off: it is never lowered.
Raised(s, target) == IF s \in DOMAIN tat THEN Later(tat[s], target) ELSE target

-----------------------------------------------------------------------------

\* The request of task r goes from one stage to another.
Step(r, stage, time) == [task EXCEPT ![r].stage = stage, ![r].time = time]

\* The log once the request with this ticket is on the wire.
Sent(l, ticket) == [l EXCEPT !.sent = @ \cup {ticket}]

Init ==
  /\ clock = 0
  /\ tat = << >>
  /\ task = << >>
  /\ log = [s \in Scopes |-> [slots |-> << >>, sent |-> {}, floor |-> 0]]

Tick ==
  /\ clock < MaxClock
  /\ clock' = clock + 1
  /\ UNCHANGED <<tat, task, log>>

\* run: the argument Instant::now() is evaluated.
Arrive(r, s) ==
  /\ r \notin DOMAIN task
  /\ Len(log[s].slots) + Cardinality({q \in DOMAIN task : /\ task[q].scope = s
                                                         /\ task[q].stage = "arrived"})
       < MaxClaims
  /\ task' = Assign(task, r, [stage |-> "arrived", scope |-> s, time |-> clock,
                              ticket |-> 0, until |-> 0])
  /\ UNCHANGED <<clock, tat, log>>

\* claim, under the lock; a request with nothing to wait for goes out at once.
Claim(r) ==
  /\ r \in DOMAIN task
  /\ task[r].stage = "arrived"
  /\ LET s     == task[r].scope
         now   == task[r].time
         old   == Scheduled(s, now)
         slot  == ProceedAt(old, now)
         l     == [log[s] EXCEPT !.slots = Append(@, slot)]
         free  == slot = now
     IN  /\ tat' = Assign(tat, s, Advanced(old, now))
         /\ task' = [task EXCEPT ![r] =
                       [@ EXCEPT !.stage  = IF free THEN "inflight" ELSE "claimed",
                                 !.time   = slot - now,
                                 !.ticket = Len(l.slots)]]
         /\ log' = [log EXCEPT ![s] = IF free THEN Sent(l, Len(l.slots)) ELSE l]
  /\ UNCHANGED clock

\* delay(delay): the runtime's timer is relative, it runs from now on.
Sleep(r) ==
  /\ r \in DOMAIN task
  /\ task[r].stage = "claimed"
  /\ task' = Step(r, "sleeping", clock + task[r].time)
  /\ UNCHANGED <<clock, tat, log>>

\* The timer has run out, and the runtime polls the task again.
Wake(r) ==
  /\ r \in DOMAIN task
  /\ task[r].stage = "sleeping"
  /\ clock >= task[r].time
  /\ task' = Step(r, "inflight", 0)
  /\ log' = [log EXCEPT ![task[r].scope] = Sent(@, task[r].ticket)]
  /\ UNCHANGED <<clock, tat>>

\* The response arrives and asks for nothing that the handler honours.
Respond(r, response) ==
  /\ r \in DOMAIN task
  /\ task[r].stage = "inflight"
  /\ HonorSignals => ServerBackoff(response) = {}
  /\ task' = Drop(task, r)
  /\ UNCHANGED <<clock, tat, log>>

\* The response asks to wait: the target is computed from the time it arrived.
Push(r, response) ==
  /\ r \in DOMAIN task
  /\ task[r].stage = "inflight"
  /\ HonorSignals
  /\ \E b \in ServerBackoff(response) :
       /\ Target(b) <= Horizon
       /\ task' = [task EXCEPT ![r] = [@ EXCEPT !.stage = "pushed",
                                               !.time  = Target(b),
                                               !.until = clock + b]]
  /\ UNCHANGED <<clock, tat, log>>

\* It asks to wait beyond the last representable instant: the addition panics
\* before the mutex is taken, and the task is gone.
Panic(r, response) ==
  /\ r \in DOMAIN task
  /\ task[r].stage = "inflight"
  /\ HonorSignals
  /\ \E b \in ServerBackoff(response) : Target(b) > Horizon
  /\ task' = Drop(task, r)
  /\ UNCHANGED <<clock, tat, log>>

\* back_off, under the lock.
BackOff(r) ==
  /\ r \in DOMAIN task
  /\ task[r].stage = "pushed"
  /\ LET s == task[r].scope
     IN  /\ tat' = Assign(tat, s, Raised(s, task[r].time))
         /\ log' = [log EXCEPT ![s].floor = Later(@, task[r].until)]
  /\ task' = Drop(task, r)
  /\ UNCHANGED clock

\* A timeout or the caller drops the future at one of its await points; the
\* slot it claimed stays claimed.
Cancel(r) ==
  /\ r \in DOMAIN task
  /\ task[r].stage \in {"sleeping", "inflight"}
  /\ task' = Drop(task, r)
  /\ UNCHANGED <<clock, tat, log>>

Next ==
  \/ Tick
  \/ \E r \in Tasks, s \in Scopes : Arrive(r, s)
  \/ \E r \in Tasks : Claim(r) \/ Sleep(r) \/ Wake(r) \/ BackOff(r) \/ Cancel(r)
  \/ \E r \in Tasks, response \in Responses :
       Respond(r, response) \/ Push(r, response) \/ Panic(r, response)

Spec == Init /\ [][Next]_vars

-----------------------------------------------------------------------------
(* Properties.                                                              *)

\* Neither the clock nor the schedule of s is at the end of representable time.
BeforeHorizon(s) ==
  /\ clock + Interval <= Horizon
  /\ s \in DOMAIN tat => tat[s] + Interval <= Horizon

\* "requests are spaced window / count apart at saturation, with up to burst
\* allowed back-to-back" (client.rs:43-45): any two claims of a scope, however
\* far apart in claim order and whatever stale instants they were made with,
\* have slots that many intervals apart, less the tolerance.
SlotSpacing ==
  \A s \in Scopes :
    LET slots == log[s].slots
    IN  BeforeHorizon(s) =>
          \A i, j \in DOMAIN slots :
            i < j => slots[j] - slots[i] >= (j - i) * Interval - Tolerance

\* "Don't go faster than N per window" (client.rs:8-9): what has gone out on
\* the wire never exceeds the burst and the replenishment of the time elapsed.
WithinQuota ==
  \A s \in Scopes :
    BeforeHorizon(s) =>
      Cardinality(log[s].sent) * Window <=
        Later(Burst, 1) * Window + clock * Later(Count, 1)

\* back_off pushes "next-request time out by at least backoff from now [...]
\* without letting burst headroom shorten it" (client.rs:137-138): no claim
\* made after any of the back-offs so far gets a slot before it ends.
BackoffHonoured ==
  [][\A s \in Scopes :
       Len(log'[s].slots) > Len(log[s].slots)
         => log'[s].slots[Len(log'[s].slots)] >= log[s].floor]_vars

\* "requests wake in the order they claimed" (client.rs:122-124): no request
\* goes out while an earlier claim of its scope is still to go out later.
WakeInClaimOrder ==
  [][\A r \in DOMAIN task \cap DOMAIN task' :
       task[r].stage = "sleeping" /\ task'[r].stage = "inflight"
         => \A q \in DOMAIN task :
              ~ /\ task[q].stage = "sleeping"
                /\ task[q].scope = task[r].scope
                /\ task[q].ticket < task[r].ticket
                /\ task[q].time > clock]_vars

\* A server that pushes back "delays that scope's next request accordingly"
\* (client.rs:51-53): nothing goes out on a scope before the waits its servers
\* asked for are over.
NothingSentInBackoff ==
  [][\A s \in Scopes : log'[s].sent # log[s].sent => clock >= log[s].floor]_vars
=============================================================================
