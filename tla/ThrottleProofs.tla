--------------------------- MODULE ThrottleProofs ---------------------------
(***************************************************************************)
(* Theorems about Throttle.tla: for every quota, any scopes, tasks,         *)
(* responses, horizon and bounds, with tasks preempted, woken late and      *)
(* cancelled at any point.                                                  *)
(*                                                                          *)
(* Everything rests on how far a scope's schedule runs ahead: by one        *)
(* interval of every slot claimed since (Ahead) and by the tolerance of     *)
(* every wait asked for (Floors).                                           *)
(***************************************************************************)
EXTENDS Throttle, Lemmas, FiniteSetTheorems

-----------------------------------------------------------------------------
(* The inductive invariant.                                                 *)

\* What the time of a request means in each stage.
RequestOK(q) ==
  /\ q.stage = "arrived" => q.time <= clock
  /\ q.stage = "claimed" =>
       /\ q.ticket \in DOMAIN log[q.scope].slots
       /\ log[q.scope].slots[q.ticket] <= clock + q.time
  /\ q.stage = "sleeping" =>
       /\ q.ticket \in DOMAIN log[q.scope].slots
       /\ log[q.scope].slots[q.ticket] <= q.time
  /\ q.stage = "pushed" => q.until + Tolerance <= q.time

RequestsOK == \A r \in DOMAIN task : RequestOK(task[r])

\* A request on the wire has a slot, and the slot has come.
SentOK == \A s \in Scopes : \A i \in log[s].sent :
            i \in DOMAIN log[s].slots /\ log[s].slots[i] <= clock

\* The schedule is one interval ahead of each slot for it and each later claim.
Ahead ==
  \A s \in Scopes :
    /\ log[s].slots # << >> => s \in DOMAIN tat
    /\ BeforeHorizon(s) =>
         \A i \in DOMAIN log[s].slots :
           tat[s] >= log[s].slots[i] + (Len(log[s].slots) - i + 1) * Interval

\* The schedule is the tolerance ahead of every wait asked for.
Floors ==
  \A s \in Scopes :
    log[s].floor > 0 => s \in DOMAIN tat /\ tat[s] >= log[s].floor + Tolerance

IInv == TypeOK /\ RequestsOK /\ SentOK /\ Ahead /\ Floors /\ SlotSpacing

-----------------------------------------------------------------------------
(* The operators of claim and back_off.                                     *)

\* The pace of a throttle is in naturals.
LEMMA PaceTypes ==
  /\ Interval \in Nat
  /\ Tolerance \in Nat
  /\ Horizon \in Nat
<1>1. Later(Count, 1) \in Nat \ {0} /\ Window \in Nat /\ SaturatingSub(Burst, 1) \in Nat
  BY QuotaAssumption DEF Later, SaturatingSub
<1>2. Interval \in Nat
  BY <1>1, NearestNat DEF Interval
<1>3. Tolerance \in Nat
  BY <1>1, <1>2, MulNat DEF Tolerance
<1> QED
  BY <1>2, <1>3, ThrottleAssumption

\* The schedule that a claim finds, and the one it leaves.
LEMMA ClaimFacts ==
  ASSUME NEW old \in Nat, NEW now \in Nat
  PROVE  /\ ProceedAt(old, now) \in Nat
         /\ now <= ProceedAt(old, now)
         /\ old - Tolerance <= ProceedAt(old, now)
         /\ ProceedAt(old, now) <= Later(old, now)
         /\ Advanced(old, now) \in Nat
         /\ old <= Advanced(old, now)
         /\ Advanced(old, now) + Interval <= Horizon /\ now + Interval <= Horizon
              => Advanced(old, now) = Later(old, now) + Interval
  BY PaceTypes DEF ProceedAt, Advanced, Later

\* A scope without a schedule is scheduled for now (client.rs:127).
LEMMA ScheduledFacts ==
  ASSUME TypeOK, NEW s \in Scopes, NEW now \in Nat
  PROVE  /\ Scheduled(s, now) \in Nat
         /\ s \in DOMAIN tat => Scheduled(s, now) = tat[s]
  BY DEF Scheduled, TypeOK

\* Raising a schedule never lowers it (client.rs:142-143).
LEMMA RaisedFacts ==
  ASSUME TypeOK, NEW s \in Scopes, NEW target \in Nat
  PROVE  /\ Raised(s, target) \in Nat
         /\ target <= Raised(s, target)
         /\ s \in DOMAIN tat => tat[s] <= Raised(s, target)
  BY DEF Raised, TypeOK, Later

\* A response asks for natural waits only.
LEMMA BackoffNat ==
  ASSUME NEW response \in Responses, NEW b \in ServerBackoff(response)
  PROVE  b \in Nat
<1>1. response \in ResponseType
  BY ThrottleAssumption
<1>2. b \in response.retry_after
           \cup UNION {l.reset : l \in {m \in response.limits : m.remaining = 0}}
  BY DEF ServerBackoff
<1>3. CASE b \in response.retry_after
  BY <1>1, <1>3 DEF ResponseType
<1>4. CASE b \notin response.retry_after
  <2>1. PICK l \in response.limits : b \in l.reset
    BY <1>2, <1>4
  <2>2. l \in [remaining : Nat, reset : SUBSET Nat]
    BY <1>1 DEF ResponseType
  <2> QED
    BY <2>1, <2>2
<1> QED
  BY <1>3, <1>4

-----------------------------------------------------------------------------
(* Steps that leave the slots alone.                                        *)

\* A schedule short of the horizon now was short of it before.
LEMMA HorizonKept ==
  ASSUME NEW s \in Scopes,
         clock \in Nat, clock' \in Nat, clock <= clock',
         s \in DOMAIN tat => /\ s \in DOMAIN tat' /\ tat[s] <= tat'[s]
                            /\ tat[s] \in Nat /\ tat'[s] \in Nat,
         BeforeHorizon(s)'
  PROVE  BeforeHorizon(s)
<1>1. clock' + Interval <= Horizon /\ (s \in DOMAIN tat' => tat'[s] + Interval <= Horizon)
  BY DEF BeforeHorizon
<1>2. clock + Interval <= Horizon
  BY <1>1, PaceTypes
<1>3. s \in DOMAIN tat => tat[s] + Interval <= Horizon
  BY <1>1, PaceTypes
<1> QED
  BY <1>2, <1>3 DEF BeforeHorizon

\* Time and schedules only grow, so that what was before the horizon was so
\* all along, and slots stay as far behind the schedule as they were.
LEMMA ScheduleKept ==
  ASSUME TypeOK, TypeOK', Ahead, SlotSpacing,
         clock <= clock',
         \A s \in Scopes : log'[s].slots = log[s].slots,
         \A s \in DOMAIN tat : s \in DOMAIN tat' /\ tat[s] <= tat'[s]
  PROVE  Ahead' /\ SlotSpacing'
<1>1. Interval \in Nat /\ Horizon \in Nat /\ clock \in Nat /\ clock' \in Nat
  BY PaceTypes DEF TypeOK
<1>2. \A s \in Scopes : /\ s \in DOMAIN tat => tat[s] \in Nat
                        /\ s \in DOMAIN tat' => tat'[s] \in Nat
  BY DEF TypeOK
<1>3. \A s \in Scopes : BeforeHorizon(s)' => BeforeHorizon(s)
  BY <1>1, <1>2, HorizonKept
<1>4. SlotSpacing'
  BY <1>3 DEF SlotSpacing
<1>5. Ahead'
  <2> SUFFICES ASSUME NEW s \in Scopes
               PROVE  /\ log[s].slots # << >> => s \in DOMAIN tat'
                      /\ BeforeHorizon(s)' =>
                           \A i \in DOMAIN log[s].slots :
                             tat'[s] >= log[s].slots[i]
                                          + (Len(log[s].slots) - i + 1) * Interval
    BY DEF Ahead
  <2>1. log[s].slots # << >> => s \in DOMAIN tat'
    BY DEF Ahead
  <2> SUFFICES ASSUME BeforeHorizon(s)', NEW i \in DOMAIN log[s].slots
               PROVE  tat'[s] >= log[s].slots[i] + (Len(log[s].slots) - i + 1) * Interval
    BY <2>1
  <2>2. log[s].slots \in Seq(Nat)
    BY DEF TypeOK, Logs
  <2>3. /\ i \in 1..Len(log[s].slots) /\ Len(log[s].slots) \in Nat
        /\ log[s].slots[i] \in Nat /\ log[s].slots # << >>
    BY <2>2
  <2>4. (Len(log[s].slots) - i + 1) * Interval \in Nat
    <3>1. i \in Nat /\ i <= Len(log[s].slots)
      BY <2>3
    <3>2. Len(log[s].slots) - i + 1 \in Nat
      BY <2>3, <3>1
    <3> QED
      BY <1>1, <3>2, MulNat
  <2>5. tat[s] >= log[s].slots[i] + (Len(log[s].slots) - i + 1) * Interval
    BY <1>3 DEF Ahead
  <2>6. s \in DOMAIN tat
    BY <2>3 DEF Ahead
  <2> QED
    BY <1>2, <2>3, <2>4, <2>5, <2>6
<1> QED
  BY <1>4, <1>5

\* At first no scope has a schedule.
LEMMA InitIInv == Init => IInv
<1> SUFFICES ASSUME Init PROVE IInv
  OBVIOUS
<1>1. DOMAIN tat = {} /\ DOMAIN task = {}
  BY EmptyMap DEF Init
<1>2. \A s \in Scopes : /\ log[s] \in Logs
                        /\ log[s].slots = << >> /\ log[s].sent = {} /\ log[s].floor = 0
  BY DEF Init, Logs
<1>3. \A s \in Scopes : DOMAIN log[s].slots = {}
  BY <1>2, EmptyMap
<1>4. TypeOK
  <2>1. tat \in [DOMAIN tat -> Nat] /\ task \in [DOMAIN task -> Requests]
    BY EmptyMap DEF Init
  <2>2. log \in [Scopes -> Logs]
    BY <1>2 DEF Init
  <2> QED
    BY <1>1, <2>1, <2>2 DEF TypeOK, Init
<1>5. RequestsOK /\ SentOK /\ Ahead /\ Floors
  BY <1>1, <1>2, <1>3 DEF RequestsOK, SentOK, Ahead, Floors
<1>6. SlotSpacing
  BY <1>3 DEF SlotSpacing
<1> QED
  BY <1>4, <1>5, <1>6 DEF IInv

\* Time only moves the clock.
LEMMA TickIInv == IInv /\ Tick => IInv'
<1> SUFFICES ASSUME IInv, Tick PROVE IInv'
  OBVIOUS
<1>1. /\ clock \in Nat /\ clock' = clock + 1
      /\ tat' = tat /\ task' = task /\ log' = log
      /\ TypeOK
  BY DEF IInv, Tick, TypeOK
<1>2. TypeOK'
  BY <1>1 DEF TypeOK
<1>3. Ahead' /\ SlotSpacing'
  <2>1. \A s \in DOMAIN tat : tat[s] \in Nat
    BY <1>1 DEF TypeOK
  <2> QED
    BY <1>1, <1>2, <2>1, ScheduleKept DEF IInv
<1>4. RequestsOK'
  <2> SUFFICES ASSUME NEW r \in DOMAIN task PROVE RequestOK(task[r])'
    BY <1>1 DEF RequestsOK
  <2>1. RequestOK(task[r]) /\ task[r] \in Requests
    BY <1>1 DEF IInv, RequestsOK, TypeOK
  <2>2. task[r].time \in Nat /\ task[r].scope \in Scopes
    BY <2>1 DEF Requests
  <2>3. log[task[r].scope].slots \in Seq(Nat)
    BY <1>1, <2>2 DEF TypeOK, Logs
  <2>4. task[r].ticket \in DOMAIN log[task[r].scope].slots =>
          log[task[r].scope].slots[task[r].ticket] \in Nat
    BY <2>3
  <2> QED
    BY <1>1, <2>1, <2>2, <2>4 DEF RequestOK
<1>5. SentOK'
  <2> SUFFICES ASSUME NEW s \in Scopes, NEW i \in log[s].sent
               PROVE  i \in DOMAIN log[s].slots /\ log[s].slots[i] <= clock'
    BY <1>1 DEF SentOK
  <2>1. i \in DOMAIN log[s].slots /\ log[s].slots[i] <= clock
    BY DEF IInv, SentOK
  <2>2. log[s].slots \in Seq(Nat)
    BY <1>1 DEF TypeOK, Logs
  <2>3. log[s].slots[i] \in Nat
    BY <2>1, <2>2
  <2> QED
    BY <1>1, <2>1, <2>3
<1>6. Floors'
  BY <1>1 DEF IInv, Floors
<1> QED
  BY <1>2, <1>3, <1>4, <1>5, <1>6 DEF IInv

\* A step of one task that touches neither schedules nor slots: the other
\* requests stay in order, and so does whatever can be said of schedules.
LEMMA QuietIInv ==
  ASSUME IInv, UNCHANGED <<clock, tat>>,
         DOMAIN task' \subseteq Tasks, task' \in [DOMAIN task' -> Requests],
         log' \in [Scopes -> Logs],
         \A s \in Scopes : log'[s].slots = log[s].slots /\ log'[s].floor = log[s].floor,
         \A r \in DOMAIN task' : RequestOK(task'[r]),
         SentOK'
  PROVE  IInv'
<1>1. TypeOK /\ TypeOK'
  BY DEF IInv, TypeOK
<1>2. Ahead' /\ SlotSpacing'
  <2>1. clock <= clock' /\ \A s \in DOMAIN tat : s \in DOMAIN tat' /\ tat[s] <= tat'[s]
    BY <1>1 DEF TypeOK
  <2> QED
    BY <1>1, <2>1, ScheduleKept DEF IInv
<1>3. RequestsOK'
  <2> SUFFICES ASSUME NEW r \in DOMAIN task' PROVE RequestOK(task[r])'
    BY DEF RequestsOK
  <2>1. task'[r].scope \in Scopes
    BY DEF Requests
  <2> QED
    BY <2>1 DEF RequestOK
<1>4. Floors'
  BY DEF IInv, Floors
<1> QED
  BY <1>1, <1>2, <1>3, <1>4 DEF IInv

\* Respond, Panic and Cancel: a request is forgotten.
LEMMA DropIInv ==
  ASSUME IInv, NEW r \in DOMAIN task, task' = Drop(task, r),
         UNCHANGED <<clock, tat, log>>
  PROVE  IInv'
<1>1. TypeOK /\ task \in [DOMAIN task -> Requests]
  BY DEF IInv, TypeOK
<1>2. /\ DOMAIN task' = DOMAIN task \ {r}
      /\ task' \in [DOMAIN task' -> Requests]
      /\ \A q \in DOMAIN task \ {r} : task'[q] = task[q]
  BY <1>1, DropFacts
<1>3. \A q \in DOMAIN task' : RequestOK(task'[q])
  BY <1>2 DEF IInv, RequestsOK
<1>4. SentOK'
  BY DEF IInv, SentOK
<1> QED
  BY <1>1, <1>2, <1>3, <1>4, QuietIInv DEF TypeOK

\* A request arrives at the present instant.
LEMMA ArriveIInv ==
  ASSUME IInv, NEW r \in Tasks, NEW s \in Scopes, Arrive(r, s)
  PROVE  IInv'
<1> DEFINE q == [stage |-> "arrived", scope |-> s, time |-> clock, ticket |-> 0, until |-> 0]
<1>1. TypeOK /\ task \in [DOMAIN task -> Requests]
  BY DEF IInv, TypeOK
<1>2. q \in Requests /\ RequestOK(q)
  BY <1>1 DEF TypeOK, Requests, Stages, RequestOK
<1>3. task' = Assign(task, r, q) /\ UNCHANGED <<clock, tat, log>>
  BY DEF Arrive
<1> HIDE DEF q
<1>4. /\ DOMAIN task' = DOMAIN task \cup {r}
      /\ task' \in [DOMAIN task' -> Requests]
      /\ task'[r] = q
      /\ \A p \in DOMAIN task \ {r} : task'[p] = task[p]
  BY <1>1, <1>2, <1>3 DEF Assign
<1>5. \A p \in DOMAIN task' : RequestOK(task'[p])
  BY <1>2, <1>4 DEF IInv, RequestsOK
<1>6. SentOK'
  BY <1>3 DEF IInv, SentOK
<1> QED
  BY <1>1, <1>3, <1>4, <1>5, <1>6, QuietIInv DEF TypeOK

\* Sleep, Wake, Push: one request moves on.
LEMMA StepIInv ==
  ASSUME IInv, NEW r \in DOMAIN task, NEW q \in Requests,
         task' = [task EXCEPT ![r] = q], RequestOK(q),
         UNCHANGED <<clock, tat>>,
         log' \in [Scopes -> Logs],
         \A s \in Scopes : log'[s].slots = log[s].slots /\ log'[s].floor = log[s].floor,
         SentOK'
  PROVE  IInv'
<1>1. TypeOK /\ task \in [DOMAIN task -> Requests]
  BY DEF IInv, TypeOK
<1>2. /\ DOMAIN task' = DOMAIN task
      /\ task' \in [DOMAIN task' -> Requests]
      /\ \A p \in DOMAIN task : task'[p] = IF p = r THEN q ELSE task[p]
  BY <1>1
<1>3. \A p \in DOMAIN task' : RequestOK(task'[p])
  BY <1>2 DEF IInv, RequestsOK
<1> QED
  BY <1>1, <1>2, <1>3, QuietIInv DEF TypeOK

\* A timer started now runs out no earlier than the slot.
LEMMA SleepIInv ==
  ASSUME IInv, NEW r \in Tasks, Sleep(r)
  PROVE  IInv'
<1> DEFINE q == [task[r] EXCEPT !.stage = "sleeping", !.time = clock + task[r].time]
<1>1. /\ TypeOK /\ r \in DOMAIN task /\ task[r] \in Requests /\ clock \in Nat
      /\ RequestOK(task[r]) /\ task[r].stage = "claimed"
      /\ UNCHANGED <<clock, tat, log>>
  BY DEF IInv, TypeOK, Sleep, RequestsOK
<1>2. q \in Requests
  <2>1. task[r].time \in Nat /\ clock + task[r].time \in Nat
    BY <1>1 DEF Requests
  <2> QED
    BY <1>1, <2>1 DEF Requests, Stages
<1>3. RequestOK(q)
  <2>1. /\ q.stage = "sleeping" /\ q.ticket = task[r].ticket
        /\ q.scope = task[r].scope /\ q.time = clock + task[r].time
    BY <1>1 DEF Requests
  <2> QED
    BY <1>1, <2>1 DEF RequestOK
<1>4. task' = [task EXCEPT ![r] = q]
  BY <1>1 DEF Sleep, Step
<1>5. SentOK'
  BY <1>1 DEF IInv, SentOK
<1> HIDE DEF q
<1> QED
  BY <1>1, <1>2, <1>3, <1>4, <1>5, StepIInv DEF TypeOK

\* A request wakes once its timer has run out.
LEMMA WakeIInv ==
  ASSUME IInv, NEW r \in Tasks, Wake(r)
  PROVE  IInv'
<1> DEFINE q == [task[r] EXCEPT !.stage = "inflight", !.time = 0]
           s == task[r].scope
           i == task[r].ticket
<1>1. /\ TypeOK /\ r \in DOMAIN task /\ task[r] \in Requests /\ clock \in Nat
      /\ RequestOK(task[r]) /\ task[r].stage = "sleeping"
      /\ clock >= task[r].time
      /\ UNCHANGED <<clock, tat>>
  BY DEF IInv, TypeOK, Wake, RequestsOK
<1>2. q \in Requests /\ s \in Scopes /\ i \in Nat /\ task[r].time \in Nat
  BY <1>1 DEF Requests, Stages
<1>3. RequestOK(q)
  <2>1. q.stage = "inflight"
    BY <1>1 DEF Requests
  <2> QED
    BY <2>1 DEF RequestOK
<1>4. task' = [task EXCEPT ![r] = q]
  BY <1>1 DEF Wake, Step
<1>5. log[s] \in Logs /\ log' = [log EXCEPT ![s] = Sent(log[s], i)]
  BY <1>1, <1>2 DEF Wake, TypeOK
<1>6. /\ Sent(log[s], i) \in Logs
      /\ Sent(log[s], i).slots = log[s].slots
      /\ Sent(log[s], i).floor = log[s].floor
      /\ Sent(log[s], i).sent = log[s].sent \cup {i}
  BY <1>2, <1>5 DEF Sent, Logs
<1>7. /\ log' \in [Scopes -> Logs]
      /\ \A t \in Scopes : log'[t] = IF t = s THEN Sent(log[s], i) ELSE log[t]
  BY <1>1, <1>2, <1>5, <1>6 DEF TypeOK
<1>8. \A t \in Scopes : /\ log'[t].slots = log[t].slots
                        /\ log'[t].floor = log[t].floor
                        /\ log'[t].sent \subseteq IF t = s THEN log[s].sent \cup {i}
                                                          ELSE log[t].sent
  BY <1>6, <1>7
<1>9. SentOK'
  <2> SUFFICES ASSUME NEW t \in Scopes, NEW j \in log'[t].sent
               PROVE  j \in DOMAIN log[t].slots /\ log[t].slots[j] <= clock
    BY <1>1, <1>8 DEF SentOK
  <2>1. CASE j \in log[t].sent
    BY <2>1 DEF IInv, SentOK
  <2>2. CASE t = s /\ j = i
    <3>1. i \in DOMAIN log[s].slots /\ log[s].slots[i] <= task[r].time
      BY <1>1 DEF RequestOK
    <3>2. log[s].slots \in Seq(Nat)
      BY <1>5 DEF Logs
    <3>3. log[s].slots[i] \in Nat
      BY <3>1, <3>2
    <3> QED
      BY <1>1, <1>2, <2>2, <3>1, <3>3
  <2> QED
    BY <1>8, <2>1, <2>2
<1> HIDE DEF q
<1> QED
  BY <1>1, <1>2, <1>3, <1>4, <1>7, <1>8, <1>9, StepIInv

\* A push-back computes its target, and touches no schedule yet.
LEMMA PushIInv ==
  ASSUME IInv, NEW r \in Tasks, NEW response \in Responses, Push(r, response)
  PROVE  IInv'
<1>1. /\ TypeOK /\ r \in DOMAIN task /\ task[r] \in Requests /\ clock \in Nat
      /\ UNCHANGED <<clock, tat, log>>
  BY DEF IInv, TypeOK, Push
<1>2. PICK b \in ServerBackoff(response) :
        task' = [task EXCEPT ![r] = [@ EXCEPT !.stage = "pushed",
                                              !.time  = Target(b),
                                              !.until = clock + b]]
  BY DEF Push
<1>3. b \in Nat /\ Tolerance \in Nat
  BY BackoffNat, PaceTypes
<1> DEFINE q == [task[r] EXCEPT !.stage = "pushed", !.time = Target(b), !.until = clock + b]
<1>4. Target(b) \in Nat /\ clock + b \in Nat /\ clock + b + Tolerance <= Target(b)
  BY <1>1, <1>3 DEF Target
<1>5. q \in Requests
  BY <1>1, <1>4 DEF Requests, Stages
<1>6. RequestOK(q)
  <2>1. q.stage = "pushed" /\ q.time = Target(b) /\ q.until = clock + b
    BY <1>1 DEF Requests
  <2> QED
    BY <1>4, <2>1 DEF RequestOK
<1>7. task' = [task EXCEPT ![r] = q]
  BY <1>1, <1>2
<1>8. SentOK'
  BY <1>1 DEF IInv, SentOK
<1> HIDE DEF q
<1> QED
  BY <1>1, <1>5, <1>6, <1>7, <1>8, StepIInv DEF TypeOK

\* A back-off raises one schedule.
LEMMA BackOffIInv ==
  ASSUME IInv, NEW r \in Tasks, BackOff(r)
  PROVE  IInv'
<1> DEFINE s      == task[r].scope
           target == task[r].time
           until  == task[r].until
<1>1. /\ TypeOK /\ r \in DOMAIN task /\ task \in [DOMAIN task -> Requests]
      /\ task[r] \in Requests /\ RequestOK(task[r]) /\ task[r].stage = "pushed"
      /\ clock' = clock /\ clock \in Nat
  BY DEF IInv, TypeOK, BackOff, RequestsOK
<1>2. s \in Scopes /\ target \in Nat /\ until \in Nat /\ until + Tolerance <= target
  BY <1>1 DEF Requests, RequestOK
<1>3. /\ tat' = Assign(tat, s, Raised(s, target))
      /\ log' = [log EXCEPT ![s].floor = Later(@, until)]
      /\ task' = Drop(task, r)
  BY DEF BackOff
<1> HIDE DEF s, target, until
<1>4. /\ Raised(s, target) \in Nat /\ target <= Raised(s, target)
      /\ s \in DOMAIN tat => tat[s] <= Raised(s, target)
  BY <1>1, <1>2, RaisedFacts
<1>5. /\ DOMAIN tat' = DOMAIN tat \cup {s}
      /\ tat' \in [DOMAIN tat' -> Nat]
      /\ tat'[s] = Raised(s, target)
      /\ \A t \in DOMAIN tat \ {s} : tat'[t] = tat[t]
  BY <1>1, <1>2, <1>3, <1>4 DEF Assign, TypeOK
<1>6. \A t \in DOMAIN tat : t \in DOMAIN tat' /\ tat[t] <= tat'[t]
  <2> SUFFICES ASSUME NEW t \in DOMAIN tat PROVE tat[t] <= tat'[t]
    BY <1>5
  <2>1. tat[t] \in Nat
    BY <1>1 DEF TypeOK
  <2> QED
    BY <1>4, <1>5, <2>1
<1>7. log[s] \in Logs /\ log[s].floor \in Nat /\ Later(log[s].floor, until) \in Nat
  BY <1>1, <1>2 DEF TypeOK, Logs, Later
<1>8. /\ log' \in [Scopes -> Logs]
      /\ \A t \in Scopes : /\ log'[t].slots = log[t].slots
                           /\ log'[t].sent = log[t].sent
                           /\ log'[t].floor = IF t = s THEN Later(log[s].floor, until)
                                                       ELSE log[t].floor
  BY <1>1, <1>2, <1>3, <1>7 DEF TypeOK, Logs
<1>9. /\ DOMAIN task' = DOMAIN task \ {r}
      /\ task' \in [DOMAIN task' -> Requests]
      /\ \A q \in DOMAIN task \ {r} : task'[q] = task[q]
  <2>1. task' = Drop(task, r) /\ task \in [DOMAIN task -> Requests]
    BY <1>1, <1>3
  <2> QED
    BY <2>1, DropFacts
<1>10. TypeOK'
  BY <1>1, <1>2, <1>5, <1>8, <1>9 DEF TypeOK
<1>11. Ahead' /\ SlotSpacing'
  <2>1. clock <= clock'
    BY <1>1
  <2> QED
    BY <1>1, <1>6, <1>8, <1>10, <2>1, ScheduleKept DEF IInv
<1>12. RequestsOK'
  <2> SUFFICES ASSUME NEW q \in DOMAIN task \ {r} PROVE RequestOK(task[q])'
    BY <1>9 DEF RequestsOK
  <2>1. RequestOK(task[q]) /\ task[q].scope \in Scopes /\ task'[q] = task[q]
    BY <1>1, <1>9 DEF IInv, RequestsOK, Requests
  <2> QED
    BY <1>1, <1>8, <2>1 DEF RequestOK
<1>13. SentOK'
  BY <1>1, <1>8 DEF IInv, SentOK
<1>14. Floors'
  <2> SUFFICES ASSUME NEW t \in Scopes, log'[t].floor > 0
               PROVE  t \in DOMAIN tat' /\ tat'[t] >= log'[t].floor + Tolerance
    BY DEF Floors
  <2>1. CASE t # s
    BY <1>1, <1>5, <1>8, <2>1 DEF IInv, Floors
  <2>2. CASE t = s
    <3>1. log'[s].floor = Later(log[s].floor, until)
      BY <1>2, <1>8
    <3>2. Tolerance \in Nat
      BY PaceTypes
    <3>3. until + Tolerance <= tat'[s]
      BY <1>2, <1>4, <1>5, <3>2
    <3>4. CASE until >= log[s].floor
      BY <1>2, <1>5, <1>7, <2>2, <3>1, <3>3, <3>4 DEF Later
    <3>5. CASE until < log[s].floor
      <4>1. s \in DOMAIN tat /\ tat[s] >= log[s].floor + Tolerance
        BY <1>2, <1>7, <3>5 DEF IInv, Floors
      <4>2. tat[s] <= tat'[s] /\ tat[s] \in Nat /\ tat'[s] \in Nat
        BY <1>1, <1>4, <1>5, <4>1 DEF TypeOK
      <4>3. log'[s].floor = log[s].floor
        BY <1>2, <1>7, <3>1, <3>5 DEF Later
      <4> QED
        BY <1>5, <1>7, <2>2, <3>2, <4>1, <4>2, <4>3
    <3> QED
      BY <1>2, <1>7, <3>4, <3>5
  <2> QED
    BY <2>1, <2>2
<1> QED
  BY <1>10, <1>11, <1>12, <1>13, <1>14 DEF IInv

\* What a claim does to the schedule, the log and the tasks, in one place.
Claimed(r, s, now, slot, q) ==
  /\ now <= clock /\ now <= slot
  /\ tat' = Assign(tat, s, Advanced(Scheduled(s, now), now))
  /\ s \in DOMAIN tat => tat[s] - Tolerance <= slot /\ tat[s] <= tat'[s]
  /\ tat'[s] \in Nat
  /\ clock' + Interval <= Horizon /\ tat'[s] + Interval <= Horizon =>
       /\ slot + Interval <= tat'[s]
       /\ s \in DOMAIN tat => tat[s] + Interval <= tat'[s]
  /\ q.scope = s
  /\ q.stage \in {"inflight", "claimed"}
  /\ q.ticket = Len(log[s].slots) + 1
  /\ q.time = slot - now
  /\ r \in DOMAIN task /\ task' = [task EXCEPT ![r] = q]
  /\ log' \in [Scopes -> Logs]
  /\ \A t \in Scopes \ {s} : log'[t] = log[t]
  /\ log'[s].slots = Append(log[s].slots, slot)
  /\ log'[s].floor = log[s].floor
  /\ \/ log'[s].sent = log[s].sent
     \/ slot = now /\ log'[s].sent = log[s].sent \cup {Len(log[s].slots) + 1}
  /\ clock' = clock

\* A claim advances one schedule by one slot.
LEMMA ClaimEffect ==
  ASSUME IInv, NEW r \in Tasks, Claim(r)
  PROVE  \E s \in Scopes, now \in Nat, slot \in Nat, q \in Requests :
           Claimed(r, s, now, slot, q)
<1>1. /\ TypeOK /\ r \in DOMAIN task
      /\ task[r] \in Requests /\ RequestOK(task[r]) /\ task[r].stage = "arrived"
      /\ clock' = clock /\ clock \in Nat
  BY DEF IInv, TypeOK, Claim, RequestsOK
<1>2. PICK s \in Scopes, now \in Nat : s = task[r].scope /\ now = task[r].time
  BY <1>1 DEF Requests
<1>3. now <= clock
  BY <1>1, <1>2 DEF RequestOK
<1>4. PICK old \in Nat : /\ old = Scheduled(s, now)
                         /\ s \in DOMAIN tat => old = tat[s]
  BY <1>1, <1>2, ScheduledFacts
<1>5. PICK slot \in Nat : slot = ProceedAt(old, now)
  BY <1>2, <1>4, ClaimFacts
<1>6. /\ now <= slot /\ old - Tolerance <= slot
      /\ slot <= Later(old, now) /\ Advanced(old, now) \in Nat /\ old <= Advanced(old, now)
      /\ Advanced(old, now) + Interval <= Horizon /\ now + Interval <= Horizon
              => Advanced(old, now) = Later(old, now) + Interval
  BY <1>2, <1>4, <1>5, ClaimFacts
<1>7. PICK n \in Nat : n = Len(log[s].slots)
  <2>1. log[s].slots \in Seq(Nat)
    BY <1>1 DEF TypeOK, Logs
  <2> QED
    BY <2>1
<1> DEFINE l    == [log[s] EXCEPT !.slots = Append(@, slot)]
           q    == [task[r] EXCEPT !.stage  = IF slot = now THEN "inflight" ELSE "claimed",
                                   !.time   = slot - now,
                                   !.ticket = Len(l.slots)]
           m    == IF slot = now THEN Sent(l, Len(l.slots)) ELSE l
<1>8. /\ tat' = Assign(tat, s, Advanced(old, now))
      /\ log' = [log EXCEPT ![s] = m]
      /\ task' = [task EXCEPT ![r] = q]
  BY <1>1, <1>2, <1>4, <1>5 DEF Claim
<1>9. /\ l \in Logs /\ l.slots = Append(log[s].slots, slot)
      /\ l.floor = log[s].floor /\ l.sent = log[s].sent
      /\ Len(l.slots) = n + 1
  <2>1. log[s] \in Logs /\ log[s].slots \in Seq(Nat)
    BY <1>1 DEF TypeOK, Logs
  <2>2. Append(log[s].slots, slot) \in Seq(Nat) /\ Len(Append(log[s].slots, slot)) = n + 1
    BY <1>7, <2>1
  <2> QED
    BY <2>1, <2>2 DEF Logs
<1> HIDE DEF l
<1>10. /\ m \in Logs /\ m.slots = l.slots /\ m.floor = l.floor
       /\ \/ m.sent = l.sent
          \/ slot = now /\ m.sent = l.sent \cup {n + 1}
  <2>1. n + 1 \in Nat
    OBVIOUS
  <2>2. /\ Sent(l, n + 1) \in Logs /\ Sent(l, n + 1).slots = l.slots
        /\ Sent(l, n + 1).floor = l.floor /\ Sent(l, n + 1).sent = l.sent \cup {n + 1}
    BY <1>9, <2>1 DEF Sent, Logs
  <2>3. CASE slot = now
    BY <1>9, <2>2, <2>3
  <2>4. CASE slot # now
    BY <1>9, <2>4
  <2> QED
    BY <2>3, <2>4
<1>11. /\ q \in Requests /\ q.scope = s /\ q.ticket = n + 1 /\ q.time = slot - now
       /\ q.stage \in {"inflight", "claimed"}
  <2>1. slot - now \in Nat /\ Len(l.slots) = n + 1 /\ n + 1 \in Nat
    BY <1>6, <1>9
  <2>2. q.scope = s
    BY <1>1, <1>2 DEF Requests
  <2>3. q \in Requests /\ q.ticket = n + 1 /\ q.time = slot - now
        /\ q.stage \in {"inflight", "claimed"}
    BY <1>1, <2>1 DEF Requests, Stages
  <2> QED
    BY <2>2, <2>3
<1> HIDE DEF q, m
<1>12. tat'[s] = Advanced(old, now)
  BY <1>8 DEF Assign
<1>13. clock' + Interval <= Horizon /\ tat'[s] + Interval <= Horizon =>
         /\ slot + Interval <= tat'[s]
         /\ s \in DOMAIN tat => tat[s] + Interval <= tat'[s]
  <2> SUFFICES ASSUME clock' + Interval <= Horizon, tat'[s] + Interval <= Horizon
               PROVE  /\ slot + Interval <= tat'[s]
                      /\ s \in DOMAIN tat => tat[s] + Interval <= tat'[s]
    OBVIOUS
  <2>1. now + Interval <= Horizon
    BY <1>1, <1>3, PaceTypes
  <2>2. tat'[s] = Later(old, now) + Interval
    BY <1>6, <1>12, <2>1
  <2>3. Later(old, now) \in Nat /\ old <= Later(old, now) /\ Interval \in Nat
    BY PaceTypes DEF Later
  <2> QED
    BY <1>4, <1>6, <2>2, <2>3
<1>14. s \in DOMAIN tat => tat[s] - Tolerance <= slot /\ tat[s] <= tat'[s]
  BY <1>4, <1>6, <1>12
<1>15. /\ log' \in [Scopes -> Logs] /\ log'[s] = m
       /\ \A t \in Scopes \ {s} : log'[t] = log[t]
  BY <1>1, <1>8, <1>10 DEF TypeOK
<1>16. Claimed(r, s, now, slot, q)
  BY <1>1, <1>3, <1>4, <1>6, <1>7, <1>8, <1>9, <1>10, <1>11, <1>12, <1>13, <1>14, <1>15
     DEF Claimed
<1> QED
  BY <1>11, <1>16

\* Claim: the new slot is behind the schedule, and the schedule moves on.
LEMMA ClaimIInv ==
  ASSUME IInv, NEW r \in Tasks, Claim(r)
  PROVE  IInv'
<1>1. PICK s \in Scopes, now \in Nat, slot \in Nat, q \in Requests :
        Claimed(r, s, now, slot, q)
  BY ClaimEffect
<1>2. TypeOK /\ clock \in Nat /\ log[s] \in Logs /\ log[s].slots \in Seq(Nat)
  BY DEF IInv, TypeOK, Logs
<1>3. PICK n \in Nat : n = Len(log[s].slots)
  BY <1>2
<1>4. /\ DOMAIN log[s].slots = 1..n /\ DOMAIN log'[s].slots = 1..(n + 1)
      /\ \A i \in 1..n : log[s].slots[i] \in Nat /\ log'[s].slots[i] = log[s].slots[i]
      /\ log'[s].slots[n + 1] = slot /\ Len(log'[s].slots) = n + 1
      /\ log[s].slots # << >> <=> n > 0
  <2>1. log'[s].slots = Append(log[s].slots, slot)
    BY <1>1 DEF Claimed
  <2> QED
    BY <1>2, <1>3, <2>1
<1>5. /\ \A t \in Scopes \ {s} : log'[t] = log[t]
      /\ log' \in [Scopes -> Logs]
      /\ log'[s].floor = log[s].floor /\ clock' = clock
  BY <1>1 DEF Claimed
<1>6. /\ tat'[s] \in Nat /\ DOMAIN tat' = DOMAIN tat \cup {s}
      /\ tat' \in [DOMAIN tat' -> Nat]
      /\ \A t \in DOMAIN tat \ {s} : tat'[t] = tat[t]
      /\ \A t \in DOMAIN tat : tat[t] <= tat'[t]
  <2>1. tat' = Assign(tat, s, Advanced(Scheduled(s, now), now)) /\ tat'[s] \in Nat
    BY <1>1 DEF Claimed
  <2>2. DOMAIN tat' = DOMAIN tat \cup {s} /\ \A t \in DOMAIN tat \ {s} : tat'[t] = tat[t]
    BY <2>1 DEF Assign
  <2>3. \A t \in DOMAIN tat : tat[t] \in Nat
    BY <1>2 DEF TypeOK
  <2>4. s \in DOMAIN tat => tat[s] <= tat'[s]
    BY <1>1 DEF Claimed
  <2>5. tat' \in [DOMAIN tat' -> Nat]
    <3>1. \A t \in DOMAIN tat' : tat'[t] \in Nat
      BY <2>1, <2>2, <2>3
    <3>2. tat' = [t \in DOMAIN tat' |-> tat'[t]]
      BY <2>1 DEF Assign
    <3> QED
      BY <3>1, <3>2
  <2> QED
    BY <2>1, <2>2, <2>3, <2>4, <2>5
<1>7. /\ DOMAIN task' = DOMAIN task
      /\ task' \in [DOMAIN task' -> Requests]
      /\ task'[r] = q /\ \A p \in DOMAIN task \ {r} : task'[p] = task[p]
  <2>1. r \in DOMAIN task /\ task' = [task EXCEPT ![r] = q]
    BY <1>1 DEF Claimed
  <2>2. task \in [DOMAIN task -> Requests]
    BY <1>2 DEF TypeOK
  <2> QED
    BY <2>1, <2>2
<1>8. TypeOK'
  BY <1>2, <1>5, <1>6, <1>7 DEF TypeOK
<1>9. Interval \in Nat /\ Tolerance \in Nat
  BY PaceTypes
<1>10. \A t \in Scopes : BeforeHorizon(t)' => BeforeHorizon(t)
  <2> SUFFICES ASSUME NEW t \in Scopes, BeforeHorizon(t)' PROVE BeforeHorizon(t)
    OBVIOUS
  <2>1. t \in DOMAIN tat => /\ t \in DOMAIN tat' /\ tat[t] <= tat'[t]
                            /\ tat[t] \in Nat /\ tat'[t] \in Nat
    BY <1>2, <1>6 DEF TypeOK
  <2>2. clock' \in Nat /\ clock <= clock'
    BY <1>2, <1>5
  <2> QED
    BY <1>2, <2>1, <2>2, HorizonKept
<1>11. BeforeHorizon(s)' => /\ slot + Interval <= tat'[s]
                            /\ s \in DOMAIN tat => tat[s] + Interval <= tat'[s]
  <2>1. BeforeHorizon(s)' => clock' + Interval <= Horizon /\ tat'[s] + Interval <= Horizon
    BY <1>6 DEF BeforeHorizon
  <2> QED
    BY <1>1, <2>1 DEF Claimed
\* Where the schedule was, before the claim, with respect to earlier slots.
<1>12. ASSUME BeforeHorizon(s)', NEW i \in 1..n
       PROVE  /\ s \in DOMAIN tat /\ tat[s] \in Nat
              /\ (n - i + 1) * Interval \in Nat
              /\ tat[s] >= log[s].slots[i] + (n - i + 1) * Interval
  <2>1. s \in DOMAIN tat /\ tat[s] \in Nat
    <3>1. log[s].slots # << >>
      BY <1>4, <1>12
    <3> QED
      BY <1>2, <3>1 DEF IInv, Ahead, TypeOK
  <2>2. n - i + 1 \in Nat
    OBVIOUS
  <2>3. (n - i + 1) * Interval \in Nat
    BY <1>9, <2>2, MulNat
  <2>4. tat[s] >= log[s].slots[i] + (n - i + 1) * Interval
    <3>1. BeforeHorizon(s)
      BY <1>10, <1>12
    <3>2. \A k \in DOMAIN log[s].slots :
            tat[s] >= log[s].slots[k] + (Len(log[s].slots) - k + 1) * Interval
      BY <3>1 DEF IInv, Ahead
    <3> QED
      BY <1>3, <1>4, <3>2
  <2> QED
    BY <2>1, <2>3, <2>4
<1>13. Ahead'
  <2> SUFFICES ASSUME NEW t \in Scopes
               PROVE  /\ log'[t].slots # << >> => t \in DOMAIN tat'
                      /\ BeforeHorizon(t)' =>
                           \A i \in DOMAIN log'[t].slots :
                             tat'[t] >= log'[t].slots[i]
                                          + (Len(log'[t].slots) - i + 1) * Interval
    BY DEF Ahead
  <2>1. CASE t # s
    <3>1. /\ log'[t] = log[t] /\ (t \in DOMAIN tat' <=> t \in DOMAIN tat)
          /\ t \in DOMAIN tat => tat'[t] = tat[t]
      BY <1>5, <1>6, <2>1
    <3>2. \A i \in DOMAIN log[t].slots : log[t].slots # << >>
      OBVIOUS
    <3> QED
      BY <1>10, <3>1, <3>2 DEF IInv, Ahead
  <2>2. CASE t = s
    <3>1. s \in DOMAIN tat'
      BY <1>6
    <3>2. ASSUME BeforeHorizon(s)', NEW i \in 1..(n + 1)
          PROVE  tat'[s] >= log'[s].slots[i] + (n + 1 - i + 1) * Interval
      <4>1. CASE i = n + 1
        <5>1. (n + 1 - i + 1) * Interval = Interval
          BY <1>9, <4>1
        <5> QED
          BY <1>4, <1>11, <3>2, <4>1, <5>1
      <4>2. CASE i \in 1..n
        <5>1. /\ tat[s] \in Nat /\ (n - i + 1) * Interval \in Nat
              /\ tat[s] >= log[s].slots[i] + (n - i + 1) * Interval
              /\ tat[s] + Interval <= tat'[s]
          BY <1>11, <1>12, <3>2, <4>2
        <5>2. (n + 1 - i + 1) * Interval = (n - i + 1) * Interval + Interval
          <6>1. n - i + 1 \in Int /\ n + 1 - i + 1 = (n - i + 1) + 1
            BY <4>2
          <6>2. ((n - i + 1) + 1) * Interval = (n - i + 1) * Interval + 1 * Interval
            BY <1>9, <6>1, MulDistributes
          <6> QED
            BY <1>9, <6>1, <6>2
        <5>3. log[s].slots[i] \in Nat /\ log'[s].slots[i] = log[s].slots[i]
          BY <1>4, <4>2
        <5> QED
          BY <1>6, <1>9, <5>1, <5>2, <5>3
      <4> QED
        BY <4>1, <4>2
    <3>3. BeforeHorizon(s)' =>
            \A i \in DOMAIN log'[s].slots :
              tat'[s] >= log'[s].slots[i] + (Len(log'[s].slots) - i + 1) * Interval
      BY <1>4, <3>2
    <3> QED
      BY <2>2, <3>1, <3>3 DEF BeforeHorizon
  <2> QED
    BY <2>1, <2>2
<1>14. SlotSpacing'
  <2> SUFFICES ASSUME NEW t \in Scopes, BeforeHorizon(t)',
                      NEW i \in DOMAIN log'[t].slots, NEW j \in DOMAIN log'[t].slots, i < j
               PROVE  log'[t].slots[j] - log'[t].slots[i] >= (j - i) * Interval - Tolerance
    BY DEF SlotSpacing
  <2>1. \A t_1 \in Scopes : BeforeHorizon(t_1) =>
          \A k, m \in DOMAIN log[t_1].slots :
            k < m => log[t_1].slots[m] - log[t_1].slots[k] >= (m - k) * Interval - Tolerance
    BY DEF IInv, SlotSpacing
  <2>2. CASE t # s
    BY <1>5, <1>10, <2>1, <2>2
  <2>3. CASE t = s /\ j \in 1..n
    <3>1. i \in 1..n
      BY <1>4, <2>3
    <3> QED
      BY <1>4, <1>10, <2>1, <2>3, <3>1
  <2>4. CASE t = s /\ j = n + 1
    <3>1. i \in 1..n
      BY <1>4, <2>4
    <3>2. /\ s \in DOMAIN tat /\ tat[s] \in Nat
          /\ (n - i + 1) * Interval \in Nat
          /\ tat[s] >= log[s].slots[i] + (n - i + 1) * Interval
      BY <1>12, <2>4, <3>1
    <3>3. tat[s] - Tolerance <= slot
      BY <1>1, <3>2 DEF Claimed
    <3>4. j - i = n - i + 1
      BY <2>4, <3>1
    <3>5. log'[s].slots[j] = slot /\ log'[s].slots[i] = log[s].slots[i] /\ log[s].slots[i] \in Nat
      BY <1>4, <2>4, <3>1
    <3> QED
      BY <1>9, <2>4, <3>2, <3>3, <3>4, <3>5
  <2> QED
    BY <1>4, <2>2, <2>3, <2>4
<1>15. RequestsOK'
  <2>1. \A t \in Scopes : \A i \in DOMAIN log[t].slots :
          i \in DOMAIN log'[t].slots /\ log'[t].slots[i] = log[t].slots[i]
    BY <1>4, <1>5
  <2> SUFFICES ASSUME NEW p \in DOMAIN task PROVE RequestOK(task[p])'
    BY <1>7 DEF RequestsOK
  <2>2. CASE p # r
    <3>1. RequestOK(task[p]) /\ task[p].scope \in Scopes /\ task'[p] = task[p]
      BY <1>2, <1>7, <2>2 DEF IInv, RequestsOK, TypeOK, Requests
    <3> QED
      BY <1>5, <2>1, <3>1 DEF RequestOK
  <2>3. CASE p = r
    <3>1. /\ q.scope = s /\ q.ticket = n + 1 /\ q.time = slot - now
          /\ q.stage \in {"inflight", "claimed"}
          /\ now <= clock
      BY <1>1, <1>3 DEF Claimed
    <3>2. slot <= clock' + q.time
      BY <1>2, <1>5, <3>1
    <3>3. /\ task'[p] = q /\ q.ticket \in DOMAIN log'[q.scope].slots
          /\ log'[q.scope].slots[q.ticket] = slot
      BY <1>4, <1>7, <2>3, <3>1
    <3>4. q.stage # "arrived" /\ q.stage # "sleeping" /\ q.stage # "pushed"
      BY <3>1
    <3> QED
      BY <3>2, <3>3, <3>4 DEF RequestOK
  <2> QED
    BY <2>2, <2>3
<1>16. SentOK'
  <2> SUFFICES ASSUME NEW t \in Scopes, NEW i \in log'[t].sent
               PROVE  i \in DOMAIN log'[t].slots /\ log'[t].slots[i] <= clock
    BY <1>5 DEF SentOK
  <2>1. \A k \in log[t].sent : k \in DOMAIN log[t].slots /\ log[t].slots[k] <= clock
    BY DEF IInv, SentOK
  <2>2. CASE t # s
    BY <1>5, <2>1, <2>2
  <2>3. CASE t = s /\ i \in log[s].sent
    <3>1. i \in 1..n /\ log[s].slots[i] <= clock
      BY <1>4, <2>1, <2>3
    <3>2. i \in 1..(n + 1) /\ log'[s].slots[i] = log[s].slots[i]
      BY <1>4, <3>1
    <3> QED
      BY <1>4, <2>3, <3>1, <3>2
  <2>4. CASE t = s /\ i \notin log[s].sent
    <3>1. slot = now /\ i = n + 1 /\ now <= clock
      BY <1>1, <1>3, <2>4 DEF Claimed
    <3> QED
      BY <1>4, <2>4, <3>1
  <2> QED
    BY <2>2, <2>3, <2>4
<1>17. Floors'
  <2> SUFFICES ASSUME NEW t \in Scopes, log'[t].floor > 0
               PROVE  t \in DOMAIN tat' /\ tat'[t] >= log'[t].floor + Tolerance
    BY DEF Floors
  <2>1. log'[t].floor = log[t].floor
    BY <1>5
  <2>2. t \in DOMAIN tat /\ tat[t] >= log[t].floor + Tolerance
    BY <2>1 DEF IInv, Floors
  <2>3. /\ t \in DOMAIN tat' /\ tat[t] <= tat'[t]
        /\ tat[t] \in Nat /\ tat'[t] \in Nat /\ log[t].floor \in Nat
    BY <1>2, <1>6, <2>2 DEF TypeOK, Logs
  <2> QED
    BY <1>9, <2>1, <2>2, <2>3
<1> QED
  BY <1>8, <1>13, <1>14, <1>15, <1>16, <1>17 DEF IInv

-----------------------------------------------------------------------------
(* The theorems.                                                            *)

\* Every step keeps the invariant.
LEMMA NextIInv == IInv /\ [Next]_vars => IInv'
<1> SUFFICES ASSUME IInv, [Next]_vars PROVE IInv'
  OBVIOUS
<1>1. CASE Tick
  BY <1>1, TickIInv
<1>2. ASSUME NEW r \in Tasks, NEW s \in Scopes, Arrive(r, s) PROVE IInv'
  BY <1>2, ArriveIInv
<1>3. ASSUME NEW r \in Tasks, Claim(r) \/ Sleep(r) \/ Wake(r) \/ BackOff(r) PROVE IInv'
  BY <1>3, ClaimIInv, SleepIInv, WakeIInv, BackOffIInv
<1>4. ASSUME NEW r \in Tasks, Cancel(r) PROVE IInv'
  <2>1. r \in DOMAIN task /\ task' = Drop(task, r) /\ UNCHANGED <<clock, tat, log>>
    BY <1>4 DEF Cancel
  <2> QED
    BY <2>1, DropIInv
<1>5. ASSUME NEW r \in Tasks, NEW response \in Responses,
             Respond(r, response) \/ Panic(r, response)
      PROVE  IInv'
  <2>1. r \in DOMAIN task /\ task' = Drop(task, r) /\ UNCHANGED <<clock, tat, log>>
    BY <1>5 DEF Respond, Panic
  <2> QED
    BY <2>1, DropIInv
<1>6. ASSUME NEW r \in Tasks, NEW response \in Responses, Push(r, response)
      PROVE  IInv'
  BY <1>6, PushIInv
<1>7. CASE UNCHANGED vars
  BY <1>7 DEF vars, IInv, TypeOK, RequestsOK, RequestOK, SentOK, Ahead, Floors,
              SlotSpacing, BeforeHorizon
<1> QED
  BY <1>1, <1>2, <1>3, <1>4, <1>5, <1>6, <1>7 DEF Next

\* The invariant holds in every reachable state.
THEOREM ThrottleInvariant == Spec => []IInv
BY InitIInv, NextIInv, PTL DEF Spec

\* Every reachable state is well typed.
THEOREM TypeCorrect == Spec => []TypeOK
<1>1. IInv => TypeOK
  BY DEF IInv
<1> QED
  BY <1>1, ThrottleInvariant, PTL

\* Any two slots of a scope are as many intervals apart as there are claims
\* between them, less the tolerance: claim loses no update under the mutex,
\* whatever the age of the instants it is called with.
THEOREM SlotSpacingHolds == Spec => []SlotSpacing
<1>1. IInv => SlotSpacing
  BY DEF IInv
<1> QED
  BY <1>1, ThrottleInvariant, PTL

\* A new slot lies beyond every wait asked for before.
LEMMA BackoffStep ==
  ASSUME IInv, [Next]_vars, NEW s \in Scopes, Len(log'[s].slots) > Len(log[s].slots)
  PROVE  log'[s].slots[Len(log'[s].slots)] >= log[s].floor
<1>1. TypeOK /\ log[s] \in Logs /\ log \in [Scopes -> Logs]
  BY DEF IInv, TypeOK
<1>2. PICK n \in Nat : n = Len(log[s].slots)
  BY <1>1 DEF Logs
<1>3. ASSUME log'[s].slots = log[s].slots PROVE FALSE
  BY <1>2, <1>3
<1>4. PICK r \in Tasks : Claim(r)
  <2>1. ASSUME NEW r \in Tasks, NEW t \in Scopes, Arrive(r, t) PROVE FALSE
    BY <1>3, <2>1 DEF Arrive
  <2>2. ASSUME NEW r \in Tasks, Sleep(r) \/ Cancel(r) PROVE FALSE
    BY <1>3, <2>2 DEF Sleep, Cancel
  <2>3. ASSUME NEW r \in Tasks, Wake(r) PROVE FALSE
    <3>1. log'[s].slots = log[s].slots
      BY <1>1, <2>3 DEF Wake, Sent, Logs
    <3> QED
      BY <1>3, <3>1
  <2>4. ASSUME NEW r \in Tasks, BackOff(r) PROVE FALSE
    <3>1. log'[s].slots = log[s].slots
      BY <1>1, <2>4 DEF BackOff, Logs
    <3> QED
      BY <1>3, <3>1
  <2>5. ASSUME NEW r \in Tasks, NEW response \in Responses,
               Respond(r, response) \/ Push(r, response) \/ Panic(r, response)
        PROVE  FALSE
    BY <1>3, <2>5 DEF Respond, Push, Panic
  <2>6. ~ Tick /\ vars' # vars
    BY <1>3 DEF Tick, vars
  <2> QED
    BY <2>1, <2>2, <2>3, <2>4, <2>5, <2>6 DEF Next
<1>5. PICK t \in Scopes, now \in Nat, slot \in Nat, q \in Requests :
        Claimed(r, t, now, slot, q)
  BY <1>4, ClaimEffect
<1>6. t = s
  BY <1>3, <1>5 DEF Claimed
<1>7. log'[s].slots = Append(log[s].slots, slot) /\ log[s].slots \in Seq(Nat)
  BY <1>1, <1>5, <1>6 DEF Claimed, Logs
<1>8. log'[s].slots[Len(log'[s].slots)] = slot
  BY <1>7
<1>9. log[s].floor \in Nat /\ Tolerance \in Nat
  BY <1>1, PaceTypes DEF Logs
<1>10. CASE log[s].floor = 0
  BY <1>8, <1>10
<1>11. CASE log[s].floor > 0
  <2>1. s \in DOMAIN tat /\ tat[s] >= log[s].floor + Tolerance
    BY <1>11 DEF IInv, Floors
  <2>2. tat[s] \in Nat
    BY <1>1, <2>1 DEF TypeOK
  <2>3. tat[s] - Tolerance <= slot
    BY <1>5, <1>6, <2>1 DEF Claimed
  <2> QED
    BY <1>8, <1>9, <2>1, <2>2, <2>3
<1> QED
  BY <1>9, <1>10, <1>11

\* Once a back-off has been recorded, no claim is given a slot before its end:
\* the burst headroom that claim subtracts is exactly what back_off added.
THEOREM BackoffHonouredHolds == Spec => BackoffHonoured
<1>1. IInv /\ [Next]_vars =>
        [\A s \in Scopes :
           Len(log'[s].slots) > Len(log[s].slots)
             => log'[s].slots[Len(log'[s].slots)] >= log[s].floor]_vars
  BY BackoffStep
<1> QED
  BY <1>1, ThrottleInvariant, PTL DEF Spec, BackoffHonoured

-----------------------------------------------------------------------------
(* The quota.                                                               *)

\* A set of tickets has a ticket no smaller than their number.
LEMMA SomeTicket ==
  ASSUME NEW m \in Nat, NEW S \in SUBSET (1..m), S # {}
  PROVE  Cardinality(S) \in Nat /\ \E b \in S : Cardinality(S) <= b
<1>1. IsFiniteSet(1..m)
  BY FS_Interval
<1>2. IsFiniteSet(S) /\ Cardinality(S) \in Nat
  BY <1>1, FS_Subset, FS_CardinalityType
<1>3. Cardinality(S) # 0
  BY <1>2, FS_EmptySet
<1>4. SUFFICES ASSUME \A b \in S : ~ Cardinality(S) <= b PROVE FALSE
  BY <1>2
<1>5. PICK k \in Nat : Cardinality(S) = k + 1
  <2>1. Cardinality(S) - 1 \in Nat
    BY <1>2, <1>3
  <2> QED
    BY <1>2, <2>1
<1>6. S \in SUBSET (1..k)
  <2> SUFFICES ASSUME NEW b \in S PROVE b \in 1..k
    OBVIOUS
  <2>1. b \in 1..m /\ ~ k + 1 <= b
    BY <1>4, <1>5
  <2> QED
    BY <2>1
<1>7. k \in Int /\ 1 \in Int
  OBVIOUS
<1>8. IsFiniteSet(1..k) /\ Cardinality(1..k) = IF 1 > k THEN 0 ELSE k - 1 + 1
  BY <1>7, FS_Interval
<1>9. Cardinality(1..k) = k
  BY <1>8
<1>10. Cardinality(S) <= Cardinality(1..k)
  BY <1>6, <1>8, FS_Subset
<1> QED
  BY <1>5, <1>9, <1>10

\* How spaced slots bound what has been sent: n requests need all but B of
\* their intervals to have gone by.
LEMMA SpacingBound ==
  ASSUME NEW n \in Nat, NEW b \in Nat, n <= b, b > 0, NEW now \in Nat,
         NEW B \in Nat \ {0}, NEW C \in Nat, NEW I \in Nat, NEW W \in Nat,
         I * C >= W, (b - 1) * I - I * (B - 1) <= now
  PROVE  n * W <= B * W + now * C
<1>1. now * C \in Nat /\ B * W \in Nat
  BY MulNat
<1>2. CASE n <= B
  <2>1. n * W <= B * W /\ n * W \in Nat
    BY <1>2, MulMonotone, MulNat
  <2> QED
    BY <1>1, <2>1
<1>3. CASE n > B
  <2>1. PICK k \in Nat : n = B + k
    <3>1. n - B \in Nat /\ n = B + (n - B)
      BY <1>3
    <3> QED
      BY <3>1
  <2>2. k * I <= now
    <3>1. k * I <= (b - B) * I
      <4>1. k <= b - B /\ b - B \in Int
        BY <2>1
      <4> QED
        BY <4>1, MulMonotone
    <3>2. (b - B) * I = (b - 1) * I - (B - 1) * I
      <4>1. b - B = (b - 1) - (B - 1) /\ b - 1 \in Int /\ B - 1 \in Int
        OBVIOUS
      <4>2. ((b - 1) - (B - 1)) * I = (b - 1) * I - (B - 1) * I
        BY <4>1, MulDistributes
      <4> QED
        BY <4>1, <4>2
    <3>3. (B - 1) * I = I * (B - 1)
      OBVIOUS
    <3>4. k * I \in Int /\ (b - B) * I \in Int /\ (b - 1) * I \in Int /\ (B - 1) * I \in Int
      OBVIOUS
    <3> QED
      BY <3>1, <3>2, <3>3, <3>4
  <2>3. (k * I) * C <= now * C
    BY <2>2, MulMonotone, MulNat
  <2>4. k * W <= k * (I * C)
    <3>1. W * k <= (I * C) * k
      BY MulMonotone, MulNat
    <3> QED
      BY <3>1
  <2>5. (k * I) * C = k * (I * C)
    OBVIOUS
  <2>6. n * W = B * W + k * W
    BY <2>1, MulDistributes
  <2>7. k * W \in Nat /\ k * (I * C) \in Nat
    BY MulNat
  <2> QED
    BY <1>1, <2>3, <2>4, <2>5, <2>6, <2>7
<1> QED
  BY <1>2, <1>3

\* If the rounding of the interval has not shortened it, a scope's requests
\* never outrun the quota: at any time at most Burst (or one) of them have
\* gone out beyond those that the time elapsed pays for.
THEOREM WithinQuotaHolds ==
  ASSUME Interval * Later(Count, 1) >= Window
  PROVE  Spec => []WithinQuota
<1>1. ASSUME IInv PROVE WithinQuota
  <2> SUFFICES ASSUME NEW s \in Scopes, BeforeHorizon(s)
               PROVE  Cardinality(log[s].sent) * Window <=
                        Later(Burst, 1) * Window + clock * Later(Count, 1)
    BY DEF WithinQuota
  <2> DEFINE S == log[s].sent
             n == Cardinality(S)
             B == Later(Burst, 1)
             C == Later(Count, 1)
  <2>1. /\ B \in Nat \ {0} /\ C \in Nat /\ Window \in Nat /\ clock \in Nat
        /\ SaturatingSub(Burst, 1) = B - 1
    BY <1>1, QuotaAssumption DEF Later, SaturatingSub, IInv, TypeOK
  <2>2. log[s].slots \in Seq(Nat)
    BY <1>1 DEF IInv, TypeOK, Logs
  <2>3. PICK m \in Nat : DOMAIN log[s].slots = 1..m
    BY <2>2
  <2>4. \A i \in S : i \in 1..m /\ log[s].slots[i] <= clock
    BY <1>1, <2>3 DEF IInv, SentOK
  <2>5. CASE S = {}
    <3>1. n = 0
      BY <2>5, FS_EmptySet
    <3>2. B * Window \in Nat /\ clock * C \in Nat
      BY <2>1, MulNat
    <3> HIDE DEF n, S, B, C
    <3>3. n * Window <= B * Window + clock * C
      BY <2>1, <3>1, <3>2
    <3> QED
      BY <3>3 DEF n, S, B, C
  <2>6. CASE S # {}
    <3>1. n \in Nat /\ \E b \in S : n <= b
      BY <2>4, <2>6, SomeTicket
    <3>2. PICK b \in S : n <= b
      BY <3>1
    <3>3. /\ b \in 1..m /\ 1 \in 1..m
          /\ log[s].slots[b] \in Nat /\ log[s].slots[1] \in Nat
          /\ log[s].slots[b] <= clock
      BY <2>2, <2>3, <2>4, <3>2
    <3>4. Interval \in Nat /\ Tolerance = Interval * (B - 1) /\ Tolerance \in Nat
      BY <2>1, PaceTypes DEF Tolerance
    <3>5. (b - 1) * Interval - Tolerance <= clock
      <4>1. CASE b = 1
        <5>1. (b - 1) * Interval = 0
          BY <3>4, <4>1
        <5> QED
          BY <2>1, <3>4, <5>1
      <4>2. CASE b > 1
        <5>1. log[s].slots[b] - log[s].slots[1] >= (b - 1) * Interval - Tolerance
          BY <1>1, <2>3, <3>3, <4>2 DEF IInv, SlotSpacing
        <5>2. (b - 1) * Interval \in Int
          BY <3>3, <3>4
        <5> QED
          BY <2>1, <3>3, <3>4, <5>1, <5>2
      <4> QED
        BY <3>3, <4>1, <4>2
    <3>6. b \in Nat /\ b > 0
      BY <3>3
    <3>7. Interval * C >= Window
      OBVIOUS
    <3> HIDE DEF n, S, B, C
    <3>8. n * Window <= B * Window + clock * C
      BY <2>1, <3>1, <3>2, <3>4, <3>5, <3>6, <3>7, SpacingBound
    <3> QED
      BY <3>8 DEF n, S, B, C
  <2> QED
    BY <2>5, <2>6
<1>2. IInv => WithinQuota
  BY <1>1
<1> QED
  BY <1>2, ThrottleInvariant, PTL
=============================================================================
