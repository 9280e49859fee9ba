------------------------------ MODULE MCLimiter ------------------------------
(* Small stacks of limiters for TLC. *)
EXTENDS Limiter, TLC

Symmetry == Permutations(Conns)

CONSTANT k1

\* A limit that everybody shares, whose burst takes two windows to refill and whose
\* store has no room to keep a debt; one for some callers, and one for callers that
\* must have a key, which never forget a debt unpaid.
MixedStack ==
  <<[count |-> 1, window |-> 2, burst |-> 2, missing |-> "Shared", jitter |-> 0,
     capacity |-> 0],
    [count |-> 2, window |-> 3, burst |-> 1, missing |-> "Skip",   jitter |-> 1,
     capacity |-> 1],
    [count |-> 1, window |-> 1, burst |-> 1, missing |-> "Reject", jitter |-> 0,
     capacity |-> 1]>>

\* The second is charged by the first limiter and rejected by the last.
MixedCallers == {<<{}, {k1}, {k1}>>, <<{}, {}, {}>>}

\* A token takes two and a third ticks, which bucket.rs rounds to two.
OddStack ==
  <<WithJitter(WithMissingKey(NewLimiter(AllowBurst(Per(3, 7), 1)), "Reject"), 1)>>
OddCallers == {<<{k1}>>}
=============================================================================
