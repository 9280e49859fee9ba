----------------------------- MODULE MCThrottle -----------------------------
(***************************************************************************)
(* Small instances of Throttle for TLC.  Tasks are interchangeable, scopes too. *)
(***************************************************************************)
EXTENDS Throttle, TLC

CONSTANTS Wait, LongWait   \* what servers ask for, in ticks

\* A server that says nothing, one with budget left, one that asks for a wait
\* in both headers, and one whose wait ends after the horizon.
MCResponses ==
  { [retry_after |-> {}, limits |-> {}],
    [retry_after |-> {}, limits |-> {[remaining |-> 1, reset |-> {LongWait}],
                                     [remaining |-> 0, reset |-> {}]}],
    [retry_after |-> {1}, limits |-> {[remaining |-> 0, reset |-> {Wait}],
                                      [remaining |-> 0, reset |-> {}]}],
    [retry_after |-> {LongWait}, limits |-> {}] }

Symmetry == Permutations(Tasks) \cup Permutations(Scopes)
=============================================================================
