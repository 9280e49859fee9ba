----------------------------- MODULE MCEndToEnd -----------------------------
(* A paced client on a dual-stack IPv4 network and a hasty one on a /64. *)
EXTENDS EndToEnd

CONSTANTS paced, hasty, t1, t2, t3

MCServer == [count |-> 1, window |-> 2, burst |-> 2, missing |-> "Skip", jitter |-> 0,
             capacity |-> 2]

V4(host)         == [v4 |-> <<49320, host>>]
Mapped(host)     == [v6 |-> <<0, 0, 0, 0, 0, 65535, 49320, host>>]
V6(subnet, host) == [v6 |-> <<8193, 3512, 0, subnet, 0, 0, 0, host>>]

\* The paced client has the limiter's own rate, and leaves a token of its burst
\* for lateness; the hasty one sends at every tick until it is told not to.
MCProfile ==
  [c \in {paced, hasty} |->
     IF c = paced
     THEN [count |-> 1, window |-> 2, burst |-> 1, honors |-> TRUE,
           tasks |-> {t1, t2}, addresses |-> {V4(1), Mapped(1)}]
     ELSE [count |-> 1, window |-> 1, burst |-> 2, honors |-> TRUE,
           tasks |-> {t3}, addresses |-> {V6(1, 1), V6(1, 2)}]]
=============================================================================
