------------------------------- MODULE Quota -------------------------------
(***************************************************************************)
(* The request quota of src/src/headers/quota.rs: Count units per Window,   *)
(* and at most Burst units at once.  Time is measured in ticks (one tick    *)
(* stands for the nanosecond that std::time::Duration counts in).           *)
(*                                                                          *)
(* The code keeps token levels as f64 and refills them at Count / Window    *)
(* tokens per unit of time.  Here a token is divided into Window equal      *)
(* parts, so that one tick refills exactly Count parts and every level is   *)
(* an integer: the arithmetic of the code with real numbers for f64.        *)
(***************************************************************************)
EXTENDS Integers

CONSTANTS
  Count,    \* quota units replenished per window
  Window,   \* length of the window, in ticks
  Burst     \* the most units that may be consumed at once

\* A quota is any pair of u64s with a window; the documentation of
\* Quota::per asks for a non-zero window.
ASSUME QuotaAssumption == /\ Count \in Nat
                          /\ Window \in Nat \ {0}
                          /\ Burst \in Nat

\* Parts in one token.
Token == Window

\* The capacity of a bucket, in parts.
Capacity == Burst * Token

\* The largest of two, and the difference that stops at zero.
Later(a, b)   == IF a >= b THEN a ELSE b
Earlier(a, b) == IF a <= b THEN a ELSE b
SaturatingSub(a, b) == IF a > b THEN a - b ELSE 0

\* The integer nearest to n / d, ties to even: Duration::from_secs_f64 rounds
\* to whole nanoseconds so.
Nearest(n, d) ==
  LET q == n \div d
      r == n % d
  IN  IF 2 * r < d \/ (2 * r = d /\ q % 2 = 0) THEN q ELSE q + 1
=============================================================================
