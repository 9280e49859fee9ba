------------------------------- MODULE Lemmas -------------------------------
(***************************************************************************)
(* Facts about arithmetic, quotas and finite maps that the proofs about the *)
(* store and about the throttle both rest on.                               *)
(***************************************************************************)
EXTENDS Quota, Maps, TLAPS

\* Products of naturals, and how they compare: the nonlinear steps of every
\* proof below and in StoreProofs are instances of these.
LEMMA MulNat == ASSUME NEW a \in Nat, NEW b \in Nat PROVE a * b \in Nat
  OBVIOUS

\* Products grow with their factors.
LEMMA MulMonotone ==
  ASSUME NEW a \in Int, NEW b \in Int, NEW c \in Nat, a <= b
  PROVE  a * c <= b * c
  OBVIOUS

\* Products distribute over sums and differences.
LEMMA MulDistributes ==
  ASSUME NEW a \in Int, NEW b \in Int, NEW c \in Int
  PROVE  /\ (a + b) * c = a * c + b * c
         /\ (a - b) * c = a * c - b * c
  OBVIOUS

\* A token is at least one part, and a capacity is a number of parts.
LEMMA QuotaTypes ==
  /\ Count \in Nat
  /\ Token \in Nat \ {0}
  /\ Capacity \in Nat
  BY QuotaAssumption, MulNat DEF Token, Capacity

\* Rounding a quotient of naturals gives a natural.
LEMMA NearestNat ==
  ASSUME NEW n \in Nat, NEW d \in Nat \ {0}
  PROVE  Nearest(n, d) \in Nat
<1>1. n \div d \in Nat
  OBVIOUS
<1> QED
  BY <1>1 DEF Nearest

-----------------------------------------------------------------------------
(* Finite maps.                                                             *)

\* Dropping a key leaves the others as they were.
LEMMA DropFacts ==
  ASSUME NEW S, NEW f, f \in [DOMAIN f -> S], NEW x
  PROVE  /\ DOMAIN Drop(f, x) = DOMAIN f \ {x}
         /\ Drop(f, x) \in [DOMAIN f \ {x} -> S]
         /\ \A y \in DOMAIN f \ {x} : Drop(f, x)[y] = f[y]
  BY DEF Drop

\* The empty map binds nothing.
LEMMA EmptyMap ==
  ASSUME NEW S
  PROVE  DOMAIN << >> = {} /\ << >> \in [DOMAIN << >> -> S]
  OBVIOUS
=============================================================================
