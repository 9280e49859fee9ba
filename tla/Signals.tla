------------------------------- MODULE Signals -------------------------------
(***************************************************************************)
(* How a client reads what a server says about its limits: server_backoff   *)
(* of src/src/client.rs, on the parsed header fields of a response.         *)
(***************************************************************************)
EXTENDS Naturals

\* retry_after: a delta-seconds Retry-After, if there is one.  limits: the
\* items of the RateLimit header, none if it is absent or malformed.
ResponseType == [retry_after : SUBSET Nat,
                 limits      : SUBSET [remaining : Nat, reset : SUBSET Nat]]

\* A deliberately wrong variant of ServerBackoff: an exhausted item is not
\* honoured, only Retry-After is.
RetryAfterOnly(response) == response.retry_after

\* The longest of the waits a response asks for, if it asks for any.
ServerBackoff(response) ==
  LET waits == response.retry_after
                 \cup UNION {l.reset : l \in {m \in response.limits : m.remaining = 0}}
  IN  {w \in waits : \A v \in waits : v <= w}
=============================================================================
