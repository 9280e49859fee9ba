------------------------------- MODULE Headers -------------------------------
(***************************************************************************)
(* The RateLimit and RateLimit-Policy fields of src/src/headers: what is     *)
(* written into them, and what is read out of them again.                    *)
(*                                                                          *)
(* A field is a sequence of field lines.  Limiters append one line to each   *)
(* (Advertise), servers of other makes add lines of their own (Foreign), a   *)
(* gateway reads both fields and writes them anew (Relay), and a client      *)
(* reads RateLimit for the waits it asks for.                                *)
(*                                                                          *)
(* A text is a sequence of symbols: `\`, `"`, and runs of other characters.  *)
(* A line is the sequence of its items, and utf8, whether it can be read as  *)
(* a string at all.  An item is a bare value and parameters in their order.  *)
(* The string of a value is the raw text between the quotes.                 *)
(*                                                                          *)
(* `said` is a history variable: only the bound on the lines reads it.        *)
(***************************************************************************)
EXTENDS Integers, Sequences, SequencesExt, Signals

CONSTANTS
  Lines,       \* other servers' lines, and what they mean: see Foreign
  Limiters,    \* what limiters may advertise: see Advertised
  Printable,   \* the symbols made of printable ASCII characters
  MaxInteger,  \* the largest Integer of a structured field (15 digits)
  Second,      \* ticks in one second
  MaxLines     \* bound on the lines added to a response, for model checking

\* Options are sets with at most one element.
Option(S) == {o \in SUBSET S : \A x, y \in o : x = y}

BareValues == [string : Seq(STRING)] \cup [int : Int] \cup [bytes : STRING]
                \cup [other : STRING]
Values     == BareValues \cup [list : Seq(BareValues)]
Keys       == {"q", "qu", "w", "r", "t", "pk", "other"}  \* "other": any other
Items      == [value : Values, params : Seq([key : Keys, value : BareValues])]
FieldLines == [utf8 : BOOLEAN, items : Seq(Items)]

\* policy_name, the quota's count and window, the decision's remaining, the
\* reset and Retry-After in seconds, and the rendered key, if any.
Advertised == [name : Seq(STRING), count : Nat, window : Nat, remaining : Nat,
               reset : Nat, retry_after : Option(Nat), pk : Option(STRING)]

ASSUME HeadersAssumption == /\ Limiters \subseteq Advertised
                            /\ \A l \in Lines : /\ l.line \in FieldLines
                                               /\ l.field \in {"limits", "policies"}
                            /\ Printable \subseteq STRING /\ {"\\", "\""} \subseteq Printable
                            /\ MaxInteger \in Nat
                            /\ Second \in Nat \ {0}
                            /\ MaxLines \in Nat

VARIABLES
  policies,     \* the lines of RateLimit-Policy
  limits,       \* the lines of RateLimit
  retry_after,  \* the value of Retry-After, if there is one
  said          \* history, per field: what each line was meant to say

vars == <<policies, limits, retry_after, said>>

-----------------------------------------------------------------------------
(* Structured fields, as sfparse reads them.                                *)

\* Whether the n-th character of a raw text is a backslash that escapes the next.
Escapes(raw) ==
  LET escapes[n \in 0..Len(raw)] == n > 0 /\ raw[n] = "\\" /\ ~escapes[n - 1]
  IN  escapes

\* A raw text is a String if its characters are printable, and of quotes and
\* backslashes none stands without and no other with a backslash before it.
WellFormedString(raw) ==
  /\ \A n \in DOMAIN raw :
       /\ raw[n] \in Printable
       /\ IF Escapes(raw)[n - 1] THEN raw[n] \in {"\\", "\""} ELSE raw[n] # "\""
  /\ ~Escapes(raw)[Len(raw)]

WellFormedValue(v) ==
  /\ "string" \in DOMAIN v => WellFormedString(v.string)
  /\ "int" \in DOMAIN v => v.int \in -MaxInteger..MaxInteger

WellFormedItem(i) ==
  /\ IF "list" \in DOMAIN i.value
     THEN \A k \in DOMAIN i.value.list : WellFormedValue(i.value.list[k])
     ELSE WellFormedValue(i.value)
  /\ \A k \in DOMAIN i.params : WellFormedValue(i.params[k].value)

WellFormed(line) == \A k \in DOMAIN line.items : WellFormedItem(line.items[k])

Param(key, value) == [key |-> key, value |-> value]
IfSome(key, option) == SetToSeq({Param(key, value) : value \in option})

-----------------------------------------------------------------------------
(* Deliberately wrong variants of the operators below.                      *)

\* Names are written as they are.
write_unescaped(text) == text

\* Escapes are left in.
string_value_raw(raw) == raw
-----------------------------------------------------------------------------
(* sf.rs.                                                                   *)

\* write_sf_string: `\` and `"` get a backslash.
Escaped(c) == IF c \in {"\\", "\""} THEN <<"\\", c>> ELSE <<c>>

write_sf_string(text) == FlattenSeq([k \in DOMAIN text |-> Escaped(text[k])])

\* A backslash goes, and whatever follows it stays.
unescape(raw) ==
  FlattenSeq([k \in DOMAIN raw |-> IF Escapes(raw)[k] THEN << >> ELSE <<raw[k]>>])

string_value(raw) == IF \E k \in DOMAIN raw : raw[k] = "\\" THEN unescape(raw) ELSE raw

(* quota.rs: a QuotaUnit is [token |-> a registered one] or [other |-> text]. *)

Registered == {"requests", "content-bytes", "concurrent-requests"}
Requests == [token |-> "requests"]

as_str(unit) == IF "token" \in DOMAIN unit THEN <<unit.token>> ELSE unit.other

from_cow(text) ==
  IF Len(text) = 1 /\ text[1] \in Registered THEN [token |-> text[1]] ELSE [other |-> text]

(* rate_limit.rs and rate_limit_policy.rs: the values, and how they are built. *)

NewLimit(name, remaining) ==
  [name |-> name, remaining |-> remaining, reset |-> {}, partition_key |-> {}]

NewPolicy(name, quota) ==
  [name |-> name, quota |-> quota, unit |-> Requests, window |-> {}, partition_key |-> {}]

WithReset(limit, reset)        == [limit EXCEPT !.reset = {reset}]
WithWindow(policy, window)     == [policy EXCEPT !.window = {window}]
WithPartitionKey(x, pk)        == [x EXCEPT !.partition_key = pk]

(* Display: whole seconds, and `qu` only if it is not the default.            *)

as_secs(d) == [int |-> d \div Second]

\* A partition key is base64 when it comes here: limiter.rs:225 encodes it, and
\* with_partition_key asks for that form (rate_limit.rs:54) without checking it.
Bytes(pk)  == [bytes |-> pk]

Item(name, params) == [value |-> [string |-> write_sf_string(name)], params |-> params]
Line(items)        == [utf8 |-> TRUE, items |-> items]

DisplayLimit(l) ==
  Item(l.name, <<Param("r", [int |-> l.remaining])>>
                 \o IfSome("t", {as_secs(d) : d \in l.reset})
                 \o IfSome("pk", {Bytes(b) : b \in l.partition_key}))

DisplayPolicy(p) ==
  Item(p.name, <<Param("q", [int |-> p.quota])>>
                 \o IfSome("qu", {[string |-> write_sf_string(as_str(u))] : u \in {p.unit} \ {Requests}})
                 \o IfSome("w", {as_secs(d) : d \in p.window})
                 \o IfSome("pk", {Bytes(b) : b \in p.partition_key}))

NonNegative(v) == "int" \in DOMAIN v /\ v.int >= 0
Positive(v)    == "int" \in DOMAIN v /\ v.int > 0

(* parse_list: of a repeated parameter the last one that fits counts; an item *)
(* that is no String, or that lacks `r` or `q`, is left out.                  *)

ValueAtLast(params, positions) ==
  {params[k].value : k \in {k \in positions : \A j \in positions : j <= k}}

Latest(params, key, Fits(_)) ==
  ValueAtLast(params, {k \in DOMAIN params : params[k].key = key /\ Fits(params[k].value)})

IsString(v) == "string" \in DOMAIN v
IsBytes(v)  == "bytes" \in DOMAIN v

\* The unit, unless there is none.
UnitOr(option, default) == IF option = {} THEN default ELSE CHOOSE u \in option : TRUE

ParseLimit(item) ==
  IF ~IsString(item.value) THEN << >>
  ELSE SetToSeq({[name          |-> string_value(item.value.string),
                  remaining     |-> r.int,
                  reset         |-> {t.int * Second : t \in Latest(item.params, "t", NonNegative)},
                  partition_key |-> {b.bytes : b \in Latest(item.params, "pk", IsBytes)}] :
                 r \in Latest(item.params, "r", NonNegative)})

ParsePolicy(item) ==
  IF ~IsString(item.value) THEN << >>
  ELSE SetToSeq({[name          |-> string_value(item.value.string),
                  quota         |-> q.int,
                  unit          |-> UnitOr({from_cow(string_value(u.string)) :
                                              u \in Latest(item.params, "qu", IsString)}, Requests),
                  window        |-> {w.int * Second : w \in Latest(item.params, "w", Positive)},
                  partition_key |-> {b.bytes : b \in Latest(item.params, "pk", IsBytes)}] :
                 q \in Latest(item.params, "q", NonNegative)})

\* What parse_list makes of a line; one that is no text is passed over.
ParseLimits(line) ==
  IF line.utf8 THEN FlattenSeq([k \in DOMAIN line.items |-> ParseLimit(line.items[k])])
  ELSE << >>

ParsePolicies(line) ==
  IF line.utf8 THEN FlattenSeq([k \in DOMAIN line.items |-> ParsePolicy(line.items[k])])
  ELSE << >>

\* from_headers: what was read of all lines, or, if one of them is malformed,
\* ParseError, {}.
FromHeaders(lines, read) ==
  IF \A k \in DOMAIN lines : lines[k].utf8 => WellFormed(lines[k]) THEN {FlattenSeq(read)} ELSE {}

ReadLimits   == FromHeaders(limits, [k \in DOMAIN limits |-> ParseLimits(limits[k])])
ReadPolicies == FromHeaders(policies, [k \in DOMAIN policies |-> ParsePolicies(policies[k])])

\* A deliberately wrong variant of ClientBackoff: a malformed field is an error.
ClientBackoffOrError ==
  IF ReadLimits = {} THEN {}
  ELSE ServerBackoff([retry_after |-> {s * Second : s \in retry_after},
                      limits      |-> UNION {ToSet(read) : read \in ReadLimits}])

\* What the client makes of the response: unwrap_or_default, then server_backoff.
ClientBackoff ==
  ServerBackoff([retry_after |-> {s * Second : s \in retry_after},
                 limits      |-> UNION {ToSet(read) : read \in ReadLimits}])

-----------------------------------------------------------------------------
(* What was meant, in terms that leave the fields aside: a sequence of values, *)
(* or {} where it cannot be expressed in a structured field.                 *)

MeantLimit(a) ==
  IF ToSet(a.name) \subseteq Printable /\ a.remaining <= MaxInteger /\ a.reset <= MaxInteger
  THEN {<<[name |-> a.name, remaining |-> a.remaining, reset |-> {a.reset * Second},
           partition_key |-> a.pk]>>}
  ELSE {}

\* A window is said in whole seconds, and not at all below one second.
MeantPolicy(a) ==
  IF /\ ToSet(a.name) \subseteq Printable
     /\ a.count <= MaxInteger /\ a.window \div Second <= MaxInteger
  THEN {<<[name |-> a.name, quota |-> a.count, unit |-> Requests, partition_key |-> a.pk,
           window |-> {w \in {a.window - (a.window % Second)} : w > 0}]>>}
  ELSE {}

\* All that was said in a field, unless some of it cannot be read.
Meant(pieces) ==
  IF \E k \in DOMAIN pieces : pieces[k] = {} THEN {}
  ELSE {FlattenSeq([k \in DOMAIN pieces |-> CHOOSE said_k \in pieces[k] : TRUE])}

\* What other servers' lines mean is what each of them says by itself: the
\* theorems are about what becomes of it.
Understood ==
  \A l \in Lines :
    l.means = IF l.line.utf8 => WellFormed(l.line)
              THEN {IF l.field = "limits" THEN ParseLimits(l.line) ELSE ParsePolicies(l.line)}
              ELSE {}

-----------------------------------------------------------------------------

Init ==
  /\ policies = << >>
  /\ limits = << >>
  /\ retry_after = {}
  /\ said = [policies |-> << >>, limits |-> << >>]

\* The end of RateLimiter::run: a limiter that meters the request appends a line
\* to each field, and Retry-After if it refuses; then it is the last to run.
Advertise(a) ==
  /\ Len(said.limits) + Len(said.policies) + 2 <= MaxLines
  /\ retry_after = {}
  /\ LET policy == WithPartitionKey(WithWindow(NewPolicy(a.name, a.count), a.window), a.pk)
         limit  == WithPartitionKey(WithReset(NewLimit(a.name, a.remaining), a.reset * Second), a.pk)
     IN  /\ policies' = Append(policies, Line(<<DisplayPolicy(policy)>>))
         /\ limits' = Append(limits, Line(<<DisplayLimit(limit)>>))
  /\ retry_after' = a.retry_after
  /\ said' = [policies |-> Append(said.policies, MeantPolicy(a)),
              limits   |-> Append(said.limits, MeantLimit(a))]

\* Another server, or a proxy on the way, adds a line to one of the fields.
Foreign(l) ==
  /\ Len(said.limits) + Len(said.policies) < MaxLines
  /\ policies' = IF l.field = "policies" THEN Append(policies, l.line) ELSE policies
  /\ limits' = IF l.field = "limits" THEN Append(limits, l.line) ELSE limits
  /\ said' = [said EXCEPT ![l.field] = Append(@, l.means)]
  /\ UNCHANGED retry_after

\* A gateway reads both fields and writes what it read, one item per line.
Relay ==
  /\ \E ps \in ReadPolicies, ls \in ReadLimits :
       /\ policies' = [k \in DOMAIN ps |-> Line(<<DisplayPolicy(ps[k])>>)]
       /\ limits' = [k \in DOMAIN ls |-> Line(<<DisplayLimit(ls[k])>>)]
  /\ UNCHANGED <<retry_after, said>>

Next ==
  \/ \E a \in Limiters : Advertise(a)
  \/ \E l \in Lines : Foreign(l)
  \/ Relay

Spec == Init /\ [][Next]_vars

-----------------------------------------------------------------------------
(* Properties.                                                              *)

\* Whatever is read is within the range that the types document: printable
\* names, non-negative integers, and "w [is] a positive integer number of
\* seconds" (quota.rs:51-52).
TypeOK ==
  /\ \A read \in ReadLimits : \A l \in ToSet(read) :
       /\ ToSet(l.name) \subseteq Printable
       /\ l.remaining \in 0..MaxInteger
       /\ \A t \in l.reset : t % Second = 0
  /\ \A read \in ReadPolicies : \A p \in ToSet(read) :
       /\ ToSet(p.name) \subseteq Printable
       /\ p.quota \in 0..MaxInteger
       /\ \A w \in p.window : w >= Second /\ w % Second = 0

\* A RateLimit field says what was said: every limit in the order of the lines,
\* through quoting, skipped items and repeated parameters, and after any number
\* of relays; or, if any line is malformed, nothing at all ("treat the field as
\* carrying no rate-limit information", mod.rs:23-24).
LimitsHeard == ReadLimits = Meant(said.limits)

\* The same of RateLimit-Policy: its types "faithfully represent and round-trip
\* policies advertised by other servers" (quota.rs:84-85), units included.
PoliciesHeard == ReadPolicies = Meant(said.policies)

\* A client waits "the longest of a delta-seconds Retry-After and any exhausted
\* (r=0) RateLimit item's reset window" (client.rs:169-170): a malformed line
\* may cost it the resets, but never the Retry-After of a refusal.
PushbackHeard ==
  LET asked == {s * Second : s \in retry_after}
                 \cup UNION {l.reset : l \in {m \in UNION {ToSet(ls) : ls \in Meant(said.limits)} :
                                               m.remaining = 0}}
  IN  /\ ClientBackoff \subseteq asked
      /\ \A a \in asked : \E w \in ClientBackoff : a <= w
=============================================================================
