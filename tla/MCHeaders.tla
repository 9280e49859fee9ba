------------------------------ MODULE MCHeaders ------------------------------
(* Limiters with awkward names and quotas, and lines of other servers, each   *)
(* with what it means.                                                       *)
EXTENDS Headers

Plain  == <<"api">>
Quoted == <<"\"", "a", "\\">>

MCPrintable == {"api", "a", "\\", "\"", "tokens"} \cup Registered

A(name, count, window, remaining, reset, retry, pk) ==
  [name |-> name, count |-> count, window |-> window, remaining |-> remaining,
   reset |-> reset, retry_after |-> retry, pk |-> pk]

\* An ordinary one, exhausted; one whose name needs quoting, with a window of a
\* second and a half; one that refuses, with a window under a second; one whose
\* name cannot be written; one with a quota that cannot.
MCLimiters ==
  { A(Plain, 2, 4, 0, 3, {}, {}), A(Quoted, 1, 3, 1, 0, {}, {"a2V5"}),
    A(Plain, 0, 1, 0, 2, {1}, {}), A(<<"non-ascii">>, 1, 2, 0, 2, {2}, {}),
    A(Plain, 8, 2, 1, 1, {}, {}) }

Str(text)            == [string |-> text]
I(i)                 == [int |-> i]
It(value, params)    == [value |-> value, params |-> params]
F(field, items, means) == [field |-> field, means |-> means,
                           line |-> [utf8 |-> TRUE, items |-> items]]
Limit(name, r, t, pk) == [name |-> name, remaining |-> r, reset |-> t, partition_key |-> pk]
Policy(name, q, qu, w, pk) ==
  [name |-> name, quota |-> q, unit |-> qu, window |-> w, partition_key |-> pk]

\* Repeated and misplaced parameters; items that are not limits among one that
\* is; a malformed member of an inner list; bytes that are no text.  The same
\* for policies, with units.
MCLines ==
  { F("limits", <<It(Str(<<"a">>), <<Param("r", I(1)), Param("r", I(0)), Param("r", I(-1)),
                                     Param("t", [other |-> "decimal"]), Param("q", I(5))>>),
                  It(Str(<<"\\", "\\", "api">>), <<Param("t", I(4)), Param("r", I(0)),
                                                   Param("pk", [bytes |-> "a2V5"])>>)>>,
      {<<Limit(<<"a">>, 0, {}, {}), Limit(<<"\\", "api">>, 0, {8}, {"a2V5"})>>}),
    F("limits", <<It([other |-> "token"], <<Param("r", I(0)), Param("t", I(5))>>),
                  It([list |-> <<I(1), Str(<<"\\", "\"">>)>>], <<Param("r", I(0))>>),
                  It(Str(<<"api">>), <<Param("t", I(5))>>)>>,
      {<< >>}),
    F("limits", <<It(Str(<<"a">>), <<Param("r", I(0)), Param("t", I(5))>>),
                  It([list |-> <<Str(<<"a", "\\">>)>>], << >>)>>,
      {}),
    [field |-> "limits", means |-> {<< >>}, line |-> [utf8 |-> FALSE, items |-> << >>]],
    F("policies", <<It(Str(<<"a">>), <<Param("q", I(3)), Param("qu", Str(<<"content-bytes">>)),
                                       Param("w", I(2)), Param("w", I(0)),
                                       Param("pk", [bytes |-> "a2V5"])>>),
                    It(Str(<<"api">>), <<Param("qu", Str(<<"\\", "\\", "tokens">>)),
                                         Param("q", I(0))>>)>>,
      {<<Policy(<<"a">>, 3, [token |-> "content-bytes"], {4}, {"a2V5"}),
         Policy(<<"api">>, 0, [other |-> <<"\\", "tokens">>], {}, {})>>}),
    F("policies", <<It(Str(<<"a">>), <<Param("q", I(9))>>)>>, {}) }
=============================================================================
