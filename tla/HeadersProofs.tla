--------------------------- MODULE HeadersProofs ---------------------------
(***************************************************************************)
(* Theorems about Headers.tla, for all lines, limiters, alphabets and bounds *)
(* on integers: a text is read as it was quoted, an item as it was built,    *)
(* and a field, whatever lines it has and however often it was relayed, says *)
(* what was said; a client waits the longest wait that it asks for.          *)
(*                                                                          *)
(* Texts, lines and fields are sequences, built by FlattenSeq: what is true  *)
(* of them is shown by adding one element (FlattenMore, QuotedAppend,        *)
(* ReadMore).  The invariant (FieldsHeard) is that a field reads as what was *)
(* meant.  Limiters and others add a line that means what it says alone; a   *)
(* relay writes values that are read as they are (Writing), for all that can *)
(* be read is within what can be written (ParseLimitType, ParsePolicyType).  *)
(***************************************************************************)
EXTENDS Headers, FiniteSetTheorems, SequenceTheorems, WellFoundedInduction, TLAPS

\* Induction over the naturals, as a fact about sets.
LEMMA Induction ==
  ASSUME NEW S, 0 \in S, \A n \in Nat : n \in S => n + 1 \in S
  PROVE  Nat \subseteq S
<1> DEFINE T == Nat \ S
<1> SUFFICES ASSUME T # {} PROVE FALSE
  OBVIOUS
<1>1. T \subseteq Nat
  OBVIOUS
<1>2. PICK x \in T : \A y \in T : ~(<<y, x>> \in OpToRel(<, Nat))
  <2> HIDE DEF T
  <2> QED
    BY <1>1, NatLessThanWellFounded, WFMin
<1>3. x \in Nat /\ x # 0 /\ x \notin S
  OBVIOUS
<1>4. x - 1 \in Nat /\ x - 1 \notin S
  BY <1>3
<1>5. x - 1 < x
  BY <1>3
<1>6. <<x - 1, x>> \in OpToRel(<, Nat)
  BY <1>3, <1>4, <1>5 DEF OpToRel
<1> QED
  BY <1>2, <1>4, <1>6

\* F is what N steps of G lead to from b, all of it in V.
Closed(V, N, G)    == \A n \in 1..N : \A v \in V : G[n][v] \in V
Runs(F, V, b, N, G) == /\ F \in [0..N -> V]
                       /\ F[0] = b
                       /\ \A n \in 1..N : F[n] = G[n][F[n - 1]]

\* A recursive definition over 0..N has a solution if the step stays within V.
LEMMA Recursion ==
  ASSUME NEW V, NEW b \in V, NEW N \in Nat, NEW G, Closed(V, N, G)
  PROVE  \E F : Runs(F, V, b, N, G)
<1> USE DEF Closed, Runs
<1> DEFINE Sol(m) == \E F \in [0..m -> V] : F[0] = b /\ \A n \in 1..m : F[n] = G[n][F[n - 1]]
           S == {m \in Nat : m <= N => Sol(m)}
<1>1. 0 \in S
  <2> DEFINE F == [n \in 0..0 |-> b]
  <2>1. F \in [0..0 -> V] /\ F[0] = b /\ \A n \in 1..0 : F[n] = G[n][F[n - 1]]
    OBVIOUS
  <2> QED
    BY <2>1
<1>2. ASSUME NEW m \in Nat, m \in S PROVE m + 1 \in S
  <2> SUFFICES ASSUME m + 1 <= N PROVE Sol(m + 1)
    OBVIOUS
  <2>1. PICK F \in [0..m -> V] : F[0] = b /\ \A n \in 1..m : F[n] = G[n][F[n - 1]]
    BY <1>2
  <2> DEFINE H == [n \in 0..(m + 1) |-> IF n <= m THEN F[n] ELSE G[m + 1][F[m]]]
  <2>2. H \in [0..(m + 1) -> V] /\ H[0] = b
    BY <2>1
  <2>3. ASSUME NEW n \in 1..(m + 1)
        PROVE  H[n] = G[n][H[n - 1]]
    <3>1. CASE n <= m
      <4>1. n \in 1..m /\ H[n] = F[n] /\ H[n - 1] = F[n - 1]
        BY <3>1
      <4> HIDE DEF H
      <4> QED
        BY <2>1, <4>1
    <3>2. CASE n = m + 1
      <4>1. H[n] = G[n][F[m]] /\ H[n - 1] = F[m]
        BY <3>2
      <4> QED
        BY <4>1
    <3> QED
      BY <3>1, <3>2
  <2> QED
    BY <2>2, <2>3
<1>3. Nat \subseteq S
  <2> HIDE DEF S
  <2> QED
    BY <1>1, <1>2, Induction
<1> QED
  BY <1>3

-----------------------------------------------------------------------------
(* FlattenSeq.                                                              *)

\* f is what the sequences make up to each of them.
Flattens(f, ss, A) ==
  /\ f \in [1..Len(ss) -> Seq(A)]
  /\ f[1] = ss[1]
  /\ \A i \in 2..Len(ss) : f[i] = f[i - 1] \o ss[i]
  /\ FlattenSeq(ss) = f[Len(ss)]

\* There is one.
LEMMA FlattenRun ==
  ASSUME NEW A, NEW ss \in Seq(Seq(A)), ss # << >>
  PROVE  \E f : Flattens(f, ss, A)
<1> DEFINE n == Len(ss)
           Eq(f) == f = [i \in 1..n |-> IF i = 1 THEN ss[i] ELSE f[i - 1] \o ss[i]]
           G == [m \in 1..(n - 1) |-> [v \in Seq(A) |-> v \o ss[m + 1]]]
<1>1. n \in Nat \ {0} /\ \A i \in 1..n : ss[i] \in Seq(A)
  BY EmptySeq, ElementOfSeq
<1>2. \A m \in 1..(n - 1) : \A v \in Seq(A) : G[m][v] = v \o ss[m + 1] /\ G[m][v] \in Seq(A)
  <2> SUFFICES ASSUME NEW m \in 1..(n - 1), NEW v \in Seq(A)
               PROVE  G[m][v] = v \o ss[m + 1] /\ G[m][v] \in Seq(A)
    OBVIOUS
  <2>1. G[m][v] = v \o ss[m + 1]
    OBVIOUS
  <2>2. m + 1 \in 1..n
    BY <1>1
  <2>3. ss[m + 1] \in Seq(A)
    BY <1>1, <2>2
  <2> QED
    BY <2>1, <2>3, ConcatProperties
<1>3. PICK F \in [0..(n - 1) -> Seq(A)] :
         F[0] = ss[1] /\ \A m \in 1..(n - 1) : F[m] = G[m][F[m - 1]]
  <2>1. n - 1 \in Nat /\ ss[1] \in Seq(A)
    BY <1>1
  <2>2. Closed(Seq(A), n - 1, G)
    BY <1>2 DEF Closed
  <2> HIDE DEF G, n
  <2>3. \E F : Runs(F, Seq(A), ss[1], n - 1, G)
    BY <2>1, <2>2, Recursion
  <2> QED
    BY <2>3 DEF Runs
<1> HIDE DEF G
<1> DEFINE f == [i \in 1..n |-> F[i - 1]]
<1>4. f \in [1..n -> Seq(A)]
  BY <1>1
<1>5. ASSUME NEW i \in 1..n PROVE f[i] = IF i = 1 THEN ss[i] ELSE f[i - 1] \o ss[i]
  <2>1. CASE i = 1
    BY <1>1, <1>3, <2>1
  <2>2. CASE i # 1
    <3>1. /\ i - 1 \in 1..(n - 1) /\ i - 1 \in 1..n
          /\ i - 1 \in 0..(n - 1) /\ (i - 1) - 1 \in 0..(n - 1)
      BY <1>1, <2>2
    <3>2. f[i] = F[i - 1] /\ f[i - 1] = F[(i - 1) - 1]
      BY <3>1
    <3>3. F[i - 1] = G[i - 1][F[(i - 1) - 1]]
      <4> DEFINE k == i - 1
      <4>1. k \in 1..(n - 1)
        BY <3>1
      <4> HIDE DEF k
      <4>2. F[k] = G[k][F[k - 1]]
        BY <1>3, <4>1
      <4> QED
        BY <4>2 DEF k
    <3>4. F[(i - 1) - 1] \in Seq(A)
      BY <1>3, <3>1
    <3>5. G[i - 1][F[(i - 1) - 1]] = F[(i - 1) - 1] \o ss[(i - 1) + 1]
      BY <1>2, <3>1, <3>4
    <3>6. (i - 1) + 1 = i
      OBVIOUS
    <3> QED
      BY <2>2, <3>2, <3>3, <3>5, <3>6
  <2> QED
    BY <2>1, <2>2
<1>6. \E g : Eq(g)
  <2>1. Eq(f)
    <3> HIDE DEF f
    <3> QED
      BY <1>4, <1>5
  <2> QED
    BY <2>1
<1> DEFINE g == CHOOSE g : Eq(g)
<1>7. Eq(g)
  BY <1>6
<1>8. FlattenSeq(ss) = g[n]
  <2>1. Len(ss) # 0
    BY <1>1
  <2> QED
    BY <2>1 DEF FlattenSeq
<1> HIDE DEF g
<1>9. \A i \in 1..n : g[i] = IF i = 1 THEN ss[i] ELSE g[i - 1] \o ss[i]
  BY <1>7
<1>10. \A i \in 1..n : g[i] = f[i]
  <2> HIDE DEF f
  <2> DEFINE S == {m \in Nat : m \in 1..n => g[m] = f[m]}
  <2>1. 0 \in S
    OBVIOUS
  <2>2. ASSUME NEW m \in Nat, m \in S PROVE m + 1 \in S
    <3> SUFFICES ASSUME m + 1 \in 1..n PROVE g[m + 1] = f[m + 1]
      OBVIOUS
    <3>1. CASE m = 0
      BY <3>1, <1>5, <1>9
    <3>2. CASE m # 0
      <4>1. m \in 1..n /\ (m + 1) - 1 = m /\ m + 1 # 1
        BY <3>2
      <4>2. g[m] = f[m]
        BY <2>2, <4>1
      <4>3. g[m + 1] = g[m] \o ss[m + 1]
        BY <1>9, <4>1
      <4>4. f[m + 1] = f[m] \o ss[m + 1]
        BY <1>5, <4>1
      <4> QED
        BY <4>2, <4>3, <4>4
    <3> QED
      BY <3>1, <3>2
  <2>3. Nat \subseteq S
    <3> HIDE DEF S
    <3> QED
      BY <2>1, <2>2, Induction
  <2> QED
    BY <2>3
<1>11. /\ f[1] = ss[1]
       /\ \A i \in 2..n : f[i] = f[i - 1] \o ss[i]
       /\ FlattenSeq(ss) = f[n]
  <2> HIDE DEF f
  <2>1. 1 \in 1..n /\ n \in 1..n
    BY <1>1
  <2>2. f[1] = ss[1]
    BY <1>5, <2>1
  <2>3. ASSUME NEW i \in 2..n PROVE f[i] = f[i - 1] \o ss[i]
    <3>1. i \in 1..n /\ i # 1
      OBVIOUS
    <3> QED
      BY <1>5, <3>1
  <2> QED
    BY <1>8, <1>10, <2>1, <2>2, <2>3
<1>12. Flattens(f, ss, A)
  <2> HIDE DEF f
  <2> QED
    BY <1>4, <1>11 DEF Flattens
<1> QED
  BY <1>12

\* Nothing, flattened.
LEMMA FlattenEmpty == FlattenSeq(<< >>) = << >>
  BY DEF FlattenSeq

\* What is flattened are the elements.
LEMMA FlattenType ==
  ASSUME NEW A, NEW ss \in Seq(Seq(A))
  PROVE  FlattenSeq(ss) \in Seq(A)
<1>1. CASE ss = << >>
  BY <1>1, FlattenEmpty, EmptySeq
<1>2. CASE ss # << >>
  <2>1. Len(ss) \in Nat \ {0}
    BY <1>2, EmptySeq
  <2>2. PICK f : Flattens(f, ss, A)
    BY <1>2, FlattenRun
  <2> QED
    BY <2>1, <2>2 DEF Flattens
<1> QED
  BY <1>1, <1>2

\* One sequence more.
LEMMA FlattenAppend ==
  ASSUME NEW A, NEW ss \in Seq(Seq(A)), NEW s \in Seq(A)
  PROVE  FlattenSeq(Append(ss, s)) = FlattenSeq(ss) \o s
<1> DEFINE n == Len(ss)
           tt == Append(ss, s)
<1>1. /\ n \in Nat /\ tt \in Seq(Seq(A)) /\ tt # << >> /\ Len(tt) = n + 1
      /\ \A i \in 1..n : tt[i] = ss[i]
      /\ tt[n + 1] = s
  BY AppendProperties, LenProperties
<1> HIDE DEF tt
<1>2. PICK f : Flattens(f, tt, A)
  BY <1>1, FlattenRun
<1>3. /\ f[1] = tt[1]
      /\ \A i \in 2..(n + 1) : f[i] = f[i - 1] \o tt[i]
      /\ FlattenSeq(tt) = f[n + 1]
  <2> HIDE DEF n
  <2> QED
    BY <1>2, <1>1 DEF Flattens
<1>4. CASE ss = << >>
  <2>1. n = 0
    BY <1>4
  <2>2. FlattenSeq(tt) = s
    BY <1>1, <1>3, <2>1
  <2>3. << >> \o s = s
    BY ConcatEmptySeq
  <2> QED
    BY <1>4, <2>2, <2>3, FlattenEmpty DEF tt
<1>5. CASE ss # << >>
  <2>1. n \in Nat \ {0}
    BY <1>5, EmptySeq
  <2>2. PICK g : Flattens(g, ss, A)
    BY <1>5, FlattenRun
  <2>3. /\ g[1] = ss[1]
        /\ \A i \in 2..n : g[i] = g[i - 1] \o ss[i]
        /\ FlattenSeq(ss) = g[n]
    BY <2>2 DEF Flattens
  <2>4. \A i \in 1..n : f[i] = g[i]
    <3> DEFINE S == {m \in Nat : m \in 1..n => f[m] = g[m]}
    <3>1. 0 \in S
      OBVIOUS
    <3>2. ASSUME NEW m \in Nat, m \in S PROVE m + 1 \in S
      <4> SUFFICES ASSUME m + 1 \in 1..n PROVE f[m + 1] = g[m + 1]
        OBVIOUS
      <4>1. CASE m = 0
        BY <1>1, <1>3, <2>3, <4>1
      <4>2. CASE m # 0
        <5>1. m \in 1..n /\ (m + 1) - 1 = m /\ m + 1 \in 2..n /\ m + 1 \in 2..(n + 1)
          BY <1>1, <4>2
        <5>2. f[m] = g[m] /\ tt[m + 1] = ss[m + 1]
          BY <1>1, <3>2, <5>1
        <5>3. f[m + 1] = f[m] \o tt[m + 1]
          BY <1>3, <5>1
        <5>4. g[m + 1] = g[m] \o ss[m + 1]
          BY <2>3, <5>1
        <5> QED
          BY <5>2, <5>3, <5>4
      <4> QED
        BY <4>1, <4>2
    <3>3. Nat \subseteq S
      <4> HIDE DEF S
      <4> QED
        BY <3>1, <3>2, Induction
    <3> QED
      BY <3>3
  <2>5. n + 1 \in 2..(n + 1) /\ (n + 1) - 1 = n /\ n \in 1..n
    BY <2>1
  <2>6. f[n + 1] = f[n] \o s
    BY <1>1, <1>3, <2>5
  <2> QED
    BY <1>3, <2>3, <2>4, <2>5, <2>6 DEF tt
<1> QED
  BY <1>4, <1>5

-----------------------------------------------------------------------------
(* Sequences, one element at a time.                                        *)

\* A sequence that goes on by one element is an Append.
LEMMA AsAppend ==
  ASSUME NEW A, NEW p \in Seq(A), NEW u \in Seq(A), Len(u) = Len(p) + 1,
         \A i \in 1..Len(p) : u[i] = p[i]
  PROVE  u = Append(p, u[Len(p) + 1])
<1> DEFINE e == u[Len(p) + 1]
<1>1. Len(p) \in Nat
  BY LenProperties
<1>2. e \in A
  BY <1>1, ElementOfSeq
<1>3. /\ Append(p, e) \in Seq(A) /\ Len(Append(p, e)) = Len(p) + 1
      /\ \A i \in 1..Len(p) : Append(p, e)[i] = p[i]
      /\ Append(p, e)[Len(p) + 1] = e
  BY <1>2, AppendProperties
<1>4. \A i \in 1..Len(u) : u[i] = Append(p, e)[i]
  BY <1>1, <1>3
<1> HIDE DEF e
<1>5. u = Append(p, e)
  BY <1>3, <1>4, SeqEqual
<1> QED
  BY <1>5 DEF e

\* Induction over sequences, as a fact about sets.
LEMMA SeqInduction ==
  ASSUME NEW A, NEW S, << >> \in S,
         \A s \in Seq(A), e \in A : s \in S => Append(s, e) \in S
  PROVE  Seq(A) \subseteq S
<1> DEFINE T == {n \in Nat : \A s \in Seq(A) : Len(s) = n => s \in S}
<1>1. 0 \in T
  <2>1. \A s \in Seq(A) : Len(s) = 0 => s = << >>
    BY EmptySeq
  <2> QED
    BY <2>1
<1>2. ASSUME NEW n \in Nat, n \in T PROVE n + 1 \in T
  <2> SUFFICES ASSUME NEW s \in Seq(A), Len(s) = n + 1 PROVE s \in S
    OBVIOUS
  <2>1. s # << >>
    BY EmptySeq
  <2>2. PICK p \in Seq(A), e \in A : s = Append(p, e)
    BY <2>1, SequenceEmptyOrAppend
  <2>3. Len(s) = Len(p) + 1 /\ Len(p) \in Nat
    BY <2>2, AppendProperties, LenProperties
  <2>4. Len(p) = n
    BY <2>3
  <2> QED
    BY <1>2, <2>2, <2>4
<1>3. Nat \subseteq T
  <2> HIDE DEF T
  <2> QED
    BY <1>1, <1>2, Induction
<1> SUFFICES ASSUME NEW s \in Seq(A) PROVE s \in S
  OBVIOUS
<1>4. Len(s) \in T
  BY <1>3, LenProperties
<1> QED
  BY <1>4

\* Sequences made element by element.
LEMMA Made ==
  ASSUME NEW A, NEW n \in Nat, NEW s, DOMAIN s = 1..n, s = [i \in 1..n |-> s[i]],
         \A i \in 1..n : s[i] \in A
  PROVE  s \in Seq(A) /\ Len(s) = n
<1>1. s \in [1..n -> A]
  OBVIOUS
<1>2. s \in Seq(A)
  BY <1>1, SeqDef
<1> QED
  BY <1>2, LenProperties

\* A sequence that goes on by one, flattened.
LEMMA FlattenMore ==
  ASSUME NEW A, NEW ss \in Seq(Seq(A)), NEW tt \in Seq(Seq(A)), Len(tt) = Len(ss) + 1,
         \A i \in 1..Len(ss) : tt[i] = ss[i]
  PROVE  FlattenSeq(tt) = FlattenSeq(ss) \o tt[Len(ss) + 1]
<1>1. tt = Append(ss, tt[Len(ss) + 1])
  BY AsAppend
<1>2. Len(ss) + 1 \in 1..Len(tt)
  BY LenProperties
<1>3. tt[Len(ss) + 1] \in Seq(A)
  BY <1>2, ElementOfSeq
<1> DEFINE e == tt[Len(ss) + 1]
<1> HIDE DEF e
<1>4. FlattenSeq(Append(ss, e)) = FlattenSeq(ss) \o e
  BY <1>3, FlattenAppend DEF e
<1> QED
  BY <1>1, <1>4 DEF e

\* Of one sequence, flattened.
LEMMA FlattenOne ==
  ASSUME NEW A, NEW s \in Seq(A)
  PROVE  FlattenSeq(<<s>>) = s
<1>1. << >> \in Seq(Seq(A)) /\ Append(<< >>, s) = <<s>>
  BY EmptySeq
<1>2. FlattenSeq(Append(<< >>, s)) = FlattenSeq(<< >>) \o s
  BY <1>1, FlattenAppend
<1> QED
  BY <1>1, <1>2, FlattenEmpty, ConcatEmptySeq

\* The singletons of a sequence make it up.
Singles(t) == [k \in DOMAIN t |-> <<t[k]>>]

\* Flattened, the singletons of a sequence are the sequence.
LEMMA FlattenSingles ==
  ASSUME NEW A, NEW t \in Seq(A)
  PROVE  FlattenSeq(Singles(t)) = t
<1> DEFINE S == {s \in Seq(A) : FlattenSeq(Singles(s)) = s}
<1>1. << >> \in S
  <2>1. Singles(<< >>) = << >>
    BY DEF Singles
  <2> QED
    BY <2>1, FlattenEmpty, EmptySeq
<1>2. ASSUME NEW s \in Seq(A), NEW e \in A, s \in S PROVE Append(s, e) \in S
  <2> DEFINE u == Append(s, e)
  <2>1. /\ u \in Seq(A) /\ Len(u) = Len(s) + 1 /\ Len(s) \in Nat
        /\ DOMAIN u = 1..(Len(s) + 1) /\ DOMAIN s = 1..Len(s)
        /\ \A i \in 1..Len(s) : u[i] = s[i]
        /\ u[Len(s) + 1] = e
    BY AppendProperties, LenProperties
  <2> HIDE DEF u
  <2>2. Singles(s) \in Seq(Seq(A)) /\ Len(Singles(s)) = Len(s)
    <3>1. ASSUME NEW i \in 1..Len(s) PROVE Singles(s)[i] \in Seq(A)
      BY <2>1, ElementOfSeq DEF Singles
    <3> QED
      BY <2>1, <3>1, Made DEF Singles
  <2>3. Singles(u) \in Seq(Seq(A)) /\ Len(Singles(u)) = Len(s) + 1
    <3>1. ASSUME NEW i \in 1..(Len(s) + 1) PROVE Singles(u)[i] \in Seq(A)
      BY <2>1, ElementOfSeq DEF Singles
    <3> QED
      BY <2>1, <3>1, Made DEF Singles
  <2>4. /\ \A i \in 1..Len(s) : Singles(u)[i] = Singles(s)[i]
        /\ Singles(u)[Len(s) + 1] = <<e>>
    BY <2>1 DEF Singles
  <2>5. FlattenSeq(Singles(u)) = FlattenSeq(Singles(s)) \o <<e>>
    BY <2>2, <2>3, <2>4, FlattenMore
  <2>6. s \o <<e>> = u
    BY AppendIsConcat DEF u
  <2> QED
    BY <1>2, <2>1, <2>5, <2>6 DEF u
<1>3. Seq(A) \subseteq S
  <2> HIDE DEF S
  <2> QED
    BY <1>1, <1>2, SeqInduction
<1> QED
  BY <1>3

-----------------------------------------------------------------------------
(* Quoting.                                                                 *)

\* A text is a sequence of symbols.
Char == STRING
Text == Seq(Char)

IsEscapes(e, raw) ==
  /\ e \in [0..Len(raw) -> BOOLEAN]
  /\ e[0] = FALSE
  /\ \A n \in 1..Len(raw) : e[n] <=> raw[n] = "\\" /\ ~e[n - 1]

\* The recursion of Escapes is well founded.
LEMMA EscapesRun ==
  ASSUME NEW raw \in Text
  PROVE  IsEscapes(Escapes(raw), raw)
<1> DEFINE n == Len(raw)
           Eq(e) == e = [i \in 0..n |-> i > 0 /\ raw[i] = "\\" /\ ~e[i - 1]]
           G == [m \in 1..n |-> [v \in BOOLEAN |-> raw[m] = "\\" /\ ~v]]
<1>1. n \in Nat
  BY LenProperties DEF Text
<1>2. PICK F \in [0..n -> BOOLEAN] : F[0] = FALSE /\ \A m \in 1..n : F[m] = G[m][F[m - 1]]
  <2>1. Closed(BOOLEAN, n, G)
    BY DEF Closed
  <2>2. FALSE \in BOOLEAN
    OBVIOUS
  <2> HIDE DEF G, n
  <2>3. \E F : Runs(F, BOOLEAN, FALSE, n, G)
    BY <1>1, <2>1, <2>2, Recursion
  <2> QED
    BY <2>3 DEF Runs
<1>3. ASSUME NEW m \in 1..n PROVE F[m] = (raw[m] = "\\" /\ ~F[m - 1])
  <2>1. F[m - 1] \in BOOLEAN
    BY <1>1, <1>2
  <2>2. F[m] = G[m][F[m - 1]]
    BY <1>2
  <2> QED
    BY <2>1, <2>2
<1> HIDE DEF G
<1>4. \E e : Eq(e)
  <2> DEFINE H == [i \in 0..n |-> i > 0 /\ raw[i] = "\\" /\ ~F[i - 1]]
  <2>1. ASSUME NEW i \in 0..n PROVE F[i] = H[i]
    <3>1. CASE i = 0
      BY <1>2, <3>1
    <3>2. CASE i > 0
      <4>1. i \in 1..n
        BY <1>1, <3>2
      <4> QED
        BY <1>3, <3>2, <4>1
    <3> QED
      BY <1>1, <3>1, <3>2
  <2>2. F = H
    BY <1>2, <2>1
  <2>3. Eq(F)
    BY <2>2
  <2> QED
    BY <2>3
<1> DEFINE e == CHOOSE e : Eq(e)
<1>5. Eq(e)
  BY <1>4
<1>6. Escapes(raw) = e
  BY DEF Escapes
<1> HIDE DEF e
<1>7. e \in [0..n -> BOOLEAN]
  BY <1>5
<1>8. \A i \in 0..n : e[i] = (i > 0 /\ raw[i] = "\\" /\ ~e[i - 1])
  BY <1>5, Zenon
<1>9. e[0] = FALSE
  <2>1. 0 \in 0..n /\ ~(0 > 0)
    BY <1>1
  <2> QED
    BY <1>8, <2>1, Zenon
<1>10. ASSUME NEW m \in 1..n PROVE e[m] <=> raw[m] = "\\" /\ ~e[m - 1]
  <2>1. m \in 0..n /\ m > 0
    BY <1>1
  <2> QED
    BY <1>8, <2>1, Zenon
<1> QED
  BY <1>6, <1>7, <1>9, <1>10 DEF IsEscapes

\* One element more.
LEMMA AppendFacts ==
  ASSUME NEW A, NEW s \in Seq(A), NEW c \in A
  PROVE  /\ Append(s, c) \in Seq(A) /\ Len(s) \in Nat
         /\ Len(Append(s, c)) = Len(s) + 1
         /\ DOMAIN s = 1..Len(s) /\ DOMAIN Append(s, c) = 1..(Len(s) + 1)
         /\ \A i \in 1..Len(s) : Append(s, c)[i] = s[i]
         /\ Append(s, c)[Len(s) + 1] = c
  BY AppendProperties, LenProperties

\* The same of texts.
LEMMA TextAppend ==
  ASSUME NEW raw \in Text, NEW c \in Char
  PROVE  /\ Append(raw, c) \in Text /\ Len(raw) \in Nat
         /\ Len(Append(raw, c)) = Len(raw) + 1
         /\ DOMAIN raw = 1..Len(raw) /\ DOMAIN Append(raw, c) = 1..(Len(raw) + 1)
         /\ \A i \in 1..Len(raw) : Append(raw, c)[i] = raw[i]
         /\ Append(raw, c)[Len(raw) + 1] = c
  BY AppendFacts DEF Text

\* A symbol more changes nothing of what escapes before it.
LEMMA EscapesAppend ==
  ASSUME NEW raw \in Text, NEW c \in Char
  PROVE  /\ \A n \in 0..Len(raw) : Escapes(Append(raw, c))[n] <=> Escapes(raw)[n]
         /\ Escapes(Append(raw, c))[Len(raw) + 1] <=> c = "\\" /\ ~Escapes(raw)[Len(raw)]
<1> DEFINE n == Len(raw)
           u == Append(raw, c)
           e == Escapes(raw)
           f == Escapes(u)
<1>1. /\ u \in Text /\ n \in Nat /\ Len(u) = n + 1
      /\ \A i \in 1..n : u[i] = raw[i]
      /\ u[n + 1] = c
  BY TextAppend
<1> HIDE DEF u
<1>2. /\ e[0] = FALSE
      /\ \A i \in 1..n : e[i] <=> raw[i] = "\\" /\ ~e[i - 1]
  BY EscapesRun DEF IsEscapes
<1>3. /\ f[0] = FALSE
      /\ \A i \in 1..(n + 1) : f[i] <=> u[i] = "\\" /\ ~f[i - 1]
  BY EscapesRun, <1>1 DEF IsEscapes
<1> HIDE DEF e, f, n
<1> DEFINE S == {i \in Nat : i <= n => (f[i] <=> e[i])}
<1>4. 0 \in S
  BY <1>2, <1>3
<1>5. ASSUME NEW i \in Nat, i \in S PROVE i + 1 \in S
  <2> SUFFICES ASSUME i + 1 <= n PROVE f[i + 1] <=> e[i + 1]
    OBVIOUS
  <2>1. i + 1 \in 1..n /\ i + 1 \in 1..(n + 1) /\ (i + 1) - 1 = i /\ i <= n
    BY <1>1
  <2>2. f[i] <=> e[i]
    BY <1>5, <2>1
  <2>3. f[i + 1] <=> u[i + 1] = "\\" /\ ~f[i]
    BY <1>3, <2>1
  <2>4. e[i + 1] <=> raw[i + 1] = "\\" /\ ~e[i]
    BY <1>2, <2>1
  <2>5. u[i + 1] = raw[i + 1]
    BY <1>1, <2>1
  <2> QED
    BY <2>2, <2>3, <2>4, <2>5
<1>6. Nat \subseteq S
  <2> HIDE DEF S
  <2> QED
    BY <1>4, <1>5, Induction
<1>7. \A i \in 0..n : f[i] <=> e[i]
  BY <1>1, <1>6
<1>8. f[n + 1] <=> c = "\\" /\ ~e[n]
  <2>1. n + 1 \in 1..(n + 1) /\ (n + 1) - 1 = n /\ n \in 0..n
    BY <1>1
  <2>2. f[n + 1] <=> u[n + 1] = "\\" /\ ~f[n]
    BY <1>3, <2>1
  <2>3. f[n] <=> e[n]
    BY <1>7, <2>1
  <2> QED
    BY <1>1, <2>2, <2>3
<1> QED
  BY <1>7, <1>8 DEF e, f, u, n

\* Where a symbol goes when it is unescaped, and whether it may stand there.
Kept(c, escaped) == IF c = "\\" /\ ~escaped THEN << >> ELSE <<c>>
Fit(c, escaped)  == c \in Printable /\ IF escaped THEN c \in {"\\", "\""} ELSE c # "\""
Sound(raw)       == \A n \in DOMAIN raw : Fit(raw[n], Escapes(raw)[n - 1])
EndsEscaped(raw) == Escapes(raw)[Len(raw)]

\* Soundness and the open escape, with a symbol more.
LEMMA SoundAppend ==
  ASSUME NEW raw \in Text, NEW c \in Char
  PROVE  /\ Sound(Append(raw, c)) <=> Sound(raw) /\ Fit(c, EndsEscaped(raw))
         /\ EndsEscaped(Append(raw, c)) <=> c = "\\" /\ ~EndsEscaped(raw)
<1> DEFINE n == Len(raw)
           u == Append(raw, c)
           e == Escapes(raw)
           f == Escapes(u)
<1>1. /\ u \in Text /\ n \in Nat /\ Len(u) = n + 1
      /\ DOMAIN raw = 1..n /\ DOMAIN u = 1..(n + 1)
      /\ \A i \in 1..n : u[i] = raw[i]
      /\ u[n + 1] = c
  BY TextAppend
<1>2. /\ \A i \in 0..n : f[i] <=> e[i]
      /\ f[n + 1] <=> c = "\\" /\ ~e[n]
  BY EscapesAppend
<1>3. Sound(u) <=> \A i \in 1..(n + 1) : Fit(u[i], f[i - 1])
  BY <1>1 DEF Sound
<1>4. Sound(raw) <=> \A i \in 1..n : Fit(raw[i], e[i - 1])
  BY <1>1 DEF Sound
<1>5. EndsEscaped(raw) <=> e[n]
  BY DEF EndsEscaped
<1>6. EndsEscaped(u) <=> f[n + 1]
  BY <1>1 DEF EndsEscaped
<1> HIDE DEF e, f, u, n
<1>7. ASSUME NEW i \in 1..n PROVE Fit(u[i], f[i - 1]) <=> Fit(raw[i], e[i - 1])
  <2>1. i - 1 \in 0..n
    BY <1>1
  <2>2. f[i - 1] <=> e[i - 1]
    BY <1>2, <2>1
  <2> QED
    BY <1>1, <2>2 DEF Fit
<1>8. Fit(u[n + 1], f[(n + 1) - 1]) <=> Fit(c, EndsEscaped(raw))
  <2>1. (n + 1) - 1 = n /\ n \in 0..n
    BY <1>1
  <2>2. f[(n + 1) - 1] <=> EndsEscaped(raw)
    BY <1>2, <1>5, <2>1
  <2> QED
    BY <1>1, <2>2 DEF Fit
<1>9. \A i : i \in 1..(n + 1) <=> i \in 1..n \/ i = n + 1
  BY <1>1
<1>10. Sound(u) <=> Sound(raw) /\ Fit(c, EndsEscaped(raw))
  BY <1>3, <1>4, <1>7, <1>8, <1>9, Zenon
<1> QED
  BY <1>2, <1>5, <1>6, <1>10 DEF u

\* What is left of a text.
Parts(raw) == [k \in DOMAIN raw |-> IF Escapes(raw)[k] THEN << >> ELSE <<raw[k]>>]

\* The parts are texts, one for each symbol.
LEMMA PartsType ==
  ASSUME NEW raw \in Text
  PROVE  Parts(raw) \in Seq(Text) /\ Len(Parts(raw)) = Len(raw)
<1>1. Len(raw) \in Nat /\ DOMAIN raw = 1..Len(raw)
  BY LenProperties DEF Text
<1>2. ASSUME NEW i \in 1..Len(raw) PROVE Parts(raw)[i] \in Text
  <2>1. raw[i] \in Char
    BY ElementOfSeq DEF Text
  <2>2. << >> \in Seq(Char) /\ <<raw[i]>> \in Seq(Char)
    BY <2>1
  <2> QED
    BY <1>1, <2>2 DEF Parts, Text
<1>3. DOMAIN Parts(raw) = 1..Len(raw) /\ Parts(raw) = [i \in 1..Len(raw) |-> Parts(raw)[i]]
  BY <1>1 DEF Parts
<1> QED
  BY <1>1, <1>2, <1>3, Made

\* Unescaping goes on by what is kept of a symbol more.
LEMMA UnescapeAppend ==
  ASSUME NEW raw \in Text, NEW c \in Char
  PROVE  unescape(Append(raw, c)) = unescape(raw) \o Kept(c, EndsEscaped(raw))
<1> DEFINE n == Len(raw)
           u == Append(raw, c)
<1>1. /\ u \in Text /\ n \in Nat /\ Len(u) = n + 1
      /\ DOMAIN raw = 1..n /\ DOMAIN u = 1..(n + 1)
      /\ \A i \in 1..n : u[i] = raw[i]
      /\ u[n + 1] = c
  BY TextAppend
<1>2. /\ \A i \in 0..n : Escapes(u)[i] <=> Escapes(raw)[i]
      /\ Escapes(u)[n + 1] <=> c = "\\" /\ ~Escapes(raw)[n]
  BY EscapesAppend
<1>3. /\ Parts(raw) \in Seq(Text) /\ Parts(u) \in Seq(Text)
      /\ Len(Parts(raw)) = n /\ Len(Parts(u)) = n + 1
  BY <1>1, PartsType
<1>4. EndsEscaped(raw) <=> Escapes(raw)[n]
  BY DEF EndsEscaped
<1> HIDE DEF u, n
<1>5. ASSUME NEW i \in 1..n PROVE Parts(u)[i] = Parts(raw)[i]
  <2>1. i \in 0..n /\ i \in 1..(n + 1)
    BY <1>1
  <2> QED
    BY <1>1, <1>2, <2>1 DEF Parts
<1>6. Parts(u)[n + 1] = Kept(c, EndsEscaped(raw))
  BY <1>1, <1>2, <1>4 DEF Parts, Kept
<1>7. FlattenSeq(Parts(u)) = FlattenSeq(Parts(raw)) \o Parts(u)[n + 1]
  BY <1>3, <1>5, FlattenMore DEF Text
<1> QED
  BY <1>6, <1>7 DEF unescape, Parts, u

\* What a text becomes when it is quoted.
Quotes(t) == [k \in DOMAIN t |-> Escaped(t[k])]

\* An escaped symbol is a text.
LEMMA EscapedType ==
  ASSUME NEW c \in Char
  PROVE  Escaped(c) \in Text
<1>1. "\\" \in Char
  BY HeadersAssumption DEF Char
<1>2. <<"\\", c>> \in Seq(Char) /\ <<c>> \in Seq(Char)
  BY <1>1
<1> QED
  BY <1>2 DEF Escaped, Text

\* The quoted symbols are texts, one for each symbol.
LEMMA QuotesType ==
  ASSUME NEW t \in Text
  PROVE  Quotes(t) \in Seq(Text) /\ Len(Quotes(t)) = Len(t)
<1>1. Len(t) \in Nat /\ DOMAIN t = 1..Len(t)
  BY LenProperties DEF Text
<1>2. ASSUME NEW i \in 1..Len(t) PROVE Quotes(t)[i] \in Text
  <2>1. t[i] \in Char
    BY ElementOfSeq DEF Text
  <2> QED
    BY <1>1, <2>1, EscapedType DEF Quotes
<1>3. DOMAIN Quotes(t) = 1..Len(t) /\ Quotes(t) = [i \in 1..Len(t) |-> Quotes(t)[i]]
  BY <1>1 DEF Quotes
<1> QED
  BY <1>1, <1>2, <1>3, Made

\* Quoting goes on by the escaped symbol.
LEMMA WriteAppend ==
  ASSUME NEW t \in Text, NEW c \in Char
  PROVE  write_sf_string(Append(t, c)) = write_sf_string(t) \o Escaped(c)
<1> DEFINE n == Len(t)
           u == Append(t, c)
<1>1. /\ u \in Text /\ n \in Nat /\ Len(u) = n + 1
      /\ DOMAIN t = 1..n /\ DOMAIN u = 1..(n + 1)
      /\ \A i \in 1..n : u[i] = t[i]
      /\ u[n + 1] = c
  BY TextAppend
<1>2. /\ Quotes(t) \in Seq(Text) /\ Quotes(u) \in Seq(Text)
      /\ Len(Quotes(t)) = n /\ Len(Quotes(u)) = n + 1
  BY <1>1, QuotesType
<1> HIDE DEF u, n
<1>3. ASSUME NEW i \in 1..n PROVE Quotes(u)[i] = Quotes(t)[i]
  <2>1. i \in 1..(n + 1)
    BY <1>1
  <2> QED
    BY <1>1, <2>1 DEF Quotes
<1>4. Quotes(u)[n + 1] = Escaped(c)
  BY <1>1 DEF Quotes
<1>5. FlattenSeq(Quotes(u)) = FlattenSeq(Quotes(t)) \o Quotes(u)[n + 1]
  BY <1>2, <1>3, FlattenMore DEF Text
<1> QED
  BY <1>4, <1>5 DEF write_sf_string, Quotes, u

\* Two symbols more.
LEMMA TwoMore ==
  ASSUME NEW raw \in Text, NEW b \in Char, NEW c \in Char
  PROVE  raw \o <<b, c>> = Append(Append(raw, b), c) /\ raw \o <<c>> = Append(raw, c)
  BY DEF Text

\* A text that was quoted ends outside an escape, unescapes to what was quoted, and
\* is sound if that was printable.
AllPrintable(t) == \A k \in DOMAIN t : t[k] \in Printable

Quoted(t, raw) ==
  /\ raw \in Text
  /\ ~EndsEscaped(raw)
  /\ unescape(raw) = t
  /\ Sound(raw) <=> AllPrintable(t)

\* A text is printable if each of its symbols is.
LEMMA PrintableAppend ==
  ASSUME NEW t \in Text, NEW c \in Char
  PROVE  AllPrintable(Append(t, c)) <=> AllPrintable(t) /\ c \in Printable
<1> DEFINE n == Len(t)
           u == Append(t, c)
<1>1. /\ n \in Nat /\ DOMAIN t = 1..n /\ DOMAIN u = 1..(n + 1)
      /\ \A i \in 1..n : u[i] = t[i]
      /\ u[n + 1] = c
  BY TextAppend
<1> HIDE DEF u, n
<1>2. \A i : i \in 1..(n + 1) <=> i \in 1..n \/ i = n + 1
  BY <1>1
<1>3. AllPrintable(u) <=> AllPrintable(t) /\ c \in Printable
  BY <1>1, <1>2, Zenon DEF AllPrintable
<1> QED
  BY <1>3 DEF u

\* A symbol more, quoted, keeps what quoting promises.
LEMMA QuotedAppend ==
  ASSUME NEW t \in Text, NEW raw, NEW c \in Char, Quoted(t, raw)
  PROVE  Quoted(Append(t, c), raw \o Escaped(c))
<1>1. /\ raw \in Text
      /\ ~EndsEscaped(raw)
      /\ unescape(raw) = t
      /\ Sound(raw) <=> AllPrintable(t)
  BY DEF Quoted
<1>2. AllPrintable(Append(t, c)) <=> AllPrintable(t) /\ c \in Printable
  BY PrintableAppend
<1>3. CASE c \in {"\\", "\""}
  <2> DEFINE b == "\\"
             q == Append(raw, b)
             s == Append(q, c)
  <2>1. b \in Char /\ b \in Printable /\ c \in Printable
    BY <1>3, HeadersAssumption DEF Char
  <2>2. Escaped(c) = <<b, c>>
    BY <1>3 DEF Escaped
  <2>3. q \in Text
    BY <1>1, <2>1, TextAppend
  <2>4. s \in Text
    <3> HIDE DEF q
    <3> QED
      BY <2>3, TextAppend
  <2>5. Sound(q) <=> Sound(raw)
    BY <1>1, <2>1, SoundAppend DEF Fit
  <2>6. EndsEscaped(q)
    BY <1>1, <2>1, SoundAppend
  <2>7. unescape(q) = unescape(raw) \o << >>
    BY <1>1, <2>1, UnescapeAppend DEF Kept
  <2>8. unescape(q) = t
    BY <1>1, <2>7, ConcatEmptySeq DEF Text
  <2> HIDE DEF q
  <2>9. Sound(s) <=> Sound(raw)
    BY <1>3, <2>1, <2>3, <2>5, <2>6, SoundAppend DEF Fit
  <2>10. ~EndsEscaped(s)
    BY <2>3, <2>6, SoundAppend
  <2>11. unescape(s) = t \o <<c>>
    BY <2>3, <2>6, <2>8, UnescapeAppend DEF Kept
  <2>12. t \o <<c>> = Append(t, c)
    BY TwoMore
  <2>13. raw \o Escaped(c) = s
    BY <1>1, <2>1, <2>2, TwoMore DEF q
  <2> HIDE DEF s
  <2> QED
    BY <1>1, <1>2, <2>1, <2>4, <2>9, <2>10, <2>11, <2>12, <2>13 DEF Quoted
<1>4. CASE c \notin {"\\", "\""}
  <2> DEFINE s == Append(raw, c)
  <2>1. Escaped(c) = <<c>>
    BY <1>4 DEF Escaped
  <2>2. s \in Text
    BY <1>1, TextAppend
  <2>3. Sound(s) <=> Sound(raw) /\ c \in Printable
    BY <1>1, <1>4, SoundAppend DEF Fit
  <2>4. ~EndsEscaped(s)
    BY <1>1, <1>4, SoundAppend
  <2>5. unescape(s) = t \o <<c>>
    BY <1>1, <1>4, UnescapeAppend DEF Kept
  <2>6. t \o <<c>> = Append(t, c)
    BY TwoMore
  <2>7. raw \o Escaped(c) = s
    BY <1>1, <2>1, TwoMore
  <2> HIDE DEF s
  <2> QED
    BY <1>1, <1>2, <2>2, <2>3, <2>4, <2>5, <2>6, <2>7 DEF Quoted
<1> QED
  BY <1>3, <1>4

\* So every text is quoted as promised, by induction over its symbols.
LEMMA QuotedAll ==
  ASSUME NEW t \in Text
  PROVE  Quoted(t, write_sf_string(t))
<1> DEFINE S == {s \in Text : Quoted(s, write_sf_string(s))}
<1>1. << >> \in S
  <2>1. << >> \in Text
    BY DEF Text
  <2>2. write_sf_string(<< >>) = << >> /\ unescape(<< >>) = << >>
    <3>1. Quotes(<< >>) = << >> /\ Parts(<< >>) = << >>
      BY DEF Quotes, Parts
    <3> QED
      BY <3>1, FlattenEmpty DEF write_sf_string, unescape, Quotes, Parts
  <2>3. ~EndsEscaped(<< >>)
    BY <2>1, EscapesRun DEF IsEscapes, EndsEscaped
  <2>4. Sound(<< >>) /\ AllPrintable(<< >>)
    BY DEF Sound, AllPrintable
  <2> QED
    BY <2>1, <2>2, <2>3, <2>4 DEF Quoted
<1>2. ASSUME NEW s \in Text, NEW c \in Char, s \in S PROVE Append(s, c) \in S
  <2>1. Append(s, c) \in Text
    BY TextAppend
  <2>2. write_sf_string(Append(s, c)) = write_sf_string(s) \o Escaped(c)
    BY WriteAppend
  <2>3. Quoted(s, write_sf_string(s))
    BY <1>2
  <2>4. Quoted(Append(s, c), write_sf_string(s) \o Escaped(c))
    BY <2>3, QuotedAppend
  <2> QED
    BY <2>1, <2>2, <2>4
<1>3. Text \subseteq S
  <2> HIDE DEF S
  <2> QED
    BY <1>1, <1>2, SeqInduction DEF Text
<1> QED
  BY <1>3

\* string_value always unescapes: without a backslash there is nothing to do.
LEMMA StringValue ==
  ASSUME NEW raw \in Text
  PROVE  string_value(raw) = unescape(raw)
<1>1. CASE \E k \in DOMAIN raw : raw[k] = "\\"
  BY <1>1 DEF string_value
<1>2. CASE ~\E k \in DOMAIN raw : raw[k] = "\\"
  <2>1. Len(raw) \in Nat /\ DOMAIN raw = 1..Len(raw)
    BY LenProperties DEF Text
  <2>2. ASSUME NEW k \in DOMAIN raw PROVE ~Escapes(raw)[k]
    BY <1>2, <2>1, EscapesRun DEF IsEscapes
  <2>3. Parts(raw) = Singles(raw)
    BY <2>2 DEF Parts, Singles
  <2>4. FlattenSeq(Singles(raw)) = raw
    BY FlattenSingles DEF Text
  <2> QED
    BY <1>2, <2>3, <2>4 DEF string_value, unescape, Parts
<1> QED
  BY <1>1, <1>2

\* A raw text is well formed if it is sound and ends outside an escape.
LEMMA WellFormedSound ==
  ASSUME NEW raw \in Text
  PROVE  WellFormedString(raw) <=> Sound(raw) /\ ~EndsEscaped(raw)
  BY DEF WellFormedString, Sound, Fit, EndsEscaped

\* sf.rs: whatever text write_sf_string quotes, unescape gives it back; and sfparse can
\* read the quoted text just if all of it is printable.
THEOREM QuoteRoundTrip ==
  ASSUME NEW t \in Text
  PROVE  /\ write_sf_string(t) \in Text
         /\ string_value(write_sf_string(t)) = t
         /\ WellFormedString(write_sf_string(t)) <=> AllPrintable(t)
<1> DEFINE raw == write_sf_string(t)
<1>1. Quoted(t, raw)
  BY QuotedAll
<1> HIDE DEF raw
<1>2. raw \in Text
  BY <1>1 DEF Quoted
<1>3. /\ string_value(raw) = unescape(raw)
      /\ WellFormedString(raw) <=> Sound(raw) /\ ~EndsEscaped(raw)
  BY <1>2, StringValue, WellFormedSound
<1> QED
  BY <1>1, <1>2, <1>3 DEF Quoted, raw

\* What can be read is printable.
LEMMA UnquotedPrintable ==
  ASSUME NEW raw \in Text, WellFormedString(raw)
  PROVE  string_value(raw) \in Text /\ AllPrintable(string_value(raw))
<1> DEFINE P == Char \cap Printable
<1>1. Len(raw) \in Nat /\ DOMAIN raw = 1..Len(raw)
  BY LenProperties DEF Text
<1>2. ASSUME NEW i \in 1..Len(raw) PROVE Parts(raw)[i] \in Seq(P)
  <2>1. raw[i] \in P
    <3>1. raw[i] \in Char
      BY ElementOfSeq DEF Text
    <3> QED
      BY <1>1, <3>1 DEF WellFormedString
  <2> HIDE DEF P
  <2>2. << >> \in Seq(P) /\ <<raw[i]>> \in Seq(P)
    BY <2>1
  <2> QED
    BY <1>1, <2>2 DEF Parts
<1>3. DOMAIN Parts(raw) = 1..Len(raw) /\ Parts(raw) = [i \in 1..Len(raw) |-> Parts(raw)[i]]
  BY <1>1 DEF Parts
<1>4. Parts(raw) \in Seq(Seq(P))
  <2> HIDE DEF P
  <2> QED
    BY <1>1, <1>2, <1>3, Made
<1>5. unescape(raw) \in Seq(P)
  <2> HIDE DEF P
  <2> QED
    BY <1>4, FlattenType DEF unescape, Parts
<1>6. \A s \in Seq(P) : s \in Seq(Char) /\ \A k \in DOMAIN s : s[k] \in P
  <2> SUFFICES ASSUME NEW s \in Seq(P) PROVE s \in Seq(Char) /\ \A k \in DOMAIN s : s[k] \in P
    OBVIOUS
  <2>1. \A k \in DOMAIN s : s[k] \in P
    <3> HIDE DEF P
    <3> QED
      BY LenProperties, ElementOfSeq
  <2>2. s \in [1..Len(s) -> Char] /\ Len(s) \in Nat
    <3>1. DOMAIN s = 1..Len(s) /\ s = [i \in 1..Len(s) |-> s[i]] /\ Len(s) \in Nat
      <4> HIDE DEF P
      <4> QED
        BY LenProperties
    <3> QED
      BY <2>1, <3>1
  <2> QED
    BY <2>1, <2>2, SeqDef
<1> QED
  BY <1>5, <1>6, StringValue DEF Text, AllPrintable

-----------------------------------------------------------------------------
(* Options, and sequences of at most one element.                           *)

\* An option is empty or holds one value.
LEMMA OptionCases ==
  ASSUME NEW S, NEW o \in Option(S)
  PROVE  o = {} \/ \E x \in S : o = {x}
<1>1. o \subseteq S /\ \A x, y \in o : x = y
  BY DEF Option
<1>2. CASE o # {}
  <2>1. PICK x \in o : TRUE
    BY <1>2
  <2> QED
    BY <1>1, <2>1
<1> QED
  BY <1>2

\* Nothing, and one value, are options.
LEMMA OptionIntro ==
  ASSUME NEW S
  PROVE  {} \in Option(S) /\ \A x \in S : {x} \in Option(S)
  BY DEF Option

\* SetToSeq of nothing.
LEMMA SeqOfNone == SetToSeq({}) = << >>
<1>1. Cardinality({}) = 0
  BY FS_EmptySet
<1>2. \A f \in [1..0 -> {}] : f = << >>
  OBVIOUS
<1>3. << >> \in [1..0 -> {}] /\ IsInjective(<< >>)
  BY DEF IsInjective
<1>4. \E f \in [1..Cardinality({}) -> {}] : IsInjective(f)
  BY <1>1, <1>3
<1>5. SetToSeq({}) \in [1..Cardinality({}) -> {}]
  BY <1>4 DEF SetToSeq
<1> QED
  BY <1>1, <1>2, <1>5

\* SetToSeq of one element.
LEMMA SeqOfOne ==
  ASSUME NEW x
  PROVE  SetToSeq({x}) = <<x>>
<1>1. Cardinality({x}) = 1
  BY FS_Singleton
<1>2. \A f \in [1..1 -> {x}] : f = <<x>>
  <2> SUFFICES ASSUME NEW f \in [1..1 -> {x}] PROVE f = <<x>>
    OBVIOUS
  <2>1. <<x>> \in Seq({x}) /\ Len(<<x>>) = 1 /\ <<x>>[1] = x
    OBVIOUS
  <2>2. DOMAIN <<x>> = 1..1 /\ <<x>> = [i \in 1..1 |-> <<x>>[i]]
    BY <2>1, LenProperties
  <2>3. f = [i \in 1..1 |-> f[i]]
    OBVIOUS
  <2>4. \A i \in 1..1 : f[i] = <<x>>[i]
    BY <2>1
  <2> QED
    BY <2>2, <2>3, <2>4
<1>3. <<x>> \in [1..1 -> {x}] /\ IsInjective(<<x>>)
  BY DEF IsInjective
<1>4. \E f \in [1..Cardinality({x}) -> {x}] : IsInjective(f)
  BY <1>1, <1>3
<1>5. SetToSeq({x}) \in [1..Cardinality({x}) -> {x}]
  BY <1>4 DEF SetToSeq
<1> QED
  BY <1>1, <1>2, <1>5

-----------------------------------------------------------------------------
(* Parameters.                                                              *)

Parameter == [key : Keys, value : BareValues]

\* The values that ps has.
Vals(ps) == {ps[k].value : k \in DOMAIN ps}

\* In ps, `key` is there at most once, with the value of the option o.
Holds(ps, key, o) ==
  /\ ps \in Seq(Parameter)
  /\ {ps[k].value : k \in {j \in DOMAIN ps : ps[j].key = key}} = o
  /\ \A j, k \in DOMAIN ps : ps[j].key = key /\ ps[k].key = key => j = k

\* What one parameter holds.
LEMMA HoldsSingle ==
  ASSUME NEW key \in Keys, NEW v \in BareValues
  PROVE  /\ Holds(<<Param(key, v)>>, key, {v})
         /\ \A other \in Keys \ {key} : Holds(<<Param(key, v)>>, other, {})
         /\ Vals(<<Param(key, v)>>) = {v}
<1> DEFINE p == Param(key, v)
<1>1. p \in Parameter /\ p.key = key /\ p.value = v
  BY DEF Param, Parameter
<1> HIDE DEF p
<1>2. <<p>> \in Seq(Parameter) /\ DOMAIN <<p>> = {1} /\ <<p>>[1] = p
  BY <1>1
<1> DEFINE s == <<p>>
<1> HIDE DEF s
<1>3. s \in Seq(Parameter) /\ DOMAIN s = {1} /\ s[1] = p
  BY <1>2 DEF s
<1>4. /\ Holds(s, key, {v})
      /\ \A other \in Keys \ {key} : Holds(s, other, {})
      /\ Vals(s) = {v}
  BY <1>1, <1>3 DEF Holds, Vals
<1> QED
  BY <1>4 DEF s, p

\* No parameter holds nothing.
LEMMA HoldsNone ==
  ASSUME NEW key \in Keys
  PROVE  Holds(<< >>, key, {}) /\ Vals(<< >>) = {}
  BY DEF Holds, Vals

\* What an optional parameter holds.
LEMMA HoldsIfSome ==
  ASSUME NEW key \in Keys, NEW o \in Option(BareValues)
  PROVE  /\ Holds(IfSome(key, o), key, o)
         /\ \A other \in Keys \ {key} : Holds(IfSome(key, o), other, {})
         /\ Vals(IfSome(key, o)) = o
<1>1. CASE o = {}
  <2>1. IfSome(key, o) = << >>
    BY <1>1, SeqOfNone DEF IfSome
  <2> QED
    BY <1>1, <2>1, HoldsNone
<1>2. ASSUME NEW v \in BareValues, o = {v}
      PROVE  /\ Holds(IfSome(key, o), key, o)
             /\ \A other \in Keys \ {key} : Holds(IfSome(key, o), other, {})
             /\ Vals(IfSome(key, o)) = o
  <2>1. {Param(key, value) : value \in o} = {Param(key, v)}
    BY <1>2
  <2>2. IfSome(key, o) = <<Param(key, v)>>
    BY <2>1, SeqOfOne DEF IfSome
  <2> QED
    BY <1>2, <2>2, HoldsSingle
<1> QED
  BY <1>1, <1>2, OptionCases

\* What two sequences hold together.
LEMMA ConcatFacts ==
  ASSUME NEW A, NEW a \in Seq(A), NEW b \in Seq(A)
  PROVE  /\ a \o b \in Seq(A)
         /\ Len(a) \in Nat /\ Len(b) \in Nat
         /\ DOMAIN a = 1..Len(a) /\ DOMAIN b = 1..Len(b)
         /\ DOMAIN (a \o b) = 1..(Len(a) + Len(b))
         /\ \A i \in 1..Len(a) : (a \o b)[i] = a[i]
         /\ \A i \in 1..Len(b) : (a \o b)[i + Len(a)] = b[i]
         /\ \A i \in 1..Len(a) : i \in DOMAIN (a \o b)
         /\ \A i \in 1..Len(b) : i + Len(a) \in DOMAIN (a \o b)
         /\ \A k \in DOMAIN (a \o b) : k \in 1..Len(a) \/ \E i \in 1..Len(b) : k = i + Len(a)
<1>1. a \o b \in Seq(A) /\ Len(a \o b) = Len(a) + Len(b)
  BY ConcatProperties
<1>2. \A i \in 1..Len(a) + Len(b) : (a \o b)[i] = IF i <= Len(a) THEN a[i] ELSE b[i - Len(a)]
  BY ConcatProperties
<1>3. Len(a) \in Nat /\ Len(b) \in Nat /\ DOMAIN a = 1..Len(a) /\ DOMAIN b = 1..Len(b)
  BY LenProperties
<1>4. DOMAIN (a \o b) = 1..(Len(a) + Len(b))
  BY <1>1, LenProperties
<1>5. \A i \in 1..Len(a) : (a \o b)[i] = a[i]
  BY <1>2, <1>3
<1>6. ASSUME NEW i \in 1..Len(b) PROVE (a \o b)[i + Len(a)] = b[i]
  <2>1. i + Len(a) \in 1..Len(a) + Len(b) /\ ~(i + Len(a) <= Len(a)) /\ (i + Len(a)) - Len(a) = i
    BY <1>3
  <2> QED
    BY <1>2, <2>1
<1>7. ASSUME NEW k \in DOMAIN (a \o b), k \notin 1..Len(a) PROVE \E i \in 1..Len(b) : k = i + Len(a)
  <2>1. k - Len(a) \in 1..Len(b) /\ k = (k - Len(a)) + Len(a)
    BY <1>3, <1>4, <1>7
  <2> QED
    BY <2>1
<1>8. \A i \in 1..Len(a) : i \in DOMAIN (a \o b)
  BY <1>3, <1>4
<1>9. \A i \in 1..Len(b) : i + Len(a) \in DOMAIN (a \o b)
  BY <1>3, <1>4
<1> QED
  BY <1>1, <1>3, <1>4, <1>5, <1>6, <1>7, <1>8, <1>9

\* Of two sequences with a key in at most one of them, both together hold what it holds.
LEMMA HoldsConcat ==
  ASSUME NEW a, NEW b, NEW key \in Keys, NEW o, NEW q,
         Holds(a, key, o), Holds(b, key, q), o = {} \/ q = {}
  PROVE  Holds(a \o b, key, o \cup q)
<1> DEFINE m == Len(a)
           n == Len(b)
           c == a \o b
<1>1. a \in Seq(Parameter) /\ b \in Seq(Parameter)
  BY DEF Holds
<1>2. /\ c \in Seq(Parameter) /\ m \in Nat /\ n \in Nat
      /\ DOMAIN a = 1..m /\ DOMAIN b = 1..n
      /\ \A i \in 1..m : c[i] = a[i]
      /\ \A i \in 1..n : c[i + m] = b[i]
      /\ \A i \in 1..m : i \in DOMAIN c
      /\ \A i \in 1..n : i + m \in DOMAIN c
      /\ \A k \in DOMAIN c : k \in 1..m \/ \E i \in 1..n : k = i + m
  BY <1>1, ConcatFacts
<1> DEFINE P(s) == {j \in DOMAIN s : s[j].key = key}
<1>3. /\ {a[k].value : k \in P(a)} = o /\ \A j, k \in P(a) : j = k
      /\ {b[k].value : k \in P(b)} = q /\ \A j, k \in P(b) : j = k
  BY DEF Holds
<1> HIDE DEF c, m, n
<1>4. P(c) = P(a) \cup {j + m : j \in P(b)}
  <2>1. P(c) \subseteq P(a) \cup {j + m : j \in P(b)}
    BY <1>2
  <2>2. P(a) \subseteq P(c)
    BY <1>2
  <2>3. {j + m : j \in P(b)} \subseteq P(c)
    BY <1>2
  <2> QED
    BY <2>1, <2>2, <2>3
<1>5. {c[k].value : k \in P(c)} = {a[k].value : k \in P(a)} \cup {b[k].value : k \in P(b)}
  <2>1. \A k \in P(a) : c[k] = a[k]
    BY <1>2
  <2>2. \A k \in P(b) : c[k + m] = b[k]
    BY <1>2
  <2> HIDE DEF P
  <2> QED
    BY <1>4, <2>1, <2>2
<1>6. \A j, k \in P(c) : j = k
  <2>1. P(a) = {} \/ P(b) = {}
    BY <1>3
  <2> HIDE DEF P
  <2> QED
    BY <1>3, <1>4, <2>1
<1>7. Holds(c, key, o \cup q)
  BY <1>2, <1>3, <1>5, <1>6 DEF Holds
<1> QED
  BY <1>7 DEF c

\* Two sequences together have the values of both.
LEMMA ValsConcat ==
  ASSUME NEW a \in Seq(Parameter), NEW b \in Seq(Parameter)
  PROVE  Vals(a \o b) = Vals(a) \cup Vals(b)
<1> DEFINE m == Len(a)
           n == Len(b)
           c == a \o b
<1>1. /\ m \in Nat /\ n \in Nat
      /\ DOMAIN a = 1..m /\ DOMAIN b = 1..n
      /\ \A i \in 1..m : c[i] = a[i]
      /\ \A i \in 1..n : c[i + m] = b[i]
      /\ \A i \in 1..m : i \in DOMAIN c
      /\ \A i \in 1..n : i + m \in DOMAIN c
      /\ \A k \in DOMAIN c : k \in 1..m \/ \E i \in 1..n : k = i + m
  BY ConcatFacts
<1> HIDE DEF c, m, n
<1>2. ASSUME NEW v \in Vals(c) PROVE v \in Vals(a) \cup Vals(b)
  <2>1. PICK k \in DOMAIN c : v = c[k].value
    BY DEF Vals
  <2>2. CASE k \in 1..m
    BY <1>1, <2>1, <2>2 DEF Vals
  <2>3. ASSUME NEW i \in 1..n, k = i + m PROVE v \in Vals(b)
    BY <1>1, <2>1, <2>3 DEF Vals
  <2> QED
    BY <1>1, <2>2, <2>3
<1>3. Vals(a) \subseteq Vals(c)
  BY <1>1 DEF Vals
<1>4. ASSUME NEW v \in Vals(b) PROVE v \in Vals(c)
  <2>1. PICK i \in 1..n : v = b[i].value
    BY <1>1 DEF Vals
  <2>2. i + m \in DOMAIN c /\ c[i + m] = b[i]
    BY <1>1
  <2> DEFINE k == i + m
  <2> HIDE DEF k
  <2>3. k \in DOMAIN c /\ v = c[k].value
    BY <2>1, <2>2 DEF k
  <2> QED
    BY <2>3 DEF Vals
<1> QED
  BY <1>2, <1>3, <1>4 DEF c

\* Division by the ticks of a second.
LEMMA SecondFacts ==
  /\ Second \in Nat \ {0}
  /\ \A t \in Nat : t * Second \in Nat /\ (t * Second) \div Second = t /\ (t * Second) % Second = 0
  /\ \A d \in Nat : /\ d \div Second \in Nat
                    /\ (d \div Second) * Second = d - (d % Second)
                    /\ d \div Second > 0 <=> d - (d % Second) > 0
<1>1. Second \in Nat \ {0}
  BY HeadersAssumption
<1>2. ASSUME NEW t \in Nat
      PROVE  t * Second \in Nat /\ (t * Second) \div Second = t /\ (t * Second) % Second = 0
  <2>1. t * Second \in Nat
    BY <1>1
  <2> DEFINE q == (t * Second) \div Second
             r == (t * Second) % Second
  <2>2. q \in Nat /\ r \in 0..(Second - 1) /\ t * Second = Second * q + r
    BY <1>1, <2>1
  <2> HIDE DEF q, r
  <2>3. (t - q) * Second = r
    BY <1>1, <2>2
  <2>4. t - q >= 1 => (t - q) * Second >= Second
    BY <1>1, <2>2
  <2>5. t - q <= -1 => (t - q) * Second <= -Second
    BY <1>1, <2>2
  <2>6. t = q /\ r = 0
    BY <1>1, <2>2, <2>3, <2>4, <2>5
  <2> QED
    BY <2>1, <2>6 DEF q, r
<1>3. ASSUME NEW d \in Nat
      PROVE  /\ d \div Second \in Nat
             /\ (d \div Second) * Second = d - (d % Second)
             /\ d \div Second > 0 <=> d - (d % Second) > 0
  <2> DEFINE q == d \div Second
             r == d % Second
  <2>1. q \in Nat /\ r \in 0..(Second - 1) /\ d = Second * q + r
    BY <1>1
  <2> HIDE DEF q, r
  <2>2. q * Second = d - r
    BY <1>1, <2>1
  <2>3. q > 0 <=> q * Second > 0
    BY <1>1, <2>1
  <2> QED
    BY <2>1, <2>2, <2>3 DEF q, r
<1> QED
  BY <1>1, <1>2, <1>3

\* The type of MaxInteger, on its own: arithmetic steps want no more of the assumption.
LEMMA MaxIntegerNat == MaxInteger \in Nat
  BY HeadersAssumption

\* Strings, integers and byte sequences are bare values.
LEMMA BareIntro ==
  /\ \A t \in Text : [string |-> t] \in BareValues
  /\ \A i \in Int : [int |-> i] \in BareValues
  /\ \A b \in Char : Bytes(b) \in BareValues
  BY DEF BareValues, Text, Char, Bytes

\* Of one position, or none, the last is it.
LEMMA LatestHeld ==
  ASSUME NEW ps, NEW key, NEW o, Holds(ps, key, o),
         NEW K \in SUBSET {j \in DOMAIN ps : ps[j].key = key}
  PROVE  ValueAtLast(ps, K) = {ps[k].value : k \in K}
<1>1. \A j, k \in K : j = k
  BY DEF Holds
<1>2. \A k \in K : k \in Int
  BY LenProperties DEF Holds
<1>3. {k \in K : \A j \in K : j <= k} = K
  BY <1>1, <1>2
<1> QED
  BY <1>3 DEF ValueAtLast

\* What is read of a key that is there at most once, if it must be a non-negative integer.
LEMMA LatestNonNegative ==
  ASSUME NEW ps, NEW key, NEW o, Holds(ps, key, o)
  PROVE  Latest(ps, key, NonNegative) = {v \in o : NonNegative(v)}
<1> DEFINE K == {k \in DOMAIN ps : ps[k].key = key /\ NonNegative(ps[k].value)}
<1>1. Latest(ps, key, NonNegative) = {ps[k].value : k \in K}
  BY LatestHeld DEF Latest
<1>2. o = {ps[k].value : k \in {j \in DOMAIN ps : ps[j].key = key}}
  BY DEF Holds
<1> QED
  BY <1>1, <1>2

\* The same of a positive integer.
LEMMA LatestPositive ==
  ASSUME NEW ps, NEW key, NEW o, Holds(ps, key, o)
  PROVE  Latest(ps, key, Positive) = {v \in o : Positive(v)}
<1> DEFINE K == {k \in DOMAIN ps : ps[k].key = key /\ Positive(ps[k].value)}
<1>1. Latest(ps, key, Positive) = {ps[k].value : k \in K}
  BY LatestHeld DEF Latest
<1>2. o = {ps[k].value : k \in {j \in DOMAIN ps : ps[j].key = key}}
  BY DEF Holds
<1> QED
  BY <1>1, <1>2

\* The same of a string.
LEMMA LatestString ==
  ASSUME NEW ps, NEW key, NEW o, Holds(ps, key, o)
  PROVE  Latest(ps, key, IsString) = {v \in o : IsString(v)}
<1> DEFINE K == {k \in DOMAIN ps : ps[k].key = key /\ IsString(ps[k].value)}
<1>1. Latest(ps, key, IsString) = {ps[k].value : k \in K}
  BY LatestHeld DEF Latest
<1>2. o = {ps[k].value : k \in {j \in DOMAIN ps : ps[j].key = key}}
  BY DEF Holds
<1> QED
  BY <1>1, <1>2

\* The same of a byte sequence.
LEMMA LatestBytes ==
  ASSUME NEW ps, NEW key, NEW o, Holds(ps, key, o)
  PROVE  Latest(ps, key, IsBytes) = {v \in o : IsBytes(v)}
<1> DEFINE K == {k \in DOMAIN ps : ps[k].key = key /\ IsBytes(ps[k].value)}
<1>1. Latest(ps, key, IsBytes) = {ps[k].value : k \in K}
  BY LatestHeld DEF Latest
<1>2. o = {ps[k].value : k \in {j \in DOMAIN ps : ps[j].key = key}}
  BY DEF Holds
<1> QED
  BY <1>1, <1>2

\* A time limit, or none, as it is read back: rounded down to whole seconds.
Truncated(o) == {d - (d % Second) : d \in o}

\* A reset is written in whole seconds, and read as such.
LEMMA SecondsRead ==
  ASSUME NEW o \in Option(Nat)
  PROVE  /\ {as_secs(d) : d \in o} \in Option(BareValues)
         /\ {v.int * Second : v \in {u \in {as_secs(d) : d \in o} : NonNegative(u)}} = Truncated(o)
<1>1. CASE o = {}
  BY <1>1, OptionIntro DEF Truncated
<1>2. ASSUME NEW d \in Nat, o = {d}
      PROVE  /\ {as_secs(x) : x \in o} \in Option(BareValues)
             /\ {v.int * Second : v \in {u \in {as_secs(x) : x \in o} : NonNegative(u)}}
                  = Truncated(o)
  <2> DEFINE t == d \div Second
  <2>1. t \in Nat /\ t * Second = d - (d % Second)
    BY SecondFacts
  <2>2. as_secs(d) = [int |-> t]
    BY DEF as_secs
  <2>3. {as_secs(x) : x \in o} = {[int |-> t]}
    BY <1>2, <2>2
  <2> HIDE DEF t
  <2>4. [int |-> t] \in BareValues
    BY <2>1, BareIntro
  <2>5. NonNegative([int |-> t]) /\ [int |-> t].int = t
    BY <2>1 DEF NonNegative
  <2>6. {u \in {[int |-> t]} : NonNegative(u)} = {[int |-> t]}
    BY <2>5
  <2>7. {v.int * Second : v \in {[int |-> t]}} = {t * Second}
    BY <2>5
  <2>8. Truncated(o) = {t * Second}
    BY <1>2, <2>1 DEF Truncated
  <2> QED
    BY <2>3, <2>4, <2>6, <2>7, <2>8, OptionIntro
<1> QED
  BY <1>1, <1>2, OptionCases

\* A window is written in whole seconds, and read as such; below one second it is lost.
LEMMA WindowRead ==
  ASSUME NEW o \in Option(Nat)
  PROVE  /\ {as_secs(d) : d \in o} \in Option(BareValues)
         /\ {v.int * Second : v \in {u \in {as_secs(d) : d \in o} : Positive(u)}}
              = {w \in {x - (x % Second) : x \in o} : w > 0}
<1>1. CASE o = {}
  BY <1>1, OptionIntro
<1>2. ASSUME NEW d \in Nat, o = {d}
      PROVE  /\ {as_secs(x) : x \in o} \in Option(BareValues)
             /\ {v.int * Second : v \in {u \in {as_secs(x) : x \in o} : Positive(u)}}
                  = {w \in {x - (x % Second) : x \in o} : w > 0}
  <2> DEFINE t == d \div Second
             e == d - (d % Second)
  <2>1. t \in Nat /\ t * Second = e /\ (t > 0 <=> e > 0)
    BY SecondFacts
  <2>2. as_secs(d) = [int |-> t]
    BY DEF as_secs
  <2>3. {as_secs(x) : x \in o} = {[int |-> t]}
    BY <1>2, <2>2
  <2>4. {x - (x % Second) : x \in o} = {e}
    BY <1>2
  <2> HIDE DEF t, e
  <2>5. [int |-> t] \in BareValues
    BY <2>1, BareIntro
  <2>6. (Positive([int |-> t]) <=> t > 0) /\ [int |-> t].int = t
    BY DEF Positive
  <2>7. {v.int * Second : v \in {u \in {[int |-> t]} : Positive(u)}} = {w \in {e} : w > 0}
    <3>1. CASE t > 0
      <4>1. {u \in {[int |-> t]} : Positive(u)} = {[int |-> t]}
        BY <2>6, <3>1
      <4>2. {v.int * Second : v \in {[int |-> t]}} = {e}
        BY <2>1, <2>6
      <4>3. {w \in {e} : w > 0} = {e}
        BY <2>1, <3>1
      <4> QED
        BY <4>1, <4>2, <4>3
    <3>2. CASE ~(t > 0)
      <4>1. {u \in {[int |-> t]} : Positive(u)} = {}
        BY <2>6, <3>2
      <4>2. {w \in {e} : w > 0} = {}
        BY <2>1, <3>2
      <4> QED
        BY <4>1, <4>2
    <3> QED
      BY <3>1, <3>2
  <2> QED
    BY <2>3, <2>4, <2>5, <2>7, OptionIntro
<1> QED
  BY <1>1, <1>2, OptionCases

\* A partition key is read as it was written.
LEMMA BytesRead ==
  ASSUME NEW o \in Option(Char)
  PROVE  /\ {Bytes(b) : b \in o} \in Option(BareValues)
         /\ {v.bytes : v \in {u \in {Bytes(b) : b \in o} : IsBytes(u)}} = o
<1>1. CASE o = {}
  BY <1>1, OptionIntro
<1>2. ASSUME NEW b \in Char, o = {b}
      PROVE  /\ {Bytes(x) : x \in o} \in Option(BareValues)
             /\ {v.bytes : v \in {u \in {Bytes(x) : x \in o} : IsBytes(u)}} = o
  <2>1. {Bytes(x) : x \in o} = {Bytes(b)}
    BY <1>2
  <2>2. Bytes(b) \in BareValues
    BY BareIntro
  <2>3. IsBytes(Bytes(b)) /\ Bytes(b).bytes = b
    BY DEF IsBytes, Bytes
  <2> QED
    BY <1>2, <2>1, <2>2, <2>3, OptionIntro
<1> QED
  BY <1>1, <1>2, OptionCases

\* One parameter more, if there is a value for it.
LEMMA ParamMore ==
  ASSUME NEW ps, NEW key \in Keys, NEW o \in Option(BareValues), Holds(ps, key, {})
  PROVE  /\ Holds(ps \o IfSome(key, o), key, o)
         /\ \A other \in Keys \ {key} : \A x :
              Holds(ps, other, x) => Holds(ps \o IfSome(key, o), other, x)
         /\ Vals(ps \o IfSome(key, o)) = Vals(ps) \cup o
<1>1. Holds(IfSome(key, o), key, o) /\ Vals(IfSome(key, o)) = o
  BY HoldsIfSome
<1>2. Holds(ps \o IfSome(key, o), key, o)
  <2>1. Holds(ps \o IfSome(key, o), key, {} \cup o)
    BY <1>1, HoldsConcat
  <2> QED
    BY <2>1
<1>3. ASSUME NEW other \in Keys \ {key}, NEW x, Holds(ps, other, x)
      PROVE  Holds(ps \o IfSome(key, o), other, x)
  <2>1. Holds(IfSome(key, o), other, {})
    BY HoldsIfSome
  <2>2. Holds(ps \o IfSome(key, o), other, x \cup {})
    BY <1>3, <2>1, HoldsConcat
  <2> QED
    BY <2>2
<1>4. Vals(ps \o IfSome(key, o)) = Vals(ps) \cup o
  <2>1. ps \in Seq(Parameter) /\ IfSome(key, o) \in Seq(Parameter)
    BY <1>1 DEF Holds
  <2> QED
    BY <1>1, <2>1, ValsConcat
<1> QED
  BY <1>2, <1>3, <1>4

\* What the builders of RateLimit make, with any reset, and what a structured field can
\* say of it. A partition key is one in its base64 wire form, as rate_limit.rs:54 asks.
Limits == [name : Text, remaining : Nat, reset : Option(Nat), partition_key : Option(Char)]

SayableLimits ==
  {l \in Limits : /\ AllPrintable(l.name)
                  /\ l.remaining <= MaxInteger
                  /\ \A d \in l.reset : d \div Second <= MaxInteger}

\* The parameters that DisplayLimit writes.
LEMMA LimitParams ==
  ASSUME NEW l \in Limits
  PROVE  LET ps == DisplayLimit(l).params
             r  == [int |-> l.remaining]
             t  == {as_secs(d) : d \in l.reset}
             pk == {Bytes(b) : b \in l.partition_key}
         IN  /\ Holds(ps, "r", {r}) /\ Holds(ps, "t", t) /\ Holds(ps, "pk", pk)
             /\ Vals(ps) = {r} \cup t \cup pk
<1> DEFINE ps == DisplayLimit(l).params
           r  == [int |-> l.remaining]
           t  == {as_secs(d) : d \in l.reset}
           pk == {Bytes(b) : b \in l.partition_key}
           p1 == <<Param("r", r)>>
           p2 == p1 \o IfSome("t", t)
           p3 == p2 \o IfSome("pk", pk)
<1>1. l.remaining \in Nat /\ l.reset \in Option(Nat) /\ l.partition_key \in Option(Char)
  BY DEF Limits
<1>2. r \in BareValues /\ t \in Option(BareValues) /\ pk \in Option(BareValues)
  <2>1. r \in BareValues
    BY <1>1, BareIntro
  <2>2. t \in Option(BareValues)
    BY <1>1, SecondsRead
  <2>3. pk \in Option(BareValues)
    BY <1>1, BytesRead
  <2> QED
    BY <2>1, <2>2, <2>3
<1>3. ps = p3
  BY DEF DisplayLimit, Item
<1> HIDE DEF r, t, pk
<1>4. /\ "r" \in Keys /\ "t" \in Keys \ {"r"} /\ "pk" \in Keys \ {"r", "t"}
      /\ "r" \in Keys \ {"t", "pk"} /\ "t" \in Keys \ {"pk"} 
  BY DEF Keys
<1>5. Holds(p1, "r", {r}) /\ Holds(p1, "t", {}) /\ Holds(p1, "pk", {}) /\ Vals(p1) = {r}
  BY <1>2, <1>4, HoldsSingle
<1> HIDE DEF p1
<1>6. Holds(p2, "r", {r}) /\ Holds(p2, "t", t) /\ Holds(p2, "pk", {}) /\ Vals(p2) = {r} \cup t
  BY <1>2, <1>5, <1>4, ParamMore
<1> HIDE DEF p2
<1>7. Holds(p3, "r", {r}) /\ Holds(p3, "t", t) /\ Holds(p3, "pk", pk)
      /\ Vals(p3) = {r} \cup t \cup pk
  BY <1>2, <1>6, <1>4, ParamMore
<1> HIDE DEF p3
<1> QED
  BY <1>3, <1>7 DEF r, t, pk

\* Well-formedness of an item that holds a string.
LEMMA StringItem ==
  ASSUME NEW t \in Text, NEW ps
  PROVE  /\ Item(t, ps).value = [string |-> write_sf_string(t)] /\ Item(t, ps).params = ps
         /\ IsString(Item(t, ps).value)
         /\ string_value(Item(t, ps).value.string) = t
         /\ WellFormedItem(Item(t, ps))
              <=> AllPrintable(t) /\ \A v \in Vals(ps) : WellFormedValue(v)
<1> DEFINE raw == write_sf_string(t)
           v == [string |-> raw]
           i == Item(t, ps)
<1>1. /\ raw \in Text /\ string_value(raw) = t
      /\ WellFormedString(raw) <=> AllPrintable(t)
  BY QuoteRoundTrip
<1>2. i.value = v /\ i.params = ps
  BY DEF Item
<1> HIDE DEF raw, i
<1>3. v.string = raw /\ "string" \in DOMAIN v /\ "list" \notin DOMAIN v /\ "int" \notin DOMAIN v
  OBVIOUS
<1>4. WellFormedValue(v) <=> WellFormedString(raw)
  BY <1>3 DEF WellFormedValue
<1>5. (\A k \in DOMAIN ps : WellFormedValue(ps[k].value)) <=> \A x \in Vals(ps) : WellFormedValue(x)
  BY DEF Vals
<1>6. WellFormedItem(i) <=> WellFormedValue(v) /\ \A k \in DOMAIN ps : WellFormedValue(ps[k].value)
  BY <1>2, <1>3 DEF WellFormedItem
<1> QED
  BY <1>1, <1>2, <1>3, <1>4, <1>5, <1>6 DEF IsString, raw, i

\* Which bare values are well-formed.
LEMMA WellFormedBare ==
  /\ \A i \in Nat : WellFormedValue([int |-> i]) <=> i <= MaxInteger
  /\ \A b \in Char : WellFormedValue(Bytes(b))
  /\ \A t \in Text : WellFormedValue([string |-> write_sf_string(t)]) <=> AllPrintable(t)
<1>1. ASSUME NEW i \in Nat PROVE WellFormedValue([int |-> i]) <=> i <= MaxInteger
  <2> DEFINE v == [int |-> i]
  <2>1. v.int = i /\ "string" \notin DOMAIN v /\ "int" \in DOMAIN v
    OBVIOUS
  <2> QED
    BY <2>1, MaxIntegerNat DEF WellFormedValue
<1>2. ASSUME NEW b \in Char PROVE WellFormedValue(Bytes(b))
  <2> DEFINE v == [bytes |-> b]
  <2>1. "string" \notin DOMAIN v /\ "int" \notin DOMAIN v
    OBVIOUS
  <2> QED
    BY <2>1 DEF WellFormedValue, Bytes
<1>3. ASSUME NEW t \in Text
      PROVE  WellFormedValue([string |-> write_sf_string(t)]) <=> AllPrintable(t)
  <2> DEFINE raw == write_sf_string(t)
             v == [string |-> raw]
  <2>1. WellFormedString(raw) <=> AllPrintable(t)
    BY QuoteRoundTrip
  <2> HIDE DEF raw
  <2>2. v.string = raw /\ "string" \in DOMAIN v /\ "int" \notin DOMAIN v
    OBVIOUS
  <2>3. WellFormedValue(v) <=> WellFormedString(raw)
    BY <2>2 DEF WellFormedValue
  <2> QED
    BY <2>1, <2>3 DEF raw
<1> QED
  BY <1>1, <1>2, <1>3

\* The limit, its reset in whole seconds.
WholeLimit(l) == [name |-> l.name, remaining |-> l.remaining, reset |-> Truncated(l.reset),
                  partition_key |-> l.partition_key]

\* rate_limit.rs: parse_list makes of an item that Display wrote the value it was
\* written from, its reset rounded down to whole seconds (a reset below one second comes
\* back as zero, not as none); and sfparse can read it just if the value can be said.
THEOREM LimitRoundTrip ==
  ASSUME NEW l \in Limits
  PROVE  /\ ParseLimit(DisplayLimit(l)) = <<WholeLimit(l)>>
         /\ WellFormedItem(DisplayLimit(l)) <=> l \in SayableLimits
<1> DEFINE i  == DisplayLimit(l)
           ps == i.params
           r  == [int |-> l.remaining]
           t  == {as_secs(d) : d \in l.reset}
           pk == {Bytes(b) : b \in l.partition_key}
<1>1. /\ l.name \in Text /\ l.remaining \in Nat /\ l.reset \in Option(Nat)
      /\ l.partition_key \in Option(Char)
  BY DEF Limits
<1>2. /\ Holds(ps, "r", {r}) /\ Holds(ps, "t", t) /\ Holds(ps, "pk", pk)
      /\ Vals(ps) = {r} \cup t \cup pk
  BY LimitParams
<1>3. i = Item(l.name, ps)
  BY DEF DisplayLimit, Item
<1> HIDE DEF i, ps
<1>4. ParseLimit(i) = <<WholeLimit(l)>>
  <2>1. IsString(i.value) /\ string_value(i.value.string) = l.name /\ i.params = ps
    BY <1>1, <1>3, StringItem
  <2>2. Latest(ps, "r", NonNegative) = {r}
    <3>1. NonNegative(r)
      BY <1>1 DEF NonNegative
    <3>2. Latest(ps, "r", NonNegative) = {v \in {r} : NonNegative(v)}
      BY <1>2, LatestNonNegative
    <3> HIDE DEF r
    <3> QED
      BY <3>1, <3>2
  <2>3. {x.int * Second : x \in Latest(ps, "t", NonNegative)} = Truncated(l.reset)
    BY <1>1, <1>2, LatestNonNegative, SecondsRead
  <2>4. {b.bytes : b \in Latest(ps, "pk", IsBytes)} = l.partition_key
    BY <1>1, <1>2, LatestBytes, BytesRead
  <2> DEFINE made(x) == [name |-> l.name, remaining |-> x.int, reset |-> Truncated(l.reset),
                         partition_key |-> l.partition_key]
  <2>5. ParseLimit(i) = SetToSeq({made(x) : x \in {r}})
    BY <2>1, <2>2, <2>3, <2>4 DEF ParseLimit
  <2>6. made(r) = WholeLimit(l)
    BY DEF WholeLimit
  <2>7. {made(x) : x \in {r}} = {WholeLimit(l)}
    BY <2>6
  <2> QED
    BY <2>5, <2>7, SeqOfOne
<1>5. WellFormedItem(i) <=> l \in SayableLimits
  <2>1. WellFormedItem(i) <=> AllPrintable(l.name) /\ \A v \in Vals(ps) : WellFormedValue(v)
    BY <1>1, <1>3, StringItem
  <2>2. WellFormedValue(r) <=> l.remaining <= MaxInteger
    BY <1>1, WellFormedBare
  <2>3. (\A v \in t : WellFormedValue(v)) <=> \A d \in l.reset : d \div Second <= MaxInteger
    <3>1. ASSUME NEW d \in l.reset
          PROVE  WellFormedValue(as_secs(d)) <=> d \div Second <= MaxInteger
      <4>1. d \div Second \in Nat
        BY <1>1, SecondFacts DEF Option
      <4> QED
        BY <4>1, WellFormedBare DEF as_secs
    <3> QED
      BY <3>1
  <2>4. \A v \in pk : WellFormedValue(v)
    BY <1>1, WellFormedBare DEF Option
  <2>5. (\A v \in Vals(ps) : WellFormedValue(v))
          <=> /\ WellFormedValue(r)
              /\ \A v \in t : WellFormedValue(v)
              /\ \A v \in pk : WellFormedValue(v)
    <3> HIDE DEF r, t, pk
    <3> QED
      BY <1>2
  <2> QED
    BY <2>1, <2>2, <2>3, <2>4, <2>5 DEF SayableLimits
<1> QED
  BY <1>4, <1>5 DEF i

\* What can be made of a RateLimit-Policy item, and what a structured field can say of it.
Units == {Requests} \cup {from_cow(t) : t \in Text}

Policies == [name : Text, quota : Nat, unit : Units, window : Option(Nat),
             partition_key : Option(Char)]

SayableUnit(u) == u = Requests \/ AllPrintable(as_str(u))

SayablePolicies ==
  {p \in Policies : /\ AllPrintable(p.name)
                    /\ p.quota <= MaxInteger
                    /\ SayableUnit(p.unit)
                    /\ \A d \in p.window : d \div Second <= MaxInteger}

\* A unit is told by its text.
LEMMA UnitText ==
  ASSUME NEW t \in Text
  PROVE  as_str(from_cow(t)) = t
<1>1. CASE Len(t) = 1 /\ t[1] \in Registered
  <2> DEFINE u == [token |-> t[1]]
  <2>1. from_cow(t) = u
    BY <1>1 DEF from_cow
  <2>2. "token" \in DOMAIN u /\ u.token = t[1]
    OBVIOUS
  <2>3. as_str(u) = <<t[1]>>
    BY <2>2 DEF as_str
  <2>4. t \in Seq(Char) /\ t[1] \in Char
    BY <1>1, ElementOfSeq DEF Text
  <2>5. <<t[1]>> \in Seq(Char) /\ Len(<<t[1]>>) = 1 /\ <<t[1]>>[1] = t[1]
    BY <2>4
  <2>6. <<t[1]>> = t
    BY <1>1, <2>4, <2>5, SeqEqual
  <2> QED
    BY <2>1, <2>3, <2>6
<1>2. CASE ~(Len(t) = 1 /\ t[1] \in Registered)
  <2> DEFINE u == [other |-> t]
  <2>1. from_cow(t) = u
    BY <1>2 DEF from_cow
  <2>2. "token" \notin DOMAIN u /\ u.other = t
    OBVIOUS
  <2> QED
    BY <2>1, <2>2 DEF as_str
<1> QED
  BY <1>1, <1>2

\* The `qu` of a policy.
Qu(unit) == {[string |-> write_sf_string(as_str(u))] : u \in {unit} \ {Requests}}

\* A unit is read as it was written, and can be written if its text is printable.
LEMMA UnitRead ==
  ASSUME NEW u \in Units
  PROVE  /\ Qu(u) \in Option(BareValues)
         /\ UnitOr({from_cow(string_value(v.string)) : v \in {x \in Qu(u) : IsString(x)}}, Requests)
              = u
         /\ (\A v \in Qu(u) : WellFormedValue(v)) <=> SayableUnit(u)
<1>1. CASE u = Requests
  <2>1. {u} \ {Requests} = {}
    BY <1>1
  <2>2. Qu(u) = {}
    BY <2>1 DEF Qu
  <2> QED
    BY <1>1, <2>2, OptionIntro DEF UnitOr, SayableUnit
<1>2. CASE u # Requests
  <2>1. PICK t \in Text : u = from_cow(t)
    BY <1>2 DEF Units
  <2>2. as_str(u) = t
    BY <2>1, UnitText
  <2> DEFINE raw == write_sf_string(t)
             v == [string |-> raw]
  <2>3. /\ raw \in Text /\ string_value(raw) = t
    BY QuoteRoundTrip
  <2>4. WellFormedValue(v) <=> AllPrintable(t)
    BY WellFormedBare
  <2>5. {u} \ {Requests} = {u}
    BY <1>2
  <2>6. Qu(u) = {v}
    BY <2>2, <2>5 DEF Qu
  <2> HIDE DEF raw
  <2>7. v \in BareValues
    BY <2>3, BareIntro
  <2>8. IsString(v) /\ v.string = raw
    BY DEF IsString
  <2> HIDE DEF v
  <2>9. {from_cow(string_value(x.string)) : x \in {y \in Qu(u) : IsString(y)}} = {u}
    BY <2>1, <2>3, <2>6, <2>8
  <2>10. UnitOr({u}, Requests) = u
    <3>1. (CHOOSE y \in {u} : TRUE) = u
      OBVIOUS
    <3> QED
      BY <3>1 DEF UnitOr
  <2> QED
    BY <1>2, <2>2, <2>4, <2>6, <2>7, <2>9, <2>10, OptionIntro DEF SayableUnit, v
<1> QED
  BY <1>1, <1>2

\* The parameters that DisplayPolicy writes.
LEMMA PolicyParams ==
  ASSUME NEW p \in Policies
  PROVE  LET ps == DisplayPolicy(p).params
             q  == [int |-> p.quota]
             w  == {as_secs(d) : d \in p.window}
             pk == {Bytes(b) : b \in p.partition_key}
         IN  /\ Holds(ps, "q", {q}) /\ Holds(ps, "qu", Qu(p.unit))
             /\ Holds(ps, "w", w) /\ Holds(ps, "pk", pk)
             /\ Vals(ps) = {q} \cup Qu(p.unit) \cup w \cup pk
<1> DEFINE ps == DisplayPolicy(p).params
           q  == [int |-> p.quota]
           qu == Qu(p.unit)
           w  == {as_secs(d) : d \in p.window}
           pk == {Bytes(b) : b \in p.partition_key}
           p1 == <<Param("q", q)>>
           p2 == p1 \o IfSome("qu", qu)
           p3 == p2 \o IfSome("w", w)
           p4 == p3 \o IfSome("pk", pk)
<1>1. /\ p.quota \in Nat /\ p.unit \in Units
      /\ p.window \in Option(Nat) /\ p.partition_key \in Option(Char)
  BY DEF Policies
<1>2. /\ q \in BareValues /\ qu \in Option(BareValues)
      /\ w \in Option(BareValues) /\ pk \in Option(BareValues)
  <2>1. q \in BareValues
    BY <1>1, BareIntro
  <2>2. qu \in Option(BareValues)
    BY <1>1, UnitRead
  <2>3. w \in Option(BareValues)
    BY <1>1, WindowRead
  <2>4. pk \in Option(BareValues)
    BY <1>1, BytesRead
  <2> QED
    BY <2>1, <2>2, <2>3, <2>4
<1>3. ps = p4
  BY DEF DisplayPolicy, Item, Qu
<1>4. /\ "q" \in Keys /\ "qu" \in Keys \ {"q"} /\ "w" \in Keys \ {"q", "qu"}
      /\ "pk" \in Keys \ {"q", "qu", "w"} /\ "q" \in Keys \ {"qu", "w", "pk"}
      /\ "qu" \in Keys \ {"w", "pk"} /\ "w" \in Keys \ {"qu", "pk"}
  BY DEF Keys
<1> HIDE DEF q, qu, w, pk
<1>5. Holds(p1, "q", {q}) /\ Holds(p1, "qu", {}) /\ Holds(p1, "w", {}) /\ Holds(p1, "pk", {})
      /\ Vals(p1) = {q}
  BY <1>2, <1>4, HoldsSingle
<1> HIDE DEF p1
<1>6. Holds(p2, "q", {q}) /\ Holds(p2, "qu", qu) /\ Holds(p2, "w", {}) /\ Holds(p2, "pk", {})
      /\ Vals(p2) = {q} \cup qu
  BY <1>2, <1>5, <1>4, ParamMore
<1> HIDE DEF p2
<1>7. Holds(p3, "q", {q}) /\ Holds(p3, "qu", qu) /\ Holds(p3, "w", w) /\ Holds(p3, "pk", {})
      /\ Vals(p3) = {q} \cup qu \cup w
  BY <1>2, <1>6, <1>4, ParamMore
<1> HIDE DEF p3
<1>8. Holds(p4, "q", {q}) /\ Holds(p4, "qu", qu) /\ Holds(p4, "w", w) /\ Holds(p4, "pk", pk)
      /\ Vals(p4) = {q} \cup qu \cup w \cup pk
  BY <1>2, <1>7, <1>4, ParamMore
<1> HIDE DEF p4
<1> QED
  BY <1>3, <1>8 DEF q, qu, w, pk

\* The policy, its window in whole seconds.
Whole(p) == [name |-> p.name, quota |-> p.quota, unit |-> p.unit, partition_key |-> p.partition_key,
             window |-> {w \in {x - (x % Second) : x \in p.window} : w > 0}]

\* rate_limit_policy.rs: the same of a policy, its unit included; its window comes back
\* in whole seconds, and not at all below one second.
THEOREM PolicyRoundTrip ==
  ASSUME NEW p \in Policies
  PROVE  /\ ParsePolicy(DisplayPolicy(p)) = <<Whole(p)>>
         /\ WellFormedItem(DisplayPolicy(p)) <=> p \in SayablePolicies
<1> DEFINE i  == DisplayPolicy(p)
           ps == i.params
           q  == [int |-> p.quota]
           qu == Qu(p.unit)
           w  == {as_secs(d) : d \in p.window}
           pk == {Bytes(b) : b \in p.partition_key}
           win == {y \in {x - (x % Second) : x \in p.window} : y > 0}
<1>1. /\ p.name \in Text /\ p.quota \in Nat /\ p.unit \in Units
      /\ p.window \in Option(Nat) /\ p.partition_key \in Option(Char)
  BY DEF Policies
<1>2. Whole(p) = [name |-> p.name, quota |-> p.quota, unit |-> p.unit, window |-> win,
                  partition_key |-> p.partition_key]
  BY DEF Whole
<1>3. /\ Holds(ps, "q", {q}) /\ Holds(ps, "qu", qu) /\ Holds(ps, "w", w) /\ Holds(ps, "pk", pk)
      /\ Vals(ps) = {q} \cup qu \cup w \cup pk
  BY PolicyParams
<1>4. i = Item(p.name, ps)
  BY DEF DisplayPolicy, Item
<1> HIDE DEF i, ps
<1>5. ParsePolicy(i) = <<Whole(p)>>
  <2>1. IsString(i.value) /\ string_value(i.value.string) = p.name /\ i.params = ps
    BY <1>1, <1>4, StringItem
  <2>2. Latest(ps, "q", NonNegative) = {q}
    <3>1. NonNegative(q)
      BY <1>1 DEF NonNegative
    <3>2. Latest(ps, "q", NonNegative) = {v \in {q} : NonNegative(v)}
      BY <1>3, LatestNonNegative
    <3> HIDE DEF q
    <3> QED
      BY <3>1, <3>2
  <2>3. {x.int * Second : x \in Latest(ps, "w", Positive)} = win
    BY <1>1, <1>3, LatestPositive, WindowRead
  <2>4. {b.bytes : b \in Latest(ps, "pk", IsBytes)} = p.partition_key
    BY <1>1, <1>3, LatestBytes, BytesRead
  <2>5. UnitOr({from_cow(string_value(v.string)) : v \in Latest(ps, "qu", IsString)}, Requests)
          = p.unit
    BY <1>1, <1>3, LatestString, UnitRead
  <2> HIDE DEF win
  <2> DEFINE made(x) == [name |-> p.name, quota |-> x.int, unit |-> p.unit, window |-> win,
                         partition_key |-> p.partition_key]
  <2>6. ParsePolicy(i) = SetToSeq({made(x) : x \in {q}})
    BY <2>1, <2>2, <2>3, <2>4, <2>5 DEF ParsePolicy
  <2>7. made(q) = Whole(p)
    BY <1>2
  <2>8. {made(x) : x \in {q}} = {Whole(p)}
    BY <2>7
  <2> QED
    BY <2>6, <2>8, SeqOfOne
<1>6. WellFormedItem(i) <=> p \in SayablePolicies
  <2>1. WellFormedItem(i) <=> AllPrintable(p.name) /\ \A v \in Vals(ps) : WellFormedValue(v)
    BY <1>1, <1>4, StringItem
  <2>2. WellFormedValue(q) <=> p.quota <= MaxInteger
    BY <1>1, WellFormedBare
  <2>3. (\A v \in w : WellFormedValue(v)) <=> \A d \in p.window : d \div Second <= MaxInteger
    <3>1. ASSUME NEW d \in p.window
          PROVE  WellFormedValue(as_secs(d)) <=> d \div Second <= MaxInteger
      <4>1. d \div Second \in Nat
        BY <1>1, SecondFacts DEF Option
      <4> QED
        BY <4>1, WellFormedBare DEF as_secs
    <3> QED
      BY <3>1
  <2>4. \A v \in pk : WellFormedValue(v)
    BY <1>1, WellFormedBare DEF Option
  <2>5. (\A v \in qu : WellFormedValue(v)) <=> SayableUnit(p.unit)
    BY <1>1, UnitRead
  <2>6. (\A v \in Vals(ps) : WellFormedValue(v))
          <=> /\ WellFormedValue(q) /\ \A v \in qu : WellFormedValue(v)
              /\ \A v \in w : WellFormedValue(v)
              /\ \A v \in pk : WellFormedValue(v)
    <3> HIDE DEF q, qu, w, pk
    <3> QED
      BY <1>3
  <2> QED
    BY <2>1, <2>2, <2>3, <2>4, <2>6, <2>5 DEF SayablePolicies
<1> QED
  BY <1>5, <1>6 DEF i

-----------------------------------------------------------------------------
(* What can be read.                                                        *)

\* Limits and policies as they are read: their resets and windows are in whole seconds.
WholeLimits == {l \in SayableLimits : \A d \in l.reset : d % Second = 0}
WholePolicies == {p \in SayablePolicies : \A d \in p.window : d > 0 /\ d % Second = 0}

\* A limit that was read keeps its reset, a policy its window.
LEMMA WholeLimitIsWhole ==
  ASSUME NEW l \in WholeLimits
  PROVE  WholeLimit(l) = l
<1>1. /\ l = [name |-> l.name, remaining |-> l.remaining, reset |-> l.reset,
              partition_key |-> l.partition_key]
      /\ l.reset \in Option(Nat)
      /\ \A d \in l.reset : d % Second = 0
  BY DEF WholeLimits, SayableLimits, Limits
<1>2. Truncated(l.reset) = l.reset
  <2>1. \A d \in l.reset : d \in Nat /\ d - (d % Second) = d
    BY <1>1 DEF Option
  <2> QED
    BY <2>1 DEF Truncated
<1> QED
  BY <1>1, <1>2 DEF WholeLimit

LEMMA WholeIsWhole ==
  ASSUME NEW p \in WholePolicies
  PROVE  Whole(p) = p
<1>1. /\ p = [name |-> p.name, quota |-> p.quota, unit |-> p.unit,
              partition_key |-> p.partition_key, window |-> p.window]
      /\ p.window \in Option(Nat)
      /\ \A d \in p.window : d > 0 /\ d % Second = 0
  BY DEF WholePolicies, SayablePolicies, Policies
<1>2. {w \in {x - (x % Second) : x \in p.window} : w > 0} = p.window
  <2>1. \A d \in p.window : d \in Nat /\ d > 0 /\ d - (d % Second) = d
    BY <1>1 DEF Option
  <2> QED
    BY <2>1
<1> QED
  BY <1>1, <1>2 DEF Whole

\* The last of some positions, if there are any.
LEMMA LatestOption ==
  ASSUME NEW ps \in Seq(Parameter), NEW K \in SUBSET DOMAIN ps
  PROVE  ValueAtLast(ps, K) \in Option({ps[k].value : k \in K})
<1>1. \A k \in K : k \in Int
  BY LenProperties
<1>2. \A j, k \in {k \in K : \A j \in K : j <= k} : j = k
  BY <1>1
<1> QED
  BY <1>2 DEF ValueAtLast, Option

\* The values of a well-formed item.
ReadableParams(ps) == ps \in Seq(Parameter) /\ \A k \in DOMAIN ps : WellFormedValue(ps[k].value)

\* What is read of a well-formed item: a non-negative integer is in range.
LEMMA ReadNonNegative ==
  ASSUME NEW ps, NEW key, ReadableParams(ps)
  PROVE  /\ Latest(ps, key, NonNegative) \in Option(BareValues)
         /\ \A v \in Latest(ps, key, NonNegative) : v.int \in 0..MaxInteger
<1> DEFINE K == {k \in DOMAIN ps : ps[k].key = key /\ NonNegative(ps[k].value)}
<1>1. ps \in Seq(Parameter) /\ K \in SUBSET DOMAIN ps
  BY DEF ReadableParams
<1>2. ASSUME NEW k \in K PROVE ps[k].value \in BareValues /\ ps[k].value.int \in 0..MaxInteger
  <2> DEFINE v == ps[k].value
  <2>1. v \in BareValues /\ WellFormedValue(v) /\ NonNegative(v)
    <3>1. k \in 1..Len(ps)
      BY <1>1, LenProperties
    <3>2. ps[k] \in Parameter
      BY <1>1, <3>1, ElementOfSeq
    <3> QED
      BY <3>2 DEF ReadableParams, Parameter
  <2> HIDE DEF v
  <2>2. v.int \in Int /\ v.int >= 0
    BY <2>1 DEF BareValues, NonNegative
  <2>3. v.int <= MaxInteger
    BY <2>1 DEF WellFormedValue, NonNegative
  <2>4. v.int \in 0..MaxInteger
    BY <2>2, <2>3, MaxIntegerNat
  <2> QED
    BY <2>1, <2>4 DEF v
<1>3. Latest(ps, key, NonNegative) \in Option({ps[k].value : k \in K})
  BY <1>1, LatestOption DEF Latest
<1> HIDE DEF K
<1> QED
  BY <1>2, <1>3 DEF Option

\* A positive integer is in range.
LEMMA ReadPositive ==
  ASSUME NEW ps, NEW key, ReadableParams(ps)
  PROVE  /\ Latest(ps, key, Positive) \in Option(BareValues)
         /\ \A v \in Latest(ps, key, Positive) : v.int \in 1..MaxInteger
<1> DEFINE K == {k \in DOMAIN ps : ps[k].key = key /\ Positive(ps[k].value)}
<1>1. ps \in Seq(Parameter) /\ K \in SUBSET DOMAIN ps
  BY DEF ReadableParams
<1>2. ASSUME NEW k \in K PROVE ps[k].value \in BareValues /\ ps[k].value.int \in 1..MaxInteger
  <2> DEFINE v == ps[k].value
  <2>1. v \in BareValues /\ WellFormedValue(v) /\ Positive(v)
    <3>1. k \in 1..Len(ps)
      BY <1>1, LenProperties
    <3>2. ps[k] \in Parameter
      BY <1>1, <3>1, ElementOfSeq
    <3> QED
      BY <3>2 DEF ReadableParams, Parameter
  <2> HIDE DEF v
  <2>2. v.int \in Int /\ v.int > 0
    BY <2>1 DEF BareValues, Positive
  <2>3. v.int <= MaxInteger
    BY <2>1 DEF WellFormedValue, Positive
  <2>4. v.int \in 1..MaxInteger
    BY <2>2, <2>3, MaxIntegerNat
  <2> QED
    BY <2>1, <2>4 DEF v
<1>3. Latest(ps, key, Positive) \in Option({ps[k].value : k \in K})
  BY <1>1, LatestOption DEF Latest
<1> HIDE DEF K
<1> QED
  BY <1>2, <1>3 DEF Option

\* A byte sequence is one.
LEMMA ReadBytes ==
  ASSUME NEW ps, NEW key, ReadableParams(ps)
  PROVE  {b.bytes : b \in Latest(ps, key, IsBytes)} \in Option(Char)
<1> DEFINE K == {k \in DOMAIN ps : ps[k].key = key /\ IsBytes(ps[k].value)}
<1>1. ps \in Seq(Parameter) /\ K \in SUBSET DOMAIN ps
  BY DEF ReadableParams
<1>2. ASSUME NEW k \in K PROVE ps[k].value.bytes \in Char
  <2>1. k \in 1..Len(ps)
    BY <1>1, LenProperties
  <2>2. ps[k] \in Parameter
    BY <1>1, <2>1, ElementOfSeq
  <2> QED
    BY <2>2 DEF Parameter, BareValues, IsBytes, Char
<1>3. Latest(ps, key, IsBytes) \in Option({ps[k].value : k \in K})
  BY <1>1, LatestOption DEF Latest
<1> HIDE DEF K
<1> QED
  BY <1>2, <1>3 DEF Option

\* A string unescapes to a printable text.
LEMMA ReadString ==
  ASSUME NEW ps, NEW key, ReadableParams(ps)
  PROVE  /\ Latest(ps, key, IsString) \in Option(BareValues)
         /\ \A v \in Latest(ps, key, IsString) :
              string_value(v.string) \in Text /\ AllPrintable(string_value(v.string))
<1> DEFINE K == {k \in DOMAIN ps : ps[k].key = key /\ IsString(ps[k].value)}
<1>1. ps \in Seq(Parameter) /\ K \in SUBSET DOMAIN ps
  BY DEF ReadableParams
<1>2. ASSUME NEW k \in K
      PROVE  LET v == ps[k].value IN
             /\ v \in BareValues
             /\ string_value(v.string) \in Text /\ AllPrintable(string_value(v.string))
  <2> DEFINE v == ps[k].value
  <2>1. v \in BareValues /\ WellFormedValue(v) /\ IsString(v)
    <3>1. k \in 1..Len(ps)
      BY <1>1, LenProperties
    <3>2. ps[k] \in Parameter
      BY <1>1, <3>1, ElementOfSeq
    <3> QED
      BY <3>2 DEF ReadableParams, Parameter
  <2> HIDE DEF v
  <2>2. v.string \in Text
    BY <2>1 DEF BareValues, IsString, Text, Char
  <2>3. WellFormedString(v.string)
    BY <2>1 DEF WellFormedValue, IsString
  <2> QED
    BY <2>1, <2>2, <2>3, UnquotedPrintable DEF v
<1>3. Latest(ps, key, IsString) \in Option({ps[k].value : k \in K})
  BY <1>1, LatestOption DEF Latest
<1> HIDE DEF K
<1> QED
  BY <1>2, <1>3 DEF Option

\* A well-formed item, if it is a string.
LEMMA ItemFacts ==
  ASSUME NEW item \in Items, WellFormedItem(item)
  PROVE  /\ ReadableParams(item.params)
         /\ IsString(item.value) => /\ string_value(item.value.string) \in Text
                                    /\ AllPrintable(string_value(item.value.string))
<1>1. item.params \in Seq(Parameter) /\ item.value \in Values
  BY DEF Items, Parameter
<1>2. \A k \in DOMAIN item.params : WellFormedValue(item.params[k].value)
  BY DEF WellFormedItem
<1>3. ASSUME IsString(item.value)
      PROVE  /\ string_value(item.value.string) \in Text
             /\ AllPrintable(string_value(item.value.string))
  <2>1. item.value.string \in Text /\ "list" \notin DOMAIN item.value
    BY <1>1, <1>3 DEF Values, BareValues, IsString, Text, Char
  <2>2. WellFormedString(item.value.string)
    BY <1>3, <2>1 DEF WellFormedItem, WellFormedValue, IsString
  <2> QED
    BY <2>1, <2>2, UnquotedPrintable
<1> QED
  BY <1>1, <1>2, <1>3 DEF ReadableParams

\* Of a well-formed item, a limit is made that can be said again, or none.
LEMMA ParseLimitType ==
  ASSUME NEW item \in Items, WellFormedItem(item)
  PROVE  ParseLimit(item) \in Seq(WholeLimits)
<1> DEFINE ps == item.params
           R  == Latest(ps, "r", NonNegative)
           T  == Latest(ps, "t", NonNegative)
           reset == {t.int * Second : t \in T}
           pk == {b.bytes : b \in Latest(ps, "pk", IsBytes)}
           name == string_value(item.value.string)
           made(r) == [name |-> name, remaining |-> r.int, reset |-> reset, partition_key |-> pk]
<1>1. ReadableParams(ps) /\ (IsString(item.value) => name \in Text /\ AllPrintable(name))
  BY ItemFacts
<1>2. R \in Option(BareValues) /\ \A r \in R : r.int \in 0..MaxInteger
  BY <1>1, ReadNonNegative
<1>3. T \in Option(BareValues) /\ \A t \in T : t.int \in 0..MaxInteger
  BY <1>1, ReadNonNegative
<1>4. pk \in Option(Char)
  BY <1>1, ReadBytes
<1>5. ParseLimit(item) = IF ~IsString(item.value) THEN << >> ELSE SetToSeq({made(r) : r \in R})
  BY DEF ParseLimit
<1> HIDE DEF R, T, pk, name, ps
<1>6. /\ reset \in Option(Nat)
      /\ \A d \in reset : d \div Second <= MaxInteger /\ d % Second = 0
  <2>1. \A t \in T : t.int \in Nat /\ t.int <= MaxInteger
    BY <1>3, MaxIntegerNat
  <2>2. \A t \in T : /\ t.int * Second \in Nat
                     /\ (t.int * Second) \div Second = t.int
                     /\ (t.int * Second) % Second = 0
    BY <2>1, SecondFacts
  <2>3. \A x, y \in T : x = y
    BY <1>3 DEF Option
  <2> QED
    BY <2>1, <2>2, <2>3 DEF Option
<1> HIDE DEF reset
<1>7. CASE ~IsString(item.value) \/ R = {}
  <2>1. ParseLimit(item) = << >>
    BY <1>5, <1>7, SeqOfNone
  <2> QED
    BY <2>1
<1>8. ASSUME IsString(item.value), NEW r \in BareValues, R = {r}
      PROVE  ParseLimit(item) \in Seq(WholeLimits)
  <2>1. {made(x) : x \in R} = {made(r)}
    BY <1>8
  <2>2. ParseLimit(item) = <<made(r)>>
    BY <1>5, <1>8, <2>1, SeqOfOne
  <2>3. r.int \in Nat /\ r.int <= MaxInteger
    BY <1>2, <1>8, MaxIntegerNat
  <2>4. made(r) \in WholeLimits
    BY <1>1, <1>4, <1>6, <1>8, <2>3 DEF WholeLimits, SayableLimits, Limits
  <2> HIDE DEF made
  <2> QED
    BY <2>2, <2>4
<1> QED
  BY <1>2, <1>7, <1>8, OptionCases

\* The same of a policy.
LEMMA ParsePolicyType ==
  ASSUME NEW item \in Items, WellFormedItem(item)
  PROVE  ParsePolicy(item) \in Seq(WholePolicies)
<1> DEFINE ps == item.params
           Q  == Latest(ps, "q", NonNegative)
           U  == Latest(ps, "qu", IsString)
           W  == Latest(ps, "w", Positive)
           unit == UnitOr({from_cow(string_value(u.string)) : u \in U}, Requests)
           window == {w.int * Second : w \in W}
           pk == {b.bytes : b \in Latest(ps, "pk", IsBytes)}
           name == string_value(item.value.string)
           made(q) == [name |-> name, quota |-> q.int, unit |-> unit, window |-> window,
                       partition_key |-> pk]
<1>1. ReadableParams(ps) /\ (IsString(item.value) => name \in Text /\ AllPrintable(name))
  BY ItemFacts
<1>2. Q \in Option(BareValues) /\ \A q \in Q : q.int \in 0..MaxInteger
  BY <1>1, ReadNonNegative
<1>3. W \in Option(BareValues) /\ \A w \in W : w.int \in 1..MaxInteger
  BY <1>1, ReadPositive
<1>4. pk \in Option(Char)
  BY <1>1, ReadBytes
<1>5. U \in Option(BareValues)
      /\ \A u \in U : string_value(u.string) \in Text /\ AllPrintable(string_value(u.string))
  BY <1>1, ReadString
<1>6. ParsePolicy(item) = IF ~IsString(item.value) THEN << >> ELSE SetToSeq({made(q) : q \in Q})
  BY DEF ParsePolicy
<1> HIDE DEF Q, U, W, pk, name, ps
<1>7. window \in Option(Nat)
      /\ \A d \in window : d > 0 /\ d % Second = 0 /\ d \div Second <= MaxInteger
  <2>1. \A w \in W : w.int \in Nat /\ w.int > 0 /\ w.int <= MaxInteger
    BY <1>3, MaxIntegerNat
  <2>2. \A w \in W : /\ w.int * Second \in Nat
                     /\ (w.int * Second) \div Second = w.int
                     /\ (w.int * Second) % Second = 0
    BY <2>1, SecondFacts
  <2>3. \A w \in W : w.int * Second > 0
    BY <2>1, SecondFacts
  <2>4. \A x, y \in W : x = y
    BY <1>3 DEF Option
  <2> QED
    BY <2>1, <2>2, <2>3, <2>4 DEF Option
<1>8. unit \in Units /\ SayableUnit(unit)
  <2>1. CASE U = {}
    BY <2>1 DEF UnitOr, Units, SayableUnit
  <2>2. ASSUME NEW u \in BareValues, U = {u} PROVE unit \in Units /\ SayableUnit(unit)
    <3> DEFINE t == string_value(u.string)
    <3>1. t \in Text /\ AllPrintable(t)
      BY <1>5, <2>2
    <3>2. {from_cow(string_value(x.string)) : x \in U} = {from_cow(t)}
      BY <2>2
    <3> HIDE DEF t
    <3>3. UnitOr({from_cow(t)}, Requests) = from_cow(t)
      <4>1. (CHOOSE y \in {from_cow(t)} : TRUE) = from_cow(t)
        OBVIOUS
      <4> QED
        BY <4>1 DEF UnitOr
    <3>4. unit = from_cow(t)
      BY <3>2, <3>3
    <3> HIDE DEF unit
    <3>5. as_str(unit) = t
      BY <3>1, <3>4, UnitText
    <3> QED
      BY <3>1, <3>4, <3>5 DEF Units, SayableUnit
  <2> QED
    BY <1>5, <2>1, <2>2, OptionCases
<1> HIDE DEF window, unit
<1>9. CASE ~IsString(item.value) \/ Q = {}
  <2>1. ParsePolicy(item) = << >>
    BY <1>6, <1>9, SeqOfNone
  <2> QED
    BY <2>1
<1>10. ASSUME IsString(item.value), NEW q \in BareValues, Q = {q}
      PROVE  ParsePolicy(item) \in Seq(WholePolicies)
  <2>1. {made(x) : x \in Q} = {made(q)}
    BY <1>10
  <2>2. ParsePolicy(item) = <<made(q)>>
    BY <1>6, <1>10, <2>1, SeqOfOne
  <2>3. q.int \in Nat /\ q.int <= MaxInteger
    BY <1>2, <1>10, MaxIntegerNat
  <2>4. made(q) \in WholePolicies
    BY <1>1, <1>4, <1>7, <1>10, <1>8, <2>3 DEF WholePolicies, SayablePolicies, Policies
  <2> HIDE DEF made
  <2> QED
    BY <2>2, <2>4
<1> QED
  BY <1>2, <1>9, <1>10, OptionCases

\* A line that from_headers can go on from.
Readable(line) == line.utf8 => WellFormed(line)

\* The items of a line, and of one that can be read.
LEMMA LineItems ==
  ASSUME NEW line \in FieldLines
  PROVE  /\ Len(line.items) \in Nat /\ DOMAIN line.items = 1..Len(line.items)
         /\ \A k \in 1..Len(line.items) : line.items[k] \in Items
         /\ Readable(line) /\ line.utf8
              => \A k \in 1..Len(line.items) : WellFormedItem(line.items[k])
<1>1. line.items \in Seq(Items)
  BY DEF FieldLines
<1>2. Len(line.items) \in Nat /\ DOMAIN line.items = 1..Len(line.items)
  BY <1>1, LenProperties
<1>3. \A k \in 1..Len(line.items) : line.items[k] \in Items
  BY <1>1, ElementOfSeq
<1> QED
  BY <1>2, <1>3 DEF Readable, WellFormed

\* Of a line that can be read, limits are made that can be said again.
LEMMA ParseLimitsType ==
  ASSUME NEW line \in FieldLines, Readable(line)
  PROVE  ParseLimits(line) \in Seq(WholeLimits)
<1> DEFINE n == Len(line.items)
           ss == [k \in DOMAIN line.items |-> ParseLimit(line.items[k])]
<1>1. CASE ~line.utf8
  <2>1. ParseLimits(line) = << >>
    BY <1>1 DEF ParseLimits
  <2> QED
    BY <2>1
<1>2. CASE line.utf8
  <2>1. /\ n \in Nat /\ DOMAIN line.items = 1..n
        /\ \A k \in 1..n : line.items[k] \in Items /\ WellFormedItem(line.items[k])
    BY <1>2, LineItems
  <2>2. \A k \in 1..n : ss[k] \in Seq(WholeLimits)
    BY <2>1, ParseLimitType
  <2>3. DOMAIN ss = 1..n /\ ss = [k \in 1..n |-> ss[k]]
    BY <2>1
  <2>4. ParseLimits(line) = FlattenSeq(ss)
    BY <1>2 DEF ParseLimits
  <2> HIDE DEF ss, n
  <2>5. ss \in Seq(Seq(WholeLimits))
    BY <2>1, <2>2, <2>3, Made
  <2> QED
    BY <2>4, <2>5, FlattenType
<1>3. line.utf8 \in BOOLEAN
  BY DEF FieldLines
<1> QED
  BY <1>1, <1>2

\* The same of policies.
LEMMA ParsePoliciesType ==
  ASSUME NEW line \in FieldLines, Readable(line)
  PROVE  ParsePolicies(line) \in Seq(WholePolicies)
<1> DEFINE n == Len(line.items)
           ss == [k \in DOMAIN line.items |-> ParsePolicy(line.items[k])]
<1>1. CASE ~line.utf8
  <2>1. ParsePolicies(line) = << >>
    BY <1>1 DEF ParsePolicies
  <2> QED
    BY <2>1
<1>2. CASE line.utf8
  <2>1. /\ n \in Nat /\ DOMAIN line.items = 1..n
        /\ \A k \in 1..n : line.items[k] \in Items /\ WellFormedItem(line.items[k])
    BY <1>2, LineItems
  <2>2. \A k \in 1..n : ss[k] \in Seq(WholePolicies)
    BY <2>1, ParsePolicyType
  <2>3. DOMAIN ss = 1..n /\ ss = [k \in 1..n |-> ss[k]]
    BY <2>1
  <2>4. ParsePolicies(line) = FlattenSeq(ss)
    BY <1>2 DEF ParsePolicies
  <2> HIDE DEF ss, n
  <2>5. ss \in Seq(Seq(WholePolicies))
    BY <2>1, <2>2, <2>3, Made
  <2> QED
    BY <2>4, <2>5, FlattenType
<1> QED
  BY <1>1, <1>2

-----------------------------------------------------------------------------
(* A field, line by line.  f is what is made of a line, A the values that are read. *)

Reading(f, A) == \A line \in FieldLines : Readable(line) => f[line] \in Seq(A)

ReadSeq(f, lines) == [k \in DOMAIN lines |-> f[lines[k]]]
ReadBy(f, lines)  == FromHeaders(lines, ReadSeq(f, lines))

\* What a line says by itself.
Alone(f, line) == IF Readable(line) THEN {f[line]} ELSE {}

\* The lines say what was meant.
Heard(f, A, lines, pieces) ==
  /\ lines \in Seq(FieldLines)
  /\ pieces \in Seq(Option(Seq(A)))
  /\ ReadBy(f, lines) = Meant(pieces)

\* Reading is all or nothing.
LEMMA ReadAll ==
  ASSUME NEW f, NEW A, Reading(f, A), NEW lines \in Seq(FieldLines)
  PROVE  /\ (\A k \in 1..Len(lines) : Readable(lines[k])) =>
              /\ ReadSeq(f, lines) \in Seq(Seq(A)) /\ Len(ReadSeq(f, lines)) = Len(lines)
              /\ ReadBy(f, lines) = {FlattenSeq(ReadSeq(f, lines))}
              /\ FlattenSeq(ReadSeq(f, lines)) \in Seq(A)
         /\ (\E k \in 1..Len(lines) : ~Readable(lines[k])) => ReadBy(f, lines) = {}
<1> DEFINE n == Len(lines)
           read == ReadSeq(f, lines)
<1>1. n \in Nat /\ DOMAIN lines = 1..n /\ \A k \in 1..n : lines[k] \in FieldLines
  BY LenProperties, ElementOfSeq
<1>2. ReadBy(f, lines) = IF \A k \in 1..n : Readable(lines[k]) THEN {FlattenSeq(read)} ELSE {}
  BY <1>1 DEF ReadBy, ReadSeq, FromHeaders, Readable
<1>3. ASSUME \A k \in 1..n : Readable(lines[k])
      PROVE  read \in Seq(Seq(A)) /\ Len(read) = n /\ FlattenSeq(read) \in Seq(A)
  <2>1. \A k \in 1..n : read[k] \in Seq(A)
    BY <1>1, <1>3 DEF Reading, ReadSeq
  <2>2. DOMAIN read = 1..n /\ read = [k \in 1..n |-> read[k]]
    BY <1>1 DEF ReadSeq
  <2> HIDE DEF read, n
  <2>3. read \in Seq(Seq(A)) /\ Len(read) = n
    BY <1>1, <2>1, <2>2, Made
  <2> QED
    BY <2>3, FlattenType
<1> HIDE DEF read, n
<1> QED
  BY <1>2, <1>3 DEF read, n

\* A line more: what it says is added, or nothing can be read any more.
LEMMA ReadMore ==
  ASSUME NEW f, NEW A, Reading(f, A), NEW lines \in Seq(FieldLines), NEW line \in FieldLines
  PROVE  ReadBy(f, Append(lines, line)) =
           IF Readable(line) THEN {r \o f[line] : r \in ReadBy(f, lines)} ELSE {}
<1> DEFINE n == Len(lines)
           more == Append(lines, line)
<1>1. /\ more \in Seq(FieldLines) /\ n \in Nat /\ Len(more) = n + 1
      /\ DOMAIN lines = 1..n /\ DOMAIN more = 1..(n + 1)
      /\ \A i \in 1..n : more[i] = lines[i]
      /\ more[n + 1] = line
  BY AppendFacts
<1> HIDE DEF more
<1>2. CASE ~Readable(line)
  <2>1. n + 1 \in 1..(n + 1)
    BY <1>1
  <2>2. \E k \in 1..Len(more) : ~Readable(more[k])
    BY <1>1, <1>2, <2>1
  <2>3. ReadBy(f, more) = {}
    BY <1>1, <2>2, ReadAll
  <2> QED
    BY <1>2, <2>3 DEF more
<1>3. ASSUME NEW k \in 1..n, ~Readable(lines[k])
      PROVE  ReadBy(f, more) = {} /\ ReadBy(f, lines) = {}
  <2>1. k \in 1..(n + 1)
    BY <1>1
  <2>2. \E j \in 1..Len(more) : ~Readable(more[j])
    BY <1>1, <1>3, <2>1
  <2> QED
    BY <1>1, <1>3, <2>2, ReadAll
<1>4. CASE Readable(line) /\ \A k \in 1..n : Readable(lines[k])
  <2>1. \A k \in 1..Len(more) : Readable(more[k])
    <3>1. \A k \in 1..(n + 1) : k \in 1..n \/ k = n + 1
      BY <1>1
    <3> QED
      BY <1>1, <1>4, <3>1
  <2>2. /\ ReadSeq(f, lines) \in Seq(Seq(A)) /\ Len(ReadSeq(f, lines)) = n
        /\ ReadBy(f, lines) = {FlattenSeq(ReadSeq(f, lines))}
    BY <1>4, ReadAll
  <2>3. /\ ReadSeq(f, more) \in Seq(Seq(A)) /\ Len(ReadSeq(f, more)) = n + 1
        /\ ReadBy(f, more) = {FlattenSeq(ReadSeq(f, more))}
    <3>1. more \in Seq(FieldLines) /\ Len(more) = n + 1
      BY <1>1
    <3> HIDE DEF n
    <3>2. /\ ReadSeq(f, more) \in Seq(Seq(A)) /\ Len(ReadSeq(f, more)) = Len(more)
          /\ ReadBy(f, more) = {FlattenSeq(ReadSeq(f, more))}
      BY <2>1, <3>1, ReadAll
    <3> QED
      BY <3>1, <3>2
  <2>4. \A i \in 1..n : ReadSeq(f, more)[i] = ReadSeq(f, lines)[i]
    BY <1>1 DEF ReadSeq
  <2>5. ReadSeq(f, more)[n + 1] = f[line]
    BY <1>1 DEF ReadSeq
  <2> HIDE DEF n
  <2>6. FlattenSeq(ReadSeq(f, more)) = FlattenSeq(ReadSeq(f, lines)) \o f[line]
    BY <2>2, <2>3, <2>4, <2>5, FlattenMore
  <2>7. {r \o f[line] : r \in ReadBy(f, lines)} = {FlattenSeq(ReadSeq(f, more))}
    BY <2>2, <2>6
  <2> QED
    BY <1>4, <2>3, <2>7 DEF more
<1> QED
  BY <1>2, <1>3, <1>4 DEF more

\* So is meaning.
LEMMA MeantAll ==
  ASSUME NEW A, NEW pieces \in Seq(Option(Seq(A)))
  PROVE  LET said_k == [k \in DOMAIN pieces |-> CHOOSE x \in pieces[k] : TRUE] IN
         /\ (\A k \in 1..Len(pieces) : pieces[k] # {}) =>
              /\ said_k \in Seq(Seq(A)) /\ Len(said_k) = Len(pieces)
              /\ Meant(pieces) = {FlattenSeq(said_k)}
              /\ FlattenSeq(said_k) \in Seq(A)
         /\ (\E k \in 1..Len(pieces) : pieces[k] = {}) => Meant(pieces) = {}
<1> DEFINE n == Len(pieces)
           s == [k \in DOMAIN pieces |-> CHOOSE x \in pieces[k] : TRUE]
<1>1. n \in Nat /\ DOMAIN pieces = 1..n /\ \A k \in 1..n : pieces[k] \in Option(Seq(A))
  BY LenProperties, ElementOfSeq
<1>2. Meant(pieces) = IF \A k \in 1..n : pieces[k] # {} THEN {FlattenSeq(s)} ELSE {}
  BY <1>1 DEF Meant
<1>3. ASSUME \A k \in 1..n : pieces[k] # {}
      PROVE  s \in Seq(Seq(A)) /\ Len(s) = n /\ FlattenSeq(s) \in Seq(A)
  <2>1. ASSUME NEW k \in 1..n PROVE s[k] \in Seq(A)
    <3>1. pieces[k] # {} /\ pieces[k] \subseteq Seq(A)
      BY <1>1, <1>3 DEF Option
    <3>2. s[k] = CHOOSE x \in pieces[k] : TRUE
      BY <1>1
    <3>3. (CHOOSE x \in pieces[k] : TRUE) \in pieces[k]
      BY <3>1
    <3> QED
      BY <3>1, <3>2, <3>3
  <2>2. DOMAIN s = 1..n /\ s = [k \in 1..n |-> s[k]]
    BY <1>1
  <2> HIDE DEF s, n
  <2>3. s \in Seq(Seq(A)) /\ Len(s) = n
    BY <1>1, <2>1, <2>2, Made
  <2> QED
    BY <2>3, FlattenType
<1> HIDE DEF s, n
<1> QED
  BY <1>2, <1>3 DEF s, n

\* A piece more: what it means is added, or nothing is meant any more.
LEMMA MeantMore ==
  ASSUME NEW A, NEW pieces \in Seq(Option(Seq(A))), NEW piece \in Option(Seq(A))
  PROVE  /\ piece = {} => Meant(Append(pieces, piece)) = {}
         /\ \A p : piece = {p} => Meant(Append(pieces, piece)) = {r \o p : r \in Meant(pieces)}
<1> DEFINE n == Len(pieces)
           more == Append(pieces, piece)
           s(ps) == [k \in DOMAIN ps |-> CHOOSE x \in ps[k] : TRUE]
<1>1. /\ more \in Seq(Option(Seq(A))) /\ n \in Nat /\ Len(more) = n + 1
      /\ DOMAIN pieces = 1..n /\ DOMAIN more = 1..(n + 1)
      /\ \A i \in 1..n : more[i] = pieces[i]
      /\ more[n + 1] = piece
  BY AppendFacts
<1> HIDE DEF more
<1>2. ASSUME piece = {} PROVE Meant(more) = {}
  <2>1. n + 1 \in 1..(n + 1)
    BY <1>1
  <2>2. \E k \in 1..Len(more) : more[k] = {}
    BY <1>1, <1>2, <2>1
  <2> QED
    BY <1>1, <2>2, MeantAll
<1>3. ASSUME NEW k \in 1..n, pieces[k] = {}
      PROVE  Meant(more) = {} /\ Meant(pieces) = {}
  <2>1. k \in 1..(n + 1)
    BY <1>1
  <2>2. \E j \in 1..Len(more) : more[j] = {}
    BY <1>1, <1>3, <2>1
  <2> QED
    BY <1>1, <1>3, <2>2, MeantAll
<1>4. ASSUME NEW p, piece = {p}, \A k \in 1..n : pieces[k] # {}
      PROVE  Meant(more) = {r \o p : r \in Meant(pieces)}
  <2>1. \A k \in 1..Len(more) : more[k] # {}
    <3>1. \A k \in 1..(n + 1) : k \in 1..n \/ k = n + 1
      BY <1>1
    <3> QED
      BY <1>1, <1>4, <3>1
  <2>2. /\ s(pieces) \in Seq(Seq(A)) /\ Len(s(pieces)) = n
        /\ Meant(pieces) = {FlattenSeq(s(pieces))}
    BY <1>4, MeantAll
  <2>3. /\ s(more) \in Seq(Seq(A)) /\ Len(s(more)) = n + 1
        /\ Meant(more) = {FlattenSeq(s(more))}
    BY <1>1, <2>1, MeantAll
  <2>4. \A i \in 1..n : s(more)[i] = s(pieces)[i]
    BY <1>1
  <2>5. s(more)[n + 1] = p
    <3>1. (CHOOSE x \in {p} : TRUE) = p
      OBVIOUS
    <3> QED
      BY <1>1, <1>4, <3>1
  <2> HIDE DEF s, n
  <2>6. FlattenSeq(s(more)) = FlattenSeq(s(pieces)) \o p
    BY <2>2, <2>3, <2>4, <2>5, FlattenMore
  <2> QED
    BY <2>2, <2>3, <2>6
<1> QED
  BY <1>2, <1>3, <1>4 DEF more

\* One line more is heard.
LEMMA HeardMore ==
  ASSUME NEW f, NEW A, Reading(f, A), NEW lines, NEW pieces, Heard(f, A, lines, pieces),
         NEW line \in FieldLines
  PROVE  Heard(f, A, Append(lines, line), Append(pieces, Alone(f, line)))
<1> DEFINE piece == Alone(f, line)
<1>1. /\ lines \in Seq(FieldLines) /\ pieces \in Seq(Option(Seq(A)))
      /\ ReadBy(f, lines) = Meant(pieces)
  BY DEF Heard
<1>2. piece \in Option(Seq(A))
  BY OptionIntro DEF Alone, Reading
<1>3. Append(lines, line) \in Seq(FieldLines)
  BY <1>1, AppendFacts
<1>4. Append(pieces, piece) \in Seq(Option(Seq(A)))
  <2> HIDE DEF piece
  <2> QED
    BY <1>1, <1>2, AppendFacts
<1>5. CASE Readable(line)
  <2>1. piece = {f[line]}
    BY <1>5 DEF Alone
  <2>2. ReadBy(f, Append(lines, line)) = {r \o f[line] : r \in ReadBy(f, lines)}
    BY <1>1, <1>5, ReadMore
  <2> HIDE DEF piece
  <2>3. Meant(Append(pieces, piece)) = {r \o f[line] : r \in Meant(pieces)}
    BY <1>1, <1>2, <2>1, MeantMore
  <2> QED
    BY <1>1, <1>3, <1>4, <2>2, <2>3 DEF Heard, piece
<1>6. CASE ~Readable(line)
  <2>1. piece = {}
    BY <1>6 DEF Alone
  <2>2. ReadBy(f, Append(lines, line)) = {}
    BY <1>1, <1>6, ReadMore
  <2> HIDE DEF piece
  <2>3. Meant(Append(pieces, piece)) = {}
    BY <1>1, <1>2, <2>1, MeantMore
  <2> QED
    BY <1>3, <1>4, <2>2, <2>3 DEF Heard, piece
<1> QED
  BY <1>5, <1>6

\* g writes a value so that it is read again.
Writing(g, f, A) == \A a \in A : g[a] \in FieldLines /\ Readable(g[a]) /\ f[g[a]] = <<a>>

\* What was read is typed.
LEMMA ReadType ==
  ASSUME NEW f, NEW A, Reading(f, A), NEW lines \in Seq(FieldLines), NEW r \in ReadBy(f, lines)
  PROVE  r \in Seq(A) /\ ReadBy(f, lines) = {r}
<1>1. ReadBy(f, lines) = {FlattenSeq(ReadSeq(f, lines))} /\ FlattenSeq(ReadSeq(f, lines)) \in Seq(A)
  BY ReadAll
<1> QED
  BY <1>1

\* What was read and written anew is heard as before.
LEMMA HeardRelay ==
  ASSUME NEW f, NEW A, Reading(f, A), NEW g, Writing(g, f, A),
         NEW lines, NEW pieces, Heard(f, A, lines, pieces), NEW r \in ReadBy(f, lines)
  PROVE  Heard(f, A, [k \in DOMAIN r |-> g[r[k]]], pieces)
<1> DEFINE n == Len(r)
           anew == [k \in DOMAIN r |-> g[r[k]]]
<1>1. /\ lines \in Seq(FieldLines) /\ pieces \in Seq(Option(Seq(A)))
      /\ ReadBy(f, lines) = Meant(pieces)
  BY DEF Heard
<1>2. r \in Seq(A) /\ ReadBy(f, lines) = {r}
  BY <1>1, ReadType
<1>3. n \in Nat /\ DOMAIN r = 1..n /\ \A k \in 1..n : r[k] \in A
  BY <1>2, LenProperties, ElementOfSeq
<1>4. \A k \in 1..n : anew[k] \in FieldLines /\ Readable(anew[k]) /\ f[anew[k]] = <<r[k]>>
  BY <1>3 DEF Writing
<1>5. DOMAIN anew = 1..n /\ anew = [k \in 1..n |-> anew[k]]
  BY <1>3
<1> HIDE DEF anew, n
<1>6. anew \in Seq(FieldLines) /\ Len(anew) = n
  BY <1>3, <1>4, <1>5, Made
<1>7. ReadBy(f, anew) = {FlattenSeq(ReadSeq(f, anew))}
  BY <1>4, <1>6, ReadAll
<1>8. ReadSeq(f, anew) = Singles(r)
  BY <1>3, <1>4, <1>5 DEF ReadSeq, Singles
<1>9. FlattenSeq(Singles(r)) = r
  BY <1>2, FlattenSingles
<1>10. Heard(f, A, anew, pieces)
  BY <1>1, <1>2, <1>6, <1>7, <1>8, <1>9 DEF Heard
<1> QED
  BY <1>10 DEF anew

-----------------------------------------------------------------------------
(* The two fields.                                                          *)

LimitsOf   == [line \in FieldLines |-> ParseLimits(line)]
PoliciesOf == [line \in FieldLines |-> ParsePolicies(line)]

LimitAgain  == [l \in WholeLimits |-> Line(<<DisplayLimit(l)>>)]
PolicyAgain == [p \in WholePolicies |-> Line(<<DisplayPolicy(p)>>)]

\* A line of one item.
LEMMA LineOfOne ==
  ASSUME NEW t \in Text, NEW ps \in Seq(Parameter)
  PROVE  LET i == Item(t, ps) IN
         /\ Line(<<i>>) \in FieldLines
         /\ Readable(Line(<<i>>)) <=> WellFormedItem(i)
         /\ \A s : ParseLimit(i) = <<s>> => ParseLimits(Line(<<i>>)) = <<s>>
         /\ \A s : ParsePolicy(i) = <<s>> => ParsePolicies(Line(<<i>>)) = <<s>>
<1> DEFINE i == Item(t, ps)
           line == Line(<<i>>)
<1>1. i \in Items
  <2> DEFINE v == [string |-> write_sf_string(t)]
  <2>1. v \in Values
    BY QuoteRoundTrip, BareIntro DEF Values
  <2> HIDE DEF v
  <2> QED
    BY <2>1 DEF Item, Items, Parameter, v
<1> HIDE DEF i
<1> DEFINE is == <<i>>
<1>2. is \in Seq(Items) /\ DOMAIN is = {1} /\ is[1] = i
  BY <1>1
<1> HIDE DEF is
<1>3. line.utf8 = TRUE /\ line.items = is /\ line \in FieldLines
  BY <1>2 DEF Line, FieldLines, is
<1>4. Readable(line) <=> WellFormedItem(i)
  BY <1>2, <1>3 DEF Readable, WellFormed
<1>5. ASSUME NEW s, ParseLimit(i) = <<s>> PROVE ParseLimits(line) = <<s>>
  <2>1. [k \in DOMAIN is |-> ParseLimit(is[k])] = <<<<s>>>>
    <3> DEFINE m == [k \in DOMAIN is |-> ParseLimit(is[k])]
    <3>1. m = [k \in 1..1 |-> <<s>>]
      BY <1>2, <1>5
    <3> QED
      BY <3>1
  <2>2. FlattenSeq(<<<<s>>>>) = <<s>>
    <3>1. <<s>> \in Seq({s})
      OBVIOUS
    <3> QED
      BY <3>1, FlattenOne
  <2> QED
    BY <1>3, <2>1, <2>2 DEF ParseLimits
<1>6. ASSUME NEW s, ParsePolicy(i) = <<s>> PROVE ParsePolicies(line) = <<s>>
  <2>1. [k \in DOMAIN is |-> ParsePolicy(is[k])] = <<<<s>>>>
    <3> DEFINE m == [k \in DOMAIN is |-> ParsePolicy(is[k])]
    <3>1. m = [k \in 1..1 |-> <<s>>]
      BY <1>2, <1>6
    <3> QED
      BY <3>1
  <2>2. FlattenSeq(<<<<s>>>>) = <<s>>
    <3>1. <<s>> \in Seq({s})
      OBVIOUS
    <3> QED
      BY <3>1, FlattenOne
  <2> QED
    BY <1>3, <2>1, <2>2 DEF ParsePolicies
<1> QED
  BY <1>3, <1>4, <1>5, <1>6 DEF i

\* What a limit becomes, and is again.
LEMMA LimitLine ==
  ASSUME NEW l \in Limits
  PROVE  LET line == Line(<<DisplayLimit(l)>>) IN
         /\ line \in FieldLines
         /\ Readable(line) <=> l \in SayableLimits
         /\ ParseLimits(line) = <<WholeLimit(l)>>
<1> DEFINE ps == DisplayLimit(l).params
<1>1. l.name \in Text /\ ps \in Seq(Parameter)
  BY LimitParams DEF Limits, Holds
<1>2. DisplayLimit(l) = Item(l.name, ps)
  BY DEF DisplayLimit, Item
<1>3. /\ ParseLimit(DisplayLimit(l)) = <<WholeLimit(l)>>
      /\ WellFormedItem(DisplayLimit(l)) <=> l \in SayableLimits
  BY LimitRoundTrip
<1> HIDE DEF ps
<1> QED
  BY <1>1, <1>2, <1>3, LineOfOne

\* The same of a policy.
LEMMA PolicyLine ==
  ASSUME NEW p \in Policies
  PROVE  LET line == Line(<<DisplayPolicy(p)>>) IN
         /\ line \in FieldLines
         /\ Readable(line) <=> p \in SayablePolicies
         /\ ParsePolicies(line) = <<Whole(p)>>
<1> DEFINE ps == DisplayPolicy(p).params
<1>1. p.name \in Text /\ ps \in Seq(Parameter)
  BY PolicyParams DEF Policies, Holds
<1>2. DisplayPolicy(p) = Item(p.name, ps)
  BY DEF DisplayPolicy, Item
<1>3. /\ ParsePolicy(DisplayPolicy(p)) = <<Whole(p)>>
      /\ WellFormedItem(DisplayPolicy(p)) <=> p \in SayablePolicies
  BY PolicyRoundTrip
<1> HIDE DEF ps
<1> QED
  BY <1>1, <1>2, <1>3, LineOfOne

\* Both fields are read and written as the lemmas above want it.
LEMMA FieldsRead ==
  /\ Reading(LimitsOf, WholeLimits) /\ Reading(PoliciesOf, WholePolicies)
  /\ Writing(LimitAgain, LimitsOf, WholeLimits)
  /\ Writing(PolicyAgain, PoliciesOf, WholePolicies)
<1>1. Reading(LimitsOf, WholeLimits)
  BY ParseLimitsType DEF Reading, LimitsOf
<1>2. Reading(PoliciesOf, WholePolicies)
  BY ParsePoliciesType DEF Reading, PoliciesOf
<1>3. ASSUME NEW l \in WholeLimits
      PROVE  /\ LimitAgain[l] \in FieldLines /\ Readable(LimitAgain[l])
             /\ LimitsOf[LimitAgain[l]] = <<l>>
  <2> DEFINE line == Line(<<DisplayLimit(l)>>)
  <2>1. l \in SayableLimits /\ l \in Limits
    BY DEF WholeLimits, SayableLimits
  <2>2. line \in FieldLines /\ Readable(line) /\ ParseLimits(line) = <<l>>
    BY <2>1, LimitLine, WholeLimitIsWhole
  <2>3. LimitAgain[l] = line
    BY DEF LimitAgain
  <2> HIDE DEF line
  <2> QED
    BY <2>2, <2>3 DEF LimitsOf
<1>4. ASSUME NEW p \in WholePolicies
      PROVE  /\ PolicyAgain[p] \in FieldLines /\ Readable(PolicyAgain[p])
             /\ PoliciesOf[PolicyAgain[p]] = <<p>>
  <2> DEFINE line == Line(<<DisplayPolicy(p)>>)
  <2>1. p \in SayablePolicies /\ p \in Policies
    BY DEF WholePolicies, SayablePolicies
  <2>2. line \in FieldLines /\ Readable(line) /\ ParsePolicies(line) = <<p>>
    BY <2>1, PolicyLine, WholeIsWhole
  <2>3. PolicyAgain[p] = line
    BY DEF PolicyAgain
  <2> HIDE DEF line
  <2> QED
    BY <2>2, <2>3 DEF PoliciesOf
<1> QED
  BY <1>1, <1>2, <1>3, <1>4 DEF Writing

\* What a limiter says of itself.
AdvertisedLimit(a) ==
  WithPartitionKey(WithReset(NewLimit(a.name, a.remaining), a.reset * Second), a.pk)
AdvertisedPolicy(a) ==
  WithPartitionKey(WithWindow(NewPolicy(a.name, a.count), a.window), a.pk)

\* The symbols of a text.
LEMMA PrintableText ==
  ASSUME NEW t
  PROVE  ToSet(t) \subseteq Printable <=> AllPrintable(t)
  BY DEF ToSet, AllPrintable

\* The builders, one by one.
LEMMA BuiltLimit ==
  ASSUME NEW name, NEW n, NEW d, NEW pk
  PROVE  WithPartitionKey(WithReset(NewLimit(name, n), d), pk)
           = [name |-> name, remaining |-> n, reset |-> {d}, partition_key |-> pk]
<1> DEFINE l == [name |-> name, remaining |-> n, reset |-> {d}, partition_key |-> {}]
<1>1. WithReset(NewLimit(name, n), d) = l
  BY DEF WithReset, NewLimit
<1>2. WithPartitionKey(l, pk)
        = [name |-> name, remaining |-> n, reset |-> {d}, partition_key |-> pk]
  BY DEF WithPartitionKey
<1> HIDE DEF l
<1> QED
  BY <1>1, <1>2

\* The same of a policy.
LEMMA BuiltPolicy ==
  ASSUME NEW name, NEW n, NEW d, NEW pk
  PROVE  WithPartitionKey(WithWindow(NewPolicy(name, n), d), pk)
           = [name |-> name, quota |-> n, unit |-> Requests, window |-> {d}, partition_key |-> pk]
<1> DEFINE p == [name |-> name, quota |-> n, unit |-> Requests, window |-> {d}, partition_key |-> {}]
<1>1. WithWindow(NewPolicy(name, n), d) = p
  BY DEF WithWindow, NewPolicy
<1>2. WithPartitionKey(p, pk)
        = [name |-> name, quota |-> n, unit |-> Requests, window |-> {d}, partition_key |-> pk]
  BY DEF WithPartitionKey
<1> HIDE DEF p
<1> QED
  BY <1>1, <1>2

\* What a limiter says of its limit, alone, is what it means.
LEMMA AdvertisedLimitHeard ==
  ASSUME NEW a \in Limiters
  PROVE  LET line == Line(<<DisplayLimit(AdvertisedLimit(a))>>) IN
         line \in FieldLines /\ MeantLimit(a) = Alone(LimitsOf, line)
<1> DEFINE l == AdvertisedLimit(a)
           line == Line(<<DisplayLimit(l)>>)
<1>1. /\ a.name \in Text /\ a.remaining \in Nat /\ a.reset \in Nat /\ a.pk \in Option(Char)
  BY HeadersAssumption DEF Advertised, Text, Char
<1>2. /\ a.reset * Second \in Nat
      /\ (a.reset * Second) \div Second = a.reset
      /\ (a.reset * Second) % Second = 0
  BY <1>1, SecondFacts
<1>3. l = [name |-> a.name, remaining |-> a.remaining, reset |-> {a.reset * Second},
           partition_key |-> a.pk]
  BY BuiltLimit DEF AdvertisedLimit
<1> HIDE DEF l
<1>4. l \in Limits
  BY <1>1, <1>2, <1>3, OptionIntro DEF Limits
<1>5. l \in SayableLimits <=> ToSet(a.name) \subseteq Printable /\ a.remaining <= MaxInteger
                               /\ a.reset <= MaxInteger
  BY <1>2, <1>3, <1>4, PrintableText DEF SayableLimits
<1>6. /\ line \in FieldLines
      /\ Readable(line) <=> l \in SayableLimits
      /\ ParseLimits(line) = <<WholeLimit(l)>>
  BY <1>4, LimitLine
<1>7. MeantLimit(a) = IF l \in SayableLimits THEN {<<WholeLimit(l)>>} ELSE {}
  <2>1. l \in SayableLimits => l \in WholeLimits
    BY <1>2, <1>3 DEF WholeLimits
  <2>2. l \in SayableLimits => WholeLimit(l) = l
    BY <2>1, WholeLimitIsWhole
  <2> QED
    BY <1>3, <1>5, <2>2 DEF MeantLimit
<1> HIDE DEF line
<1>8. MeantLimit(a) = Alone(LimitsOf, line)
  BY <1>6, <1>7 DEF Alone, LimitsOf
<1> QED
  BY <1>6, <1>8 DEF line, l

\* The same of its policy.
LEMMA AdvertisedPolicyHeard ==
  ASSUME NEW a \in Limiters
  PROVE  LET line == Line(<<DisplayPolicy(AdvertisedPolicy(a))>>) IN
         line \in FieldLines /\ MeantPolicy(a) = Alone(PoliciesOf, line)
<1> DEFINE p == AdvertisedPolicy(a)
           line == Line(<<DisplayPolicy(p)>>)
           e == a.window - (a.window % Second)
           whole == [name |-> a.name, quota |-> a.count, unit |-> Requests,
                     partition_key |-> a.pk, window |-> {w \in {e} : w > 0}]
<1>1. /\ a.name \in Text /\ a.count \in Nat /\ a.window \in Nat /\ a.pk \in Option(Char)
  BY HeadersAssumption DEF Advertised, Text, Char
<1>2. p = [name |-> a.name, quota |-> a.count, unit |-> Requests, window |-> {a.window},
           partition_key |-> a.pk]
  BY BuiltPolicy DEF AdvertisedPolicy
<1> HIDE DEF p
<1>3. p \in Policies
  BY <1>1, <1>2, OptionIntro DEF Policies, Units
<1>4. p \in SayablePolicies <=> /\ ToSet(a.name) \subseteq Printable /\ a.count <= MaxInteger
                                /\ a.window \div Second <= MaxInteger
  BY <1>2, <1>3, PrintableText DEF SayablePolicies, SayableUnit
<1>5. /\ line \in FieldLines
      /\ Readable(line) <=> p \in SayablePolicies
      /\ ParsePolicies(line) = <<Whole(p)>>
  BY <1>3, PolicyLine
<1>6. Whole(p) = whole
  <2>1. {x - (x % Second) : x \in p.window} = {e}
    BY <1>2
  <2> HIDE DEF e
  <2> QED
    BY <1>2, <2>1 DEF Whole
<1>7. MeantPolicy(a) = IF p \in SayablePolicies THEN {<<whole>>} ELSE {}
  BY <1>4 DEF MeantPolicy
<1> HIDE DEF line, whole
<1>8. MeantPolicy(a) = Alone(PoliciesOf, line)
  BY <1>5, <1>7, <1>6 DEF Alone, PoliciesOf
<1> QED
  BY <1>5, <1>8 DEF line, p

-----------------------------------------------------------------------------
(* The invariants.                                                          *)

\* The fields hold lines, and there is at most one Retry-After.
FieldsTyped ==
  /\ limits \in Seq(FieldLines) /\ policies \in Seq(FieldLines)
  /\ retry_after \in Option(Nat)

\* The reads of Headers, in the terms of the lemmas above.
LEMMA ReadsAre ==
  ASSUME FieldsTyped
  PROVE  /\ ReadLimits = ReadBy(LimitsOf, limits)
         /\ ReadPolicies = ReadBy(PoliciesOf, policies)
<1>1. /\ \A k \in DOMAIN limits : limits[k] \in FieldLines
      /\ \A k \in DOMAIN policies : policies[k] \in FieldLines
  BY LenProperties, ElementOfSeq DEF FieldsTyped
<1>2. [k \in DOMAIN limits |-> ParseLimits(limits[k])] = ReadSeq(LimitsOf, limits)
  BY <1>1 DEF ReadSeq, LimitsOf
<1>3. [k \in DOMAIN policies |-> ParsePolicies(policies[k])] = ReadSeq(PoliciesOf, policies)
  BY <1>1 DEF ReadSeq, PoliciesOf
<1> QED
  BY <1>2, <1>3 DEF ReadLimits, ReadPolicies, ReadBy

\* What is read is typed.
LEMMA ReadTypes ==
  ASSUME FieldsTyped
  PROVE  /\ \A ls \in ReadLimits : ls \in Seq(WholeLimits)
         /\ \A ps \in ReadPolicies : ps \in Seq(WholePolicies)
  BY ReadsAre, ReadType, FieldsRead DEF FieldsTyped

\* A relay writes what is read.
LEMMA RelayWrites ==
  /\ \A ls \in Seq(WholeLimits) :
       [k \in DOMAIN ls |-> Line(<<DisplayLimit(ls[k])>>)]
         = [k \in DOMAIN ls |-> LimitAgain[ls[k]]]
  /\ \A ps \in Seq(WholePolicies) :
       [k \in DOMAIN ps |-> Line(<<DisplayPolicy(ps[k])>>)]
         = [k \in DOMAIN ps |-> PolicyAgain[ps[k]]]
<1>1. ASSUME NEW ls \in Seq(WholeLimits)
      PROVE  [k \in DOMAIN ls |-> Line(<<DisplayLimit(ls[k])>>)]
               = [k \in DOMAIN ls |-> LimitAgain[ls[k]]]
  <2>1. \A k \in DOMAIN ls : ls[k] \in WholeLimits
    BY LenProperties, ElementOfSeq
  <2> QED
    BY <2>1 DEF LimitAgain
<1>2. ASSUME NEW ps \in Seq(WholePolicies)
      PROVE  [k \in DOMAIN ps |-> Line(<<DisplayPolicy(ps[k])>>)]
               = [k \in DOMAIN ps |-> PolicyAgain[ps[k]]]
  <2>1. \A k \in DOMAIN ps : ps[k] \in WholePolicies
    BY LenProperties, ElementOfSeq
  <2> QED
    BY <2>1 DEF PolicyAgain
<1> QED
  BY <1>1, <1>2

\* Written lines are lines.
LEMMA AgainTyped ==
  /\ \A ls \in Seq(WholeLimits) : [k \in DOMAIN ls |-> LimitAgain[ls[k]]] \in Seq(FieldLines)
  /\ \A ps \in Seq(WholePolicies) : [k \in DOMAIN ps |-> PolicyAgain[ps[k]]] \in Seq(FieldLines)
<1>1. ASSUME NEW ls \in Seq(WholeLimits)
      PROVE  [k \in DOMAIN ls |-> LimitAgain[ls[k]]] \in Seq(FieldLines)
  <2> DEFINE s == [k \in DOMAIN ls |-> LimitAgain[ls[k]]]
  <2>1. DOMAIN ls = 1..Len(ls) /\ Len(ls) \in Nat /\ \A k \in 1..Len(ls) : ls[k] \in WholeLimits
    BY LenProperties, ElementOfSeq
  <2>2. DOMAIN s = 1..Len(ls) /\ s = [k \in 1..Len(ls) |-> s[k]]
        /\ \A k \in 1..Len(ls) : s[k] \in FieldLines
    BY <2>1, FieldsRead DEF Writing
  <2> HIDE DEF s
  <2>3. s \in Seq(FieldLines)
    BY <2>1, <2>2, Made
  <2> QED
    BY <2>3 DEF s
<1>2. ASSUME NEW ps \in Seq(WholePolicies)
      PROVE  [k \in DOMAIN ps |-> PolicyAgain[ps[k]]] \in Seq(FieldLines)
  <2> DEFINE s == [k \in DOMAIN ps |-> PolicyAgain[ps[k]]]
  <2>1. DOMAIN ps = 1..Len(ps) /\ Len(ps) \in Nat /\ \A k \in 1..Len(ps) : ps[k] \in WholePolicies
    BY LenProperties, ElementOfSeq
  <2>2. DOMAIN s = 1..Len(ps) /\ s = [k \in 1..Len(ps) |-> s[k]]
        /\ \A k \in 1..Len(ps) : s[k] \in FieldLines
    BY <2>1, FieldsRead DEF Writing
  <2> HIDE DEF s
  <2>3. s \in Seq(FieldLines)
    BY <2>1, <2>2, Made
  <2> QED
    BY <2>3 DEF s
<1> QED
  BY <1>1, <1>2

\* What Advertise appends.
LEMMA AdvertiseAppends ==
  ASSUME NEW a \in Limiters, Advertise(a)
  PROVE  /\ policies' = Append(policies, Line(<<DisplayPolicy(AdvertisedPolicy(a))>>))
         /\ limits' = Append(limits, Line(<<DisplayLimit(AdvertisedLimit(a))>>))
         /\ retry_after' = a.retry_after
         /\ said' = [policies |-> Append(said.policies, MeantPolicy(a)),
                     limits   |-> Append(said.limits, MeantLimit(a))]
  BY DEF Advertise, AdvertisedLimit, AdvertisedPolicy

\* It holds at first.
LEMMA TypedInit == Init => FieldsTyped
  BY OptionIntro DEF Init, FieldsTyped

\* Every step keeps it: limiters write lines, others' lines are typed, and a relay writes
\* what it reads.
LEMMA TypedStep == FieldsTyped /\ [Next]_vars => FieldsTyped'
<1> SUFFICES ASSUME FieldsTyped, [Next]_vars PROVE FieldsTyped'
  OBVIOUS
<1>1. limits \in Seq(FieldLines) /\ policies \in Seq(FieldLines) /\ retry_after \in Option(Nat)
  BY DEF FieldsTyped
<1>2. ASSUME NEW a \in Limiters, Advertise(a) PROVE FieldsTyped'
  <2> DEFINE ll == Line(<<DisplayLimit(AdvertisedLimit(a))>>)
             pl == Line(<<DisplayPolicy(AdvertisedPolicy(a))>>)
  <2>1. limits' = Append(limits, ll) /\ policies' = Append(policies, pl)
    BY <1>2, AdvertiseAppends
  <2>2. ll \in FieldLines /\ pl \in FieldLines
    BY AdvertisedLimitHeard, AdvertisedPolicyHeard
  <2> HIDE DEF ll, pl
  <2>3. limits' \in Seq(FieldLines)
    BY <1>1, <2>1, <2>2, AppendFacts
  <2>4. policies' \in Seq(FieldLines)
    BY <1>1, <2>1, <2>2, AppendFacts
  <2>5. retry_after' \in Option(Nat)
    BY <1>2, AdvertiseAppends, HeadersAssumption DEF Advertised
  <2> QED
    BY <2>3, <2>4, <2>5 DEF FieldsTyped
<1>3. ASSUME NEW l \in Lines, Foreign(l) PROVE FieldsTyped'
  <2>1. l.line \in FieldLines
    BY HeadersAssumption
  <2>2. Append(limits, l.line) \in Seq(FieldLines) /\ Append(policies, l.line) \in Seq(FieldLines)
    BY <1>1, <2>1, AppendFacts
  <2> QED
    BY <1>1, <1>3, <2>2 DEF Foreign, FieldsTyped
<1>4. CASE Relay
  <2>1. PICK ps \in ReadPolicies, ls \in ReadLimits :
          /\ policies' = [k \in DOMAIN ps |-> Line(<<DisplayPolicy(ps[k])>>)]
          /\ limits' = [k \in DOMAIN ls |-> Line(<<DisplayLimit(ls[k])>>)]
          /\ retry_after' = retry_after
    BY <1>4 DEF Relay
  <2>2. ls \in Seq(WholeLimits) /\ ps \in Seq(WholePolicies)
    BY ReadTypes
  <2>3. limits' \in Seq(FieldLines)
    BY <2>1, <2>2, RelayWrites, AgainTyped
  <2>4. policies' \in Seq(FieldLines)
    BY <2>1, <2>2, RelayWrites, AgainTyped
  <2> QED
    BY <1>1, <2>1, <2>3, <2>4 DEF FieldsTyped
<1>5. CASE UNCHANGED vars
  BY <1>1, <1>5 DEF vars, FieldsTyped
<1> QED
  BY <1>2, <1>3, <1>4, <1>5 DEF Next

\* So it always holds.
LEMMA Typed == Spec => []FieldsTyped
  BY TypedInit, TypedStep, PTL DEF Spec

-----------------------------------------------------------------------------

\* Each field says what its lines were meant to say.
FieldsHeard ==
  /\ said \in [policies : Seq(Option(Seq(WholePolicies))), limits : Seq(Option(Seq(WholeLimits)))]
  /\ Heard(LimitsOf, WholeLimits, limits, said.limits)
  /\ Heard(PoliciesOf, WholePolicies, policies, said.policies)

\* It holds at first: no line, and nothing meant.
LEMMA HeardInit == Init => FieldsHeard
<1> SUFFICES ASSUME Init PROVE FieldsHeard
  OBVIOUS
<1>1. limits = << >> /\ policies = << >> /\ said = [policies |-> << >>, limits |-> << >>]
  BY DEF Init
<1>2. \A f : ReadBy(f, << >>) = {<< >>}
  <2>1. \A f : ReadSeq(f, << >>) = << >>
    BY DEF ReadSeq
  <2> QED
    BY <2>1, FlattenEmpty DEF ReadBy, FromHeaders
<1>3. Meant(<< >>) = {<< >>}
  <2>1. [k \in DOMAIN << >> |-> CHOOSE x \in << >>[k] : TRUE] = << >>
    OBVIOUS
  <2> QED
    BY <2>1, FlattenEmpty DEF Meant
<1>4. \A f, A : Heard(f, A, << >>, << >>)
  BY <1>2, <1>3 DEF Heard
<1> QED
  BY <1>1, <1>4 DEF FieldsHeard

\* Another server's line means what it says alone.
LEMMA ForeignMeans ==
  ASSUME Understood, NEW l \in Lines
  PROVE  /\ l.field = "limits" => l.means = Alone(LimitsOf, l.line)
         /\ l.field = "policies" => l.means = Alone(PoliciesOf, l.line)
<1>1. l.line \in FieldLines
  BY HeadersAssumption
<1> QED
  BY <1>1 DEF Understood, Alone, Readable, LimitsOf, PoliciesOf

\* Every step keeps it: a line more is heard as what it says alone, and a relay says
\* what was said.
LEMMA HeardStep ==
  ASSUME Understood
  PROVE  FieldsTyped /\ FieldsHeard /\ [Next]_vars => FieldsHeard'
<1> SUFFICES ASSUME FieldsTyped, FieldsHeard, [Next]_vars PROVE FieldsHeard'
  OBVIOUS
<1>1. /\ said \in [policies : Seq(Option(Seq(WholePolicies))),
                   limits   : Seq(Option(Seq(WholeLimits)))]
      /\ Heard(LimitsOf, WholeLimits, limits, said.limits)
      /\ Heard(PoliciesOf, WholePolicies, policies, said.policies)
  BY DEF FieldsHeard
<1>2. /\ Reading(LimitsOf, WholeLimits) /\ Reading(PoliciesOf, WholePolicies)
      /\ Writing(LimitAgain, LimitsOf, WholeLimits)
      /\ Writing(PolicyAgain, PoliciesOf, WholePolicies)
  BY FieldsRead
<1>3. ASSUME NEW a \in Limiters, Advertise(a) PROVE FieldsHeard'
  <2> DEFINE ll == Line(<<DisplayLimit(AdvertisedLimit(a))>>)
             pl == Line(<<DisplayPolicy(AdvertisedPolicy(a))>>)
  <2>1. /\ limits' = Append(limits, ll) /\ policies' = Append(policies, pl)
        /\ said' = [policies |-> Append(said.policies, MeantPolicy(a)),
                    limits   |-> Append(said.limits, MeantLimit(a))]
    BY <1>3, AdvertiseAppends
  <2>2. /\ ll \in FieldLines /\ MeantLimit(a) = Alone(LimitsOf, ll)
        /\ pl \in FieldLines /\ MeantPolicy(a) = Alone(PoliciesOf, pl)
    BY AdvertisedLimitHeard, AdvertisedPolicyHeard
  <2> HIDE DEF ll, pl
  <2>3. Heard(LimitsOf, WholeLimits, limits', said'.limits)
    BY <1>2, <1>1, <2>1, <2>2, HeardMore
  <2>4. Heard(PoliciesOf, WholePolicies, policies', said'.policies)
    BY <1>2, <1>1, <2>1, <2>2, HeardMore
  <2>5. said' \in [policies : Seq(Option(Seq(WholePolicies))),
                   limits   : Seq(Option(Seq(WholeLimits)))]
    BY <2>1, <2>3, <2>4 DEF Heard
  <2> QED
    BY <2>3, <2>4, <2>5 DEF FieldsHeard
<1>4. ASSUME NEW l \in Lines, Foreign(l) PROVE FieldsHeard'
  <2>1. l.line \in FieldLines /\ l.field \in {"limits", "policies"}
    BY HeadersAssumption
  <2>2. CASE l.field = "limits"
    <3>1. /\ limits' = Append(limits, l.line) /\ policies' = policies
          /\ said' = [said EXCEPT !["limits"] = Append(said.limits, l.means)]
      BY <1>4, <2>2 DEF Foreign
    <3>2. said'.limits = Append(said.limits, l.means) /\ said'.policies = said.policies
      BY <1>1, <3>1
    <3>3. Heard(LimitsOf, WholeLimits, limits', said'.limits)
      BY <1>2, <1>1, <2>1, <2>2, <3>1, <3>2, ForeignMeans, HeardMore
    <3>4. said'.limits \in Seq(Option(Seq(WholeLimits)))
      BY <3>3 DEF Heard
    <3>5. said' \in [policies : Seq(Option(Seq(WholePolicies))),
                     limits   : Seq(Option(Seq(WholeLimits)))]
      BY <1>1, <3>1, <3>2, <3>4
    <3> QED
      BY <1>1, <3>1, <3>2, <3>3, <3>5 DEF FieldsHeard
  <2>3. CASE l.field = "policies"
    <3>1. /\ policies' = Append(policies, l.line) /\ limits' = limits
          /\ said' = [said EXCEPT !["policies"] = Append(said.policies, l.means)]
      BY <1>4, <2>3 DEF Foreign
    <3>2. said'.policies = Append(said.policies, l.means) /\ said'.limits = said.limits
      BY <1>1, <3>1
    <3>3. Heard(PoliciesOf, WholePolicies, policies', said'.policies)
      BY <1>2, <1>1, <2>1, <2>3, <3>1, <3>2, ForeignMeans, HeardMore
    <3>4. said'.policies \in Seq(Option(Seq(WholePolicies)))
      BY <3>3 DEF Heard
    <3>5. said' \in [policies : Seq(Option(Seq(WholePolicies))),
                     limits   : Seq(Option(Seq(WholeLimits)))]
      BY <1>1, <3>1, <3>2, <3>4
    <3> QED
      BY <1>1, <3>1, <3>2, <3>3, <3>5 DEF FieldsHeard
  <2> QED
    BY <2>1, <2>2, <2>3
<1>5. CASE Relay
  <2>1. PICK ps \in ReadPolicies, ls \in ReadLimits :
          /\ policies' = [k \in DOMAIN ps |-> Line(<<DisplayPolicy(ps[k])>>)]
          /\ limits' = [k \in DOMAIN ls |-> Line(<<DisplayLimit(ls[k])>>)]
          /\ said' = said
    BY <1>5 DEF Relay
  <2>2. ls \in Seq(WholeLimits) /\ ps \in Seq(WholePolicies)
    BY ReadTypes
  <2>3. ls \in ReadBy(LimitsOf, limits) /\ ps \in ReadBy(PoliciesOf, policies)
    BY ReadsAre
  <2>4. /\ limits' = [k \in DOMAIN ls |-> LimitAgain[ls[k]]]
        /\ policies' = [k \in DOMAIN ps |-> PolicyAgain[ps[k]]]
    BY <2>1, <2>2, RelayWrites
  <2>5. Heard(LimitsOf, WholeLimits, limits', said.limits)
    <3>1. Heard(LimitsOf, WholeLimits, [k \in DOMAIN ls |-> LimitAgain[ls[k]]], said.limits)
      BY <1>2, <1>1, <2>3, HeardRelay
    <3> QED
      BY <2>4, <3>1
  <2>6. Heard(PoliciesOf, WholePolicies, policies', said.policies)
    <3>1. Heard(PoliciesOf, WholePolicies, [k \in DOMAIN ps |-> PolicyAgain[ps[k]]], said.policies)
      BY <1>2, <1>1, <2>3, HeardRelay
    <3> QED
      BY <2>4, <3>1
  <2> QED
    BY <1>1, <2>1, <2>5, <2>6 DEF FieldsHeard
<1>6. CASE UNCHANGED vars
  BY <1>1, <1>6 DEF vars, FieldsHeard
<1> QED
  BY <1>3, <1>4, <1>5, <1>6 DEF Next

\* FieldsHeard always holds.
LEMMA HeardAlways == ASSUME Understood PROVE Spec => []FieldsHeard
  BY Typed, HeardInit, HeardStep, PTL DEF Spec

-----------------------------------------------------------------------------
(* The theorems.                                                            *)

\* Whatever lines servers and proxies put into the fields, what from_headers reads of
\* them lies in the range that the types document.
THEOREM TypeCorrect == Spec => []TypeOK
<1>1. FieldsTyped => TypeOK
  <2> SUFFICES ASSUME FieldsTyped PROVE TypeOK
    OBVIOUS
  <2>1. ASSUME NEW read \in ReadLimits, NEW l \in ToSet(read)
        PROVE  /\ ToSet(l.name) \subseteq Printable
               /\ l.remaining \in 0..MaxInteger
               /\ \A t \in l.reset : t % Second = 0
    <3>1. read \in Seq(WholeLimits)
      BY ReadTypes
    <3>2. l \in WholeLimits
      BY <3>1, LenProperties, ElementOfSeq DEF ToSet
    <3>3. l.remaining \in Nat /\ l.remaining <= MaxInteger /\ AllPrintable(l.name)
      BY <3>2 DEF WholeLimits, SayableLimits, Limits
    <3>4. \A d \in l.reset : d % Second = 0
      BY <3>2 DEF WholeLimits
    <3>5. l.remaining \in 0..MaxInteger
      BY <3>3, MaxIntegerNat
    <3> QED
      BY <3>3, <3>4, <3>5, PrintableText
  <2>2. ASSUME NEW read \in ReadPolicies, NEW p \in ToSet(read)
        PROVE  /\ ToSet(p.name) \subseteq Printable
               /\ p.quota \in 0..MaxInteger
               /\ \A w \in p.window : w >= Second /\ w % Second = 0
    <3>1. read \in Seq(WholePolicies)
      BY ReadTypes
    <3>2. p \in WholePolicies
      BY <3>1, LenProperties, ElementOfSeq DEF ToSet
    <3>3. /\ p.quota \in Nat /\ p.quota <= MaxInteger /\ AllPrintable(p.name)
          /\ p.window \subseteq Nat /\ \A w \in p.window : w > 0 /\ w % Second = 0
      BY <3>2 DEF WholePolicies, SayablePolicies, Policies, Option
    <3>4. ASSUME NEW w \in p.window PROVE w >= Second /\ w % Second = 0
      <4> DEFINE q == w \div Second
      <4>1. w \in Nat /\ w > 0 /\ w % Second = 0
        BY <3>3
      <4>2. q \in Nat /\ q * Second = w - (w % Second) /\ (q > 0 <=> w - (w % Second) > 0)
        BY <4>1, SecondFacts
      <4> HIDE DEF q
      <4>3. q >= 1 /\ q * Second = w
        BY <4>1, <4>2
      <4>4. q * Second >= Second
        BY <4>2, <4>3, SecondFacts
      <4> QED
        BY <4>1, <4>3, <4>4
    <3>5. p.quota \in 0..MaxInteger
      BY <3>3, MaxIntegerNat
    <3> QED
      BY <3>3, <3>4, <3>5, PrintableText
  <2> QED
    BY <2>1, <2>2 DEF TypeOK
<1> QED
  BY <1>1, Typed, PTL

\* from_headers reads of RateLimit what limiters and servers said, in its order, through
\* quoting, repeated parameters and any number of relays; or nothing if one line is
\* malformed.
THEOREM LimitsHeardHolds == ASSUME Understood PROVE Spec => []LimitsHeard
<1>1. FieldsTyped /\ FieldsHeard => LimitsHeard
  BY ReadsAre DEF FieldsHeard, Heard, LimitsHeard
<1> QED
  BY <1>1, Typed, HeardAlways, PTL

\* The same of RateLimit-Policy, with its units and windows.
THEOREM PoliciesHeardHolds == ASSUME Understood PROVE Spec => []PoliciesHeard
<1>1. FieldsTyped /\ FieldsHeard => PoliciesHeard
  BY ReadsAre DEF FieldsHeard, Heard, PoliciesHeard
<1> QED
  BY <1>1, Typed, HeardAlways, PTL

\* Of naturals with a bound, one is the largest.
LEMMA Largest ==
  ASSUME NEW W \in SUBSET Nat, NEW B \in Nat, \A w \in W : w <= B, NEW a \in W
  PROVE  \E w \in W : a <= w /\ \A v \in W : v <= w
<1> DEFINE S == {n \in Nat : (\E w \in W : w >= B - n) => \E w \in W : \A v \in W : v <= w}
<1>1. 0 \in S
  <2> SUFFICES ASSUME NEW w \in W, w >= B - 0 PROVE \A v \in W : v <= w
    OBVIOUS
  <2> QED
    OBVIOUS
<1>2. ASSUME NEW n \in Nat, n \in S PROVE n + 1 \in S
  <2> SUFFICES ASSUME NEW w \in W, w >= B - (n + 1) PROVE \E x \in W : \A v \in W : v <= x
    OBVIOUS
  <2>1. CASE \E x \in W : x >= B - n
    BY <1>2, <2>1
  <2>2. CASE \A x \in W : x < B - n
    <3>1. \A v \in W : v <= w
      BY <2>2
    <3> QED
      BY <3>1
  <2> QED
    BY <2>1, <2>2
<1>3. Nat \subseteq S
  <2> HIDE DEF S
  <2> QED
    BY <1>1, <1>2, Induction
<1>4. B \in S /\ a >= B - B
  BY <1>3
<1>5. PICK w \in W : \A v \in W : v <= w
  BY <1>4
<1> QED
  BY <1>5

\* The client's wait (server_backoff) is the longest of Retry-After and of the resets of
\* exhausted limits, as they were said, with Retry-After alone if the field is malformed.
THEOREM PushbackHeardHolds == ASSUME Understood PROVE Spec => []PushbackHeard
<1>1. FieldsTyped /\ FieldsHeard => PushbackHeard
  <2> SUFFICES ASSUME FieldsTyped, FieldsHeard PROVE PushbackHeard
    OBVIOUS
  <2> DEFINE heard == UNION {ToSet(ls) : ls \in Meant(said.limits)}
             exhausted == UNION {l.reset : l \in {m \in heard : m.remaining = 0}}
             after == {s * Second : s \in retry_after}
             asked == after \cup exhausted
  <2>1. ReadLimits = Meant(said.limits) /\ \A ls \in ReadLimits : ls \in Seq(WholeLimits)
    BY ReadsAre, ReadTypes DEF FieldsHeard, Heard
  <2>2. \A l \in heard : l \in WholeLimits
    BY <2>1, LenProperties, ElementOfSeq DEF ToSet
  <2>3. ASSUME NEW w \in exhausted PROVE w \in Nat /\ w <= MaxInteger * Second
    <3>1. PICK l \in heard : w \in l.reset
      OBVIOUS
    <3>2. l \in WholeLimits
      BY <2>2
    <3>3. w \in Nat /\ w % Second = 0 /\ w \div Second <= MaxInteger
      BY <3>1, <3>2 DEF WholeLimits, SayableLimits, Limits, Option
    <3>4. PICK t \in Nat : w = t * Second /\ t = w \div Second
      BY <3>3, SecondFacts
    <3>5. t <= MaxInteger /\ w \in Nat
      BY <3>3, <3>4
    <3>6. t * Second <= MaxInteger * Second
      BY <3>5, MaxIntegerNat, SecondFacts
    <3> QED
      BY <3>4, <3>5, <3>6
  <2>4. \E B \in Nat : \A w \in asked : w \in Nat /\ w <= B
    <3>1. MaxInteger * Second \in Nat
      BY MaxIntegerNat, SecondFacts
    <3>2. CASE retry_after = {}
      BY <2>3, <3>1, <3>2
    <3>3. ASSUME NEW s \in Nat, retry_after = {s}
          PROVE  \E B \in Nat : \A w \in asked : w \in Nat /\ w <= B
      <4> DEFINE B == MaxInteger * Second + s * Second
      <4>1. s * Second \in Nat
        BY SecondFacts
      <4>2. B \in Nat
        BY <3>1, <4>1
      <4>3. after = {s * Second}
        BY <3>3
      <4>4. \A w \in asked : w \in Nat /\ w <= B
        <5> HIDE DEF after, exhausted
        <5>1. \A w \in exhausted : w <= B
          BY <2>3, <3>1, <4>1
        <5>2. s * Second <= B
          BY <3>1, <4>1
        <5> QED
          BY <2>3, <4>1, <4>3, <5>1, <5>2
      <4> QED
        BY <4>2, <4>4
    <3>4. retry_after \in Option(Nat)
      BY DEF FieldsTyped
    <3> QED
      BY <3>2, <3>3, <3>4, OptionCases
  <2>5. ClientBackoff = {w \in asked : \A v \in asked : v <= w}
    BY <2>1 DEF ClientBackoff, ServerBackoff
  <2>6. \A a \in asked : \E w \in ClientBackoff : a <= w
    <3> HIDE DEF asked
    <3>1. PICK B \in Nat : \A w \in asked : w \in Nat /\ w <= B
      BY <2>4
    <3>2. asked \in SUBSET Nat
      BY <3>1
    <3> QED
      BY <2>5, <3>1, <3>2, Largest
  <2>7. ClientBackoff \subseteq asked
    BY <2>5
  <2> QED
    BY <2>6, <2>7 DEF PushbackHeard
<1> QED
  BY <1>1, Typed, HeardAlways, PTL
=============================================================================
