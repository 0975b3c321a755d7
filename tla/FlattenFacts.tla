---------------------------- MODULE FlattenFacts ----------------------------
(***************************************************************************)
(* Facts about FlattenSeq, which the lists of arguments and of sources are *)
(* described with: its value when one more sequence is flattened, its      *)
(* type, its prefixes and its elements.  FlattenSeq is defined by          *)
(* recursion; that the recursion has a solution, and everything said of    *)
(* all lengths, goes by induction over a set of numbers (NatInduced),      *)
(* which follows from the well-foundedness of < on Nat.                    *)
(***************************************************************************)
EXTENDS Naturals, Sequences, SequencesExt, SequenceTheorems, WellFoundedInduction, TLAPS

-----------------------------------------------------------------------------
(* Induction, over sets instead of predicates.                             *)

LEMMA LeastNatural ==
  ASSUME NEW T \in SUBSET Nat, T # {}
  PROVE  \E x \in T : \A y \in T : x <= y
<1> DEFINE R == OpToRel(<, Nat)
<1>1. IsWellFoundedOn(R, Nat)
  BY NatLessThanWellFounded
<1>2. \A x, y \in Nat : x < y => <<x, y>> \in R
  BY DEF OpToRel
<1> HIDE DEF R
<1>3. PICK x \in T : \A y \in T : <<y, x>> \notin R
  BY <1>1, WFMin
<1>4. \A y \in T : y \in Nat /\ ~(y < x)
  BY <1>2, <1>3
<1> QED
  BY <1>4

LEMMA NatInduced ==
  ASSUME NEW T \in SUBSET Nat, 0 \in T, \A n \in T : n + 1 \in T
  PROVE  T = Nat
<1> SUFFICES ASSUME Nat \ T # {} PROVE FALSE
  OBVIOUS
<1>1. PICK x \in Nat \ T : \A y \in Nat \ T : x <= y
  BY LeastNatural
<1>2. x # 0 /\ x - 1 \in Nat /\ x - 1 \notin Nat \ T
  BY <1>1
<1> QED
  BY <1>2

-----------------------------------------------------------------------------
(* Sequences put together.                                                 *)

LEMMA FunctionIsSeq ==
  ASSUME NEW S, NEW n \in Nat, NEW f \in [1..n -> S]
  PROVE  f \in Seq(S) /\ Len(f) = n
<1>1. f \in Seq(S)
  BY SeqDef
<1>2. Len(f) \in Nat /\ 1..Len(f) = 1..n
  BY <1>1, LenProperties
<1> QED
  BY <1>1, <1>2

LEMMA ConcatPrefix ==
  ASSUME NEW S, NEW s \in Seq(S), NEW t \in Seq(S)
  PROVE  IsPrefix(s, s \o t)
<1>1. /\ Len(s) \in Nat /\ Len(t) \in Nat /\ s \o t \in Seq(S)
      /\ Len(s \o t) = Len(s) + Len(t)
  BY LenProperties, ConcatProperties
<1>2. SubSeq(s \o t, 1, Len(s)) = s
  <2> DEFINE u == SubSeq(s \o t, 1, Len(s))
  <2>1. /\ u \in Seq(S) /\ Len(u) = Len(s)
        /\ \A i \in 1..Len(s) : u[i] = (s \o t)[i]
    BY <1>1, SubSeqProperties
  <2>2. \A i \in 1..Len(s) : (s \o t)[i] = s[i]
    BY <1>1, ConcatProperties
  <2> HIDE DEF u
  <2>3. u = s
    BY <2>1, <2>2, SeqEqual
  <2> QED
    BY <2>3 DEF u
<1>3. SubSeq(s, 1, Len(s)) = s
  BY SubSeqFull
<1> QED
  BY <1>1, <1>2, <1>3 DEF IsPrefix

\* s begins t, as sequences over S; this implies IsPrefix(s, t).
Begins(s, t, S) == \E rest \in Seq(S) : t = s \o rest

LEMMA BeginsPrefix ==
  ASSUME NEW S, NEW s \in Seq(S), NEW t, Begins(s, t, S)
  PROVE  IsPrefix(s, t)
BY ConcatPrefix DEF Begins

LEMMA BeginsConcat ==
  ASSUME NEW S, NEW s \in Seq(S), NEW t \in Seq(S)
  PROVE  Begins(s, s \o t, S)
BY DEF Begins

LEMMA BeginsTransitive ==
  ASSUME NEW S, NEW s \in Seq(S), NEW t, NEW u, Begins(s, t, S), Begins(t, u, S)
  PROVE  Begins(s, u, S)
<1>1. PICK p \in Seq(S) : t = s \o p
  BY DEF Begins
<1>2. PICK q \in Seq(S) : u = t \o q
  BY DEF Begins
<1>3. (s \o p) \o q = s \o (p \o q) /\ p \o q \in Seq(S)
  BY ConcatAssociative, ConcatProperties
<1> QED
  BY <1>1, <1>2, <1>3 DEF Begins

LEMMA BeginsBehind ==
  ASSUME NEW S, NEW a \in Seq(S), NEW s \in Seq(S), NEW t, Begins(s, t, S)
  PROVE  Begins(a \o s, a \o t, S)
<1>1. PICK p \in Seq(S) : t = s \o p
  BY DEF Begins
<1>2. (a \o s) \o p = a \o (s \o p)
  BY ConcatAssociative
<1> QED
  BY <1>1, <1>2 DEF Begins

-----------------------------------------------------------------------------
(* The recursion behind FlattenSeq.                                        *)

\* f flattens the first n sequences of ss, step by step.
Flattens(f, ss, n) ==
  /\ DOMAIN f = 1..n
  /\ \A i \in 1..n : f[i] = IF i = 1 THEN ss[i] ELSE f[i - 1] \o ss[i]

\* What the first n sequences are decides what the first n values are.
LEMMA FlattenAgree ==
  ASSUME NEW f, NEW g, NEW ss, NEW tt, NEW n \in Nat, NEW m \in Nat, n <= m,
         Flattens(f, ss, n), Flattens(g, tt, m), \A i \in 1..n : ss[i] = tt[i]
  PROVE  \A i \in 1..n : f[i] = g[i]
<1> DEFINE T == {i \in Nat : i \in 1..n => f[i] = g[i]}
<1>1. 0 \in T
  OBVIOUS
<1>2. ASSUME NEW i \in T PROVE i + 1 \in T
  <2> SUFFICES ASSUME i + 1 \in 1..n PROVE f[i + 1] = g[i + 1]
    OBVIOUS
  <2>1. i \in Nat /\ i + 1 \in 1..m /\ ss[i + 1] = tt[i + 1]
    OBVIOUS
  <2>2. CASE i = 0
    <3>1. i + 1 = 1 /\ 1 \in 1..n /\ 1 \in 1..m
      BY <2>1, <2>2
    <3>2. f[1] = ss[1] /\ g[1] = tt[1]
      BY <3>1 DEF Flattens
    <3> QED
      BY <2>1, <3>1, <3>2
  <2>3. CASE i # 0
    <3>1. i \in 1..n /\ i + 1 # 1 /\ (i + 1) - 1 = i
      BY <2>1, <2>3
    <3>2. f[i] = g[i]
      BY <3>1
    <3>3. f[i + 1] = f[i] \o ss[i + 1] /\ g[i + 1] = g[i] \o tt[i + 1]
      BY <2>1, <3>1 DEF Flattens
    <3> QED
      BY <2>1, <3>2, <3>3
  <2> QED
    BY <2>2, <2>3
<1> HIDE DEF T
<1>3. T = Nat
  <2>1. T \in SUBSET Nat
    BY DEF T
  <2> QED
    BY <1>1, <1>2, <2>1, NatInduced
<1> QED
  BY <1>3 DEF T

LEMMA FlattenSame ==
  ASSUME NEW f, NEW g, NEW ss, NEW n \in Nat \ {0},
         Flattens(f, ss, n + 1), Flattens(g, ss, n)
  PROVE  g[n] = f[n]
<1>1. n <= n + 1 /\ n + 1 \in Nat /\ n \in Nat /\ n \in 1..n
  OBVIOUS
<1>2. \A i \in 1..n : g[i] = f[i]
  BY <1>1, FlattenAgree
<1> QED
  BY <1>1, <1>2

LEMMA FlattenExists ==
  ASSUME NEW S, NEW ss \in Seq(Seq(S))
  PROVE  \A n \in Nat : n <= Len(ss) => \E f \in [1..n -> Seq(S)] : Flattens(f, ss, n)
<1> DEFINE T == {n \in Nat : n <= Len(ss) => \E f \in [1..n -> Seq(S)] : Flattens(f, ss, n)}
<1>1. 0 \in T
  <2>1. \A f : f \in [1..0 -> Seq(S)] => Flattens(f, ss, 0)
    BY DEF Flattens
  <2>2. [i \in 1..0 |-> <<>>] \in [1..0 -> Seq(S)]
    OBVIOUS
  <2> QED
    BY <2>1, <2>2
<1>2. ASSUME NEW n \in T PROVE n + 1 \in T
  <2> SUFFICES ASSUME n + 1 <= Len(ss)
               PROVE  \E f \in [1..(n + 1) -> Seq(S)] : Flattens(f, ss, n + 1)
    OBVIOUS
  <2>1. n \in Nat /\ Len(ss) \in Nat /\ n <= Len(ss)
    OBVIOUS
  <2>2. PICK f \in [1..n -> Seq(S)] : Flattens(f, ss, n)
    BY <2>1
  <2>3. ss[n + 1] \in Seq(S)
    BY <2>1
  <2> DEFINE new == IF n + 1 = 1 THEN ss[n + 1] ELSE f[n] \o ss[n + 1]
             g == [i \in 1..(n + 1) |-> IF i = n + 1 THEN new ELSE f[i]]
  <2>4. new \in Seq(S)
    BY <2>1, <2>3
  <2> HIDE DEF new
  <2>5. g \in [1..(n + 1) -> Seq(S)]
    BY <2>1, <2>4
  <2>6. g[n + 1] = new /\ \A i \in 1..n : g[i] = f[i]
    BY <2>1
  <2> HIDE DEF g
  <2>7. ASSUME NEW i \in 1..(n + 1)
        PROVE  g[i] = IF i = 1 THEN ss[i] ELSE g[i - 1] \o ss[i]
    <3>1. CASE i = n + 1
      <4>1. CASE n = 0
        BY <2>6, <3>1, <4>1 DEF new
      <4>2. CASE n # 0
        <5>1. n \in 1..n /\ i - 1 = n /\ i # 1
          BY <2>1, <3>1, <4>2
        <5>2. g[i - 1] = f[n]
          BY <2>6, <5>1
        <5> QED
          BY <2>6, <3>1, <5>1, <5>2 DEF new
      <4> QED
        BY <4>1, <4>2
    <3>2. CASE i # n + 1
      <4>1. i \in 1..n /\ (i # 1 => i - 1 \in 1..n)
        BY <2>1, <3>2
      <4> QED
        BY <2>2, <2>6, <4>1 DEF Flattens
    <3> QED
      BY <3>1, <3>2
  <2>8. Flattens(g, ss, n + 1)
    BY <2>5, <2>7 DEF Flattens
  <2> QED
    BY <2>5, <2>8
<1> HIDE DEF T
<1>3. T = Nat
  <2>1. T \in SUBSET Nat
    BY DEF T
  <2> QED
    BY <1>1, <1>2, <2>1, NatInduced
<1> QED
  BY <1>3 DEF T

LEMMA FlattenSeqIs ==
  ASSUME NEW S, NEW ss \in Seq(Seq(S)), ss # <<>>
  PROVE  \E f \in [1..Len(ss) -> Seq(S)] : Flattens(f, ss, Len(ss)) /\ FlattenSeq(ss) = f[Len(ss)]
<1> DEFINE n == Len(ss)
           Solves(f) == f = [i \in 1..n |-> IF i = 1 THEN ss[i] ELSE f[i - 1] \o ss[i]]
           g == CHOOSE f : Solves(f)
<1>1. n \in Nat /\ n # 0 /\ n \in 1..n
  BY EmptySeq, LenProperties
<1>2. FlattenSeq(ss) = g[n]
  BY <1>1 DEF FlattenSeq
<1>3. PICK f \in [1..n -> Seq(S)] : Flattens(f, ss, n)
  <2>1. \A k \in Nat : k <= Len(ss) => \E f \in [1..k -> Seq(S)] : Flattens(f, ss, k)
    BY FlattenExists
  <2> QED
    BY <1>1, <2>1
<1>4. Solves(f)
  BY <1>3 DEF Flattens
<1>5. Solves(g)
  BY <1>4
<1> HIDE DEF g
<1>6. Flattens(g, ss, n)
  BY <1>5 DEF Flattens
<1>7. g[n] = f[n]
  BY <1>1, <1>3, <1>6, FlattenAgree
<1> QED
  BY <1>2, <1>3, <1>7

-----------------------------------------------------------------------------
(* The flattening of a part of a list, as the part grows.                  *)

FlattenTo(ss, n) == FlattenSeq(SubSeq(ss, 1, n))

LEMMA FlattenToIs ==
  ASSUME NEW S, NEW ss \in Seq(Seq(S)), NEW n \in 1..Len(ss)
  PROVE  \E f \in [1..n -> Seq(S)] : Flattens(f, ss, n) /\ FlattenTo(ss, n) = f[n]
<1> DEFINE tt == SubSeq(ss, 1, n)
<1>1. /\ tt \in Seq(Seq(S)) /\ Len(tt) = n /\ n \in Nat
      /\ \A i \in 1..n : tt[i] = ss[i]
  BY SubSeqProperties, LenProperties
<1> HIDE DEF tt
<1>2. tt # <<>>
  BY <1>1, EmptySeq
<1>3. PICK f \in [1..n -> Seq(S)] : Flattens(f, tt, n) /\ FlattenSeq(tt) = f[n]
  BY <1>1, <1>2, FlattenSeqIs
<1>4. Flattens(f, ss, n)
  BY <1>1, <1>3 DEF Flattens
<1> QED
  BY <1>3, <1>4 DEF FlattenTo, tt

LEMMA FlattenNone == ASSUME NEW ss PROVE FlattenTo(ss, 0) = <<>>
<1>1. SubSeq(ss, 1, 0) = <<>>
  BY SubSeqEmpty
<1>2. Len(<<>>) = 0
  OBVIOUS
<1> QED
  BY <1>1, <1>2 DEF FlattenTo, FlattenSeq

LEMMA FlattenAll ==
  ASSUME NEW S, NEW ss \in Seq(Seq(S))
  PROVE  FlattenTo(ss, Len(ss)) = FlattenSeq(ss)
BY SubSeqFull DEF FlattenTo

\* Nothing flattened, and one sequence flattened.
LEMMA FlattenEmpty == FlattenSeq(<<>>) = <<>>
BY EmptySeq, FlattenNone, FlattenAll

\* One more sequence goes behind what was flattened before.
LEMMA FlattenNext ==
  ASSUME NEW S, NEW ss \in Seq(Seq(S)), NEW n \in Nat, n + 1 <= Len(ss)
  PROVE  /\ FlattenTo(ss, n) \in Seq(S)
         /\ FlattenTo(ss, n + 1) = FlattenTo(ss, n) \o ss[n + 1]
<1>1. n + 1 \in 1..Len(ss) /\ Len(ss) \in Nat /\ ss[n + 1] \in Seq(S)
  BY LenProperties, ElementOfSeq
<1>2. PICK f \in [1..(n + 1) -> Seq(S)] :
        Flattens(f, ss, n + 1) /\ FlattenTo(ss, n + 1) = f[n + 1]
  BY <1>1, FlattenToIs
<1>3. CASE n = 0
  <2>1. FlattenTo(ss, n) = <<>>
    BY <1>3, FlattenNone
  <2>2. n + 1 = 1 /\ 1 \in 1..(n + 1)
    BY <1>3
  <2>3. f[1] = ss[1]
    BY <1>2, <2>2 DEF Flattens
  <2> QED
    BY <1>1, <1>2, <2>1, <2>2, <2>3, ConcatEmptySeq, EmptySeq
<1>4. CASE n # 0
  <2>1. n \in 1..Len(ss) /\ n \in 1..n /\ n + 1 \in 1..(n + 1) /\ (n + 1) - 1 = n /\ n + 1 # 1
    BY <1>1, <1>4
  <2>2. PICK g \in [1..n -> Seq(S)] : Flattens(g, ss, n) /\ FlattenTo(ss, n) = g[n]
    BY <2>1, FlattenToIs
  <2>3. g[n] = f[n]
    BY <1>2, <2>1, <2>2, FlattenSame
  <2>4. f[n + 1] = f[n] \o ss[n + 1]
    BY <1>2, <2>1 DEF Flattens
  <2> QED
    BY <1>2, <2>1, <2>2, <2>3, <2>4
<1> QED
  BY <1>3, <1>4

LEMMA FlattenOne ==
  ASSUME NEW S, NEW ss \in Seq(Seq(S)), Len(ss) = 1
  PROVE  FlattenSeq(ss) = ss[1]
<1>1. 0 \in Nat /\ 0 + 1 <= Len(ss) /\ 0 + 1 = 1
  OBVIOUS
<1>2. FlattenTo(ss, 1) = FlattenTo(ss, 0) \o ss[1]
  BY <1>1, FlattenNext
<1>3. FlattenTo(ss, 1) = FlattenSeq(ss)
  BY FlattenAll
<1>4. FlattenTo(ss, 0) = <<>>
  BY FlattenNone
<1>5. ss[1] \in Seq(S)
  BY ElementOfSeq
<1> QED
  BY <1>2, <1>3, <1>4, <1>5, ConcatEmptySeq

LEMMA FlattenTyped ==
  ASSUME NEW S, NEW ss \in Seq(Seq(S)), NEW n \in 0..Len(ss)
  PROVE  FlattenTo(ss, n) \in Seq(S)
<1>1. CASE n = 0
  BY <1>1, FlattenNone, EmptySeq
<1>2. CASE n # 0
  <2>1. n \in 1..Len(ss)
    BY <1>2, LenProperties
  <2> QED
    BY <2>1, FlattenToIs
<1> QED
  BY <1>1, <1>2

LEMMA FlattenSeqTyped ==
  ASSUME NEW S, NEW ss \in Seq(Seq(S))
  PROVE  FlattenSeq(ss) \in Seq(S)
<1>1. Len(ss) \in 0..Len(ss)
  BY LenProperties
<1> QED
  BY <1>1, FlattenTyped, FlattenAll

\* What is flattened so far begins the whole.
LEMMA FlattenPrefix ==
  ASSUME NEW S, NEW ss \in Seq(Seq(S)), NEW n \in 0..Len(ss)
  PROVE  Begins(FlattenTo(ss, n), FlattenSeq(ss), S)
<1> DEFINE Far(k) == Begins(FlattenTo(ss, n), FlattenTo(ss, k), S)
           T == {k \in Nat : n + k <= Len(ss) => Far(n + k)}
<1>1. n \in Nat /\ n <= Len(ss) /\ Len(ss) \in Nat /\ FlattenTo(ss, n) \in Seq(S)
  BY FlattenTyped, LenProperties
<1>2. Far(n)
  BY <1>1, EmptySeq, ConcatEmptySeq DEF Begins
<1>3. ASSUME NEW m \in Nat, m + 1 <= Len(ss), Far(m) PROVE Far(m + 1)
  <2>1. m + 1 \in 1..Len(ss)
    BY <1>1, <1>3
  <2>2. /\ FlattenTo(ss, m) \in Seq(S) /\ ss[m + 1] \in Seq(S)
        /\ FlattenTo(ss, m + 1) = FlattenTo(ss, m) \o ss[m + 1]
    BY <1>3, <2>1, FlattenNext, ElementOfSeq
  <2>3. Begins(FlattenTo(ss, m), FlattenTo(ss, m + 1), S)
    BY <2>2 DEF Begins
  <2> QED
    BY <1>1, <1>3, <2>3, BeginsTransitive
<1> HIDE DEF Far
<1>4. 0 \in T
  BY <1>1, <1>2
<1>5. ASSUME NEW k \in T PROVE k + 1 \in T
  <2>1. k \in Nat /\ n + k \in Nat /\ n + (k + 1) = (n + k) + 1
    BY <1>1
  <2>2. n + (k + 1) <= Len(ss) => Far((n + k) + 1)
    BY <1>1, <1>3, <2>1
  <2> QED
    BY <2>1, <2>2
<1>6. T = Nat
  <2> HIDE DEF T
  <2>1. T \in SUBSET Nat
    BY DEF T
  <2> QED
    BY <1>4, <1>5, <2>1, NatInduced
<1>7. Len(ss) - n \in Nat /\ n + (Len(ss) - n) = Len(ss)
  BY <1>1
<1>8. Far(Len(ss))
  <2>1. Len(ss) - n \in T
    BY <1>6, <1>7
  <2> QED
    BY <1>1, <1>7, <2>1
<1> QED
  BY <1>8, FlattenAll DEF Far

\* The elements of the whole are those of its parts.

LEMMA ConcatContains ==
  ASSUME NEW S, NEW s \in Seq(S), NEW t \in Seq(S), NEW x
  PROVE  Contains(s \o t, x) <=> Contains(s, x) \/ Contains(t, x)
<1>0. \A u \in Seq(S) : Contains(u, x) <=> \E k \in DOMAIN u : u[k] = x
  BY LenProperties DEF Contains
<1>1. /\ Len(s) \in Nat /\ Len(t) \in Nat
      /\ DOMAIN s = 1..Len(s) /\ DOMAIN t = 1..Len(t)
      /\ DOMAIN (s \o t) = 1..(Len(s) + Len(t))
  BY LenProperties, ConcatProperties
<1>2. \A i \in 1..(Len(s) + Len(t)) :
        (s \o t)[i] = IF i <= Len(s) THEN s[i] ELSE t[i - Len(s)]
  BY ConcatProperties
<1>3. ASSUME NEW k \in DOMAIN (s \o t), (s \o t)[k] = x 
      PROVE  Contains(s, x) \/ Contains(t, x)
  <2>1. k \in 1..Len(s) \/ k - Len(s) \in 1..Len(t)
    BY <1>1
  <2> QED
    BY <1>0, <1>1, <1>2, <1>3, <2>1
<1>4. ASSUME NEW k \in DOMAIN s, s[k] = x PROVE Contains(s \o t, x)
  <2>1. k \in DOMAIN (s \o t) /\ (s \o t)[k] = x
    BY <1>1, <1>2, <1>4
  <2> QED
    BY <1>0, <2>1, ConcatProperties
<1>5. ASSUME NEW k \in DOMAIN t, t[k] = x PROVE Contains(s \o t, x)
  <2>1. /\ k + Len(s) \in DOMAIN (s \o t) /\ ~(k + Len(s) <= Len(s))
        /\ (k + Len(s)) - Len(s) = k
    BY <1>1
  <2>2. (s \o t)[k + Len(s)] = x
    BY <1>1, <1>2, <1>5, <2>1
  <2> QED
    BY <1>0, <2>1, <2>2, ConcatProperties
<1> QED
  <2>1. s \o t \in Seq(S)
    BY ConcatProperties
  <2> QED
    BY <1>0, <1>3, <1>4, <1>5, <2>1

LEMMA FlattenContains ==
  ASSUME NEW S, NEW ss \in Seq(Seq(S)), NEW x
  PROVE  Contains(FlattenSeq(ss), x) <=> \E i \in DOMAIN ss : Contains(ss[i], x)
<1> DEFINE T == {n \in Nat : n <= Len(ss) =>
                   (Contains(FlattenTo(ss, n), x) <=> \E i \in 1..n : Contains(ss[i], x))}
<1>1. Len(ss) \in Nat /\ DOMAIN ss = 1..Len(ss)
  BY LenProperties
<1>2. 0 \in T
  <2>1. FlattenTo(ss, 0) = <<>> /\ DOMAIN <<>> = {}
    BY FlattenNone
  <2>2. ~Contains(FlattenTo(ss, 0), x)
    BY <2>1 DEF Contains
  <2> QED
    BY <2>2
<1>3. ASSUME NEW n \in T PROVE n + 1 \in T
  <2> SUFFICES ASSUME n + 1 <= Len(ss)
               PROVE  Contains(FlattenTo(ss, n + 1), x) <=> \E i \in 1..(n + 1) : Contains(ss[i], x)
    OBVIOUS
  <2>1. n \in Nat /\ n <= Len(ss) /\ n + 1 \in 1..Len(ss)
    BY <1>1
  <2>2. /\ FlattenTo(ss, n) \in Seq(S) /\ ss[n + 1] \in Seq(S)
        /\ FlattenTo(ss, n + 1) = FlattenTo(ss, n) \o ss[n + 1]
    BY <2>1, FlattenNext, ElementOfSeq
  <2>3. Contains(FlattenTo(ss, n + 1), x) <=> Contains(FlattenTo(ss, n), x) \/ Contains(ss[n + 1], x)
    <3> DEFINE a == FlattenTo(ss, n)
               c == ss[n + 1]
    <3>1. a \in Seq(S) /\ c \in Seq(S)
      BY <2>2
    <3> HIDE DEF a, c
    <3>2. Contains(a \o c, x) <=> Contains(a, x) \/ Contains(c, x)
      BY <3>1, ConcatContains
    <3> QED
      BY <2>2, <3>2 DEF a, c
  <2>4. Contains(FlattenTo(ss, n), x) <=> \E i \in 1..n : Contains(ss[i], x)
    BY <2>1
  <2>5. \A i : i \in 1..(n + 1) <=> i \in 1..n \/ i = n + 1
    BY <2>1
  <2> QED
    BY <2>3, <2>4, <2>5
<1>4. T = Nat
  <2> HIDE DEF T
  <2>1. T \in SUBSET Nat
    BY DEF T
  <2> QED
    BY <1>2, <1>3, <2>1, NatInduced
<1>5. Contains(FlattenTo(ss, Len(ss)), x) <=> \E i \in 1..Len(ss) : Contains(ss[i], x)
  BY <1>1, <1>4
<1> QED
  BY <1>1, <1>5, FlattenAll

=============================================================================
