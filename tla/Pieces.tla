------------------------------- MODULE Pieces -------------------------------
(***************************************************************************)
(* What the proofs about queues need of numbers and of sequences that are  *)
(* stored in pieces: a queue of chunks is one sequence of bytes, and what  *)
(* the code does with chunks is seen as what happens to that sequence.     *)
(***************************************************************************)
EXTENDS Integers, SequencesExt, SequenceTheorems, FiniteSetTheorems, WellFoundedInduction, TLAPS

-----------------------------------------------------------------------------
(* Induction, for a set: the least number that is not in it has no         *)
(* predecessor.                                                            *)

\* A set of numbers that is not empty has a least one.
LEMMA Least ==
  ASSUME NEW S, S \subseteq Nat, S # {}
  PROVE  \E x \in S : \A y \in S : x <= y
<1> DEFINE R == OpToRel(<, Nat)
<1>1. IsWellFoundedOn(R, Nat)
  BY NatLessThanWellFounded, Zenon
<1>2. \A x, y \in Nat : x < y => <<x, y>> \in R
  BY Zenon DEF OpToRel
<1> HIDE DEF R
<1>3. PICK x \in S : \A y \in S : ~(<<y, x>> \in R)
  BY <1>1, WFMin
<1>4. \A y \in S : ~(y < x)
  BY <1>2, <1>3
<1> QED
  BY <1>4

\* Induction.
LEMMA SetInduction ==
  ASSUME NEW T, 0 \in T, \A n \in Nat : n \in T => n + 1 \in T
  PROVE  \A n \in Nat : n \in T
<1>1. SUFFICES ASSUME Nat \ T # {}
               PROVE  FALSE
  OBVIOUS
<1>2. PICK x \in Nat \ T : \A y \in Nat \ T : x <= y
  BY <1>1, Least
<1>3. x # 0 /\ x - 1 \in Nat /\ ~(x <= x - 1) /\ (x - 1) + 1 = x
  BY <1>2
<1>4. x - 1 \in T
  BY <1>2, <1>3
<1> QED
  BY <1>2, <1>3, <1>4

-----------------------------------------------------------------------------
(* A sequence of pieces and the sequence they make.                        *)

\* Concatenation by another name: the provers look into \o too eagerly.
Cat(x, y) == x \o y

\* What the proofs use of it.
LEMMA CatFacts ==
  ASSUME NEW S, NEW x \in Seq(S), NEW y \in Seq(S)
  PROVE  /\ Cat(x, y) \in Seq(S)
         /\ Len(x) \in Nat /\ Len(y) \in Nat /\ Len(Cat(x, y)) = Len(x) + Len(y)
         /\ \A i \in 1..Len(x) : Cat(x, y)[i] = x[i]
         /\ \A i \in 1..Len(y) : Cat(x, y)[Len(x) + i] = y[i]
         /\ Cat(<<>>, x) = x /\ Cat(x, <<>>) = x
<1>1. Len(x) \in Nat /\ Len(y) \in Nat
  BY LenProperties
<1>2. /\ x \o y \in Seq(S)
      /\ Len(x \o y) = Len(x) + Len(y)
      /\ \A i \in 1..Len(x) + Len(y) :
           (x \o y)[i] = IF i <= Len(x) THEN x[i] ELSE y[i - Len(x)]
  BY ConcatProperties
<1>3. <<>> \o x = x /\ x \o <<>> = x
  BY ConcatEmptySeq
<1> HIDE DEF Cat
<1> DEFINE c == Cat(x, y)
<1>4. c \in Seq(S) /\ Len(c) = Len(x) + Len(y)
      /\ \A i \in 1..Len(x) + Len(y) : c[i] = IF i <= Len(x) THEN x[i] ELSE y[i - Len(x)]
  BY <1>2, Zenon DEF Cat
<1> HIDE DEF c
<1>5. ASSUME NEW i \in 1..Len(y)
      PROVE  c[Len(x) + i] = y[i]
  <2>1. Len(x) + i \in 1..Len(x) + Len(y) /\ ~(Len(x) + i <= Len(x)) /\ (Len(x) + i) - Len(x) = i
    BY <1>1
  <2> QED
    BY <1>4, <2>1
<1>6. \A i \in 1..Len(x) : c[i] = x[i]
  BY <1>1, <1>4
<1>7. Cat(<<>>, x) = x /\ Cat(x, <<>>) = x
  BY <1>3, Zenon DEF Cat
<1> QED
  BY <1>1, <1>4, <1>5, <1>6, <1>7 DEF c

\* It is associative.
LEMMA CatAssociative ==
  ASSUME NEW S, NEW x \in Seq(S), NEW y \in Seq(S), NEW z \in Seq(S)
  PROVE  Cat(Cat(x, y), z) = Cat(x, Cat(y, z))
BY ConcatAssociative DEF Cat

\* What the definition computes: the pieces so far.
LEMMA FlatFunction ==
  ASSUME NEW S, NEW s \in Seq(Seq(S)), s # <<>>
  PROVE  \E f : /\ f[1] = s[1]
                /\ \A i \in 2..Len(s) : f[i] = f[i - 1] \o s[i]
                /\ FlattenSeq(s) = f[Len(s)]
<1> DEFINE N == Len(s)
           step(f, i) == IF i = 1 THEN s[i] ELSE f[i - 1] \o s[i]
           Is(f, n) == f = [i \in 1..n |-> step(f, i)]
<1>1. N \in Nat /\ N # 0
  BY EmptySeq
<1>2. FlattenSeq(s) = (CHOOSE f : Is(f, N))[N]
  BY <1>1 DEF FlattenSeq
<1>3. \A f, g, i : (i # 1 => f[i - 1] = g[i - 1]) => step(f, i) = step(g, i)
  OBVIOUS
<1>4. \A f : step(f, 1) = s[1]
  OBVIOUS
<1>5. \A f, i : i # 1 => step(f, i) = f[i - 1] \o s[i]
  BY Zenon
<1> HIDE DEF step
<1>6. \E f : Is(f, N)
  <2> DEFINE T == {n \in Nat : \E f : Is(f, n)}
  <2>1. 0 \in T
    <3>1. Is([i \in 1..0 |-> s], 0)
      OBVIOUS
    <3> QED
      BY <3>1
  <2>2. ASSUME NEW n \in Nat, n \in T
        PROVE  n + 1 \in T
    <3>1. PICK a : Is(a, n)
      BY <2>2
    <3> DEFINE b == [i \in 1..n + 1 |-> IF i = n + 1 THEN step(a, n + 1) ELSE a[i]]
    <3>2. \A i \in 1..n : a[i] = step(a, i)
      BY <3>1
    <3>3. (\A i \in 1..n : b[i] = a[i]) /\ b[n + 1] = step(a, n + 1)
      OBVIOUS
    <3>4. b = [i \in 1..n + 1 |-> b[i]]
      OBVIOUS
    <3> HIDE DEF b
    <3>5. ASSUME NEW i \in 1..n + 1
          PROVE  b[i] = step(b, i)
      <4>1. i # 1 => b[i - 1] = a[i - 1]
        BY <3>3
      <4>2. step(b, i) = step(a, i)
        BY <1>3, <4>1
      <4>3. CASE i = n + 1
        BY <3>3, <4>2, <4>3
      <4>4. CASE i \in 1..n
        BY <3>2, <3>3, <4>2, <4>4
      <4> QED
        BY <4>3, <4>4
    <3>6. Is(b, n + 1)
      BY <3>4, <3>5
    <3> QED
      BY <3>6
  <2> HIDE DEF T
  <2>3. \A n \in Nat : n \in T
    BY <2>1, <2>2, SetInduction
  <2> QED
    BY <1>1, <2>3 DEF T
<1>7. PICK f : Is(f, N) /\ FlattenSeq(s) = f[N]
  BY <1>2, <1>6
<1>8. \A i \in 1..N : f[i] = step(f, i)
  BY <1>7
<1>9. f[1] = s[1]
  BY <1>1, <1>4, <1>8
<1>10. ASSUME NEW i \in 2..N
       PROVE  f[i] = f[i - 1] \o s[i]
  <2>1. i \in 1..N /\ i # 1
    BY <1>1
  <2> QED
    BY <1>5, <1>8, <2>1, Zenon
<1> QED
  BY <1>7, <1>9, <1>10

\* A piece more.
LEMMA FlatAppend ==
  ASSUME NEW S, NEW s \in Seq(Seq(S)), NEW e \in Seq(S)
  PROVE  /\ FlattenSeq(s) \in Seq(S)
         /\ FlattenSeq(Append(s, e)) = FlattenSeq(s) \o e
<1> DEFINE t == Append(s, e)
           N == Len(s)
<1>1. /\ t \in Seq(Seq(S)) /\ t # <<>> /\ Len(t) = N + 1 /\ N \in Nat
      /\ \A i \in 1..N : t[i] = s[i] /\ s[i] \in Seq(S)
      /\ t[N + 1] = e
  BY AppendProperties, ElementOfSeq, LenProperties
<1> HIDE DEF t
<1>2. PICK g : g[1] = t[1] /\ (\A i \in 2..N + 1 : g[i] = g[i - 1] \o t[i])
               /\ FlattenSeq(t) = g[N + 1]
  BY <1>1, FlatFunction
<1>3. CASE s = <<>>
  <2>1. FlattenSeq(s) = <<>>
    BY <1>3 DEF FlattenSeq
  <2>2. FlattenSeq(t) = e
    BY <1>1, <1>2, <1>3
  <2>3. <<>> \in Seq(S) /\ <<>> \o e = e
    BY EmptySeq, ConcatEmptySeq
  <2> QED
    BY <2>1, <2>2, <2>3 DEF t
<1>4. CASE s # <<>>
  <2>1. PICK f : f[1] = s[1] /\ (\A i \in 2..N : f[i] = f[i - 1] \o s[i])
                 /\ FlattenSeq(s) = f[N]
    BY <1>4, FlatFunction
  <2>2. N # 0
    BY <1>4, EmptySeq
  <2> DEFINE T == {n \in Nat : n + 1 <= N => f[n + 1] = g[n + 1] /\ f[n + 1] \in Seq(S)}
  <2>3. 0 \in T
    BY <1>1, <1>2, <2>1, <2>2
  <2>4. ASSUME NEW n \in Nat, n \in T
        PROVE  n + 1 \in T
    <3> SUFFICES ASSUME (n + 1) + 1 <= N
                 PROVE  f[(n + 1) + 1] = g[(n + 1) + 1] /\ f[(n + 1) + 1] \in Seq(S)
      OBVIOUS
    <3>1. f[n + 1] = g[n + 1] /\ f[n + 1] \in Seq(S)
      BY <1>1, <2>4
    <3>2. (n + 1) + 1 \in 2..N /\ (n + 1) + 1 \in 2..N + 1 /\ (n + 1) + 1 \in 1..N
          /\ ((n + 1) + 1) - 1 = n + 1
      BY <1>1
    <3>3. f[(n + 1) + 1] = f[n + 1] \o s[(n + 1) + 1]
      BY <2>1, <3>2
    <3>4. g[(n + 1) + 1] = g[n + 1] \o t[(n + 1) + 1]
      BY <1>2, <3>2
    <3>5. f[n + 1] \o s[(n + 1) + 1] \in Seq(S)
      BY <1>1, <3>1, <3>2, ConcatProperties
    <3> QED
      BY <1>1, <3>1, <3>2, <3>3, <3>4, <3>5
  <2> HIDE DEF T
  <2>5. N - 1 \in T
    <3>1. \A n \in Nat : n \in T
      BY <2>3, <2>4, SetInduction
    <3> QED
      BY <1>1, <2>2, <3>1
  <2>6. f[N] = g[N] /\ f[N] \in Seq(S)
    BY <1>1, <2>2, <2>5 DEF T
  <2>7. g[N + 1] = g[N] \o e
    <3>1. N + 1 \in 2..N + 1 /\ (N + 1) - 1 = N
      BY <1>1, <2>2
    <3> QED
      BY <1>1, <1>2, <3>1
  <2> QED
    BY <1>2, <2>1, <2>6, <2>7 DEF t
<1> QED
  BY <1>3, <1>4

\* No pieces.
LEMMA FlatEmpty == FlattenSeq(<<>>) = <<>>
BY DEF FlattenSeq

\* The first n + 1 elements.
LEMMA TakeNext ==
  ASSUME NEW S, NEW s \in Seq(S), NEW n \in Nat, n < Len(s)
  PROVE  /\ SubSeq(s, 1, n) \in Seq(S) /\ Len(SubSeq(s, 1, n)) = n
         /\ SubSeq(s, 1, n + 1) = Append(SubSeq(s, 1, n), s[n + 1])
         /\ SubSeq(s, 1, 0) = <<>>
<1>1. Len(s) \in Nat /\ \A i \in 1..Len(s) : s[i] \in S
  BY LenProperties, ElementOfSeq
<1>2. \A i \in 1..n : s[i] \in S
  BY <1>1
<1>3. \A i \in 1..n + 1 : s[i] \in S
  BY <1>1
<1>4. SubSeq(s, 1, n) \in Seq(S) /\ Len(SubSeq(s, 1, n)) = n
      /\ \A i \in 1..n : SubSeq(s, 1, n)[i] = s[i]
  BY <1>2, SubSeqProperties
<1>5. SubSeq(s, 1, n + 1) \in Seq(S) /\ Len(SubSeq(s, 1, n + 1)) = n + 1
      /\ \A i \in 1..n + 1 : SubSeq(s, 1, n + 1)[i] = s[i]
  BY <1>3, SubSeqProperties
<1> DEFINE u == SubSeq(s, 1, n)
           v == SubSeq(s, 1, n + 1)
<1> HIDE DEF u, v
<1>6. s[n + 1] \in S
  BY <1>1
<1>7. Append(u, s[n + 1]) \in Seq(S) /\ Len(Append(u, s[n + 1])) = n + 1
      /\ (\A i \in 1..n : Append(u, s[n + 1])[i] = s[i]) /\ Append(u, s[n + 1])[n + 1] = s[n + 1]
  BY <1>4, <1>6, AppendProperties DEF u
<1>8. \A i \in 1..n + 1 : v[i] = Append(u, s[n + 1])[i]
  BY <1>5, <1>7 DEF v
<1>9. v = Append(u, s[n + 1])
  BY <1>5, <1>7, <1>8, SeqEqual DEF v
<1>10. SubSeq(s, 1, 0) = <<>>
  BY SubSeqEmpty
<1> QED
  BY <1>4, <1>9, <1>10 DEF u, v

\* ... as a statement about every three sequences.
LEMMA ThreePieces ==
  \A S : \A x, y, z \in Seq(S) : (x \o y) \o z = x \o (y \o z)
BY ConcatAssociative

\* Two sequences of pieces, one after the other.
LEMMA FlatConcat ==
  ASSUME NEW S, NEW s \in Seq(Seq(S)), NEW t \in Seq(Seq(S))
  PROVE  FlattenSeq(s \o t) = FlattenSeq(s) \o FlattenSeq(t)
<1> DEFINE pre(n) == SubSeq(t, 1, n)
           T == {n \in Nat : n <= Len(t) => FlattenSeq(s \o pre(n)) = FlattenSeq(s) \o FlattenSeq(pre(n))}
<1>1. 0 \in T
  <2>1. pre(0) = <<>>
    BY SubSeqEmpty
  <2>2. s \o <<>> = s /\ FlattenSeq(s) \o <<>> = FlattenSeq(s)
    <3>1. FlattenSeq(s) \in Seq(S)
      BY FlatAppend, EmptySeq
    <3> QED
      BY <3>1, ConcatEmptySeq
  <2> QED
    BY <2>1, <2>2, FlatEmpty
<1>2. ASSUME NEW n \in Nat, n \in T
      PROVE  n + 1 \in T
  <2> SUFFICES ASSUME n + 1 <= Len(t)
               PROVE  FlattenSeq(s \o pre(n + 1)) = FlattenSeq(s) \o FlattenSeq(pre(n + 1))
    OBVIOUS
  <2> DEFINE u == pre(n)
             e == t[n + 1]
  <2>1. Len(t) \in Nat /\ n < Len(t) /\ n <= Len(t)
    BY LenProperties
  <2>2. u \in Seq(Seq(S)) /\ pre(n + 1) = Append(u, e) /\ e \in Seq(S)
    <3>1. e \in Seq(S)
      BY <2>1, ElementOfSeq
    <3> QED
      BY <2>1, <3>1, TakeNext
  <2>3. FlattenSeq(s \o u) = FlattenSeq(s) \o FlattenSeq(u)
    BY <1>2, <2>1
  <2> HIDE DEF u, e, pre
  <2>4. s \o u \in Seq(Seq(S))
    BY <2>2, ConcatProperties
  <2>5. s \o Append(u, e) = Append(s \o u, e)
    <3>1. u \in Seq(Seq(S)) /\ e \in Seq(S)
      BY <2>2
    <3> QED
      BY <3>1, SMTT(40)
  <2>6. FlattenSeq(s) \in Seq(S) /\ FlattenSeq(u) \in Seq(S)
        /\ FlattenSeq(Append(u, e)) = FlattenSeq(u) \o e
        /\ FlattenSeq(Append(s \o u, e)) = FlattenSeq(s \o u) \o e
    BY <2>2, <2>4, FlatAppend
  <2>7. (FlattenSeq(s) \o FlattenSeq(u)) \o e = FlattenSeq(s) \o (FlattenSeq(u) \o e)
    <3>1. e \in Seq(S) /\ FlattenSeq(s) \in Seq(S) /\ FlattenSeq(u) \in Seq(S)
      BY <2>2, <2>6
    <3> QED
      BY <3>1, ThreePieces, SMTT(60)
  <2> QED
    BY <2>2, <2>3, <2>5, <2>6, <2>7
<1> HIDE DEF T
<1>3. \A n \in Nat : n \in T
  BY <1>1, <1>2, SetInduction
<1>4. Len(t) \in Nat /\ pre(Len(t)) = t
  BY LenProperties, SubSeqFull
<1>5. Len(t) \in T
  BY <1>3, <1>4
<1>6. FlattenSeq(s \o pre(Len(t))) = FlattenSeq(s) \o FlattenSeq(pre(Len(t)))
  BY <1>4, <1>5 DEF T
<1> QED
  BY <1>4, <1>6

\* A sequence cut in two.
LEMMA CutInTwo ==
  ASSUME NEW S, NEW s \in Seq(S), NEW k \in 0..Len(s)
  PROVE  /\ s = SubSeq(s, 1, k) \o SubSeq(s, k + 1, Len(s))
         /\ SubSeq(s, 1, k) \in Seq(S) /\ Len(SubSeq(s, 1, k)) = k
         /\ SubSeq(s, k + 1, Len(s)) \in Seq(S) /\ Len(SubSeq(s, k + 1, Len(s))) = Len(s) - k
         /\ \A i \in 1..k : SubSeq(s, 1, k)[i] = s[i]
         /\ \A i \in 1..Len(s) - k : SubSeq(s, k + 1, Len(s))[i] = s[k + i]
<1>1. Len(s) \in Nat /\ \A i \in 1..Len(s) : s[i] \in S
  BY LenProperties, ElementOfSeq
<1>2. \A i \in 1..k : s[i] \in S
  BY <1>1
<1>3. \A i \in k + 1..Len(s) : s[i] \in S
  BY <1>1
<1>4. SubSeq(s, 1, k) \in Seq(S) /\ Len(SubSeq(s, 1, k)) = k
      /\ \A i \in 1..k : SubSeq(s, 1, k)[i] = s[i]
  BY <1>1, <1>2, SubSeqProperties
<1>5. /\ SubSeq(s, k + 1, Len(s)) \in Seq(S) /\ Len(SubSeq(s, k + 1, Len(s))) = Len(s) - k
      /\ \A i \in 1..Len(s) - k : SubSeq(s, k + 1, Len(s))[i] = s[k + i]
  BY <1>1, <1>3, SubSeqProperties
<1> DEFINE u == SubSeq(s, 1, k)
           v == SubSeq(s, k + 1, Len(s))
<1> HIDE DEF u, v
<1>6. u \in Seq(S) /\ v \in Seq(S) /\ Len(u) = k /\ Len(v) = Len(s) - k
  BY <1>4, <1>5 DEF u, v
<1>7. u \o v \in Seq(S) /\ Len(u \o v) = Len(s)
      /\ \A i \in 1..Len(s) : (u \o v)[i] = IF i <= k THEN u[i] ELSE v[i - k]
  <2>1. u \o v \in Seq(S) /\ Len(u \o v) = Len(u) + Len(v)
        /\ \A i \in 1..Len(u) + Len(v) : (u \o v)[i] = IF i <= Len(u) THEN u[i] ELSE v[i - Len(u)]
    BY <1>6, ConcatProperties
  <2> QED
    BY <1>1, <1>6, <2>1
<1>8. ASSUME NEW i \in 1..Len(s)
      PROVE  s[i] = (u \o v)[i]
  <2>1. CASE i <= k
    BY <1>4, <1>7, <2>1 DEF u
  <2>2. CASE ~(i <= k)
    <3>1. i - k \in 1..Len(s) - k /\ k + (i - k) = i
      BY <1>1, <2>2
    <3>2. v[i - k] = s[k + (i - k)]
      BY <1>5, <3>1 DEF v
    <3>3. (u \o v)[i] = v[i - k]
      BY <1>7, <2>2
    <3> QED
      BY <3>1, <3>2, <3>3
  <2> QED
    BY <2>1, <2>2
<1>9. s = u \o v
  BY <1>7, <1>8, SeqEqual
<1> QED
  BY <1>4, <1>5, <1>9 DEF u, v

\* Pieces that are cut in two.
LEMMA FlatSplit ==
  ASSUME NEW S, NEW s \in Seq(Seq(S)), NEW k \in 0..Len(s)
  PROVE  FlattenSeq(s) = FlattenSeq(SubSeq(s, 1, k)) \o FlattenSeq(SubSeq(s, k + 1, Len(s)))
<1> DEFINE u == SubSeq(s, 1, k)
           v == SubSeq(s, k + 1, Len(s))
<1>1. s = u \o v /\ u \in Seq(Seq(S)) /\ v \in Seq(Seq(S))
  BY CutInTwo
<1> HIDE DEF u, v
<1>2. FlattenSeq(u \o v) = FlattenSeq(u) \o FlattenSeq(v)
  BY <1>1, FlatConcat
<1> QED
  BY <1>1, <1>2 DEF u, v

\* Empty pieces make nothing.
LEMMA FlatSkip ==
  ASSUME NEW S, NEW s \in Seq(Seq(S)), NEW k \in 0..Len(s), \A j \in 1..k : s[j] = <<>>
  PROVE  FlattenSeq(SubSeq(s, 1, k)) = <<>>
<1> DEFINE T == {n \in Nat : n <= k => FlattenSeq(SubSeq(s, 1, n)) = <<>>}
<1>0. Len(s) \in Nat /\ k \in Nat
  BY LenProperties
<1>1. 0 \in T
  <2>1. SubSeq(s, 1, 0) = <<>>
    BY SubSeqEmpty
  <2> QED
    BY <2>1, FlatEmpty
<1>2. ASSUME NEW n \in Nat, n \in T
      PROVE  n + 1 \in T
  <2> SUFFICES ASSUME n + 1 <= k
               PROVE  FlattenSeq(SubSeq(s, 1, n + 1)) = <<>>
    OBVIOUS
  <2> DEFINE u == SubSeq(s, 1, n)
  <2>1. FlattenSeq(u) = <<>> /\ s[n + 1] = <<>> /\ n < Len(s)
    BY <1>0, <1>2
  <2>2. u \in Seq(Seq(S)) /\ SubSeq(s, 1, n + 1) = Append(u, <<>>)
    BY <2>1, TakeNext
  <2> HIDE DEF u
  <2>3. FlattenSeq(Append(u, <<>>)) = FlattenSeq(u) \o <<>>
    BY <2>2, FlatAppend, EmptySeq
  <2>4. <<>> \o <<>> = <<>>
    BY EmptySeq, ConcatEmptySeq
  <2> QED
    BY <2>1, <2>2, <2>3, <2>4
<1> HIDE DEF T
<1>3. k \in T
  BY <1>0, <1>1, <1>2, SetInduction
<1> QED
  BY <1>3 DEF T

\* The first piece that is not empty, and what follows it.
LEMMA FlatAt ==
  ASSUME NEW S, NEW s \in Seq(Seq(S)), NEW k \in 1..Len(s), \A j \in 1..k - 1 : s[j] = <<>>
  PROVE  FlattenSeq(s) = s[k] \o FlattenSeq(SubSeq(s, k + 1, Len(s)))
<1>0. Len(s) \in Nat /\ k - 1 \in Nat /\ k - 1 \in 0..Len(s) /\ k - 1 < Len(s) /\ (k - 1) + 1 = k
      /\ k \in 0..Len(s)
  BY LenProperties
<1> DEFINE u == SubSeq(s, 1, k - 1)
           v == SubSeq(s, k + 1, Len(s))
<1>1. u \in Seq(Seq(S)) /\ SubSeq(s, 1, k) = Append(u, s[k])
  <2>1. SubSeq(s, 1, (k - 1) + 1) = Append(u, s[(k - 1) + 1]) /\ u \in Seq(Seq(S))
    BY <1>0, TakeNext
  <2> QED
    BY <1>0, <2>1
<1>2. FlattenSeq(u) = <<>>
  BY <1>0, FlatSkip
<1>3. s[k] \in Seq(S)
  BY ElementOfSeq
<1>4. FlattenSeq(s) = FlattenSeq(SubSeq(s, 1, k)) \o FlattenSeq(v)
  BY <1>0, FlatSplit
<1> HIDE DEF u, v
<1>5. FlattenSeq(Append(u, s[k])) = FlattenSeq(u) \o s[k]
  BY <1>1, <1>3, FlatAppend
<1>6. <<>> \o s[k] = s[k]
  BY <1>3, ConcatEmptySeq
<1> QED
  BY <1>1, <1>2, <1>4, <1>5, <1>6 DEF v

\* Pieces of which the first was shortened, all before it being empty.
LEMMA FlatTaken ==
  ASSUME NEW S, NEW s \in Seq(Seq(S)), NEW t \in Seq(Seq(S)), Len(s) = Len(t),
         NEW k \in 1..Len(s), NEW b \in Seq(S), s[k] = b \o t[k],
         \A j \in 1..k - 1 : s[j] = <<>> /\ t[j] = <<>>,
         \A j \in k + 1..Len(s) : s[j] = t[j]
  PROVE  FlattenSeq(s) = b \o FlattenSeq(t)
<1>0. Len(s) \in Nat
  BY LenProperties
<1> DEFINE u == SubSeq(s, k + 1, Len(s))
           v == SubSeq(t, k + 1, Len(t))
<1>1. FlattenSeq(s) = s[k] \o FlattenSeq(u)
  BY FlatAt
<1>2. FlattenSeq(t) = t[k] \o FlattenSeq(v)
  BY FlatAt
<1>3. k \in 0..Len(s) /\ k \in 0..Len(t)
  BY <1>0
<1>4. /\ u \in Seq(Seq(S)) /\ Len(u) = Len(s) - k
      /\ \A i \in 1..Len(s) - k : u[i] = s[k + i]
  BY <1>3, CutInTwo, SMTT(40)
<1>5. /\ v \in Seq(Seq(S)) /\ Len(v) = Len(s) - k
      /\ \A i \in 1..Len(s) - k : v[i] = t[k + i]
  BY <1>3, CutInTwo, SMTT(40)
<1> HIDE DEF u, v
<1>6. ASSUME NEW i \in 1..Len(u)
      PROVE  u[i] = v[i]
  <2>1. i \in 1..Len(s) - k /\ k + i \in k + 1..Len(s)
    BY <1>0, <1>4
  <2> QED
    BY <1>4, <1>5, <2>1
<1>7. u = v
  BY <1>4, <1>5, <1>6, SeqEqual
<1>8. t[k] \in Seq(S)
  BY <1>3, ElementOfSeq
<1>9. FlattenSeq(v) \in Seq(S)
  BY <1>5, FlatAppend, EmptySeq
<1> DEFINE w == FlattenSeq(v)
           x == t[k]
<1>10. w \in Seq(S) /\ x \in Seq(S)
  BY <1>8, <1>9
<1> HIDE DEF w, x
<1>11. (b \o x) \o w = b \o (x \o w)
  <2>1. Cat(Cat(b, x), w) = Cat(b, Cat(x, w))
    BY <1>10, CatAssociative
  <2> QED
    BY <2>1, Zenon DEF Cat
<1> QED
  BY <1>1, <1>2, <1>7, <1>11 DEF w, x

\* The last piece made longer.
LEMMA FlatLonger ==
  ASSUME NEW S, NEW s \in Seq(Seq(S)), NEW t \in Seq(Seq(S)), Len(s) = Len(t), s # <<>>,
         NEW b \in Seq(S), t[Len(s)] = s[Len(s)] \o b,
         \A j \in 1..Len(s) - 1 : s[j] = t[j]
  PROVE  FlattenSeq(t) = FlattenSeq(s) \o b
<1> DEFINE N == Len(s)
           u == SubSeq(s, 1, N - 1)
           v == SubSeq(t, 1, N - 1)
<1>0. N \in Nat /\ N # 0 /\ N - 1 \in Nat /\ N - 1 < Len(s) /\ N - 1 < Len(t) /\ (N - 1) + 1 = N
      /\ N \in 1..Len(s) /\ N \in 1..Len(t)
  BY EmptySeq, LenProperties
<1>1. SubSeq(s, 1, (N - 1) + 1) = Append(u, s[(N - 1) + 1]) /\ u \in Seq(Seq(S)) /\ Len(u) = N - 1
  BY <1>0, TakeNext
<1>2. SubSeq(t, 1, (N - 1) + 1) = Append(v, t[(N - 1) + 1]) /\ v \in Seq(Seq(S)) /\ Len(v) = N - 1
  BY <1>0, TakeNext
<1>3. SubSeq(s, 1, N) = s /\ SubSeq(t, 1, N) = t
  BY SubSeqFull
<1>4. s = Append(u, s[N]) /\ t = Append(v, t[N])
  BY <1>0, <1>1, <1>2, <1>3
<1>5. s[N] \in Seq(S) /\ t[N] \in Seq(S)
  BY <1>0, ElementOfSeq
<1>6. \A i \in 1..N - 1 : u[i] = s[i] /\ v[i] = t[i]
  <2>1. N - 1 \in 0..Len(s) /\ N - 1 \in 0..Len(t)
    BY <1>0
  <2> QED
    BY <2>1, CutInTwo
<1> HIDE DEF u, v
<1>7. u = v
  BY <1>0, <1>1, <1>2, <1>6, SeqEqual
<1>8. FlattenSeq(Append(u, s[N])) = FlattenSeq(u) \o s[N] /\ FlattenSeq(u) \in Seq(S)
  BY <1>1, <1>5, FlatAppend
<1>9. FlattenSeq(Append(v, t[N])) = FlattenSeq(v) \o t[N]
  BY <1>2, <1>5, FlatAppend
<1> DEFINE w == FlattenSeq(u)
           x == s[N]
<1>10. w \in Seq(S) /\ x \in Seq(S)
  BY <1>5, <1>8
<1> HIDE DEF w, x
<1>11. (w \o x) \o b = w \o (x \o b)
  <2>1. Cat(Cat(w, x), b) = Cat(w, Cat(x, b))
    BY <1>10, CatAssociative
  <2> QED
    BY <2>1, Zenon DEF Cat
<1> QED
  BY <1>4, <1>7, <1>8, <1>9, <1>11 DEF w, x

\* Where piece k ends.
Upto(s, k) == Len(FlattenSeq(SubSeq(s, 1, k)))

\* Where the pieces are.
LEMMA PlaceOf ==
  ASSUME NEW S, NEW s \in Seq(Seq(S)), NEW k \in 1..Len(s)
  PROVE  /\ Upto(s, 0) = 0 /\ Upto(s, Len(s)) = Len(FlattenSeq(s))
         /\ Upto(s, k - 1) \in Nat /\ Upto(s, k) \in Nat
         /\ Upto(s, k) = Upto(s, k - 1) + Len(s[k]) /\ Upto(s, k) <= Len(FlattenSeq(s))
         /\ Len(s[k]) \in Nat
         /\ \A i \in 1..Len(s[k]) : FlattenSeq(s)[Upto(s, k - 1) + i] = s[k][i]
<1>0. Len(s) \in Nat /\ k - 1 \in Nat /\ k - 1 \in 0..Len(s) /\ k - 1 < Len(s) /\ (k - 1) + 1 = k
      /\ k \in 0..Len(s) /\ k \in Nat
  BY LenProperties
<1> DEFINE u == SubSeq(s, 1, k - 1)
           U == FlattenSeq(u)
           v == SubSeq(s, k + 1, Len(s))
           V == FlattenSeq(v)
           x == s[k]
<1>1. SubSeq(s, 1, (k - 1) + 1) = Append(u, s[(k - 1) + 1]) /\ u \in Seq(Seq(S))
  BY <1>0, TakeNext
<1>2. FlattenSeq(s) = FlattenSeq(SubSeq(s, 1, k)) \o V /\ v \in Seq(Seq(S))
  BY <1>0, FlatSplit, CutInTwo
<1>3. x \in Seq(S)
  BY ElementOfSeq
<1>4. SubSeq(s, 1, k) = Append(u, x)
  BY <1>0, <1>1
<1>5. SubSeq(s, 1, 0) = <<>>
  BY SubSeqEmpty
<1>6. Upto(s, 0) = 0 /\ Upto(s, Len(s)) = Len(FlattenSeq(s))
  BY <1>5, FlatEmpty, EmptySeq, SubSeqFull DEF Upto
<1>7. Upto(s, k - 1) = Len(U) /\ Upto(s, k) = Len(FlattenSeq(Append(u, x)))
  BY <1>4 DEF Upto
<1> HIDE DEF u, v, x
<1>8. FlattenSeq(Append(u, x)) = U \o x /\ U \in Seq(S)
  BY <1>1, <1>3, FlatAppend
<1>9. V \in Seq(S)
  BY <1>2, FlatAppend, EmptySeq
<1>10. FlattenSeq(s) = Cat(Cat(U, x), V)
  BY <1>2, <1>4, <1>8, Zenon DEF Cat
<1> HIDE DEF U, V
<1> DEFINE w == Cat(U, x)
<1>11. w \in Seq(S) /\ Len(w) = Len(U) + Len(x) /\ Len(U) \in Nat /\ Len(x) \in Nat
       /\ \A i \in 1..Len(x) : w[Len(U) + i] = x[i]
  BY <1>3, <1>8, CatFacts
<1> HIDE DEF w
<1>12. Len(Cat(w, V)) = Len(w) + Len(V) /\ Len(V) \in Nat
       /\ \A i \in 1..Len(w) : Cat(w, V)[i] = w[i]
  <2>1. w \in Seq(S) /\ V \in Seq(S)
    BY <1>9, <1>11
  <2> QED
    BY <2>1, CatFacts
<1>13. FlattenSeq(s) = Cat(w, V)
  BY <1>10 DEF w
<1>14. ASSUME NEW i \in 1..Len(x)
       PROVE  FlattenSeq(s)[Len(U) + i] = x[i]
  <2>1. Len(U) + i \in 1..Len(w)
    BY <1>11
  <2> QED
    BY <1>11, <1>12, <1>13, <2>1
<1>15. Upto(s, k) = Len(w)
  BY <1>7, <1>8, Zenon DEF w, Cat
<1>16. Upto(s, k - 1) = Len(U) /\ s[k] = x
  BY <1>7, Zenon DEF x
<1>17. \A i \in 1..Len(s[k]) : FlattenSeq(s)[Upto(s, k - 1) + i] = s[k][i]
  BY <1>14, <1>16
<1>18. Len(FlattenSeq(s)) = Len(w) + Len(V)
  BY <1>12, <1>13
<1>19. /\ Upto(s, k - 1) \in Nat /\ Upto(s, k) \in Nat
       /\ Upto(s, k) = Upto(s, k - 1) + Len(s[k]) /\ Upto(s, k) <= Len(FlattenSeq(s))
       /\ Len(s[k]) \in Nat
  BY <1>11, <1>12, <1>15, <1>16, <1>18
<1> QED
  BY <1>6, <1>17, <1>19

\* A byte is in some piece.
LEMMA PlaceThere ==
  ASSUME NEW S, NEW s \in Seq(Seq(S)), NEW p \in 1..Len(FlattenSeq(s))
  PROVE  \E k \in 1..Len(s) : Upto(s, k - 1) < p /\ p <= Upto(s, k)
<1> DEFINE N == Len(s)
           T == {k \in Nat : k <= N /\ p <= Upto(s, k)}
<1>1. N \in Nat /\ FlattenSeq(s) \in Seq(S)
  BY LenProperties, FlatAppend, EmptySeq
<1>2. Len(FlattenSeq(s)) \in Nat
  BY <1>1, LenProperties
<1>3. N # 0
  <2>1. CASE N = 0
    <3>1. s = <<>>
      BY <2>1, EmptySeq
    <3> QED
      BY <3>1, FlatEmpty, EmptySeq
  <2> QED
    BY <2>1
<1>4. /\ Upto(s, 0) = 0 /\ Upto(s, N) = Len(FlattenSeq(s))
      /\ \A k \in 1..N : Upto(s, k - 1) \in Nat /\ Upto(s, k) \in Nat
  <2>1. 1 \in 1..N
    BY <1>1, <1>3
  <2> QED
    BY <2>1, PlaceOf
<1>5. N \in T /\ T \subseteq Nat
  BY <1>1, <1>2, <1>4
<1>6. PICK k \in T : \A j \in T : k <= j
  BY <1>5, Least
<1>7. k # 0 /\ k \in 1..N
  BY <1>1, <1>2, <1>4, <1>6
<1>8. k - 1 \notin T /\ k - 1 \in Nat /\ k - 1 <= N
  BY <1>1, <1>6, <1>7
<1>9. ~(p <= Upto(s, k - 1))
  BY <1>8
<1> QED
  BY <1>2, <1>4, <1>6, <1>7, <1>9
=============================================================================
