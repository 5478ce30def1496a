---------------------------- MODULE ConfigProofs ----------------------------
(***************************************************************************)
(* Lemmas about Config, for any configuration file and any command line:   *)
(* the two parsers find what was typed and what the file says, and the     *)
(* merge makes one configuration of both.                                  *)
(* A single text is read as the value that it means (ParsesTime,           *)
(* ReadMeant, OptionMeant).                                                *)
(*                                                                         *)
(* After n of the saved options are parsed an option has the values that   *)
(* were typed among them (Position); after n lines of the file a field has *)
(* the values that they say (Parsed); after the last the file is read      *)
(* (FileRead).  Both parsers are loops over sequences, and so are the      *)
(* definitions of what they are to find: facts about these are proved by   *)
(* induction over the natural numbers.                                     *)
(***************************************************************************)
EXTENDS Config, FiniteSetTheorems, WellFoundedInduction, TLAPS

\* Every step is small; what the provers may need is time.
USE ZenonT(60)

-----------------------------------------------------------------------------
(* Sequences, induction and recursion.                                     *)

\* Sequences over a larger set.
LEMMA SeqMonotonic ==
    ASSUME NEW S, NEW T, S \subseteq T, NEW s \in Seq(S)
    PROVE  s \in Seq(T)
  BY SMTT(60)

\* The empty sequence.
LEMMA EmptySeq ==
    ASSUME NEW S
    PROVE  /\ <<>> \in Seq(S) /\ Len(<<>>) = 0
           /\ \A s \in Seq(S) : s # <<>> => Len(s) \in Nat \ {0}
  BY SMTT(60)

\* Sequences with the same elements are the same.
LEMMA SeqEqual ==
    ASSUME NEW S, NEW s \in Seq(S), NEW t \in Seq(S), Len(s) = Len(t),
           \A i \in 1 .. Len(s) : s[i] = t[i]
    PROVE  s = t
  BY SMTT(60)

\* Concatenation.
LEMMA ConcatProperties ==
    ASSUME NEW S, NEW s \in Seq(S), NEW t \in Seq(S)
    PROVE  /\ s \o t \in Seq(S)
           /\ Len(s \o t) = Len(s) + Len(t)
           /\ \A i \in 1 .. Len(s) + Len(t) :
                (s \o t)[i] = IF i <= Len(s) THEN s[i] ELSE t[i - Len(s)]
  BY SMTT(60)

\* Nothing to concatenate.
LEMMA ConcatEmptySeq ==
    ASSUME NEW S, NEW s \in Seq(S)
    PROVE  s \o <<>> = s /\ <<>> \o s = s
  BY SMTT(60)

\* What follows the same beginning is the same.
LEMMA ConcatCancels ==
    ASSUME NEW S, NEW s \in Seq(S), NEW t \in Seq(S), NEW u \in Seq(S), s \o t = s \o u
    PROVE  t = u
<1> DEFINE a == s \o t
           b == s \o u
<1>1. Len(s) \in Nat /\ Len(t) \in Nat /\ Len(u) \in Nat
  BY SMTT(60)
<1>2. /\ Len(a) = Len(s) + Len(t) /\ Len(b) = Len(s) + Len(u)
      /\ \A i \in 1 .. Len(t) : a[i + Len(s)] = t[i]
      /\ \A i \in 1 .. Len(u) : b[i + Len(s)] = u[i]
  BY SMTT(60)
<1>3. a = b
  OBVIOUS
<1> HIDE DEF a, b
<1>4. Len(t) = Len(u)
  BY <1>1, <1>2, <1>3, SMTT(60)
<1>5. \A i \in 1 .. Len(t) : t[i] = u[i]
  BY <1>2, <1>3, <1>4
<1> QED
  BY <1>4, <1>5, SeqEqual

\* Concatenation is associative.
Cat(s, t) == s \o t

LEMMA CatAssociative ==
    ASSUME NEW S, NEW s \in Seq(S), NEW t \in Seq(S), NEW u \in Seq(S)
    PROVE  Cat(Cat(s, t), u) = Cat(s, Cat(t, u))
  BY SMTT(60) DEF Cat

\* What begins with something is not empty.
LEMMA CatNotEmpty ==
    ASSUME NEW S, NEW s \in Seq(S), NEW t \in Seq(S), Len(s) # 0
    PROVE  Cat(s, t) # <<>>
  BY SMTT(60) DEF Cat

\* Induction over the natural numbers, with a set in the place of a predicate.
LEMMA SetInduction ==
    ASSUME NEW S, 0 \in S, \A n \in Nat : n \in S => n + 1 \in S
    PROVE  \A n \in Nat : n \in S
<1> DEFINE T == Nat \ S
<1> SUFFICES ASSUME T # {} PROVE FALSE
  OBVIOUS
<1>1. PICK x \in T : \A y \in T : ~(<<y, x>> \in OpToRel(<, Nat))
  BY NatLessThanWellFounded, WFMin
<1>2. \A y \in T : ~(y < x)
  BY <1>1 DEF OpToRel
<1>3. x # 0 /\ x - 1 \in Nat /\ x - 1 < x
  BY SMTT(60)
<1>4. x - 1 \in S
  BY <1>2, <1>3
<1> QED
  BY <1>3, <1>4, SMTT(60)

\* p is computed step by step from b.
Computes(p, b, step, n) ==
    p[0] = b /\ \A k \in 1 .. n : p[k] = step[k][p[k - 1]]

\* A computation of N steps exists.
LEMMA Computation ==
    ASSUME NEW V, NEW b \in V, NEW N \in Nat, NEW step \in [1 .. N -> [V -> V]]
    PROVE  \E p \in [0 .. N -> V] : Computes(p, b, step, N)
<1> DEFINE S == {n \in Nat : n <= N => \E p \in [0 .. n -> V] : Computes(p, b, step, n)}
<1>1. 0 \in S
  <2>1. [k \in 0 .. 0 |-> b] \in [0 .. 0 -> V] /\ Computes([k \in 0 .. 0 |-> b], b, step, 0)
    BY SMTT(60) DEF Computes
  <2> QED
    BY <2>1
<1>2. ASSUME NEW n \in Nat, n \in S PROVE n + 1 \in S
  <2> SUFFICES ASSUME n + 1 <= N
               PROVE  \E p \in [0 .. n + 1 -> V] : Computes(p, b, step, n + 1)
    BY SMTT(60)
  <2>1. PICK p \in [0 .. n -> V] : Computes(p, b, step, n)
    BY <1>2, SMTT(60)
  <2> DEFINE q == [k \in 0 .. n + 1 |-> IF k <= n THEN p[k] ELSE step[n + 1][p[n]]]
  <2>2. n + 1 \in 1 .. N /\ p[n] \in V /\ step[n + 1][p[n]] \in V
    BY SMTT(60)
  <2>3. q \in [0 .. n + 1 -> V]
    BY <2>2, SMTT(60)
  <2>4. q[0] = b
    BY <2>1, SMTT(60) DEF Computes
  <2>5. ASSUME NEW k \in 1 .. n + 1 PROVE q[k] = step[k][q[k - 1]]
    <3>1. CASE k <= n
      <4>1. q[k] = p[k] /\ q[k - 1] = p[k - 1]
        BY <3>1, SMTT(60)
      <4>2. k \in 1 .. n
        BY <3>1, SMTT(60)
      <4> QED
        BY <4>1, <4>2, <2>1 DEF Computes
    <3>2. CASE k = n + 1
      BY <3>2, SMTT(60)
    <3> QED
      BY <3>1, <3>2, SMTT(60)
  <2> HIDE DEF q
  <2> QED
    BY <2>3, <2>4, <2>5 DEF Computes
<1> HIDE DEF S
<1>3. N \in S
  BY <1>1, <1>2, SetInduction
<1> QED
  BY <1>3, SMTT(60) DEF S

-----------------------------------------------------------------------------
(* Joined                                                                  *)

\* Its recursive function: the first n sequences in ss, one after the other.
JoinedUpTo(ss) ==
    LET joined[n \in 0 .. Len(ss)] == IF n = 0 THEN <<>> ELSE joined[n - 1] \o ss[n]
    IN joined

\* Joined is the last value of its recursion.
LEMMA JoinedIs == \A ss : Joined(ss) = JoinedUpTo(ss)[Len(ss)]
  BY DEF Joined, JoinedUpTo

\* The recursion has the values that its equation says.
LEMMA JoinedSteps ==
    ASSUME NEW T, NEW ss \in Seq(Seq(T))
    PROVE  /\ JoinedUpTo(ss) \in [0 .. Len(ss) -> Seq(T)]
           /\ JoinedUpTo(ss)[0] = <<>>
           /\ \A n \in Nat : n < Len(ss) =>
                JoinedUpTo(ss)[n + 1] = JoinedUpTo(ss)[n] \o ss[n + 1]
<1> DEFINE N == Len(ss)
           V == Seq(T)
           step == [n \in 1 .. N |-> [v \in V |-> v \o ss[n]]]
           At(f, n) == IF n = 0 THEN <<>> ELSE f[n - 1] \o ss[n]
           Rec(f) == [n \in 0 .. N |-> At(f, n)]
<1>1. N \in Nat /\ <<>> \in V /\ \A n \in 1 .. N : ss[n] \in V
  BY SMTT(60)
<1>2. step \in [1 .. N -> [V -> V]]
  BY <1>1, SMTT(60)
<1>3. PICK p \in [0 .. N -> V] : Computes(p, <<>>, step, N)
  <2> HIDE DEF N, V, step
  <2> QED
    BY <1>1, <1>2, Computation
<1>4. p[0] = <<>> /\ \A n \in 1 .. N : p[n] = p[n - 1] \o ss[n]
  <2>1. p[0] = <<>>
    BY <1>3 DEF Computes
  <2>2. ASSUME NEW n \in 1 .. N PROVE p[n] = p[n - 1] \o ss[n]
    <3>1. n - 1 \in 0 .. N
      BY <1>1, SMTT(60)
    <3>2. p[n - 1] \in V
      BY <3>1
    <3>3. p[n] = step[n][p[n - 1]]
      BY <1>3 DEF Computes
    <3> QED
      BY <3>2, <3>3
  <2> QED
    BY <2>1, <2>2
<1>5. p = Rec(p)
  <2>1. p = [n \in 0 .. N |-> p[n]]
    OBVIOUS
  <2>2. \A n \in 0 .. N : n = 0 \/ (n \in 1 .. N /\ n # 0)
    BY <1>1, SMTT(60)
  <2>3. \A n \in 0 .. N : p[n] = At(p, n)
    BY <1>4, <2>2
  <2> HIDE DEF At, N
  <2> QED
    BY <2>1, <2>3
<1> DEFINE q == JoinedUpTo(ss)
<1>6. q = Rec(q)
  <2>1. q = CHOOSE f : f = Rec(f)
    BY DEF JoinedUpTo
  <2> HIDE DEF Rec, q
  <2> QED
    BY <1>5, <2>1
<1> HIDE DEF q
<1>7. q[0] = <<>> /\ \A n \in 1 .. N : q[n] = q[n - 1] \o ss[n]
  <2>1. \A n \in 0 .. N : q[n] = At(q, n)
    <3> HIDE DEF At, N
    <3> QED
      BY <1>6
  <2>2. 0 \in 0 .. N /\ \A n \in 1 .. N : n \in 0 .. N /\ n # 0
    BY <1>1, SMTT(60)
  <2> QED
    BY <2>1, <2>2
<1>8. ASSUME NEW f, f[0] = <<>>, \A n \in 1 .. N : f[n] = f[n - 1] \o ss[n]
      PROVE  \A n \in Nat : n < N => f[n + 1] = f[n] \o ss[n + 1]
  <2> SUFFICES ASSUME NEW n \in Nat, n < N PROVE f[n + 1] = f[n] \o ss[n + 1]
    OBVIOUS
  <2>1. n + 1 \in 1 .. N /\ (n + 1) - 1 = n
    BY <1>1, SMTT(60)
  <2>2. f[n + 1] = f[(n + 1) - 1] \o ss[n + 1]
    BY <1>8, <2>1
  <2> QED
    BY <2>1, <2>2
<1> DEFINE S == {n \in Nat : n <= N => q[n] = p[n]}
<1>9. \A n \in Nat : n \in S
  <2>1. 0 \in S
    BY <1>4, <1>7
  <2>2. ASSUME NEW n \in Nat, n \in S PROVE n + 1 \in S
    <3> SUFFICES ASSUME n + 1 <= N PROVE q[n + 1] = p[n + 1]
      BY SMTT(60)
    <3>1. n < N /\ q[n] = p[n]
      BY <1>1, <2>2, SMTT(60)
    <3>2. q[n + 1] = q[n] \o ss[n + 1] /\ p[n + 1] = p[n] \o ss[n + 1]
      <4> HIDE DEF N
      <4> QED
        BY <1>4, <1>7, <1>8, <3>1
    <3> QED
      BY <3>1, <3>2
  <2> HIDE DEF S
  <2> QED
    BY <2>1, <2>2, SetInduction
<1>10. q = p
  <2>1. q = [n \in 0 .. N |-> q[n]]
    BY <1>6
  <2>2. \A n \in 0 .. N : q[n] = p[n]
    BY <1>1, <1>9, SMTT(60)
  <2> QED
    BY <2>1, <2>2
<1>11. q \in [0 .. N -> V] /\ q[0] = <<>> /\ \A n \in Nat : n < N => q[n + 1] = q[n] \o ss[n + 1]
  BY <1>7, <1>8, <1>10
<1> QED
  BY <1>11 DEF q

\* Joining sequences over T makes a sequence over T.
LEMMA JoinedType ==
    ASSUME NEW T, NEW ss \in Seq(Seq(T))
    PROVE  Joined(ss) \in Seq(T)
<1>1. JoinedUpTo(ss) \in [0 .. Len(ss) -> Seq(T)]
  BY JoinedSteps
<1>2. Len(ss) \in 0 .. Len(ss)
  BY SMTT(60)
<1> QED
  BY <1>1, <1>2, JoinedIs

\* Nothing to join.
LEMMA JoinedNothing == Joined(<<>>) = <<>>
<1>1. <<>> \in Seq(Seq({}))
  BY SMTT(60)
<1>2. JoinedUpTo(<<>>)[0] = <<>>
  BY <1>1, JoinedSteps
<1> QED
  BY <1>2, JoinedIs

\* Joined takes concatenations to concatenations.
LEMMA JoinedConcat ==
    ASSUME NEW T, NEW a \in Seq(Seq(T)), NEW b \in Seq(Seq(T))
    PROVE  Joined(a \o b) = Joined(a) \o Joined(b)
<1>0. ASSUME NEW x \in Seq(T), NEW y \in Seq(T), NEW z \in Seq(T)
      PROVE  (x \o y) \o z = x \o (y \o z)
  <2>1. Cat(Cat(x, y), z) = Cat(x, Cat(y, z))
    BY CatAssociative, SMTT(60)
  <2> QED
    BY <2>1 DEF Cat
<1> DEFINE c == a \o b
           p == JoinedUpTo(a)
           q == JoinedUpTo(b)
           r == JoinedUpTo(c)
           A == Len(a)
           B == Len(b)
<1>1. /\ c \in Seq(Seq(T)) /\ Len(c) = A + B
      /\ \A n \in 1 .. A : c[n] = a[n]
      /\ \A n \in 1 .. B : c[A + n] = b[n]
      /\ A \in Nat /\ B \in Nat
  BY SMTT(60)
<1> HIDE DEF c
<1>2. /\ p \in [0 .. A -> Seq(T)] /\ p[0] = <<>>
      /\ \A n \in Nat : n < A => p[n + 1] = p[n] \o a[n + 1]
  BY JoinedSteps
<1>3. /\ q \in [0 .. B -> Seq(T)] /\ q[0] = <<>>
      /\ \A n \in Nat : n < B => q[n + 1] = q[n] \o b[n + 1]
  BY JoinedSteps
<1>4. /\ r[0] = <<>>
      /\ \A n \in Nat : n < A + B => r[n + 1] = r[n] \o c[n + 1]
  BY <1>1, JoinedSteps
<1>5. \A n \in 1 .. B : b[n] \in Seq(T)
  BY SMTT(60)
<1> HIDE DEF A, B, p, q, r
<1> DEFINE S == {n \in Nat : n <= A => r[n] = p[n]}
<1>6. \A n \in Nat : n \in S
  <2>1. 0 \in S
    BY <1>2, <1>4
  <2>2. ASSUME NEW n \in Nat, n \in S PROVE n + 1 \in S
    <3> SUFFICES ASSUME n + 1 <= A PROVE r[n + 1] = p[n + 1]
      BY SMTT(60)
    <3>1. n < A /\ n < A + B /\ r[n] = p[n] /\ n + 1 \in 1 .. A
      BY <1>1, <2>2, SMTT(60)
    <3>2. c[n + 1] = a[n + 1]
      BY <1>1, <3>1
    <3> QED
      BY <1>2, <1>4, <3>1, <3>2
  <2> HIDE DEF S
  <2> QED
    BY <2>1, <2>2, SetInduction
<1>7. r[A] = p[A] /\ p[A] \in Seq(T)
  BY <1>1, <1>2, <1>6, SMTT(60)
<1> DEFINE Added(n) == r[A + n] = p[A] \o q[n]
           U == {n \in Nat : n <= B => Added(n)}
<1>8. \A n \in Nat : n \in U
  <2>1. 0 \in U
    <3>1. p[A] \o <<>> = p[A]
      BY <1>7, ConcatEmptySeq
    <3>2. A + 0 = A
      BY <1>1, SMTT(60)
    <3>3. Added(0)
      BY <1>1, <1>3, <1>7, <3>1, <3>2
    <3> HIDE DEF Added
    <3> QED
      BY <3>3
  <2>2. ASSUME NEW n \in Nat, n \in U PROVE n + 1 \in U
    <3> SUFFICES ASSUME n + 1 <= B PROVE Added(n + 1)
      <4> HIDE DEF Added
      <4> QED
        BY SMTT(60)
    <3>1. /\ n < B /\ A + n < A + B /\ A + n \in Nat /\ A + (n + 1) = (A + n) + 1
          /\ n + 1 \in 1 .. B /\ n \in 0 .. B
      BY <1>1, SMTT(60)
    <3>2. Added(n)
      <4> HIDE DEF Added
      <4> QED
        BY <1>1, <2>2, <3>1, SMTT(60)
    <3>3. c[A + (n + 1)] = b[n + 1] /\ b[n + 1] \in Seq(T) /\ q[n] \in Seq(T)
      BY <1>1, <1>3, <1>5, <3>1
    <3>4. r[(A + n) + 1] = r[A + n] \o c[(A + n) + 1]
      BY <1>4, <3>1
    <3>5. q[n + 1] = q[n] \o b[n + 1]
      BY <1>3, <3>1
    <3>6. (p[A] \o q[n]) \o b[n + 1] = p[A] \o (q[n] \o b[n + 1])
      BY <1>0, <1>7, <3>3
    <3>7. r[A + (n + 1)] = (p[A] \o q[n]) \o b[n + 1]
      BY <3>1, <3>2, <3>3, <3>4
    <3> QED
      BY <3>5, <3>6, <3>7
  <2> HIDE DEF U
  <2> QED
    BY <2>1, <2>2, SetInduction
<1>9. Added(B)
  <2> HIDE DEF Added
  <2> QED
    BY <1>1, <1>8, SMTT(60)
<1> QED
  BY <1>1, <1>9, JoinedIs DEF c, p, q, r, A, B

\* The first n sequences are where the whole begins.
LEMMA JoinedPrefix ==
    ASSUME NEW T, NEW ss \in Seq(Seq(T)), NEW n \in Nat, n <= Len(ss)
    PROVE  \E r \in Seq(T) : Joined(ss) = JoinedUpTo(ss)[n] \o r
<1>0. ASSUME NEW x \in Seq(T), NEW y \in Seq(T), NEW z \in Seq(T)
      PROVE  (x \o y) \o z = x \o (y \o z)
  <2>1. Cat(Cat(x, y), z) = Cat(x, Cat(y, z))
    BY CatAssociative, SMTT(60)
  <2> QED
    BY <2>1 DEF Cat
<1> DEFINE N == Len(ss)
           p == JoinedUpTo(ss)
           Reached(m) == \E r \in Seq(T) : p[m] = p[n] \o r
           S == {m \in Nat : n + m <= N => Reached(n + m)}
<1>1. N \in Nat /\ N - n \in Nat /\ n + (N - n) = N /\ n + 0 = n /\ n \in 0 .. N
  BY SMTT(60)
<1>2. /\ p \in [0 .. N -> Seq(T)]
      /\ \A m \in Nat : m < N => p[m + 1] = p[m] \o ss[m + 1]
  BY JoinedSteps
<1>3. \A m \in Nat : m < N => ss[m + 1] \in Seq(T)
  BY SMTT(60)
<1>4. p[N] = Joined(ss)
  BY JoinedIs
<1> HIDE DEF N, p
<1>5. p[n] \in Seq(T)
  BY <1>1, <1>2
<1>6. 0 \in S
  <2>1. p[n] = p[n] \o <<>> /\ <<>> \in Seq(T)
    BY <1>5, ConcatEmptySeq, SMTT(60)
  <2>2. Reached(n)
    BY <2>1
  <2> HIDE DEF Reached
  <2> QED
    BY <1>1, <2>2
<1>7. ASSUME NEW m \in Nat, m \in S PROVE m + 1 \in S
  <2>1. SUFFICES ASSUME n + (m + 1) <= N PROVE Reached(n + (m + 1))
    <3> HIDE DEF Reached
    <3> QED
      BY SMTT(60)
  <2> DEFINE k == n + m
  <2>2. k \in Nat /\ k < N /\ k <= N /\ n + (m + 1) = k + 1
    BY <1>1, <2>1, SMTT(60)
  <2>3. Reached(k)
    <3> HIDE DEF Reached
    <3> QED
      BY <1>7, <2>2
  <2> HIDE DEF k
  <2>4. PICK r \in Seq(T) : p[k] = p[n] \o r
    BY <2>3
  <2>5. ss[k + 1] \in Seq(T) /\ p[k + 1] = p[k] \o ss[k + 1]
    BY <1>2, <1>3, <2>2
  <2>6. (p[n] \o r) \o ss[k + 1] = p[n] \o (r \o ss[k + 1])
    BY <1>0, <1>5, <2>5
  <2>7. r \o ss[k + 1] \in Seq(T)
    BY <2>5, ConcatProperties
  <2>8. Reached(k + 1)
    BY <2>4, <2>5, <2>6, <2>7
  <2> QED
    BY <2>2, <2>8
<1> HIDE DEF S
<1>8. N - n \in S
  BY <1>1, <1>6, <1>7, SetInduction
<1> HIDE DEF Reached
<1>9. Reached(N)
  BY <1>1, <1>8, SMTT(60) DEF S
<1> QED
  BY <1>4, <1>9 DEF Reached, p

\* A function on 1 .. N is a sequence of length N.
LEMMA SeqOfFcn ==
    ASSUME NEW N \in Nat, NEW T, NEW f \in [1 .. N -> T]
    PROVE  f \in Seq(T) /\ Len(f) = N
  BY SMTT(60)

\* Sequences of one element each are joined to the sequence of these elements, ...
LEMMA JoinedSingles ==
    ASSUME NEW T, NEW s \in Seq(T), NEW ss \in Seq(Seq(T)), Len(ss) = Len(s),
           \A n \in 1 .. Len(s) : ss[n] = <<s[n]>>
    PROVE  Joined(ss) = s
<1> DEFINE N == Len(s)
           p == JoinedUpTo(ss)
           Same(n) == Len(p[n]) = n /\ \A i \in 1 .. n : p[n][i] = s[i]
           S == {n \in Nat : n <= N => Same(n)}
<1>1. /\ p \in [0 .. N -> Seq(T)] /\ p[0] = <<>>
      /\ \A n \in Nat : n < N => p[n + 1] = p[n] \o ss[n + 1]
  BY JoinedSteps
<1>2. N \in Nat /\ \A n \in 1 .. N : s[n] \in T
  BY SMTT(60)
<1>3. p[N] = Joined(ss)
  BY JoinedIs
<1> HIDE DEF p
<1>4. 0 \in S
  BY <1>1, SMTT(60)
<1>5. ASSUME NEW n \in Nat, n \in S PROVE n + 1 \in S
  <2> SUFFICES ASSUME n + 1 <= N PROVE Same(n + 1)
    <3> HIDE DEF Same
    <3> QED
      BY SMTT(60)
  <2>1. n < N /\ n \in 0 .. N /\ n + 1 \in 1 .. N
    BY <1>2, SMTT(60)
  <2>2. Same(n)
    <3> HIDE DEF Same
    <3> QED
      BY <1>2, <1>5, <2>1, SMTT(60)
  <2>3. p[n] \in Seq(T) /\ s[n + 1] \in T /\ ss[n + 1] = <<s[n + 1]>>
    BY <1>1, <1>2, <2>1
  <2>4. p[n + 1] = p[n] \o <<s[n + 1]>>
    BY <1>1, <2>1, <2>3
  <2> QED
    BY <2>2, <2>3, <2>4, SMTT(60)
<1> HIDE DEF S
<1>6. N \in S
  <2>1. \A n \in Nat : n \in S
    BY <1>4, <1>5, SetInduction
  <2> QED
    BY <1>2, <2>1
<1>7. Same(N)
  <2> HIDE DEF Same
  <2> QED
    BY <1>2, <1>6, SMTT(60) DEF S
<1>8. p[N] \in Seq(T)
  BY <1>1, <1>2, SMTT(60)
<1> DEFINE t == p[N]
<1>9. t = s
  <2>1. t \in Seq(T) /\ Len(t) = Len(s) /\ \A i \in 1 .. Len(t) : t[i] = s[i]
    BY <1>7, <1>8
  <2> HIDE DEF t
  <2> QED
    BY <2>1, SeqEqual
<1> QED
  BY <1>3, <1>9

\* ... and empty ones to an empty one.
LEMMA JoinedEmpties ==
    ASSUME NEW ss \in Seq(Seq({})), \A n \in 1 .. Len(ss) : ss[n] = <<>>
    PROVE  Joined(ss) = <<>>
<1>1. Joined(ss) \in Seq({})
  BY JoinedType
<1> QED
  BY <1>1, SMTT(60)

-----------------------------------------------------------------------------
(* Picked                                                                  *)

Picks(s, I) == [n \in DOMAIN s |-> IF n \in I THEN <<s[n]>> ELSE <<>>]

\* What is picked among the first n elements.
PickedUpTo(s, I) == JoinedUpTo(Picks(s, I))

\* Picks has a part for each element.
LEMMA PicksType ==
    ASSUME NEW T, NEW s \in Seq(T), NEW I
    PROVE  Picks(s, I) \in Seq(Seq(T)) /\ Len(Picks(s, I)) = Len(s)
<1>1. Len(s) \in Nat /\ DOMAIN s = 1 .. Len(s) /\ \A n \in 1 .. Len(s) : s[n] \in T
  BY SMTT(60)
<1>2. ASSUME NEW n \in 1 .. Len(s)
      PROVE  (IF n \in I THEN <<s[n]>> ELSE <<>>) \in Seq(T)
  BY <1>1, SMTT(60)
<1>3. Picks(s, I) \in [1 .. Len(s) -> Seq(T)]
  BY <1>1, <1>2 DEF Picks
<1> QED
  BY <1>1, <1>3, SeqOfFcn

\* Picked is the last value of its recursion.
LEMMA PickedIs ==
    ASSUME NEW T, NEW s \in Seq(T), NEW I
    PROVE  Picked(s, I) = PickedUpTo(s, I)[Len(s)]
  BY PicksType, JoinedIs DEF Picked, Picks, PickedUpTo

\* An element is taken if its position is in I.
LEMMA PickedSteps ==
    ASSUME NEW T, NEW s \in Seq(T), NEW I
    PROVE  /\ PickedUpTo(s, I) \in [0 .. Len(s) -> Seq(T)]
           /\ PickedUpTo(s, I)[0] = <<>>
           /\ \A n \in Nat : n < Len(s) =>
                PickedUpTo(s, I)[n + 1] =
                  IF n + 1 \in I THEN Append(PickedUpTo(s, I)[n], s[n + 1])
                  ELSE PickedUpTo(s, I)[n]
<1> DEFINE p == PickedUpTo(s, I)
           N == Len(s)
<1>1. /\ p \in [0 .. N -> Seq(T)] /\ p[0] = <<>>
      /\ \A n \in Nat : n < N => p[n + 1] = p[n] \o Picks(s, I)[n + 1]
  BY PicksType, JoinedSteps, ZenonT(60) DEF PickedUpTo
<1>2. N \in Nat /\ \A n \in 1 .. N : s[n] \in T
  BY SMTT(60)
<1> HIDE DEF p
<1>3. ASSUME NEW n \in Nat, n < N
      PROVE  p[n + 1] = IF n + 1 \in I THEN Append(p[n], s[n + 1]) ELSE p[n]
  <2>1. p[n] \in Seq(T) /\ s[n + 1] \in T
    BY <1>1, <1>2, <1>3, SMTT(60)
  <2>2. Picks(s, I)[n + 1] = IF n + 1 \in I THEN <<s[n + 1]>> ELSE <<>>
    BY <1>2, <1>3, SMTT(60) DEF Picks
  <2>3. p[n + 1] = p[n] \o Picks(s, I)[n + 1]
    BY <1>1, <1>3
  <2>4. CASE n + 1 \in I
    BY <2>1, <2>2, <2>3, <2>4, SMTT(60)
  <2>5. CASE n + 1 \notin I
    BY <2>1, <2>2, <2>3, <2>5, SMTT(60)
  <2> QED
    BY <2>4, <2>5
<1> QED
  BY <1>1, <1>3 DEF p

\* It holds every element that is picked ...
LEMMA PickedHas ==
    ASSUME NEW T, NEW s \in Seq(T), NEW I, NEW i \in I \cap DOMAIN s
    PROVE  s[i] \in Range(Picked(s, I))
<1> DEFINE q == PickedUpTo(s, I)
           S == {n \in Nat : i <= n /\ n <= Len(s) => s[i] \in Range(q[n])}
<1>1. /\ q \in [0 .. Len(s) -> Seq(T)]
      /\ \A n \in Nat : n < Len(s) =>
           q[n + 1] = IF n + 1 \in I THEN Append(q[n], s[n + 1]) ELSE q[n]
  BY PickedSteps, SMTT(60)
<1>2. i \in 1 .. Len(s) /\ Len(s) \in Nat
  BY SMTT(60)
<1> HIDE DEF q
<1>3. 0 \in S
  BY <1>2, SMTT(60)
<1>4. ASSUME NEW n \in Nat, n \in S PROVE n + 1 \in S
  <2> SUFFICES ASSUME i <= n + 1, n + 1 <= Len(s) PROVE s[i] \in Range(q[n + 1])
    BY SMTT(60)
  <2>1. n \in 0 .. Len(s) /\ n + 1 \in 1 .. Len(s) /\ n < Len(s)
    BY <1>2, SMTT(60)
  <2>2. /\ q[n] \in Seq(T) /\ s[n + 1] \in T
        /\ q[n + 1] = IF n + 1 \in I THEN Append(q[n], s[n + 1]) ELSE q[n]
    BY <1>1, <2>1, SMTT(60)
  <2>3. CASE i = n + 1
    <3>1. q[n + 1] = Append(q[n], s[n + 1])
      BY <2>2, <2>3
    <3>2. /\ Len(q[n]) + 1 \in DOMAIN q[n + 1]
          /\ q[n + 1][Len(q[n]) + 1] = s[n + 1]
      BY <2>2, <3>1, SMTT(60)
    <3> QED
      BY <2>3, <3>2 DEF Range
  <2>4. CASE i <= n
    <3>1. PICK k \in DOMAIN q[n] : q[n][k] = s[i]
      BY <1>4, <2>4, <2>1, SMTT(60) DEF Range
    <3>2. k \in DOMAIN q[n + 1] /\ q[n + 1][k] = s[i]
      BY <2>2, <3>1, SMTT(60)
    <3> QED
      BY <3>2 DEF Range
  <2> QED
    BY <1>2, <2>3, <2>4, SMTT(60)
<1> HIDE DEF S
<1>5. Len(s) \in S
  BY <1>2, <1>3, <1>4, SetInduction
<1> QED
  BY <1>2, <1>5, PickedIs, SMTT(60) DEF S, q

\* ... and is the sequence itself if all are.
LEMMA PickedAll ==
    ASSUME NEW T, NEW s \in Seq(T), NEW I, DOMAIN s \subseteq I
    PROVE  Picked(s, I) = s
<1>1. \A n \in 1 .. Len(s) : Picks(s, I)[n] = <<s[n]>>
  BY SMTT(60) DEF Picks
<1>2. Joined(Picks(s, I)) = s
  BY <1>1, PicksType, JoinedSingles, SMTT(60)
<1> QED
  BY <1>2 DEF Picked, Picks

-----------------------------------------------------------------------------
(* What `service enable` saves.                                            *)

Names == Switches \cup Options

\* The strings that occur, and those that are not empty.
Strings == STRING \cup Names \cup {"here", "home", "on"}
Words == Strings \ {""}

\* A switch is no option with a value, and no name is empty.
LEMMA NamesDisjoint ==
    /\ \A o \in Switches : o \notin Options /\ o \notin PathOptions /\ o \notin ListOptions
    /\ ListOptions \subseteq Options /\ PathOptions \subseteq Options
    /\ \A o \in Names : o \in Words
<1> USE DEF Names, Switches, Options, ListOptions, ReplacingLists, ExtendingLists, ScalarOptions,
            PathOptions
<1>1. \A o \in Switches : o \notin Options /\ o \notin PathOptions /\ o \notin ListOptions
  OBVIOUS
<1>2. ListOptions \subseteq Options /\ PathOptions \subseteq Options
  OBVIOUS
<1>3. \A o \in Names : o \in Words
  BY ZenonT(60) DEF Words, Strings
<1> QED
  BY <1>1, <1>2, <1>3

\* OptionOrder has every option once.
LEMMA Ordered ==
    /\ DOMAIN OptionOrder = 1 .. 24
    /\ \A i \in 1 .. 24 : OptionOrder[i] \in Names
    /\ \A o \in Names : \E i \in 1 .. 24 : OptionOrder[i] = o
    /\ \A i, j \in 1 .. 24 : OptionOrder[i] = OptionOrder[j] => i = j
<1>1. DOMAIN OptionOrder = 1 .. 24 /\ \A i \in 1 .. 24 : OptionOrder[i] \in Names
  BY SMTT(60) DEF OptionOrder, Names, Switches, Options, ListOptions, ReplacingLists, ExtendingLists,
         ScalarOptions
<1>2. \A o \in Names : \E i \in 1 .. 24 : OptionOrder[i] = o
  BY SMTT(60) DEF OptionOrder, Names, Switches, Options, ListOptions, ReplacingLists, ExtendingLists,
         ScalarOptions
<1>3. \A i, j \in 1 .. 24 : OptionOrder[i] = OptionOrder[j] => i = j
  BY SMTT(60) DEF OptionOrder
<1> QED
  BY <1>1, <1>2, <1>3

\* The values that an option has on the command line, with absolute paths.
Typed(o) ==
    IF ~Given(typed, o) THEN <<>> ELSE IF o \in ListOptions THEN typed[o] ELSE <<typed[o]>>
Placed(o) == Located(o, Typed(o), "here")

\* What is pushed for a value.
Push(o, v) == IF o \in Switches THEN <<o>> ELSE <<o, v>>
Pushable ==
    {p \in Seq(Words) : \/ Len(p) = 1 /\ p[1] \in Switches
                        \/ Len(p) = 2 /\ p[1] \in Options}

\* A push has one of two forms.
LEMMA PushType ==
    ASSUME NEW o \in Names, NEW v \in Words
    PROVE  Push(o, v) \in Pushable
<1>1. o \in Words /\ (o \in Switches \/ (o \in Options /\ o \notin Switches))
  BY NamesDisjoint DEF Names
<1>2. CASE o \in Switches
  <2>1. <<o>> \in Seq(Words) /\ Len(<<o>>) = 1 /\ <<o>>[1] = o
    BY <1>1, SMTT(60)
  <2> QED
    BY <1>2, <2>1 DEF Push, Pushable
<1>3. CASE o \in Options /\ o \notin Switches
  <2>1. <<o, v>> \in Seq(Words) /\ Len(<<o, v>>) = 2 /\ <<o, v>>[1] = o
    BY <1>1, SMTT(60)
  <2> QED
    BY <1>3, <2>1 DEF Push, Pushable
<1> QED
  BY <1>1, <1>2, <1>3

\* A command line has values that are not empty, except that a switch has none.
LEMMA TypedType ==
    ASSUME IsCommandLine(typed), NoEmptyValue, NEW o \in Names
    PROVE  /\ Typed(o) \in Seq(Words) /\ Placed(o) \in Seq(Words)
           /\ Len(Placed(o)) = Len(Typed(o))
           /\ o \in Switches /\ Given(typed, o) => Placed(o) = <<"on">>
           /\ Given(typed, o) <=> Placed(o) # <<>>
<1>1. CASE ~Given(typed, o)
  <2>1. Typed(o) = <<>>
    BY <1>1 DEF Typed
  <2>2. Placed(o) = <<>>
    BY <2>1, SMTT(60) DEF Placed, Located
  <2> QED
    BY <1>1, <2>1, <2>2, SMTT(60)
<1>2. CASE Given(typed, o) /\ o \in Switches
  <2>1. Typed(o) = <<"on">> /\ o \notin PathOptions
    BY <1>2, NamesDisjoint DEF Typed, IsCommandLine, Given
  <2>2. Placed(o) = <<"on">>
    BY <2>1 DEF Placed, Located
  <2>3. "on" \in Words
    BY DEF Words, Strings
  <2> QED
    BY <1>2, <2>1, <2>2, <2>3, SMTT(60)
<1>3. CASE Given(typed, o) /\ o \in Options
  <2>1. o \notin Switches
    BY <1>3, NamesDisjoint
  <2>2. Typed(o) \in Seq(Words) /\ Typed(o) # <<>>
    <3>1. CASE o \in ListOptions
      <4>1. typed[o] \in Seq(STRING) /\ typed[o] # <<>>
        BY <1>3, <2>1, <3>1 DEF IsCommandLine, Given
      <4>2. "" \notin Range(typed[o])
        BY <1>3, <3>1 DEF NoEmptyValue, Given
      <4>3. \A i \in 1 .. Len(typed[o]) : typed[o][i] \in Words
        <5> SUFFICES ASSUME NEW i \in 1 .. Len(typed[o]) PROVE typed[o][i] \in Words
          OBVIOUS
        <5>1. typed[o][i] \in STRING /\ i \in DOMAIN typed[o]
          BY <4>1, SMTT(60)
        <5>2. typed[o][i] # ""
          BY <4>2, <5>1 DEF Range
        <5> QED
          BY <5>1, <5>2 DEF Words, Strings
      <4>4. typed[o] \in [1 .. Len(typed[o]) -> Words] /\ Len(typed[o]) \in Nat
        BY <4>1, <4>3, SMTT(60)
      <4>5. typed[o] \in Seq(Words)
        BY <4>4, SeqOfFcn
      <4> QED
        BY <1>3, <3>1, <4>1, <4>5 DEF Typed
    <3>2. CASE o \notin ListOptions
      <4>1. typed[o] \in Words
        BY <1>3, <2>1, <3>2 DEF IsCommandLine, NoEmptyValue, Given, Words, Strings
      <4> QED
        BY <1>3, <3>2, <4>1, SMTT(60) DEF Typed
    <3> QED
      BY <3>1, <3>2
  <2>3. Placed(o) \in Seq(Words) /\ Len(Placed(o)) = Len(Typed(o))
    <3> DEFINE s == Typed(o)
    <3>1. s \in Seq(Words) /\ Len(s) \in Nat /\ DOMAIN s = 1 .. Len(s)
      BY <2>2, SMTT(60)
    <3> HIDE DEF s
    <3>2. \A i \in 1 .. Len(s) : Absolute(s[i], "here") \in Words
      <4>1. \A i \in 1 .. Len(s) : s[i] \in Words
        BY <3>1, SMTT(60)
      <4>2. "here" \in Words
        BY DEF Words, Strings
      <4> QED
        BY <4>1, <4>2 DEF Absolute
    <3>3. [i \in DOMAIN s |-> Absolute(s[i], "here")] \in [1 .. Len(s) -> Words]
      BY <3>1, <3>2
    <3>4. Located(o, s, "here") \in Seq(Words) /\ Len(Located(o, s, "here")) = Len(s)
      BY <3>1, <3>3, SeqOfFcn DEF Located
    <3> QED
      BY <3>4 DEF s, Placed
  <2>4. Placed(o) # <<>>
    BY <2>2, <2>3, SMTT(60)
  <2> QED
    BY <1>3, <2>1, <2>2, <2>3, <2>4
<1> QED
  BY <1>1, <1>2, <1>3 DEF Names

\* Each value of an option is pushed.
LEMMA PushedIs ==
    ASSUME IsCommandLine(typed), NoEmptyValue, NEW o \in Names
    PROVE  /\ Pushed(o) \in Seq(Pushable) /\ Len(Pushed(o)) = Len(Placed(o))
           /\ \A n \in 1 .. Len(Placed(o)) : Pushed(o)[n] = Push(o, Placed(o)[n])
<1> DEFINE s == Typed(o)
           t == Placed(o)
<1>1. /\ s \in Seq(Words) /\ t \in Seq(Words) /\ Len(t) = Len(s)
      /\ o \in Switches /\ Given(typed, o) => t = <<"on">>
  BY TypedType
<1>2. \A n \in 1 .. Len(t) : Push(o, t[n]) \in Pushable
  BY <1>1, PushType, SMTT(60)
<1>3. Len(Pushed(o)) = Len(t) /\ Len(t) \in Nat /\ DOMAIN Pushed(o) = 1 .. Len(t)
      /\ Pushed(o) = [n \in 1 .. Len(t) |-> Pushed(o)[n]]
      /\ \A n \in 1 .. Len(t) : Pushed(o)[n] = Push(o, t[n])
  <2>1. CASE ~Given(typed, o)
    <3>1. Pushed(o) = <<>> /\ s = <<>>
      BY <2>1 DEF Pushed, Typed
    <3> HIDE DEF s, t
    <3> QED
      BY <1>1, <3>1, SMTT(60)
  <2>2. CASE Given(typed, o) /\ o \in Switches
    <3>1. Pushed(o) = <<<<o>>>> /\ t = <<"on">> /\ Push(o, "on") = <<o>>
      BY <1>1, <2>2 DEF Pushed, push_switch, Push
    <3> HIDE DEF s, t
    <3> QED
      BY <3>1, SMTT(60)
  <2>3. CASE Given(typed, o) /\ o \in Options
    <3>1. o \notin Switches
      BY <2>3, NamesDisjoint
    <3>2. \A v : push_option(o, v) = Push(o, LocatedValue(o, v, "here"))
      BY <3>1 DEF push_option, push_path_option, Push, LocatedValue
    <3>3. \A n \in 1 .. Len(s) : t[n] = LocatedValue(o, s[n], "here")
      BY <1>1, SMTT(60) DEF Placed, Located, LocatedValue
    <3>4. CASE o \in ListOptions
      <4>1. s = typed[o] /\ Pushed(o) = [i \in DOMAIN s |-> push_option(o, s[i])]
        BY <2>3, <3>1, <3>4 DEF Typed, Pushed
      <4>2. DOMAIN s = 1 .. Len(s) /\ Len(s) \in Nat
        BY <1>1, SMTT(60)
      <4> HIDE DEF s, t
      <4>3. /\ DOMAIN Pushed(o) = 1 .. Len(s)
            /\ \A n \in 1 .. Len(s) : Pushed(o)[n] = push_option(o, s[n])
        BY <4>1, <4>2
      <4>4. \A n \in 1 .. Len(s) : Pushed(o)[n] = Push(o, t[n])
        BY <3>2, <3>3, <4>3
      <4>5. Pushed(o) = [n \in 1 .. Len(s) |-> Pushed(o)[n]]
        BY <4>1, <4>2, <4>3
      <4>6. Len(Pushed(o)) = Len(s)
        BY <4>2, <4>3, SMTT(60)
      <4> QED
        BY <1>1, <4>2, <4>3, <4>4, <4>5, <4>6
    <3>5. CASE o \notin ListOptions
      <4>1. s = <<typed[o]>> /\ Pushed(o) = <<push_option(o, typed[o])>>
        BY <2>3, <3>1, <3>5 DEF Typed, Pushed
      <4>2. Len(s) = 1 /\ s[1] = typed[o] /\ 1 \in 1 .. Len(s)
        BY <4>1, SMTT(60)
      <4> HIDE DEF s, t
      <4>3. push_option(o, typed[o]) = Push(o, t[1])
        BY <3>2, <3>3, <4>2
      <4> QED
        BY <1>1, <4>1, <4>2, <4>3, SMTT(60)
    <3> QED
      BY <3>4, <3>5
  <2> QED
    BY <2>1, <2>2, <2>3 DEF Names
<1> HIDE DEF s, t
<1>4. Pushed(o) \in [1 .. Len(t) -> Pushable]
  BY <1>2, <1>3
<1>5. Pushed(o) \in Seq(Pushable)
  BY <1>3, <1>4, SeqOfFcn
<1> QED
  BY <1>3, <1>5 DEF t

\* The values that pushes hold for an option.
ValueIn(p) == IF Len(p) = 1 THEN "on" ELSE p[2]
ValuesFor(ps, o) == [n \in DOMAIN ps |-> IF ps[n][1] = o THEN <<ValueIn(ps[n])>> ELSE <<>>]

\* The values for o come in as many parts as there are pushes.
LEMMA ValuesForType ==
    ASSUME NEW ps \in Seq(Pushable), NEW o
    PROVE  ValuesFor(ps, o) \in Seq(Seq(Words)) /\ Len(ValuesFor(ps, o)) = Len(ps)
<1>1. Len(ps) \in Nat /\ DOMAIN ps = 1 .. Len(ps) /\ \A n \in 1 .. Len(ps) : ps[n] \in Pushable
  BY SMTT(60)
<1>2. \A p \in Pushable : ValueIn(p) \in Words
  <2> SUFFICES ASSUME NEW p \in Pushable PROVE ValueIn(p) \in Words
    OBVIOUS
  <2>1. p \in Seq(Words) /\ (Len(p) = 1 \/ Len(p) = 2)
    BY DEF Pushable
  <2>2. "on" \in Words
    BY DEF Words, Strings
  <2> QED
    BY <2>1, <2>2, SMTT(60) DEF ValueIn
<1>3. ASSUME NEW n \in 1 .. Len(ps)
      PROVE  (IF ps[n][1] = o THEN <<ValueIn(ps[n])>> ELSE <<>>) \in Seq(Words)
  <2>1. ValueIn(ps[n]) \in Words
    BY <1>1, <1>2
  <2> QED
    BY <2>1, SMTT(60)
<1>4. ValuesFor(ps, o) \in [1 .. Len(ps) -> Seq(Words)]
  BY <1>1, <1>3 DEF ValuesFor
<1> QED
  BY <1>1, <1>4, SeqOfFcn

\* The pushes for an option hold its values, and none of another option.
LEMMA PushedValues ==
    ASSUME IsCommandLine(typed), NoEmptyValue, NEW o \in Names, NEW x
    PROVE  Joined(ValuesFor(Pushed(o), x)) = IF x = o THEN Placed(o) ELSE <<>>
<1> DEFINE ps == Pushed(o)
           t == Placed(o)
           vs == ValuesFor(ps, x)
<1>1. /\ ps \in Seq(Pushable) /\ Len(ps) = Len(t)
      /\ \A n \in 1 .. Len(t) : ps[n] = Push(o, t[n])
  BY PushedIs
<1>2. /\ t \in Seq(Words)
      /\ o \in Switches => t = <<>> \/ t = <<"on">>
  BY TypedType
<1> HIDE DEF ps, t
<1>3. vs \in Seq(Seq(Words)) /\ Len(vs) = Len(t)
  BY <1>1, ValuesForType
<1>4. \A n \in 1 .. Len(t) : Push(o, t[n])[1] = o /\ ValueIn(Push(o, t[n])) = t[n]
  <2> SUFFICES ASSUME NEW n \in 1 .. Len(t)
               PROVE  Push(o, t[n])[1] = o /\ ValueIn(Push(o, t[n])) = t[n]
    OBVIOUS
  <2>1. CASE o \in Switches
    <3>1. t[n] = "on"
      BY <1>2, <2>1, SMTT(60)
    <3>2. Push(o, t[n]) = <<o>>
      BY <2>1 DEF Push
    <3> QED
      BY <3>1, <3>2, SMTT(60) DEF ValueIn
  <2>2. CASE o \notin Switches
    <3>1. Push(o, t[n]) = <<o, t[n]>>
      BY <2>2 DEF Push
    <3> QED
      BY <3>1, SMTT(60) DEF ValueIn
  <2> QED
    BY <2>1, <2>2
<1>5. \A n \in 1 .. Len(t) : vs[n] = IF o = x THEN <<t[n]>> ELSE <<>>
  <2> SUFFICES ASSUME NEW n \in 1 .. Len(t)
               PROVE  vs[n] = IF o = x THEN <<t[n]>> ELSE <<>>
    OBVIOUS
  <2>1. n \in DOMAIN ps /\ ps[n] = Push(o, t[n])
    BY <1>1, SMTT(60)
  <2>2. vs[n] = IF ps[n][1] = x THEN <<ValueIn(ps[n])>> ELSE <<>>
    BY <2>1 DEF ValuesFor
  <2> QED
    BY <1>4, <2>1, <2>2
<1> HIDE DEF vs
<1>6. ASSUME x = o PROVE Joined(vs) = t
  <2>1. \A n \in 1 .. Len(t) : vs[n] = <<t[n]>>
    BY <1>5, <1>6
  <2> QED
    BY <1>2, <1>3, <2>1, JoinedSingles
<1>7. ASSUME x # o PROVE Joined(vs) = <<>>
  <2>1. \A n \in 1 .. Len(vs) : vs[n] = <<>>
    BY <1>3, <1>5, <1>7
  <2>2. Len(vs) \in Nat /\ vs = [n \in 1 .. Len(vs) |-> vs[n]] /\ <<>> \in Seq({})
    BY <1>3, SMTT(60)
  <2>3. vs \in [1 .. Len(vs) -> Seq({})]
    BY <2>1, <2>2
  <2>4. vs \in Seq(Seq({}))
    BY <2>2, <2>3, SeqOfFcn
  <2> QED
    BY <2>1, <2>4, JoinedEmpties
<1> QED
  BY <1>6, <1>7 DEF vs, ps, t

\* The values of two lists of pushes are the values of the first and then of the second.
LEMMA ValuesConcat ==
    ASSUME NEW a \in Seq(Pushable), NEW b \in Seq(Pushable), NEW o
    PROVE  ValuesFor(a \o b, o) = ValuesFor(a, o) \o ValuesFor(b, o)
<1> DEFINE Values(p) == IF p[1] = o THEN <<ValueIn(p)>> ELSE <<>>
           c == a \o b
           va == ValuesFor(a, o)
           vb == ValuesFor(b, o)
           vc == ValuesFor(c, o)
<1>1. /\ c \in Seq(Pushable) /\ Len(c) = Len(a) + Len(b) /\ Len(a) \in Nat /\ Len(b) \in Nat
      /\ \A n \in 1 .. Len(c) : c[n] = IF n <= Len(a) THEN a[n] ELSE b[n - Len(a)]
  BY ConcatProperties, SMTT(60)
<1> HIDE DEF c
<1>2. /\ va \in Seq(Seq(Words)) /\ Len(va) = Len(a)
      /\ vb \in Seq(Seq(Words)) /\ Len(vb) = Len(b)
      /\ vc \in Seq(Seq(Words)) /\ Len(vc) = Len(c)
  BY <1>1, ValuesForType
<1>3. /\ \A n \in 1 .. Len(a) : va[n] = Values(a[n])
      /\ \A n \in 1 .. Len(b) : vb[n] = Values(b[n])
      /\ \A n \in 1 .. Len(c) : vc[n] = Values(c[n])
  <2>1. DOMAIN a = 1 .. Len(a) /\ DOMAIN b = 1 .. Len(b) /\ DOMAIN c = 1 .. Len(c)
    BY <1>1, SMTT(60)
  <2> QED
    BY <2>1 DEF ValuesFor
<1> HIDE DEF va, vb, vc, Values
<1>4. /\ va \o vb \in Seq(Seq(Words)) /\ Len(va \o vb) = Len(a) + Len(b)
      /\ \A n \in 1 .. Len(c) : (va \o vb)[n] = IF n <= Len(a) THEN va[n] ELSE vb[n - Len(a)]
  <2>1. /\ va \o vb \in Seq(Seq(Words)) /\ Len(va \o vb) = Len(va) + Len(vb)
        /\ \A n \in 1 .. Len(va) + Len(vb) :
             (va \o vb)[n] = IF n <= Len(va) THEN va[n] ELSE vb[n - Len(va)]
    BY <1>2, ConcatProperties, ZenonT(60)
  <2> QED
    BY <1>1, <1>2, <2>1
<1>5. ASSUME NEW n \in 1 .. Len(c) PROVE vc[n] = (va \o vb)[n]
  <2>1. CASE n <= Len(a)
    <3>1. n \in 1 .. Len(a)
      BY <1>1, <2>1, SMTT(60)
    <3> QED
      BY <1>1, <1>3, <1>4, <2>1, <3>1, ZenonT(60)
  <2>2. CASE ~(n <= Len(a))
    <3>1. n - Len(a) \in 1 .. Len(b)
      BY <1>1, <2>2, SMTT(60)
    <3> QED
      BY <1>1, <1>3, <1>4, <2>2, <3>1, ZenonT(60)
  <2> QED
    BY <2>1, <2>2
<1>6. vc = va \o vb
  BY <1>1, <1>2, <1>4, <1>5, SeqEqual
<1> QED
  BY <1>6 DEF va, vb, vc, c

PushedSeq == [i \in DOMAIN OptionOrder |-> Pushed(OptionOrder[i])]
Pushes == Joined(PushedSeq)

\* The saved options are the pushes, joined; try_saved_args drops none of them if no
\* value is empty.
LEMMA PushesType ==
    ASSUME IsCommandLine(typed), NoEmptyValue
    PROVE  /\ PushedSeq \in Seq(Seq(Pushable)) /\ Len(PushedSeq) = 24
           /\ Pushes \in Seq(Pushable) /\ Pushes \in Seq(Seq(Words))
           /\ startup_args = Joined(Pushes) /\ startup_args \in Seq(Words)
           /\ try_saved_args = startup_args
<1>1. DOMAIN OptionOrder = 1 .. 24 /\ \A i \in 1 .. 24 : OptionOrder[i] \in Names
  BY Ordered
<1>2. \A i \in 1 .. 24 : Pushed(OptionOrder[i]) \in Seq(Pushable)
  BY <1>1, PushedIs
<1>3. PushedSeq \in [1 .. 24 -> Seq(Pushable)]
  BY <1>1, <1>2 DEF PushedSeq
<1>4. PushedSeq \in Seq(Seq(Pushable)) /\ Len(PushedSeq) = 24
  BY <1>3, SeqOfFcn
<1>5. Pushes \in Seq(Pushable)
  BY <1>4, JoinedType DEF Pushes
<1>6. Pushes \in Seq(Seq(Words))
  <2>1. Pushable \subseteq Seq(Words)
    BY DEF Pushable
  <2> QED
    BY <1>5, <2>1, SeqMonotonic
<1>7. startup_args = Joined(Pushes)
  BY DEF startup_args, Pushes, PushedSeq
<1>8. startup_args \in Seq(Words)
  BY <1>6, <1>7, JoinedType
<1>9. try_saved_args = startup_args
  <2> DEFINE saved == startup_args
             I == {i \in DOMAIN saved : saved[i] # ""}
  <2>1. try_saved_args = Picked(saved, I)
    BY DEF try_saved_args
  <2> HIDE DEF saved
  <2>2. \A i \in DOMAIN saved : saved[i] \in Words
    BY <1>8, SMTT(60) DEF saved
  <2>3. DOMAIN saved \subseteq I
    BY <2>2 DEF Words, Strings
  <2>4. Picked(saved, I) = saved
    <3> HIDE DEF I
    <3> QED
      BY <1>8, <2>3, PickedAll DEF saved
  <2> QED
    BY <2>1, <2>4 DEF saved
<1> QED
  BY <1>4, <1>5, <1>6, <1>7, <1>8, <1>9

\* Together they hold the values of every option.
LEMMA PushesValues ==
    ASSUME IsCommandLine(typed), NoEmptyValue, NEW o \in Names
    PROVE  Joined(ValuesFor(Pushes, o)) = Placed(o)
<1> DEFINE q == JoinedUpTo(PushedSeq)
           Passed(i) == \E k \in 1 .. i : OptionOrder[k] = o
           Held(i) == Joined(ValuesFor(q[i], o)) = IF Passed(i) THEN Placed(o) ELSE <<>>
           S == {i \in Nat : i <= 24 => Held(i)}
<1>1. /\ q \in [0 .. 24 -> Seq(Pushable)] /\ q[0] = <<>>
      /\ \A i \in Nat : i < 24 => q[i + 1] = q[i] \o PushedSeq[i + 1]
  BY PushesType, JoinedSteps, ZenonT(60)
<1>2. q[24] = Pushes
  BY PushesType, JoinedIs DEF Pushes
<1> HIDE DEF q
<1>3. Placed(o) \in Seq(Words)
  BY TypedType
<1>4. 0 \in S
  <2>1. ~Passed(0)
    BY SMTT(60)
  <2>2. ValuesFor(<<>>, o) = <<>>
    BY SMTT(60) DEF ValuesFor
  <2>3. Held(0)
    <3> HIDE DEF Passed
    <3> QED
      BY <1>1, <2>1, <2>2, JoinedNothing
  <2> HIDE DEF Held
  <2> QED
    BY <2>3
<1>5. ASSUME NEW i \in Nat, i \in S PROVE i + 1 \in S
  <2>1. SUFFICES ASSUME i + 1 <= 24 PROVE Held(i + 1)
    <3> HIDE DEF Held
    <3> QED
      BY SMTT(60)
  <2>2. i < 24 /\ i <= 24 /\ i \in 0 .. 24 /\ i + 1 \in 1 .. 24
    BY <2>1, SMTT(60)
  <2>3. Held(i)
    <3> HIDE DEF Held
    <3> QED
      BY <1>5, <2>2
  <2> DEFINE x == OptionOrder[i + 1]
  <2>4. x \in Names /\ PushedSeq[i + 1] = Pushed(x)
    BY <2>2, Ordered DEF PushedSeq
  <2>5. Pushed(x) \in Seq(Pushable) /\ q[i] \in Seq(Pushable) /\ q[i + 1] = q[i] \o Pushed(x)
    BY <1>1, <2>2, <2>4, PushedIs
  <2>6. ValuesFor(q[i + 1], o) = ValuesFor(q[i], o) \o ValuesFor(Pushed(x), o)
    <3> DEFINE a == q[i]
               b == Pushed(x)
    <3>1. a \in Seq(Pushable) /\ b \in Seq(Pushable)
      BY <2>5
    <3> HIDE DEF a, b
    <3>2. ValuesFor(a \o b, o) = ValuesFor(a, o) \o ValuesFor(b, o)
      BY <3>1, ValuesConcat, SMTT(60)
    <3> QED
      BY <2>5, <3>2 DEF a, b
  <2>7. ValuesFor(q[i], o) \in Seq(Seq(Words)) /\ ValuesFor(Pushed(x), o) \in Seq(Seq(Words))
    BY <2>5, ValuesForType
  <2>8. Joined(ValuesFor(q[i + 1], o)) =
          Joined(ValuesFor(q[i], o)) \o Joined(ValuesFor(Pushed(x), o))
    BY <2>6, <2>7, JoinedConcat
  <2>9. Joined(ValuesFor(Pushed(x), o)) = IF o = x THEN Placed(x) ELSE <<>>
    BY <2>4, PushedValues
  <2>10. Passed(i + 1) <=> Passed(i) \/ x = o
    BY <2>2, SMTT(60)
  <2>11. Passed(i) => x # o
    <3> SUFFICES ASSUME NEW k \in 1 .. i, OptionOrder[k] = o, x = o PROVE FALSE
      OBVIOUS
    <3>1. k \in 1 .. 24 /\ k # i + 1
      BY <2>2, SMTT(60)
    <3> QED
      BY <2>2, <3>1, Ordered
  <2> HIDE DEF Passed, x
  <2>12. CASE o = x
    <3>1. Joined(ValuesFor(q[i + 1], o)) = <<>> \o Placed(o)
      BY <2>3, <2>8, <2>9, <2>11, <2>12
    <3>2. <<>> \o Placed(o) = Placed(o)
      BY <1>3, ConcatEmptySeq
    <3> QED
      BY <2>10, <2>12, <3>1, <3>2
  <2>13. CASE o # x
    <3>1. Joined(ValuesFor(q[i + 1], o)) = Joined(ValuesFor(q[i], o)) \o <<>>
      BY <2>8, <2>9, <2>13
    <3>2. Joined(ValuesFor(q[i], o)) \o <<>> = Joined(ValuesFor(q[i], o))
      BY <2>7, JoinedType, ConcatEmptySeq, SMTT(60)
    <3> QED
      BY <2>3, <2>10, <2>13, <3>1, <3>2
  <2> QED
    BY <2>12, <2>13
<1> HIDE DEF S
<1>6. 24 \in S
  BY <1>4, <1>5, SetInduction
<1>7. Held(24)
  <2> HIDE DEF Held
  <2> QED
    BY <1>6, SMTT(60) DEF S
<1>8. Passed(24)
  BY Ordered
<1> QED
  BY <1>2, <1>7, <1>8

-----------------------------------------------------------------------------
(* The saved options are parsed to the ones that were typed.               *)

\* The values of an option among the first n pushes.
Taken(o, n) == JoinedUpTo(ValuesFor(Pushes, o))[n]

\* Taking all pushes gives an option the values that were typed.
LEMMA TakenSteps ==
    ASSUME IsCommandLine(typed), NoEmptyValue, NEW o \in Names
    PROVE  /\ Taken(o, 0) = <<>>
           /\ Taken(o, Len(Pushes)) = Placed(o)
           /\ \A n \in 0 .. Len(Pushes) : Taken(o, n) \in Seq(Words)
           /\ \A n \in Nat : n < Len(Pushes) =>
                Taken(o, n + 1) = IF Pushes[n + 1][1] = o
                                  THEN Append(Taken(o, n), ValueIn(Pushes[n + 1]))
                                  ELSE Taken(o, n)
<1> DEFINE vs == ValuesFor(Pushes, o)
           p == JoinedUpTo(vs)
           N == Len(Pushes)
<1>1. vs \in Seq(Seq(Words)) /\ Len(vs) = N /\ N \in Nat
  BY PushesType, ValuesForType, SMTT(60)
<1>2. /\ p \in [0 .. N -> Seq(Words)] /\ p[0] = <<>>
      /\ \A n \in Nat : n < N => p[n + 1] = p[n] \o vs[n + 1]
  BY <1>1, JoinedSteps
<1>3. p[N] = Placed(o)
  BY <1>1, JoinedIs, PushesValues
<1>4. \A n \in 0 .. N : Taken(o, n) = p[n]
  BY DEF Taken
<1>5. ASSUME NEW n \in Nat, n < N
      PROVE  p[n + 1] = IF Pushes[n + 1][1] = o THEN Append(p[n], ValueIn(Pushes[n + 1]))
                        ELSE p[n]
  <2>1. n + 1 \in DOMAIN Pushes /\ n \in 0 .. N /\ n + 1 \in 1 .. N
    BY <1>1, <1>5, PushesType, SMTT(60)
  <2>2. vs[n + 1] = IF Pushes[n + 1][1] = o THEN <<ValueIn(Pushes[n + 1])>> ELSE <<>>
    BY <2>1 DEF ValuesFor
  <2> HIDE DEF p
  <2>3. p[n] \in Seq(Words) /\ vs[n + 1] \in Seq(Words) /\ p[n + 1] = p[n] \o vs[n + 1]
    <3> HIDE DEF vs, N
    <3>1. p[n] \in Seq(Words)
      BY <1>2, <2>1
    <3>2. vs[n + 1] \in Seq(Words)
      BY <1>1, <2>1, SMTT(60)
    <3>3. p[n + 1] = p[n] \o vs[n + 1]
      BY <1>2, <1>5
    <3> QED
      BY <3>1, <3>2, <3>3
  <2> HIDE DEF vs
  <2>4. CASE Pushes[n + 1][1] = o
    <3>1. vs[n + 1] = <<ValueIn(Pushes[n + 1])>>
      BY <2>2, <2>4
    <3>2. p[n] \o <<ValueIn(Pushes[n + 1])>> = Append(p[n], ValueIn(Pushes[n + 1]))
      BY <2>3, <3>1, SMTT(60)
    <3> QED
      BY <2>3, <2>4, <3>1, <3>2
  <2>5. CASE Pushes[n + 1][1] # o
    BY <2>2, <2>3, <2>5, SMTT(60)
  <2> QED
    BY <2>4, <2>5
<1> HIDE DEF p, N
<1>6. /\ p[0] = <<>> /\ p[N] = Placed(o) /\ \A n \in 0 .. N : p[n] \in Seq(Words)
      /\ 0 \in 0 .. N /\ N \in 0 .. N /\ \A n \in Nat : n < N => n \in 0 .. N /\ n + 1 \in 0 .. N
  BY <1>1, <1>2, <1>3, SMTT(60)
<1> QED
  BY <1>4, <1>5, <1>6, ZenonT(60) DEF N

\* n of the pushes are parsed.
Position(n) ==
    /\ n \in 0 .. Len(Pushes)
    /\ tokens \in Seq(Words)
    /\ startup_args = JoinedUpTo(Pushes)[n] \o tokens
    /\ args = [o \in DOMAIN args |-> args[o]]
    /\ DOMAIN args = {o \in Names : Taken(o, n) # <<>>}
    /\ \A o \in DOMAIN args :
         args[o] = IF o \in Switches THEN "on"
                   ELSE IF o \in ListOptions THEN Taken(o, n) ELSE Last(Taken(o, n))

\* A process that Windows launches has everything to parse.
LEMMA FirstPosition ==
    ASSUME IsCommandLine(typed), NoEmptyValue, tokens = try_saved_args, args = NoFields
    PROVE  Position(0)
<1>1. Pushes \in Seq(Seq(Words)) /\ startup_args \in Seq(Words) /\ try_saved_args = startup_args
  BY PushesType
<1>2. JoinedUpTo(Pushes)[0] = <<>>
  BY <1>1, JoinedSteps
<1>3. <<>> \o startup_args = startup_args
  BY <1>1, ConcatEmptySeq
<1>4. 0 \in 0 .. Len(Pushes)
  BY <1>1, SMTT(60)
<1>5. DOMAIN args = {} /\ args = [o \in DOMAIN args |-> args[o]]
  BY DEF NoFields
<1>6. \A o \in Names : Taken(o, 0) = <<>>
  BY TakenSteps
<1> QED
  BY <1>1, <1>2, <1>3, <1>4, <1>5, <1>6 DEF Position

\* The tokens end with the last push ...
LEMMA NoMorePush ==
    ASSUME IsCommandLine(typed), NoEmptyValue, Position(Len(Pushes))
    PROVE  tokens = <<>>
<1> DEFINE s == startup_args
<1>1. s = JoinedUpTo(Pushes)[Len(Pushes)] \o tokens /\ tokens \in Seq(Words)
  BY DEF Position
<1>2. s = JoinedUpTo(Pushes)[Len(Pushes)] /\ s \in Seq(Words)
  BY PushesType, JoinedIs
<1> HIDE DEF s
<1>3. \A t, u \in Seq(Words) : t = t \o u => u = <<>>
  BY SMTT(60)
<1> QED
  BY <1>1, <1>2, <1>3

\* ... and until then they begin with the next one.
LEMMA NextPush ==
    ASSUME IsCommandLine(typed), NoEmptyValue, NEW n, Position(n), n # Len(Pushes)
    PROVE  /\ n \in Nat /\ n < Len(Pushes) /\ Pushes[n + 1] \in Pushable
           /\ \E r \in Seq(Words) : /\ tokens = Pushes[n + 1] \o r
                                    /\ startup_args = JoinedUpTo(Pushes)[n + 1] \o r
<1> DEFINE N == Len(Pushes)
           p == JoinedUpTo(Pushes)
           x == Pushes[n + 1]
<1>1. /\ Pushes \in Seq(Seq(Words)) /\ N \in Nat /\ n \in 0 .. N /\ n \in Nat
      /\ tokens \in Seq(Words) /\ startup_args = p[n] \o tokens
      /\ startup_args = Joined(Pushes)
  BY PushesType, SMTT(60) DEF Position
<1>2. /\ p \in [0 .. N -> Seq(Words)] /\ p[N] = startup_args
      /\ \A m \in Nat : m < N => p[m + 1] = p[m] \o Pushes[m + 1]
  BY <1>1, JoinedSteps, JoinedIs
<1> HIDE DEF p
<1>4. n < N /\ n + 1 \in Nat /\ n + 1 <= N /\ n + 1 \in 1 .. N
  BY <1>1, SMTT(60)
<1>5. x \in Pushable /\ x \in Seq(Words) /\ p[n] \in Seq(Words) /\ p[n + 1] = p[n] \o x
  <2>1. x \in Pushable /\ x \in Seq(Words)
    BY <1>4, PushesType, SMTT(60)
  <2> QED
    BY <1>1, <1>2, <1>4, <2>1
<1>6. PICK r \in Seq(Words) : startup_args = p[n + 1] \o r
  <2>1. ASSUME NEW m \in Nat, m <= N
        PROVE  \E r \in Seq(Words) : Joined(Pushes) = p[m] \o r
    BY <1>1, <2>1, JoinedPrefix DEF p
  <2> QED
    BY <1>1, <1>4, <2>1
<1> HIDE DEF x
<1>7. tokens = x \o r
  <2>1. ASSUME NEW a \in Seq(Words), NEW c \in Seq(Words), NEW d \in Seq(Words)
        PROVE  (a \o c) \o d = a \o (c \o d) /\ c \o d \in Seq(Words)
    BY SMTT(60)
  <2>2. ASSUME NEW a \in Seq(Words), NEW c \in Seq(Words), NEW d \in Seq(Words),
               a \o c = a \o d
        PROVE  c = d
    BY <2>2, ConcatCancels
  <2> DEFINE y == x \o r
  <2>3. p[n] \o tokens = p[n] \o y /\ y \in Seq(Words)
    <3>1. (p[n] \o x) \o r = p[n] \o (x \o r) /\ x \o r \in Seq(Words)
      BY <1>5, <2>1, ZenonT(60)
    <3>2. p[n] \o tokens = (p[n] \o x) \o r
      BY <1>1, <1>5, <1>6, ZenonT(60)
    <3> QED
      BY <3>1, <3>2
  <2> HIDE DEF y
  <2>4. tokens = y
    BY <1>1, <1>5, <2>2, <2>3
  <2> QED
    BY <2>4 DEF y
<1> QED
  BY <1>1, <1>4, <1>5, <1>6, <1>7 DEF p, x

\* The first one and the first two elements of a sequence.
LEMMA TakeOne ==
    ASSUME NEW T, NEW s \in Seq(T), NEW t \in Seq(T), Len(s) = 1
    PROVE  Head(s \o t) = s[1] /\ Tail(s \o t) = t
<1>1. /\ s \o t \in Seq(T) /\ Len(s \o t) = 1 + Len(t) /\ Len(t) \in Nat
      /\ \A i \in 1 .. 1 + Len(t) : (s \o t)[i] = IF i <= 1 THEN s[i] ELSE t[i - 1]
  <2>1. /\ s \o t \in Seq(T) /\ Len(s \o t) = Len(s) + Len(t)
        /\ \A i \in 1 .. Len(s) + Len(t) :
             (s \o t)[i] = IF i <= Len(s) THEN s[i] ELSE t[i - Len(s)]
    BY ConcatProperties
  <2>2. Len(t) \in Nat
    BY SMTT(60)
  <2> QED
    BY <2>1, <2>2
<1> DEFINE u == s \o t
<1> HIDE DEF u
<1>2. u # <<>> /\ Head(u) = s[1] /\ Tail(u) \in Seq(T) /\ Len(Tail(u)) = Len(t)
  BY <1>1, SMTT(60) DEF u
<1>3. \A i \in 1 .. Len(t) : Tail(u)[i] = t[i]
  BY <1>1, <1>2, SMTT(60) DEF u
<1>4. Tail(u) = t
  BY <1>2, <1>3, SeqEqual
<1> QED
  BY <1>2, <1>4 DEF u

\* A push of an option with a value is two tokens.
LEMMA TakeTwo ==
    ASSUME NEW T, NEW s \in Seq(T), NEW t \in Seq(T), Len(s) = 2
    PROVE  Head(s \o t) = s[1] /\ (s \o t)[2] = s[2] /\ Tail(Tail(s \o t)) = t
<1>1. /\ s \o t \in Seq(T) /\ Len(s \o t) = 2 + Len(t) /\ Len(t) \in Nat
      /\ \A i \in 1 .. 2 + Len(t) : (s \o t)[i] = IF i <= 2 THEN s[i] ELSE t[i - 2]
  <2>1. /\ s \o t \in Seq(T) /\ Len(s \o t) = Len(s) + Len(t)
        /\ \A i \in 1 .. Len(s) + Len(t) :
             (s \o t)[i] = IF i <= Len(s) THEN s[i] ELSE t[i - Len(s)]
    BY ConcatProperties, ZenonT(60)
  <2>2. Len(t) \in Nat
    BY SMTT(60)
  <2> QED
    BY <2>1, <2>2
<1> DEFINE u == s \o t
           v == Tail(u)
<1> HIDE DEF u, v
<1>2. /\ u # <<>> /\ Head(u) = s[1] /\ u[2] = s[2] /\ v \in Seq(T) /\ Len(v) = 1 + Len(t)
      /\ \A i \in 1 .. 1 + Len(t) : v[i] = u[i + 1]
  BY <1>1, SMTT(60) DEF u, v
<1>3. /\ v # <<>> /\ Tail(v) \in Seq(T) /\ Len(Tail(v)) = Len(t)
      /\ \A i \in 1 .. Len(t) : Tail(v)[i] = v[i + 1]
  BY <1>1, <1>2, SMTT(60)
<1>4. \A i \in 1 .. Len(t) : Tail(v)[i] = t[i]
  <2> SUFFICES ASSUME NEW i \in 1 .. Len(t) PROVE Tail(v)[i] = t[i]
    OBVIOUS
  <2>1. i + 1 \in 1 .. 1 + Len(t) /\ i + 2 \in 1 .. 2 + Len(t) /\ (i + 1) + 1 = i + 2
        /\ (i + 2) - 2 = i /\ ~(i + 2 <= 2)
    BY <1>1, SMTT(60)
  <2>2. Tail(v)[i] = u[i + 2]
    BY <1>2, <1>3, <2>1
  <2>3. u[i + 2] = t[i]
    BY <1>1, <2>1 DEF u
  <2> QED
    BY <2>2, <2>3
<1>5. Tail(v) = t
  BY <1>3, <1>4, SeqEqual
<1> QED
  BY <1>2, <1>5 DEF u, v

\* from_args takes the next push.
LEMMA TakeNext ==
    ASSUME IsCommandLine(typed), NoEmptyValue, NEW n, Position(n), from_args
    PROVE  Position(n + 1)'
<1> DEFINE x == Pushes[n + 1]
           name == x[1]
           val == ValueIn(x)
           new == IF name \in Switches THEN "on"
                  ELSE IF name \in ListOptions THEN Append(ListOf(args, name), val) ELSE val
<1>1. tokens # <<>> /\ typed' = typed
  BY DEF from_args
<1>2. n \in 0 .. Len(Pushes) /\ Len(Pushes) \in Nat /\ n # Len(Pushes)
  <2>1. n \in 0 .. Len(Pushes) /\ Len(Pushes) \in Nat
    BY PushesType, SMTT(60) DEF Position
  <2>2. n = Len(Pushes) => Position(Len(Pushes))
    OBVIOUS
  <2> QED
    BY <1>1, <2>1, <2>2, NoMorePush
<1>3. n \in Nat /\ n < Len(Pushes) /\ x \in Pushable /\ n + 1 \in 0 .. Len(Pushes)
  BY <1>2, NextPush, SMTT(60)
<1>4. PICK r \in Seq(Words) : tokens = x \o r /\ startup_args = JoinedUpTo(Pushes)[n + 1] \o r
  BY <1>2, NextPush
<1>5. \/ Len(x) = 1 /\ name \in Switches /\ name \notin Options
      \/ Len(x) = 2 /\ name \in Options /\ name \notin Switches
  BY <1>3, NamesDisjoint DEF Pushable
<1>6. name \in Names
  BY <1>5 DEF Names
<1>7. tokens' = r /\ args' = With(args, name, new)
  <2> HIDE DEF x
  <2>1. x \in Seq(Words)
    BY <1>3 DEF Pushable
  <2>2. CASE Len(x) = 1 /\ name \in Switches /\ name \notin Options
    <3>1. Head(tokens) = name /\ Tail(tokens) = r
      BY <1>4, <2>1, <2>2, TakeOne
    <3> QED
      BY <2>2, <3>1 DEF from_args
  <2>3. CASE Len(x) = 2 /\ name \in Options /\ name \notin Switches
    <3>1. Head(tokens) = name /\ tokens[2] = x[2] /\ Tail(Tail(tokens)) = r
      BY <1>4, <2>1, <2>3, TakeTwo, ZenonT(60)
    <3>2. val = x[2]
      BY <2>3, SMTT(60) DEF ValueIn
    <3>3. /\ tokens' = Tail(Tail(tokens))
          /\ args' = With(args, name, IF name \in ListOptions
                                      THEN Append(ListOf(args, name), tokens[2])
                                      ELSE tokens[2])
      BY <2>3, <3>1 DEF from_args
    <3> QED
      BY <2>3, <3>1, <3>2, <3>3
  <2> QED
    BY <1>5, <2>2, <2>3
<1>8. \A o \in Names : /\ Taken(o, n) \in Seq(Words)
                       /\ Taken(o, n + 1) = IF name = o THEN Append(Taken(o, n), val)
                                            ELSE Taken(o, n)
  BY <1>2, <1>3, TakenSteps, SMTT(60)
<1>9. val \in Words
  <2>1. "on" \in Words
    BY DEF Words, Strings
  <2>2. x \in Seq(Words)
    BY <1>3 DEF Pushable
  <2> HIDE DEF x
  <2> QED
    BY <1>5, <2>1, <2>2, SMTT(60) DEF ValueIn
<1> HIDE DEF x, name, val
<1>10. name \in ListOptions => ListOf(args, name) = Taken(name, n)
  <2>1. name \in ListOptions => name \notin Switches
    BY NamesDisjoint
  <2> QED
    BY <1>6, <1>8, <2>1 DEF Position, ListOf, Given
<1>11. Taken(name, n + 1) # <<>> /\ Last(Taken(name, n + 1)) = val
  <2>1. Taken(name, n) \in Seq(Words) /\ Taken(name, n + 1) = Append(Taken(name, n), val)
    BY <1>6, <1>8
  <2>2. ASSUME NEW s \in Seq(Words), NEW v \in Words
        PROVE  Append(s, v) # <<>> /\ Last(Append(s, v)) = v
    BY SMTT(60) DEF Last
  <2> QED
    BY <1>9, <2>1, <2>2
<1>12. DOMAIN args' = {o \in Names : Taken(o, n + 1) # <<>>}
  <2>1. DOMAIN args' = DOMAIN args \cup {name}
    BY <1>7 DEF With
  <2>2. DOMAIN args = {o \in Names : Taken(o, n) # <<>>}
    BY DEF Position
  <2> QED
    BY <1>6, <1>8, <1>11, <2>1, <2>2
<1>13. args' = [o \in DOMAIN args' |-> args'[o]]
  BY <1>7 DEF With
<1>14. ASSUME NEW o \in DOMAIN args'
       PROVE  args'[o] = IF o \in Switches THEN "on"
                         ELSE IF o \in ListOptions THEN Taken(o, n + 1)
                         ELSE Last(Taken(o, n + 1))
  <2>1. CASE o = name
    <3>1. args'[o] = new
      BY <1>7, <2>1 DEF With
    <3>2. Taken(name, n + 1) = Append(Taken(name, n), val)
      BY <1>6, <1>8
    <3> QED
      BY <1>10, <1>11, <2>1, <3>1, <3>2
  <2>2. CASE o # name
    <3>1. o \in DOMAIN args /\ args'[o] = args[o]
      BY <1>7, <2>2 DEF With
    <3>2. o \in Names /\ Taken(o, n + 1) = Taken(o, n)
      BY <1>8, <1>12, <2>2
    <3> QED
      BY <3>1, <3>2 DEF Position
  <2> QED
    BY <2>1, <2>2
<1>15. /\ Pushes' = Pushes
       /\ startup_args' = startup_args
       /\ \A o : Taken(o, n + 1)' = Taken(o, n + 1)
  <2>1. Pushes' = Pushes
    BY <1>1 DEF Pushes, PushedSeq, Pushed, Given
  <2>2. startup_args' = startup_args
    BY <1>1 DEF startup_args, Pushed, Given
  <2> QED
    BY <2>1, <2>2, SMTT(60) DEF Taken
<1> HIDE DEF new
<1> QED
  BY <1>3, <1>4, <1>7, <1>12, <1>13, <1>14, <1>15 DEF Position, x

\* The saved options make a command line.
LEMMA SavedValid ==
    ASSUME IsCommandLine(typed), NoEmptyValue, NEW n, Position(n), InvalidArgs
    PROVE  tokens = <<>> /\ ~WellTyped(args)
<1> DEFINE x == Pushes[n + 1]
<1> SUFFICES ASSUME tokens # <<>>
             PROVE  Head(tokens) \in Switches \/ (Head(tokens) \in Options /\ Len(tokens) > 1)
  BY DEF InvalidArgs
<1>1. n # Len(Pushes)
  BY NoMorePush
<1>2. x \in Pushable
  BY <1>1, NextPush, SMTT(60)
<1>3. PICK r \in Seq(Words) : tokens = x \o r
  BY <1>1, NextPush
<1> HIDE DEF x
<1>4. x \in Seq(Words) /\ ((Len(x) = 1 /\ x[1] \in Switches) \/ (Len(x) = 2 /\ x[1] \in Options))
  BY <1>2 DEF Pushable
<1>5. Len(tokens) = Len(x) + Len(r) /\ Len(r) \in Nat
  BY <1>3, <1>4, ConcatProperties, SMTT(60)
<1>6. Head(tokens) = x[1]
  BY <1>3, <1>4, TakeOne, TakeTwo
<1>7. Len(x) = 2 => Len(tokens) > 1
  BY <1>5, SMTT(60)
<1> QED
  BY <1>4, <1>6, <1>7

\* The options of the process name what was typed.
SameOptions ==
    /\ DOMAIN args = DOMAIN typed
    /\ \A o \in ListOptions \cap DOMAIN args :
         /\ args[o] \in Seq(Strings) /\ args[o] # <<>>
         /\ Located(o, args[o], dir) = Located(o, typed[o], "here")
    /\ \A o \in (Options \ ListOptions) \cap DOMAIN args :
         /\ args[o] \in {typed[o], LocatedValue(o, typed[o], "here")}
         /\ LocatedValue(o, args[o], dir) = LocatedValue(o, typed[o], "here")

\* In the foreground the options are the ones that were typed.
LEMMA TypedSame ==
    ASSUME IsCommandLine(typed), dir = "here", args = typed
    PROVE  SameOptions
<1> SUFFICES ASSUME NEW o \in ListOptions \cap DOMAIN args
             PROVE  args[o] \in Seq(Strings) /\ args[o] # <<>>
  BY DEF SameOptions
<1>1. args[o] \in Seq(STRING) /\ args[o] # <<>>
  BY NamesDisjoint DEF IsCommandLine
<1>2. STRING \subseteq Strings
  BY DEF Strings
<1> QED
  BY <1>1, <1>2, SeqMonotonic

\* An absolute path stays what it is.
LEMMA LocatedOnce ==
    ASSUME NEW o, NEW d
    PROVE  /\ \A v : LocatedValue(o, LocatedValue(o, v, "here"), d) = LocatedValue(o, v, "here")
           /\ \A v : LocatedValue(o, LocatedValue(o, v, "home"), d) = LocatedValue(o, v, "home")
           /\ \A T : \A s \in Seq(T) :
                /\ Located(o, Located(o, s, "here"), d) = Located(o, s, "here")
                /\ Located(o, Located(o, s, "home"), d) = Located(o, s, "home")
<1>1. \A v : /\ Absolute(Absolute(v, "here"), d) = Absolute(v, "here")
             /\ Absolute(Absolute(v, "home"), d) = Absolute(v, "home")
  BY DEF Absolute
<1>2. ASSUME NEW T, NEW s \in Seq(T), NEW e \in {"here", "home"}
      PROVE  Located(o, Located(o, s, e), d) = Located(o, s, e)
  <2> DEFINE t == [i \in DOMAIN s |-> Absolute(s[i], e)]
             u == [i \in DOMAIN t |-> Absolute(t[i], d)]
  <2>1. DOMAIN t = DOMAIN s /\ \A i \in DOMAIN s : t[i] = Absolute(s[i], e)
    OBVIOUS
  <2>2. \A i \in DOMAIN t : Absolute(t[i], d) = t[i]
    BY <1>1, <2>1
  <2>3. t = [i \in DOMAIN t |-> t[i]]
    OBVIOUS
  <2>4. u = t
    <3> HIDE DEF t
    <3> QED
      BY <2>2, <2>3
  <2> QED
    BY <2>4 DEF Located
<1> QED
  BY <1>1, <1>2, SMTT(60) DEF LocatedValue

\* A path that is located stays where it is.
LEMMA LocatedValueOnce ==
    ASSUME NEW o, NEW v, NEW d
    PROVE  LocatedValue(o, LocatedValue(o, v, "here"), d) = LocatedValue(o, v, "here")
  BY LocatedOnce

\* Once from_args has used up the tokens, the options are the ones that were typed.
LEMMA SavedSame ==
    ASSUME IsCommandLine(typed), NoEmptyValue, NEW n, Position(n), tokens = <<>>
    PROVE  SameOptions
<1> DEFINE N == Len(Pushes)
<1>1. n = N
  <2> SUFFICES ASSUME n # N PROVE FALSE
    OBVIOUS
  <2>1. Pushes[n + 1] \in Seq(Words) /\ Len(Pushes[n + 1]) # 0
    <3>1. Pushes[n + 1] \in Pushable
      BY NextPush
    <3> QED
      BY <3>1, SMTT(60) DEF Pushable
  <2>2. PICK r \in Seq(Words) : tokens = Pushes[n + 1] \o r
    BY NextPush
  <2>3. Cat(Pushes[n + 1], r) # <<>>
    BY <2>1, CatNotEmpty
  <2> QED
    BY <2>2, <2>3, ZenonT(60) DEF Cat
<1>2. \A o \in Names : Taken(o, n) = Placed(o)
  BY <1>1, TakenSteps
<1>3. DOMAIN typed \subseteq Names
  BY DEF IsCommandLine, Names
<1>4. DOMAIN args = DOMAIN typed
  BY <1>2, <1>3, TypedType DEF Position, Given
<1>5. ASSUME NEW o \in ListOptions \cap DOMAIN args
      PROVE  /\ args[o] \in Seq(Strings) /\ args[o] # <<>>
             /\ Located(o, args[o], dir) = Located(o, typed[o], "here")
  <2>1. o \in Names /\ o \notin Switches
    BY NamesDisjoint DEF Names
  <2>2. args[o] = Placed(o) /\ Typed(o) = typed[o]
    BY <1>2, <1>4, <2>1 DEF Position, Typed, Given
  <2>3. Placed(o) \in Seq(Words) /\ Placed(o) # <<>> /\ Typed(o) \in Seq(Words)
    BY <1>4, <2>1, TypedType DEF Given
  <2>4. Words \subseteq Strings
    BY DEF Words
  <2>5. Located(o, Placed(o), dir) = Located(o, typed[o], "here")
    BY <2>2, <2>3, LocatedOnce, SMTT(60) DEF Placed
  <2> QED
    BY <2>2, <2>3, <2>4, <2>5, SeqMonotonic, SMTT(60)
<1>6. ASSUME NEW o \in (Options \ ListOptions) \cap DOMAIN args
      PROVE  /\ args[o] = LocatedValue(o, typed[o], "here")
             /\ LocatedValue(o, args[o], dir) = LocatedValue(o, typed[o], "here")
  <2>1. o \in Names /\ o \notin Switches
    BY NamesDisjoint DEF Names
  <2>2. args[o] = Last(Placed(o))
    BY <1>2, <2>1 DEF Position
  <2>3. Typed(o) = <<typed[o]>>
    BY <1>4 DEF Typed, Given
  <2>4. Placed(o) = <<LocatedValue(o, typed[o], "here")>>
    BY <2>3, SMTT(60) DEF Placed, Located, LocatedValue
  <2>5. args[o] = LocatedValue(o, typed[o], "here")
    BY <2>2, <2>4, SMTT(60) DEF Last
  <2>6. LocatedValue(o, LocatedValue(o, typed[o], "here"), dir) =
          LocatedValue(o, typed[o], "here")
    BY LocatedValueOnce
  <2> QED
    BY <2>5, <2>6, ZenonT(60)
<1> QED
  BY <1>4, <1>5, <1>6 DEF SameOptions

-----------------------------------------------------------------------------
(* Values.                                                                 *)

\* The durations that occur, by their suffixes.
LEMMA Suffixes ==
    /\ DOMAIN Durations = {"0", "20", "1m", "1h"}
    /\ Durations["0"].suffix = "none" /\ Durations["20"].suffix = "none"
    /\ Durations["1m"].suffix = "m" /\ Durations["1h"].suffix = "h"
<1>1. DOMAIN Durations = {"0", "20", "1m", "1h"}
  BY SMTT(60) DEF Durations
<1>2. Durations["0"].suffix = "none" /\ Durations["20"].suffix = "none"
  BY SMTT(60) DEF Durations
<1>3. Durations["1m"].suffix = "m" /\ Durations["1h"].suffix = "h"
  BY SMTT(60) DEF Durations
<1> QED
  BY <1>1, <1>2, <1>3

\* Each stands for its seconds.
LEMMA Numbers ==
    /\ DOMAIN Seconds = {"0", "20", "1m", "1h"}
    /\ Durations["0"].n = Seconds["0"] /\ Durations["20"].n = Seconds["20"]
    /\ Scaled(Durations["1m"].n, "m") = {s \in {Seconds["1m"]} : s <= MaxSeconds}
    /\ Scaled(Durations["1h"].n, "h") = {s \in {Seconds["1h"]} : s <= MaxSeconds}
    /\ \A t \in DOMAIN Seconds : Seconds[t] \in Nat
<1>1. DOMAIN Seconds = {"0", "20", "1m", "1h"}
  BY SMTT(60) DEF Seconds
<1>2. Seconds["0"] = 0 /\ Seconds["20"] = 20 /\ Seconds["1m"] = 60 /\ Seconds["1h"] = 3600
  BY SMTT(60) DEF Seconds
<1>3. Durations["0"].n = 0 /\ Durations["20"].n = 20
  BY SMTT(60) DEF Durations
<1>4. Durations["1m"].n = 1 /\ Durations["1h"].n = 1
  BY SMTT(60) DEF Durations
<1>5. Scaled(1, "m") = {s \in {60} : s <= MaxSeconds}
  BY SMTT(60) DEF Scaled
<1>6. Scaled(1, "h") = {s \in {3600} : s <= MaxSeconds}
  BY SMTT(60) DEF Scaled
<1>7. Durations["0"].n = Seconds["0"] /\ Durations["20"].n = Seconds["20"]
  BY <1>2, <1>3, SMTT(60)
<1>8. Scaled(Durations["1m"].n, "m") = {s \in {Seconds["1m"]} : s <= MaxSeconds}
  BY <1>2, <1>4, <1>5, SMTT(60)
<1>9. Scaled(Durations["1h"].n, "h") = {s \in {Seconds["1h"]} : s <= MaxSeconds}
  BY <1>2, <1>4, <1>6, SMTT(60)
<1>10. \A t \in DOMAIN Seconds : Seconds[t] \in Nat
  BY <1>1, <1>2, SMTT(60)
<1> QED
  BY <1>1, <1>7, <1>8, <1>9, <1>10

\* Text t stands for x seconds.
StandsFor(t, x) == t \in DOMAIN Seconds /\ x = Seconds[t]

\* parse::<u64>() takes the numbers without a suffix ...
LEMMA ParsesNumber ==
    \A t, x : x \in parse_u64(t) <=> t \in {"0", "20"} /\ StandsFor(t, x) /\ x <= MaxSeconds
<1> SUFFICES ASSUME NEW t, NEW x
             PROVE  x \in parse_u64(t) <=>
                      t \in {"0", "20"} /\ StandsFor(t, x) /\ x <= MaxSeconds
  OBVIOUS
<1>1. x \in parse_u64(t) <=> /\ t \in DOMAIN Durations /\ Durations[t].suffix = "none"
                             /\ x = Durations[t].n /\ x <= MaxSeconds
  BY DEF parse_u64
<1>2. t \in DOMAIN Durations /\ Durations[t].suffix = "none" <=> t \in {"0", "20"}
  BY Suffixes
<1>3. t \in {"0", "20"} => t \in DOMAIN Seconds /\ Durations[t].n = Seconds[t]
  BY Numbers
<1> QED
  BY <1>1, <1>2, <1>3 DEF StandsFor

\* ... and parse_time also those with one.
LEMMA ParsesTime ==
    \A t, x : x \in parse_time(t) <=> StandsFor(t, x) /\ x <= MaxSeconds
<1> SUFFICES ASSUME NEW t, NEW x
             PROVE  x \in parse_time(t) <=> StandsFor(t, x) /\ x <= MaxSeconds
  OBVIOUS
<1> DEFINE d == Durations[t]
<1>1. x \in parse_time(t) <=>
        \/ x \in parse_u64(t)
        \/ t \in DOMAIN Durations /\ d.suffix # "none" /\ x \in Scaled(d.n, d.suffix)
  BY DEF parse_time
<1>2. CASE t \in {"0", "20"}
  <2>1. d.suffix = "none"
    BY <1>2, Suffixes
  <2> QED
    BY <1>1, <1>2, <2>1, ParsesNumber
<1>3. CASE t \in {"1m", "1h"}
  <2>1. t \in DOMAIN Durations /\ d.suffix # "none" /\ t \in DOMAIN Seconds
    BY <1>3, Suffixes, Numbers
  <2>2. x \notin parse_u64(t)
    BY <1>3, ParsesNumber
  <2>3. Scaled(d.n, d.suffix) = {s \in {Seconds[t]} : s <= MaxSeconds}
    BY <1>3, Suffixes, Numbers
  <2> HIDE DEF d
  <2> QED
    BY <1>1, <2>1, <2>2, <2>3 DEF StandsFor
<1>4. CASE t \notin {"0", "20", "1m", "1h"}
  <2>1. t \notin DOMAIN Durations /\ t \notin DOMAIN Seconds
    BY <1>4, Suffixes, Numbers
  <2> QED
    BY <1>1, <1>4, <2>1, ParsesNumber DEF StandsFor
<1> QED
  BY <1>2, <1>3, <1>4

\* A line of the file is read as what it means.
LEMMA ReadMeant ==
    ASSUME NEW f, NEW v
    PROVE  Read(f, v) = Meant(f, v)
<1>1. ASSUME NEW x
      PROVE  x \in {s \in {Seconds[t] : t \in {v} \cap DOMAIN Seconds} :
                      s <= MaxSeconds /\ (f = "devtunnel-timeout" => s > 0)} <=>
             StandsFor(v, x) /\ x <= MaxSeconds /\ (f = "devtunnel-timeout" => x > 0)
  BY DEF StandsFor
<1>2. CASE f = "login-grace"
  <2>1. Read(f, v) = parse_time(v)
    BY <1>2 DEF Read
  <2>2. \A x : x \in Meant(f, v) <=> x \in parse_time(v)
    BY <1>1, <1>2, ParsesTime DEF Meant
  <2> QED
    BY <2>1, <2>2
<1>3. CASE f = "devtunnel-timeout"
  <2>1. Read(f, v) = parse_time(v) \ {0}
    BY <1>3 DEF Read, parse_tunnel_timeout
  <2>2. \A x : StandsFor(v, x) => (x > 0 <=> x # 0)
    <3>1. \A x \in Nat : x > 0 <=> x # 0
      BY SMTT(60)
    <3> QED
      BY <3>1, Numbers DEF StandsFor
  <2>3. \A x : x \in Meant(f, v) <=> x \in parse_time(v) /\ x # 0
    BY <1>1, <1>3, <2>2, ParsesTime DEF Meant
  <2> QED
    BY <2>1, <2>3
<1>4. CASE f \notin {"login-grace", "devtunnel-timeout"}
  <2> DEFINE w == IF f = "forwarding" /\ v # "no" THEN "yes" ELSE v
  <2>1. Meant(f, v) = {u \in {w} :
            /\ f \in {"devtunnel", "auto-create"} => u \in {"yes", "no"}
            /\ f \in {"port", "bind", "max-startups", "devtunnel-id", "devtunnel-bin"} =>
                 u # "bad"}
    BY <1>4 DEF Meant
  <2>2. CASE f \in {"port", "bind", "max-startups", "devtunnel-id", "devtunnel-bin"}
    <3>1. Read(f, v) = {v} \ {"bad"}
      BY <1>4, <2>2 DEF Read
    <3>2. w = v /\ f \notin {"devtunnel", "auto-create"}
      BY <2>2
    <3> QED
      BY <2>1, <2>2, <3>1, <3>2
  <2>3. CASE f \in {"devtunnel", "auto-create"}
    <3>1. Read(f, v) = {v} \cap {"yes", "no"}
      BY <1>4, <2>3 DEF Read
    <3>2. w = v /\ f \notin {"port", "bind", "max-startups", "devtunnel-id", "devtunnel-bin"}
      BY <2>3
    <3> QED
      BY <2>1, <2>3, <3>1, <3>2
  <2>4. CASE f \notin {"port", "bind", "max-startups", "devtunnel-id", "devtunnel-bin",
                       "devtunnel", "auto-create"}
    <3>1. Read(f, v) = {w}
      BY <1>4, <2>4 DEF Read
    <3> HIDE DEF w
    <3> QED
      BY <2>1, <2>4, <3>1
  <2> QED
    BY <2>2, <2>3, <2>4
<1> QED
  BY <1>2, <1>3, <1>4

\* What an option with one value gives.
OptionValue(o, v) ==
    IF o = "devtunnel-timeout" THEN parse_tunnel_timeout(v) ELSE from_arg_str(o, v)

\* An option is read as what it means, except that validate_dev_tunnel, and not argh,
\* refuses an id.
LEMMA OptionMeant ==
    ASSUME NEW o \in ScalarOptions, NEW v
    PROVE  IF o = "devtunnel-id" THEN /\ OptionValue(o, v) = {v}
                                      /\ MeantByOption(o, v) = {v} \ {"bad"}
           ELSE OptionValue(o, v) = MeantByOption(o, v)
<1>1. CASE o = "devtunnel-timeout"
  <2>1. MeantByOption(o, v) = Meant(o, v)
    BY <1>1 DEF MeantByOption
  <2>2. Read(o, v) = parse_tunnel_timeout(v)
    BY <1>1 DEF Read
  <2> QED
    BY <1>1, <2>1, <2>2, ReadMeant DEF OptionValue
<1>2. CASE o = "login-grace"
  <2>1. OptionValue(o, v) = parse_u64(v)
    BY <1>2 DEF OptionValue, from_arg_str
  <2>2. Meant(o, v) = parse_time(v)
    BY <1>2, ReadMeant DEF Read
  <2>3. \A x : StandsFor(v, x) /\ v \notin {"1m", "1h"} <=> StandsFor(v, x) /\ v \in {"0", "20"}
    <3>1. v \in DOMAIN Seconds => (v \notin {"1m", "1h"} <=> v \in {"0", "20"})
      BY Numbers
    <3> QED
      BY <3>1 DEF StandsFor
  <2>4. \A x : x \in MeantByOption(o, v) <=> x \in parse_u64(v)
    BY <1>2, <2>2, <2>3, ParsesTime, ParsesNumber DEF MeantByOption
  <2>5. OptionValue(o, v) = MeantByOption(o, v)
    <3> DEFINE S == MeantByOption(o, v)
               T == parse_u64(v)
    <3> HIDE DEF S, T
    <3>1. S = T
      BY <2>4 DEF S, T
    <3> QED
      BY <2>1, <3>1 DEF S, T
  <2> QED
    BY <1>2, <2>5
<1>3. CASE o = "devtunnel-bin"
  BY <1>3 DEF OptionValue, from_arg_str, MeantByOption
<1>4. CASE o \in {"port", "bind", "max-startups"}
  <2>1. OptionValue(o, v) = {v} \ {"bad"}
    BY <1>4 DEF OptionValue, from_arg_str
  <2>2. Read(o, v) = {v} \ {"bad"}
    BY <1>4 DEF Read
  <2>3. MeantByOption(o, v) = Meant(o, v)
    BY <1>4 DEF MeantByOption
  <2> QED
    BY <1>4, <2>1, <2>2, <2>3, ReadMeant
<1>5. CASE o = "devtunnel-id"
  <2>1. OptionValue(o, v) = {v} /\ Read(o, v) = {v} \ {"bad"}
    BY <1>5 DEF OptionValue, from_arg_str, Read
  <2>2. MeantByOption(o, v) = Meant(o, v)
    BY <1>5 DEF MeantByOption
  <2> QED
    BY <1>5, <2>1, <2>2, ReadMeant
<1>6. CASE o \in {"host-key-passphrase", "password", "shell", "sftp-root"}
  <2>1. OptionValue(o, v) = {v} /\ Read(o, v) = {v}
    BY <1>6 DEF OptionValue, from_arg_str, Read
  <2>2. MeantByOption(o, v) = Meant(o, v)
    BY <1>6 DEF MeantByOption
  <2> QED
    BY <1>6, <2>1, <2>2, ReadMeant
<1> QED
  BY <1>1, <1>2, <1>3, <1>4, <1>5, <1>6 DEF ScalarOptions

\* A value is read as at most one.
LEMMA ReadOne ==
    /\ \A f, v : \A x, y \in Read(f, v) : x = y
    /\ \A f \in ScalarOptions : \A v : \A x, y \in OptionValue(f, v) : x = y
<1>1. \A v : \A x, y \in parse_time(v) : x = y
  <2> SUFFICES ASSUME NEW v, NEW x \in parse_time(v), NEW y \in parse_time(v) PROVE x = y
    OBVIOUS
  <2>1. x = Seconds[v]
    BY ParsesTime DEF StandsFor
  <2>2. y = Seconds[v]
    BY ParsesTime DEF StandsFor
  <2> QED
    BY <2>1, <2>2
<1>2. \A v : \A x, y \in parse_u64(v) : x = y
  <2> SUFFICES ASSUME NEW v, NEW x \in parse_u64(v), NEW y \in parse_u64(v) PROVE x = y
    OBVIOUS
  <2>1. x = Seconds[v]
    BY ParsesNumber DEF StandsFor
  <2>2. y = Seconds[v]
    BY ParsesNumber DEF StandsFor
  <2> QED
    BY <2>1, <2>2
<1>3. \A v : \A x, y \in parse_tunnel_timeout(v) : x = y
  BY <1>1 DEF parse_tunnel_timeout
<1>4. \A f, v : \A x, y \in Read(f, v) : x = y
  BY <1>1, <1>3, SMTT(60) DEF Read
<1>5. \A f, v : \A x, y \in from_arg_str(f, v) : x = y
  BY <1>2, SMTT(60) DEF from_arg_str
<1> QED
  BY <1>3, <1>4, <1>5 DEF OptionValue

-----------------------------------------------------------------------------
(* The configuration file.                                                 *)

Line == [key : STRING, value : STRING]

\* There is a file to read.
NamesFile == ~Given(typed, "no-config") /\ (home \/ Given(typed, "config"))

\* The values of a field on the first n lines.
FileValues == [i \in DOMAIN Said |-> Said[i].value]
FileAt(f) == {i \in DOMAIN Said : Said[i].key \in DOMAIN FieldOf /\ FieldOf[Said[i].key] = f}
SoFar(f, n) == PickedUpTo(FileValues, FileAt(f))[n]

Sets(l, f) == l.key \in DOMAIN FieldOf /\ FieldOf[l.key] = f

\* The lines that count are lines, each with a value.
LEMMA SaidType ==
    ASSUME text \in Seq(Line)
    PROVE  /\ Said \in Seq(Line) /\ Len(Said) \in Nat /\ DOMAIN Said = 1 .. Len(Said)
           /\ FileValues \in Seq(Strings) /\ Len(FileValues) = Len(Said)
           /\ DOMAIN FileValues = 1 .. Len(Said)
           /\ \A i \in 1 .. Len(Said) : FileValues[i] = Said[i].value
<1>1. Said \in Seq(Line)
  BY SMTT(60) DEF Said
<1> DEFINE N == Len(Said)
<1>2. N \in Nat /\ DOMAIN Said = 1 .. N /\ \A i \in 1 .. N : Said[i] \in Line
  BY <1>1, SMTT(60)
<1>3. \A i \in 1 .. N : Said[i].value \in Strings
  BY <1>2 DEF Line, Strings
<1>4. FileValues \in [1 .. N -> Strings] /\ \A i \in 1 .. N : FileValues[i] = Said[i].value
  BY <1>2, <1>3 DEF FileValues
<1>5. FileValues \in Seq(Strings) /\ Len(FileValues) = N
  BY <1>2, <1>4, SeqOfFcn
<1> QED
  BY <1>1, <1>2, <1>4, <1>5

\* Line by line the values of a field add up to SaidOf.
LEMMA SoFarSteps ==
    ASSUME text \in Seq(Line), NEW f
    PROVE  /\ SoFar(f, 0) = <<>>
           /\ SoFar(f, Len(Said)) = SaidOf(f)
           /\ \A n \in 0 .. Len(Said) : SoFar(f, n) \in Seq(Strings)
           /\ \A n \in Nat : n < Len(Said) =>
                SoFar(f, n + 1) = IF Sets(Said[n + 1], f)
                                  THEN Append(SoFar(f, n), Said[n + 1].value)
                                  ELSE SoFar(f, n)
<1> DEFINE s == FileValues
           I == FileAt(f)
           p == PickedUpTo(s, I)
           N == Len(Said)
<1>1. /\ s \in Seq(Strings) /\ Len(s) = N /\ N \in Nat /\ DOMAIN Said = 1 .. N
      /\ \A i \in 1 .. N : s[i] = Said[i].value
  BY SaidType
<1>2. /\ p \in [0 .. N -> Seq(Strings)] /\ p[0] = <<>>
      /\ \A n \in Nat : n < N =>
           p[n + 1] = IF n + 1 \in I THEN Append(p[n], s[n + 1]) ELSE p[n]
  BY <1>1, PickedSteps, SMTT(60)
<1>3. p[N] = SaidOf(f)
  BY <1>1, PickedIs DEF SaidOf, FileValues, FileAt
<1>4. \A n \in 1 .. N : n \in I <=> Sets(Said[n], f)
  BY <1>1 DEF FileAt, Sets
<1> HIDE DEF p, I, s, N
<1>5. ASSUME NEW n \in Nat, n < N
      PROVE  p[n + 1] = IF Sets(Said[n + 1], f) THEN Append(p[n], Said[n + 1].value) ELSE p[n]
  <2>1. n + 1 \in 1 .. N
    BY <1>1, <1>5, SMTT(60)
  <2> QED
    BY <1>1, <1>2, <1>4, <1>5, <2>1
<1>6. \A n : SoFar(f, n) = p[n]
  BY DEF SoFar, p, s, I
<1>7. \A n \in 0 .. N : p[n] \in Seq(Strings)
  BY <1>2
<1> QED
  BY <1>2, <1>3, <1>5, <1>6, <1>7 DEF N

\* A value that the file gives is one of SaidOf.
LEMMA SaidHas ==
    ASSUME text \in Seq(Line), NEW f, NEW i \in 1 .. Len(Said), Sets(Said[i], f)
    PROVE  Said[i].value \in Range(SaidOf(f))
<1>1. FileValues \in Seq(Strings) /\ i \in DOMAIN FileValues /\ FileValues[i] = Said[i].value
  BY SaidType
<1>2. i \in FileAt(f)
  BY SaidType DEF FileAt, Sets
<1>3. FileValues[i] \in Range(Picked(FileValues, FileAt(f)))
  BY <1>1, <1>2, PickedHas
<1> QED
  BY <1>1, <1>3 DEF SaidOf, FileValues, FileAt

-----------------------------------------------------------------------------
\* A field is a list or has one value; the authentication directives set none.
LEMMA FieldKinds ==
    /\ \A f \in ListFields : f \notin ScalarFields
    /\ \A k \in DOMAIN FieldOf : FieldOf[k] \in ListFields \cup ScalarFields
    /\ \A k \in AuthDirectives : k \notin DOMAIN FieldOf
<1> USE DEF ListFields, ScalarFields, ListOptions, ReplacingLists, ExtendingLists, ScalarOptions,
            AuthDirectives
<1>1. \A f \in ListFields : f \notin ScalarFields
  OBVIOUS
<1>2. \A k \in DOMAIN FieldOf : FieldOf[k] \in ListFields \cup ScalarFields
  BY SMTT(60) DEF FieldOf
<1>3. \A k \in AuthDirectives : k \notin DOMAIN FieldOf
  BY SMTT(60) DEF FieldOf
<1> QED
  BY <1>1, <1>2, <1>3

\* A sequence with one more element.
LEMMA RangeAppend ==
    ASSUME NEW T, NEW s \in Seq(T), NEW v \in T
    PROVE  /\ Range(Append(s, v)) = Range(s) \cup {v}
           /\ Append(s, v) # <<>> /\ Last(Append(s, v)) = v
<1>1. /\ DOMAIN s = 1 .. Len(s) /\ DOMAIN Append(s, v) = 1 .. Len(s) + 1 /\ Len(s) \in Nat
      /\ \A i \in 1 .. Len(s) : Append(s, v)[i] = s[i]
      /\ Append(s, v)[Len(s) + 1] = v
      /\ Len(Append(s, v)) = Len(s) + 1
  BY SMTT(60)
<1>2. ASSUME NEW x PROVE x \in Range(Append(s, v)) <=> x \in Range(s) \cup {v}
  <2>1. ASSUME NEW i \in 1 .. Len(s) + 1 PROVE i \in 1 .. Len(s) \/ i = Len(s) + 1
    BY <1>1, SMTT(60)
  <2>2. \A i \in 1 .. Len(s) : i \in 1 .. Len(s) + 1
    BY <1>1, SMTT(60)
  <2>3. Len(s) + 1 \in 1 .. Len(s) + 1
    BY <1>1, SMTT(60)
  <2> QED
    BY <1>1, <2>1, <2>2, <2>3 DEF Range
<1>3. Range(Append(s, v)) = Range(s) \cup {v}
  BY <1>2
<1> QED
  BY <1>1, <1>3, SMTT(60) DEF Last

\* What the fields with one value are after n lines.
ScalarsRead(n) ==
    \A f \in ScalarFields :
       /\ \A v \in Range(SoFar(f, n)) : Read(f, v) # {}
       /\ f \in DOMAIN built.field <=> SoFar(f, n) # <<>>
       /\ f \in DOMAIN built.field => built.field[f] \in Read(f, Last(SoFar(f, n)))

Closes(l) == l.key \in AuthDirectives /\ l.value \in {"yes", "no"}
Disables(l) == l.key = "pubkeyauthentication" /\ l.value = "no"

\* n lines are parsed.
Parsed(n) ==
    /\ \A f \in ListFields : ListOf(built.field, f) = SoFar(f, n)
    /\ ScalarsRead(n)
    /\ built.anonymous = ~\E i \in 1 .. n : Closes(Said[i])
    /\ "pubkeyauthentication" \in disabled <=> \E i \in 1 .. n : Disables(Said[i])

IsBuilt ==
    /\ built = [field |-> built.field, anonymous |-> built.anonymous]
    /\ built.anonymous \in BOOLEAN

\* The defaults are what no line says.
LEMMA NothingParsed ==
    ASSUME text \in Seq(Line), built = Defaults, disabled = {}
    PROVE  Parsed(0)
<1>1. \A f : SoFar(f, 0) = <<>>
  BY SoFarSteps
<1>2. built.field = NoFields /\ built.anonymous = TRUE
  BY DEF Defaults
<1>3. DOMAIN built.field = {} /\ \A f : ListOf(built.field, f) = <<>>
  BY <1>2 DEF NoFields, ListOf, Given
<1>4. Range(<<>>) = {}
  BY SMTT(60) DEF Range
<1>5. ScalarsRead(0)
  BY <1>1, <1>3, <1>4 DEF ScalarsRead
<1>6. 1 .. 0 = {}
  BY SMTT(60)
<1> QED
  BY <1>1, <1>2, <1>3, <1>5, <1>6 DEF Parsed

\* What the file says does not change while it is parsed.
LEMMA SaidKept ==
    ASSUME text' = text, typed' = typed, home' = home
    PROVE  Said' = Said /\ \A f, n : SoFar(f, n)' = SoFar(f, n)
  BY SMTT(60) DEF Said, Given, SoFar, FileValues, FileAt

\* A line that sets a field.
LEMMA FieldStep ==
    ASSUME text \in Seq(Line), IsBuilt, NEW n \in Nat, n < Len(Said), Parsed(n),
           SetField(Said[n + 1])
    PROVE  /\ \A f \in ListFields : ListOf(built.field', f) = SoFar(f, n + 1)
           /\ \A f \in ScalarFields :
                /\ \A v \in Range(SoFar(f, n + 1)) : Read(f, v) # {}
                /\ f \in DOMAIN built.field' <=> SoFar(f, n + 1) # <<>>
                /\ f \in DOMAIN built.field' => built.field'[f] \in Read(f, Last(SoFar(f, n + 1)))
           /\ built.anonymous' = built.anonymous /\ disabled' = disabled /\ IsBuilt'
<1> DEFINE l == Said[n + 1]
           field == FieldOf[l.key]
<1>1. l.key \in DOMAIN FieldOf /\ l.value \in Strings /\ disabled' = disabled
  <2>1. n + 1 \in 1 .. Len(Said) /\ Said \in Seq(Line)
    BY SaidType, SMTT(60)
  <2>2. l \in Line
    BY <2>1, SMTT(60)
  <2> QED
    BY <2>2 DEF SetField, Line, Strings
<1>2. \A f : Sets(l, f) <=> f = field
  BY <1>1 DEF Sets
<1>3. \A f : SoFar(f, n + 1) = IF f = field THEN Append(SoFar(f, n), l.value) ELSE SoFar(f, n)
  BY <1>2, SoFarSteps
<1>4. \A f : SoFar(f, n) \in Seq(Strings)
  <2>1. n \in 0 .. Len(Said)
    BY SaidType, SMTT(60)
  <2> QED
    BY <2>1, SoFarSteps
<1> HIDE DEF l, field
<1>5. CASE field \in ListFields
  <2> DEFINE w == Append(ListOf(built.field, field), l.value)
  <2>1. built' = [built EXCEPT !.field = With(built.field, field, w)]
    BY <1>5 DEF SetField, field, l
  <2>2. /\ built.field' = With(built.field, field, w)
        /\ built.anonymous' = built.anonymous
        /\ IsBuilt'
    BY <2>1 DEF IsBuilt
  <2>3. w = SoFar(field, n + 1)
    BY <1>3, <1>5 DEF Parsed
  <2> HIDE DEF w
  <2> DEFINE new == With(built.field, field, w)
  <2>4. /\ DOMAIN new = DOMAIN built.field \cup {field}
        /\ new[field] = w
        /\ \A b \in DOMAIN built.field : b # field => new[b] = built.field[b]
        /\ \A b : ListOf(new, b) = IF b = field THEN w ELSE ListOf(built.field, b)
    BY DEF With, ListOf, Given
  <2>5. built.field' = new
    BY <2>2
  <2> HIDE DEF new
  <2>6. \A f \in ListFields : ListOf(built.field', f) = SoFar(f, n + 1)
    BY <1>3, <2>4, <2>5, <2>3 DEF Parsed
  <2>7. \A f \in ScalarFields : f # field
    BY <1>5, FieldKinds
  <2>8. \A f \in ScalarFields : /\ f \in DOMAIN built.field' <=> f \in DOMAIN built.field
                                /\ f \in DOMAIN built.field => built.field'[f] = built.field[f]
                                /\ SoFar(f, n + 1) = SoFar(f, n)
    BY <1>3, <2>4, <2>5, <2>7
  <2> QED
    BY <1>1, <2>2, <2>6, <2>8 DEF Parsed, ScalarsRead
<1>6. CASE field \notin ListFields
  <2>1. PICK v \in Read(field, l.value) :
          built' = [built EXCEPT !.field = With(built.field, field, v)]
    BY <1>6 DEF SetField, field, l
  <2>2. /\ built.field' = With(built.field, field, v)
        /\ built.anonymous' = built.anonymous
        /\ IsBuilt'
    BY <2>1 DEF IsBuilt
  <2> DEFINE new == With(built.field, field, v)
  <2>3. /\ DOMAIN new = DOMAIN built.field \cup {field}
        /\ new[field] = v
        /\ \A b \in DOMAIN built.field : b # field => new[b] = built.field[b]
        /\ \A b : ListOf(new, b) = IF b = field THEN v ELSE ListOf(built.field, b)
    BY SMTT(60) DEF With, ListOf, Given
  <2>4. built.field' = new
    BY <2>2
  <2> HIDE DEF new
  <2>5. \A f \in ListFields : ListOf(built.field', f) = SoFar(f, n + 1)
    BY <1>3, <1>6, <2>3, <2>4 DEF Parsed
  <2>6. ASSUME NEW f \in ScalarFields
        PROVE  /\ \A u \in Range(SoFar(f, n + 1)) : Read(f, u) # {}
               /\ f \in DOMAIN built.field' <=> SoFar(f, n + 1) # <<>>
               /\ f \in DOMAIN built.field' => built.field'[f] \in Read(f, Last(SoFar(f, n + 1)))
    <3>1. CASE f = field
      <4>1. SoFar(f, n + 1) = Append(SoFar(f, n), l.value)
        BY <1>3, <3>1
      <4>2. /\ Range(SoFar(f, n + 1)) = Range(SoFar(f, n)) \cup {l.value}
            /\ SoFar(f, n + 1) # <<>> /\ Last(SoFar(f, n + 1)) = l.value
        <5> DEFINE s == SoFar(f, n)
                   u == l.value
        <5>1. s \in Seq(Strings) /\ u \in Strings
          BY <1>1, <1>4
        <5> HIDE DEF s, u
        <5>2. /\ Range(Append(s, u)) = Range(s) \cup {u}
              /\ Append(s, u) # <<>> /\ Last(Append(s, u)) = u
          BY <5>1, RangeAppend, SMTT(60)
        <5> QED
          BY <4>1, <5>2 DEF s, u
      <4>3. f \in DOMAIN built.field' /\ built.field'[f] = v
        BY <2>3, <2>4, <3>1
      <4>4. \A u \in Range(SoFar(f, n)) : Read(f, u) # {}
        BY SMTT(60) DEF Parsed, ScalarsRead
      <4> QED
        BY <2>1, <3>1, <4>2, <4>3, <4>4
    <3>2. CASE f # field
      <4>1. SoFar(f, n + 1) = SoFar(f, n)
        BY <1>3, <3>2
      <4>2. /\ f \in DOMAIN built.field' <=> f \in DOMAIN built.field
            /\ f \in DOMAIN built.field => built.field'[f] = built.field[f]
        BY <2>3, <2>4, <3>2
      <4> QED
        BY <4>1, <4>2 DEF Parsed, ScalarsRead
    <3> QED
      BY <3>1, <3>2
  <2> QED
    BY <1>1, <2>2, <2>5, <2>6
<1> QED
  BY <1>5, <1>6

\* ParseLine parses one more line.
LEMMA ParseStep ==
    ASSUME text \in Seq(Line), IsBuilt, NamesFile,
           NEW n \in Nat, line = n + 1, Parsed(n), ParseLine
    PROVE  Parsed(n + 1)' /\ IsBuilt' /\ line' = (n + 1) + 1 /\ line' \in 1 .. Len(text) + 1
<1> DEFINE l == Said[n + 1]
           Closed(m) == \E i \in 1 .. m : Closes(Said[i])
           KeysOff(m) == \E i \in 1 .. m : Disables(Said[i])
<1>1. Said = text /\ text' = text /\ typed' = typed /\ home' = home
  BY DEF Said, NamesFile, ParseLine
<1>2. n < Len(Said) /\ line' = (n + 1) + 1 /\ line' \in 1 .. Len(text) + 1 /\ l = text[line]
  BY <1>1, SaidType, SMTT(60) DEF ParseLine
<1>3. Said' = Said /\ \A f, m : SoFar(f, m)' = SoFar(f, m)
  BY <1>1, SaidKept, SMTT(60)
<1>4. /\ Closed(n + 1) <=> Closed(n) \/ Closes(l)
      /\ KeysOff(n + 1) <=> KeysOff(n) \/ Disables(l)
  BY SMTT(60)
<1>5. (built.anonymous <=> ~Closed(n)) /\ ("pubkeyauthentication" \in disabled <=> KeysOff(n))
  BY DEF Parsed
<1> HIDE DEF l, Closed, KeysOff
<1>6. SUFFICES
        /\ \A f \in ListFields : ListOf(built.field', f) = SoFar(f, n + 1)
        /\ \A f \in ScalarFields :
             /\ \A v \in Range(SoFar(f, n + 1)) : Read(f, v) # {}
             /\ f \in DOMAIN built.field' <=> SoFar(f, n + 1) # <<>>
             /\ f \in DOMAIN built.field' => built.field'[f] \in Read(f, Last(SoFar(f, n + 1)))
        /\ built.anonymous' \in BOOLEAN
        /\ built.anonymous' <=> ~Closed(n + 1)
        /\ "pubkeyauthentication" \in disabled' <=> KeysOff(n + 1)
        /\ IsBuilt'
  <2>1. ScalarsRead(n + 1)'
    BY <1>3, <1>6 DEF ScalarsRead
  <2>2. built.anonymous' = ~Closed(n + 1)
    BY <1>6
  <2> QED
    BY <1>2, <1>3, <1>6, <2>1, <2>2 DEF Parsed, Closed, KeysOff
<1>7. CASE SetField(l)
  <2>1. l.key \notin AuthDirectives
    BY <1>7, FieldKinds DEF SetField
  <2>2. ~Closes(l) /\ ~Disables(l)
    BY <2>1 DEF Closes, Disables, AuthDirectives
  <2>3. SetField(Said[n + 1])
    BY <1>7 DEF l
  <2>4. built.anonymous' = built.anonymous /\ disabled' = disabled /\ IsBuilt'
    BY <1>2, <2>3, FieldStep
  <2>5. /\ \A f \in ListFields : ListOf(built.field', f) = SoFar(f, n + 1)
        /\ \A f \in ScalarFields :
             /\ \A v \in Range(SoFar(f, n + 1)) : Read(f, v) # {}
             /\ f \in DOMAIN built.field' <=> SoFar(f, n + 1) # <<>>
             /\ f \in DOMAIN built.field' => built.field'[f] \in Read(f, Last(SoFar(f, n + 1)))
    BY <1>2, <2>3, FieldStep
  <2>6. built.anonymous' \in BOOLEAN /\ (built.anonymous' <=> ~Closed(n + 1))
    BY <1>4, <1>5, <2>2, <2>4 DEF IsBuilt
  <2>7. "pubkeyauthentication" \in disabled' <=> KeysOff(n + 1)
    BY <1>4, <1>5, <2>2, <2>4
  <2> QED
    BY <2>4, <2>5, <2>6, <2>7
<1>8. ASSUME l.key \notin DOMAIN FieldOf, built.field' = built.field
      PROVE  /\ \A f \in ListFields : ListOf(built.field', f) = SoFar(f, n + 1)
             /\ \A f \in ScalarFields :
                  /\ \A v \in Range(SoFar(f, n + 1)) : Read(f, v) # {}
                  /\ f \in DOMAIN built.field' <=> SoFar(f, n + 1) # <<>>
                  /\ f \in DOMAIN built.field' =>
                       built.field'[f] \in Read(f, Last(SoFar(f, n + 1)))
  <2>1. \A f : SoFar(f, n + 1) = SoFar(f, n)
    BY <1>2, <1>8, SoFarSteps DEF Sets, l
  <2> QED
    BY <1>8, <2>1 DEF Parsed, ScalarsRead
<1>9. CASE SetAuth(l)
  <2>1. l.key \in AuthDirectives /\ l.key \notin DOMAIN FieldOf
    BY <1>9, FieldKinds, SMTT(60) DEF SetAuth
  <2>2. /\ built.field' = built.field /\ IsBuilt'
        /\ built.anonymous' = (built.anonymous /\ l.value \notin {"yes", "no"})
    BY <1>9 DEF SetAuth, IsBuilt
  <2>3. built.anonymous' <=> built.anonymous /\ ~Closes(l)
    BY <2>1, <2>2 DEF Closes
  <2>4. "pubkeyauthentication" \in disabled' <=>
          "pubkeyauthentication" \in disabled \/ Disables(l)
    BY <1>9 DEF SetAuth, Disables
  <2>5. built.anonymous' \in BOOLEAN
    BY <2>2 DEF IsBuilt
  <2> QED
    BY <1>4, <1>5, <1>8, <2>1, <2>2, <2>3, <2>4, <2>5
<1>10. CASE l.key \notin DOMAIN FieldOf \cup AuthDirectives /\ UNCHANGED <<built, disabled>>
  <2>1. ~Closes(l) /\ ~Disables(l)
    BY <1>10 DEF Closes, Disables, AuthDirectives
  <2>2. /\ built.field' = built.field
        /\ built.anonymous' = built.anonymous
        /\ IsBuilt'
        /\ disabled' = disabled
    BY <1>10 DEF IsBuilt
  <2>3. built.anonymous \in BOOLEAN
    BY DEF IsBuilt
  <2> QED
    BY <1>4, <1>5, <1>8, <1>10, <2>1, <2>2, <2>3
<1> QED
  BY <1>2, <1>7, <1>9, <1>10 DEF ParseLine

\* What the file makes of a list.
FileList(f) ==
    IF f # "authorized-keys" THEN SaidOf(f)
    ELSE IF DisablesKeys THEN <<>> ELSE Located(f, SaidOf(f), "home")

\* validate_dev_tunnel has nothing against the labels.
LabelsValid(labels) == "bad" \notin labels /\ Cardinality(labels) <= MaxLabels

\* parse_for_user can place the key files.
KeysPlaced == DisablesKeys \/ home \/ "rel" \notin Range(SaidOf("authorized-keys"))

\* The file is read.
FileRead ==
    /\ \A f \in ListFields : ListOf(built.field, f) = FileList(f)
    /\ ScalarsRead(Len(Said))
    /\ built.anonymous = ~SaysAuth
    /\ LabelsValid(Range(SaidOf("devtunnel-label")))
    /\ KeysPlaced

\* The lines say together what the file says.
LEMMA ParsedAll ==
    ASSUME text \in Seq(Line), Parsed(Len(Said))
    PROVE  /\ \A f \in ListFields : ListOf(built.field, f) = SaidOf(f)
           /\ built.anonymous = ~SaysAuth
           /\ "pubkeyauthentication" \in disabled <=> DisablesKeys
           /\ \A f : SaidOf(f) \in Seq(Strings)
<1>1. \A f : SoFar(f, Len(Said)) = SaidOf(f) /\ SaidOf(f) \in Seq(Strings)
  <2>1. Len(Said) \in 0 .. Len(Said)
    BY SaidType, SMTT(60)
  <2> QED
    BY <2>1, SoFarSteps
<1>2. DOMAIN Said = 1 .. Len(Said)
  BY SaidType
<1>3. SaysAuth <=> \E i \in 1 .. Len(Said) : Closes(Said[i])
  BY <1>2 DEF SaysAuth, Range, Closes
<1>4. DisablesKeys <=> \E i \in 1 .. Len(Said) : Disables(Said[i])
  BY <1>2 DEF DisablesKeys, Range, Disables
<1> QED
  BY <1>1, <1>3, <1>4 DEF Parsed

\* The trailing steps of parse and parse_for_user: disabled keys are cleared and
\* relative key files placed.
LEMMA FileFieldsAre ==
    ASSUME text \in Seq(Line), Parsed(Len(Said))
    PROVE  /\ \A f \in ListFields : ListOf(FileFields, f) = FileList(f)
           /\ \A f \in ScalarFields : /\ f \in DOMAIN FileFields <=> f \in DOMAIN built.field
                                      /\ f \in DOMAIN built.field => FileFields[f] = built.field[f]
           /\ validate_dev_tunnel(FileFields) <=> LabelsValid(Range(SaidOf("devtunnel-label")))
           /\ Resolvable <=> KeysPlaced
<1> DEFINE a == "authorized-keys"
           keys == ListOf(built.field, a)
           new == IF "pubkeyauthentication" \in disabled THEN <<>>
                  ELSE [i \in DOMAIN keys |-> Absolute(keys[i], "home")]
<1>1. /\ a \in ListFields
      /\ a \notin ScalarFields
      /\ "devtunnel-label" \in ListFields
      /\ a \in PathOptions
      /\ a # "devtunnel-label"
  BY DEF ListFields, ScalarFields, ListOptions, ReplacingLists, ExtendingLists, ScalarOptions,
         PathOptions
<1>2. keys = SaidOf(a) /\ keys \in Seq(Strings)
  BY <1>1, ParsedAll
<1>3. new = FileList(a)
  <2>1. "pubkeyauthentication" \in disabled <=> DisablesKeys
    BY ParsedAll
  <2>2. Located(a, keys, "home") = [i \in DOMAIN keys |-> Absolute(keys[i], "home")]
    BY <1>1 DEF Located
  <2> HIDE DEF keys
  <2> QED
    BY <1>2, <2>1, <2>2 DEF FileList
<1>4. keys = <<>> => FileList(a) = <<>>
  <2> HIDE DEF keys
  <2> QED
    BY <1>2, SMTT(60) DEF FileList, Located
<1> HIDE DEF new
<1>5. /\ \A f : ListOf(FileFields, f) = IF f = a THEN FileList(a) ELSE ListOf(built.field, f)
      /\ \A f : f # a => /\ f \in DOMAIN FileFields <=> f \in DOMAIN built.field
                         /\ f \in DOMAIN built.field => FileFields[f] = built.field[f]
  <2>1. CASE keys = <<>>
    <3>1. FileFields = built.field
      BY <2>1 DEF FileFields
    <3> QED
      BY <1>4, <2>1, <3>1
  <2>2. CASE keys # <<>>
    <3>1. FileFields = With(built.field, a, new)
      BY <2>2 DEF FileFields, new
    <3>2. FileFields = With(built.field, a, FileList(a))
      BY <1>3, <3>1
    <3> QED
      BY <3>2 DEF With, ListOf, Given
  <2> QED
    BY <2>1, <2>2
<1>6. \A f \in ListFields : ListOf(FileFields, f) = FileList(f)
  <2>1. \A f \in ListFields : ListOf(built.field, f) = SaidOf(f)
    BY ParsedAll
  <2> QED
    BY <1>5, <2>1 DEF FileList
<1>7. FileList("devtunnel-label") = SaidOf("devtunnel-label")
  BY DEF FileList
<1>8. "bad" \notin {FileFields[f] : f \in {"devtunnel-id"} \cap DOMAIN FileFields}
  <2>1. "devtunnel-id" \in ScalarFields /\ "devtunnel-id" # a
    BY DEF ScalarFields, ScalarOptions
  <2>2. \A v : Read("devtunnel-id", v) = {v} \ {"bad"}
    BY DEF Read
  <2>3. "devtunnel-id" \in DOMAIN built.field => built.field["devtunnel-id"] # "bad"
    <3>1. "devtunnel-id" \in DOMAIN built.field =>
            built.field["devtunnel-id"]
              \in Read("devtunnel-id", Last(SoFar("devtunnel-id", Len(Said))))
      BY <2>1 DEF Parsed, ScalarsRead
    <3> QED
      BY <2>2, <3>1
  <2> QED
    BY <1>5, <2>1, <2>3
<1>9. validate_dev_tunnel(FileFields) <=> LabelsValid(Range(SaidOf("devtunnel-label")))
  BY <1>1, <1>6, <1>7, <1>8 DEF validate_dev_tunnel, LabelsValid
<1>10. Resolvable <=> KeysPlaced
  BY <1>1, ParsedAll DEF Resolvable, KeysPlaced
<1> QED
  BY <1>1, <1>5, <1>6, <1>9, <1>10

\* EndOfFile has read the file, or it has a flaw.
LEMMA FileEnds ==
    ASSUME text \in Seq(Line), IsBuilt, NamesFile,
           line \in 1 .. Len(text) + 1, Parsed(line - 1), EndOfFile
    PROVE  \/ stage' = "failed" /\ ~Flawless /\ built' = built
           \/ stage' = "flags" /\ FileRead' /\ IsBuilt'
<1>1. Said = text /\ text' = text /\ typed' = typed /\ home' = home
  BY DEF Said, NamesFile, EndOfFile, Fail
<1>2. line - 1 = Len(Said)
  BY <1>1, SaidType, SMTT(60) DEF EndOfFile
<1>3. Parsed(Len(Said))
  BY <1>2, SMTT(60)
<1>4. Said' = Said /\ \A f, m : SoFar(f, m)' = SoFar(f, m)
  BY <1>1, SaidKept
<1>5. CASE ~(validate_dev_tunnel(FileFields) /\ Resolvable)
  <2>1. ~LabelsValid(Range(SaidOf("devtunnel-label"))) \/ ~KeysPlaced
    BY <1>3, <1>5, FileFieldsAre
  <2>2. ~Flawless
    BY <2>1 DEF Flawless, LabelsValid, KeysPlaced
  <2> QED
    BY <1>5, <2>2 DEF EndOfFile, Fail
<1>6. CASE validate_dev_tunnel(FileFields) /\ Resolvable
  <2>1. /\ stage' = "flags" /\ built' = [built EXCEPT !.field = FileFields]
    BY <1>6 DEF EndOfFile
  <2>2. built.field' = FileFields /\ built.anonymous' = built.anonymous /\ IsBuilt'
    BY <2>1 DEF IsBuilt
  <2>3. \A f : SaidOf(f)' = SaidOf(f)
    BY <1>4 DEF SaidOf
  <2>4. SaysAuth' = SaysAuth /\ DisablesKeys' = DisablesKeys
    BY <1>4 DEF SaysAuth, DisablesKeys
  <2>5. \A f : FileList(f)' = FileList(f)
    BY <2>3, <2>4 DEF FileList
  <2>6. \A f \in ListFields : ListOf(built.field, f)' = FileList(f)
    BY <1>3, <2>2, FileFieldsAre
  <2>7. ScalarsRead(Len(Said))
    BY <1>3 DEF Parsed
  <2>8. ScalarsRead(Len(Said))'
    BY <1>3, <1>4, <2>2, <2>7, FileFieldsAre DEF ScalarsRead
  <2>9. built.anonymous' = ~SaysAuth'
    BY <1>3, <2>2, <2>4, ParsedAll
  <2>10. LabelsValid(Range(SaidOf("devtunnel-label")))' /\ KeysPlaced'
    BY <1>1, <1>3, <1>6, <2>3, <2>4, FileFieldsAre DEF LabelsValid, KeysPlaced
  <2> QED
    BY <2>1, <2>2, <2>5, <2>6, <2>8, <2>9, <2>10 DEF FileRead
<1> QED
  BY <1>5, <1>6

\* InvalidLine: the line has a flaw.
LEMMA BadLine ==
    ASSUME text \in Seq(Line), NamesFile,
           line \in 1 .. Len(text) + 1, InvalidLine
    PROVE  ~Flawless
<1> DEFINE f == FieldOf[text[line].key]
<1>1. Said = text /\ line \in 1 .. Len(text)
  BY SMTT(60) DEF Said, NamesFile, InvalidLine
<1>2. Sets(Said[line], f) /\ f \notin ListFields /\ Read(f, Said[line].value) = {}
  BY <1>1 DEF Sets, InvalidLine
<1>3. f \in ScalarFields
  BY <1>1, <1>2, FieldKinds DEF Sets
<1>4. Said[line].value \in Range(SaidOf(f))
  <2>1. line \in 1 .. Len(Said)
    BY <1>1
  <2> HIDE DEF f
  <2> QED
    BY <1>2, <2>1, SaidHas
<1> HIDE DEF f
<1> QED
  BY <1>2, <1>3, <1>4, ReadMeant DEF Flawless

\* No labels are valid labels.
LEMMA NothingInEmpty == Range(<<>>) = {}
  BY SMTT(60) DEF Range

LEMMA NoLabels == LabelsValid({})
<1>1. Cardinality({}) = 0
  BY FS_EmptySet
<1>2. 0 <= MaxLabels
  BY ConfigAssumption, SMTT(60)
<1> QED
  BY <1>1, <1>2 DEF LabelsValid

\* Without a file the defaults are what it says.
LEMMA NoFile ==
    ASSUME text \in Seq(Line), ~NamesFile, built = Defaults, disabled = {}
    PROVE  FileRead
<1>1. Said = <<>> /\ Len(Said) = 0
  BY DEF Said, NamesFile
<1>2. Parsed(Len(Said))
  BY <1>1, NothingParsed
<1>3. \A f \in ListFields : ListOf(built.field, f) = SaidOf(f) /\ SaidOf(f) = <<>>
  <2>1. \A f : ListOf(built.field, f) = <<>>
    BY DEF Defaults, NoFields, ListOf, Given
  <2> QED
    BY <1>2, <2>1, ParsedAll
<1>4. \A f \in ListFields : FileList(f) = <<>>
  BY <1>3, SMTT(60) DEF FileList, Located
<1>5. "devtunnel-label" \in ListFields /\ "authorized-keys" \in ListFields
  BY DEF ListFields, ListOptions, ReplacingLists, ExtendingLists
<1>6. Range(SaidOf("devtunnel-label")) = {} /\ Range(SaidOf("authorized-keys")) = {}
  BY <1>3, <1>5, NothingInEmpty
<1>7. LabelsValid(Range(SaidOf("devtunnel-label"))) /\ KeysPlaced
  BY <1>6, NoLabels DEF KeysPlaced
<1> QED
  BY <1>2, <1>3, <1>4, <1>7, ParsedAll DEF FileRead, Parsed

-----------------------------------------------------------------------------
(* The options.                                                            *)

\* The options that exclude each other, and the file that was asked for.
NoConflict ==
    /\ ~(Given(typed, "config") /\ Given(typed, "no-config"))
    /\ ~(Given(typed, "devtunnel-enable") /\ Given(typed, "devtunnel-disable"))
    /\ Given(typed, "config") => load_file(Absolute(typed["config"], "here"))

\* SelectConfig refuses options that contradict each other and a file it cannot read,
\* and nothing else.
LEMMA Selecting ==
    ASSUME SameOptions, SelectConfig
    PROVE  \/ stage' = "failed" /\ ~Flawless
           \/ stage' = "flags" /\ NoConflict /\ ~NamesFile
           \/ stage' = "parsing" /\ NoConflict /\ NamesFile
<1>1. \A o : Given(args, o) <=> Given(typed, o)
  BY DEF SameOptions, Given
<1>2. Given(typed, "config") => Absolute(args["config"], dir) = Absolute(typed["config"], "here")
  <2>1. "config" \in (Options \ ListOptions) /\ "config" \in PathOptions
    BY DEF Options, ListOptions, ReplacingLists, ExtendingLists, PathOptions
  <2> QED
    BY <2>1, <1>1 DEF SameOptions, LocatedValue, Given
<1> DEFINE conflict == \/ Given(typed, "config") /\ Given(typed, "no-config")
                       \/ Given(typed, "devtunnel-enable") /\ Given(typed, "devtunnel-disable")
<1>3. \/ conflict /\ stage' = "failed"
      \/ ~conflict /\ select_config_path = {} /\ stage' = "flags"
      \/ ~conflict /\ \E path \in select_config_path :
                        stage' = IF load_file(path) THEN "parsing" ELSE "failed"
  BY <1>1 DEF SelectConfig
<1>4. CASE conflict
  BY <1>3, <1>4 DEF Flawless
<1>5. CASE ~conflict /\ Given(typed, "config")
  <2>1. select_config_path = {Absolute(typed["config"], "here")}
    BY <1>1, <1>2, <1>5 DEF select_config_path
  <2> QED
    BY <1>3, <1>5, <2>1 DEF Flawless, NoConflict, NamesFile
<1>6. CASE ~conflict /\ ~Given(typed, "config") /\ ~(home /\ ~Given(typed, "no-config"))
  <2>1. select_config_path = {}
    BY <1>1, <1>6 DEF select_config_path
  <2> QED
    BY <1>3, <1>6, <2>1 DEF NoConflict, NamesFile
<1>7. CASE ~conflict /\ ~Given(typed, "config") /\ home /\ ~Given(typed, "no-config")
  <2>1. select_config_path = {"home"} /\ load_file("home")
    BY <1>1, <1>7 DEF select_config_path, load_file
  <2> QED
    BY <1>3, <1>7, <2>1 DEF NoConflict, NamesFile
<1> QED
  BY <1>4, <1>5, <1>6, <1>7

\* The names of options and fields.
SwitchFields == {"devtunnel", "auto-create", "strict", "forwarding"}

\* How the names of switches, options and fields are related.
LEMMA FieldNames ==
    /\ \A o \in Switches \ {"no-config"} : SwitchSets[o].field \in SwitchFields
    /\ \A o, p \in Switches \ {"no-config"} :
         \/ SwitchSets[o].field # SwitchSets[p].field \/ o = p
         \/ {o, p} = {"devtunnel-enable", "devtunnel-disable"}
    /\ \A f \in SwitchFields : /\ f \notin Options /\ f \notin ListFields
                               /\ f \notin PathOptions /\ f \notin Switches
    /\ \A f \in ListFields : f \in ListOptions \/ f = "accept-env"
    /\ "accept-env" \notin Options /\ "accept-env" \notin Switches
    /\ \A f \in ScalarFields : /\ f \in ScalarOptions \/ f \notin Options
                               /\ f \notin Switches /\ f \notin ListOptions
    /\ \A o \in Options : \/ o \in ListOptions /\ o \notin ScalarOptions
                          \/ o \in ScalarOptions /\ o \notin ListOptions
                          \/ o \in {"config", "log-file"}
    /\ \A f \in ScalarOptions : f \in Options /\ f \notin {"config", "no-config", "log-file"}
    /\ \A f \in ListOptions : f \in Options /\ f \notin {"config", "no-config", "log-file"}
<1> USE DEF Options, ListOptions, ReplacingLists, ExtendingLists, ScalarOptions, ScalarFields,
            ListFields, SwitchFields, PathOptions, Switches
<1>1. \A o \in Switches \ {"no-config"} : SwitchSets[o].field \in SwitchFields
  BY DEF SwitchSets
<1>2. \A o, p \in Switches \ {"no-config"} :
         \/ SwitchSets[o].field # SwitchSets[p].field \/ o = p
         \/ {o, p} = {"devtunnel-enable", "devtunnel-disable"}
  BY SMTT(60) DEF SwitchSets
<1>3. \A f \in SwitchFields : /\ f \notin Options /\ f \notin ListFields
                              /\ f \notin PathOptions /\ f \notin Switches
  BY SMTT(60)
<1>4. /\ \A f \in ListFields : f \in ListOptions \/ f = "accept-env"
      /\ "accept-env" \notin Options /\ "accept-env" \notin Switches
  OBVIOUS
<1>5. \A f \in ScalarFields : /\ f \in ScalarOptions \/ f \notin Options
                              /\ f \notin Switches /\ f \notin ListOptions
  BY SMTT(60)
<1>6. \A o \in Options : \/ o \in ListOptions /\ o \notin ScalarOptions
                         \/ o \in ScalarOptions /\ o \notin ListOptions
                         \/ o \in {"config", "log-file"}
  BY SMTT(60)
<1>7. /\ \A f \in ScalarOptions : f \in Options /\ f \notin {"config", "no-config", "log-file"}
      /\ \A f \in ListOptions : f \in Options /\ f \notin {"config", "no-config", "log-file"}
  OBVIOUS
<1> QED
  BY <1>1, <1>2, <1>3, <1>4, <1>5, <1>6, <1>7

\* The options that ApplyFlags applies, the fields they set, and the result.
Flags == DOMAIN args \ {"config", "no-config", "log-file"}
Flagged == {FieldSetBy(o) : o \in Flags}
FlagsValid == \A o \in Flags : FlagValue(o) # {}
Flag(f) == CHOOSE v \in UNION {FlagValue(o) : o \in {n \in Flags : FieldSetBy(n) = f}} : TRUE
Merged ==
    [f \in DOMAIN built.field \cup Flagged |-> IF f \in Flagged THEN Flag(f) ELSE built.field[f]]

\* A flag is a switch, which has a field of its own, or sets the field of its name.
LEMMA FlagKinds ==
    ASSUME IsCommandLine(typed), SameOptions, NEW o \in Flags
    PROVE  \/ o \in Switches \ {"no-config"} /\ FieldSetBy(o) = SwitchSets[o].field
           \/ o \in ListOptions /\ FieldSetBy(o) = o /\ o \notin Switches
           \/ o \in ScalarOptions /\ FieldSetBy(o) = o /\ o \notin Switches
<1>1. o \in Switches \cup Options
  BY DEF IsCommandLine, SameOptions, Flags
<1>2. o \notin {"config", "no-config", "log-file"}
  BY DEF Flags
<1>3. CASE o \in Switches
  BY <1>2, <1>3 DEF FieldSetBy
<1>4. CASE o \in Options
  <2>1. o \notin Switches
    BY <1>4, NamesDisjoint
  <2> QED
    BY <1>2, <1>4, <2>1, FieldNames DEF FieldSetBy
<1> QED
  BY <1>1, <1>3, <1>4

\* No two options set the same field.
LEMMA FlagsApart ==
    ASSUME IsCommandLine(typed), SameOptions, NoConflict,
           NEW o \in Flags, NEW p \in Flags, FieldSetBy(o) = FieldSetBy(p)
    PROVE  o = p
<1>1. /\ \/ o \in Switches \ {"no-config"} /\ FieldSetBy(o) = SwitchSets[o].field
         \/ o \in Options /\ FieldSetBy(o) = o
      /\ \/ p \in Switches \ {"no-config"} /\ FieldSetBy(p) = SwitchSets[p].field
         \/ p \in Options /\ FieldSetBy(p) = p
  BY FlagKinds, FieldNames
<1>2. {o, p} # {"devtunnel-enable", "devtunnel-disable"}
  BY DEF NoConflict, Flags, SameOptions, Given
<1> QED
  BY <1>1, <1>2, FieldNames, SMTT(60)

\* Each option sets its field, and the others stay as they are.
LEMMA MergedIs ==
    ASSUME IsCommandLine(typed), SameOptions, NoConflict, FlagsValid
    PROVE  /\ \A o \in Flags : /\ FieldSetBy(o) \in DOMAIN Merged
                               /\ Merged[FieldSetBy(o)] \in FlagValue(o)
           /\ \A f : f \notin Flagged => /\ f \in DOMAIN Merged <=> f \in DOMAIN built.field
                                         /\ f \in DOMAIN Merged => Merged[f] = built.field[f]
<1>1. ASSUME NEW o \in Flags
      PROVE  FieldSetBy(o) \in DOMAIN Merged /\ Merged[FieldSetBy(o)] \in FlagValue(o)
  <2>1. FieldSetBy(o) \in Flagged
    BY DEF Flagged
  <2>2. {n \in Flags : FieldSetBy(n) = FieldSetBy(o)} = {o}
    BY FlagsApart
  <2>3. UNION {FlagValue(n) : n \in {o}} = FlagValue(o)
    OBVIOUS
  <2>4. Flag(FieldSetBy(o)) = CHOOSE v \in FlagValue(o) : TRUE
    BY <2>2, <2>3 DEF Flag
  <2>5. FlagValue(o) # {}
    BY DEF FlagsValid
  <2>6. Flag(FieldSetBy(o)) \in FlagValue(o)
    BY <2>4, <2>5
  <2> QED
    BY <2>1, <2>6 DEF Merged
<1> QED
  BY <1>1 DEF Merged

\* The values that options give.
LEMMA FlagValues ==
    /\ \A o \in Switches : FlagValue(o) = {SwitchSets[o].value}
    /\ \A o \in ReplacingLists : FlagValue(o) = {args[o]}
    /\ \A o \in ExtendingLists : FlagValue(o) = {ListOf(built.field, o) \o args[o]}
    /\ \A o \in ScalarOptions : FlagValue(o) = OptionValue(o, args[o])
<1>1. /\ \A o \in Switches : o # "devtunnel-timeout"
      /\ \A o \in ReplacingLists :
           o \notin Switches /\ o \notin ExtendingLists /\ o # "devtunnel-timeout"
      /\ \A o \in ExtendingLists :
           o \notin Switches /\ o \notin ReplacingLists /\ o # "devtunnel-timeout"
      /\ \A o \in ScalarOptions :
           o \notin Switches /\ o \notin ReplacingLists /\ o \notin ExtendingLists
  BY DEF Switches, ReplacingLists, ExtendingLists, ScalarOptions
<1>2. \A o \in ExtendingLists : FlagValue(o) = {ListOf(built.field, o) \o args[o]}
  BY <1>1 DEF FlagValue
<1>3. \A o \in ScalarOptions : FlagValue(o) = OptionValue(o, args[o])
  BY <1>1 DEF FlagValue, OptionValue
<1> QED
  BY <1>1, <1>2, <1>3 DEF FlagValue

\* Paths are located one by one.
LEMMA LocatedConcat ==
    ASSUME NEW T, NEW s \in Seq(T), NEW t \in Seq(T), NEW o, NEW d
    PROVE  Located(o, s \o t, d) = Located(o, s, d) \o Located(o, t, d)
<1>1. CASE o \notin PathOptions
  BY <1>1 DEF Located
<1>2. CASE o \in PathOptions
  <2> DEFINE A(v) == Absolute(v, d)
             u == s \o t
             x == [i \in DOMAIN u |-> A(u[i])]
             y == [i \in DOMAIN s |-> A(s[i])]
             z == [i \in DOMAIN t |-> A(t[i])]
             V == {A(v) : v \in T}
  <2> HIDE DEF A
  <2>1. /\ u \in Seq(T) /\ Len(u) = Len(s) + Len(t)
        /\ DOMAIN s = 1 .. Len(s) /\ DOMAIN t = 1 .. Len(t) /\ DOMAIN u = 1 .. Len(s) + Len(t)
        /\ Len(s) \in Nat /\ Len(t) \in Nat /\ Len(u) \in Nat
    BY SMTT(60)
  <2>2. /\ \A i \in 1 .. Len(s) : u[i] = s[i]
        /\ \A i \in 1 .. Len(s) + Len(t) : i > Len(s) => u[i] = t[i - Len(s)]
    BY SMTT(60)
  <2>3. x \in Seq(V) /\ Len(x) = Len(s) + Len(t) /\ y \in Seq(V) /\ Len(y) = Len(s)
        /\ z \in Seq(V) /\ Len(z) = Len(t)
    <3>1. x \in [1 .. Len(u) -> V] /\ y \in [1 .. Len(s) -> V] /\ z \in [1 .. Len(t) -> V]
      BY <2>1, SMTT(60)
    <3> HIDE DEF x, y, z, V, u
    <3> QED
      BY <2>1, <3>1, SeqOfFcn
  <2>4. /\ \A i \in 1 .. Len(s) + Len(t) : x[i] = A(u[i])
        /\ \A i \in 1 .. Len(s) : y[i] = A(s[i])
        /\ \A i \in 1 .. Len(t) : z[i] = A(t[i])
    BY <2>1
  <2> HIDE DEF x, y, z, V, u
  <2>5. y \o z \in Seq(V) /\ Len(y \o z) = Len(s) + Len(t)
    BY <2>3, SMTT(60)
  <2>6. ASSUME NEW i \in 1 .. Len(s) + Len(t) PROVE x[i] = (y \o z)[i]
    <3>1. CASE i <= Len(s)
      <4>1. i \in 1 .. Len(s)
        BY <2>1, <3>1, SMTT(60)
      <4>2. (y \o z)[i] = y[i]
        BY <2>3, <4>1, SMTT(60)
      <4> QED
        BY <2>2, <2>4, <4>1, <4>2, SMTT(60)
    <3>2. CASE i > Len(s)
      <4>1. i - Len(s) \in 1 .. Len(t)
        BY <2>1, <3>2, SMTT(60)
      <4>2. (y \o z)[i] = z[i - Len(s)]
        BY <2>1, <2>3, <3>2, SMTT(60)
      <4> QED
        BY <2>2, <2>4, <3>2, <4>1, <4>2
    <3>3. Len(s) \in Nat /\ i \in Int
      BY <2>1, SMTT(60)
    <3>4. i <= Len(s) \/ i > Len(s)
      BY <3>3, SMTT(60)
    <3> QED
      BY <3>1, <3>2, <3>4
  <2>7. x = y \o z
    BY <2>1, <2>3, <2>5, <2>6, SeqEqual
  <2> QED
    BY <1>2, <2>7 DEF Located, x, y, z, u, A
<1> QED
  BY <1>1, <1>2

\* The file's part of a list.
LEMMA FileListAt ==
    ASSUME text \in Seq(Line), NEW f
    PROVE  /\ FileList(f) \in Seq(Strings)
           /\ Located(f, FileList(f), dir) =
                IF f # "authorized-keys" THEN Located(f, SaidOf(f), dir)
                ELSE IF DisablesKeys THEN <<>> ELSE Located(f, SaidOf(f), "home")
<1>1. SaidOf(f) \in Seq(Strings)
  <2>1. Len(Said) \in 0 .. Len(Said)
    BY SaidType, SMTT(60)
  <2> QED
    BY <2>1, SoFarSteps
<1>2. Located(f, SaidOf(f), "home") \in Seq(Strings)
  <2> DEFINE s == SaidOf(f)
  <2>1. s \in Seq(Strings) /\ \A v \in Strings : Absolute(v, "home") \in Strings
    BY <1>1 DEF Absolute, Strings
  <2> HIDE DEF s
  <2> QED
    BY <2>1, SMTT(60) DEF Located, s
<1>3. CASE f # "authorized-keys"
  BY <1>1, <1>3 DEF FileList
<1>4. CASE f = "authorized-keys" /\ DisablesKeys
  BY <1>4, SMTT(60) DEF FileList, Located
<1>5. CASE f = "authorized-keys" /\ ~DisablesKeys
  <2>1. FileList(f) = Located(f, SaidOf(f), "home")
    BY <1>5 DEF FileList
  <2>2. Located(f, Located(f, SaidOf(f), "home"), dir) = Located(f, SaidOf(f), "home")
    BY <1>1, LocatedOnce
  <2> QED
    BY <1>2, <1>5, <2>1, <2>2
<1> QED
  BY <1>3, <1>4, <1>5

\* A located list is as long as the list.
LEMMA LocatedType ==
    ASSUME NEW T, NEW s \in Seq(T), NEW o, NEW d
    PROVE  /\ Located(o, s, d) \in Seq(T \cup {d}) /\ DOMAIN Located(o, s, d) = DOMAIN s
           /\ Located(o, s, d) \o <<>> = Located(o, s, d)
<1>1. \A v \in T : Absolute(v, d) \in T \cup {d}
  BY DEF Absolute
<1>2. Located(o, s, d) \in Seq(T \cup {d}) /\ DOMAIN Located(o, s, d) = DOMAIN s
  BY <1>1, SMTT(60) DEF Located
<1> DEFINE l == Located(o, s, d)
<1> HIDE DEF l
<1>3. l \in Seq(T \cup {d}) => l \o <<>> = l
  BY SMTT(60)
<1> QED
  BY <1>2, <1>3 DEF l

\* The lists are the ones that are wanted.
LEMMA MergedLists ==
    ASSUME text \in Seq(Line), IsCommandLine(typed), SameOptions, NoConflict,
           FileRead, FlagsValid,
           NEW f \in ListFields
    PROVE  /\ ListOf(Merged, f) \in Seq(Strings)
           /\ Located(f, ListOf(Merged, f), dir) = WantedList(f)
<1> DEFINE file == IF f # "authorized-keys" THEN Located(f, SaidOf(f), dir)
                   ELSE IF DisablesKeys THEN <<>> ELSE Located(f, SaidOf(f), "home")
           flags == Located(f, ListOf(typed, f), "here")
<1>1. /\ FileList(f) \in Seq(Strings) /\ Located(f, FileList(f), dir) = file
      /\ ListOf(built.field, f) = FileList(f)
  BY FileListAt DEF FileRead
<1>2. WantedList(f) = IF f \in ReplacingLists THEN IF flags # <<>> THEN flags ELSE file
                      ELSE file \o flags
  BY DEF WantedList
<1>3. CASE f \in Flags
  <2>1. f \in ListOptions /\ FieldSetBy(f) = f /\ Given(typed, f) /\ f \in DOMAIN args
    <3>1. f \notin ScalarOptions /\ f \notin Switches /\ f \in ListOptions
      <4>1. f \in DOMAIN typed /\ f \in Switches \cup Options
        BY <1>3 DEF Flags, SameOptions, IsCommandLine
      <4> QED
        BY <4>1, FieldNames, NamesDisjoint
    <3>2. FieldSetBy(f) = f
      BY <1>3, <3>1, FlagKinds
    <3> QED
      BY <1>3, <3>1, <3>2 DEF Flags, SameOptions, Given
  <2>2. /\ args[f] \in Seq(Strings) /\ args[f] # <<>>
        /\ Located(f, args[f], dir) = Located(f, typed[f], "here")
    BY <2>1 DEF SameOptions
  <2>3. ListOf(typed, f) = typed[f]
    BY <2>1 DEF ListOf
  <2>4. flags = Located(f, args[f], dir)
    BY <2>2, <2>3
  <2>5. flags # <<>>
    <3> HIDE DEF flags
    <3>1. DOMAIN Located(f, args[f], dir) = DOMAIN args[f]
      BY DEF Located
    <3>2. ASSUME NEW s \in Seq(Strings), s # <<>> PROVE DOMAIN s # {}
      BY <3>2, SMTT(60)
    <3>3. DOMAIN args[f] # {}
      BY <2>2, <3>2
    <3>4. DOMAIN <<>> = {}
      BY SMTT(60)
    <3> QED
      BY <2>4, <3>1, <3>3, <3>4
  <2>6. f \in DOMAIN Merged /\ Merged[f] \in FlagValue(f)
    BY <1>3, <2>1, MergedIs
  <2>7. ListOf(Merged, f) = Merged[f]
    BY <2>6 DEF ListOf, Given
  <2> HIDE DEF flags, file
  <2>8. CASE f \in ReplacingLists
    <3>1. Merged[f] = args[f]
      BY <2>6, <2>8, FlagValues
    <3> QED
      BY <1>2, <2>2, <2>4, <2>5, <2>7, <2>8, <3>1
  <2>9. CASE f \notin ReplacingLists
    <3>1. f \in ExtendingLists
      BY <2>1, <2>9 DEF ListOptions
    <3>2. Merged[f] = FileList(f) \o args[f]
      <4>1. FlagValue(f) = {ListOf(built.field, f) \o args[f]}
        BY <3>1, FlagValues
      <4> QED
        BY <1>1, <2>6, <4>1
    <3>3. Located(f, FileList(f) \o args[f], dir)
            = Located(f, FileList(f), dir) \o Located(f, args[f], dir)
      <4> DEFINE s == FileList(f)
                 t == args[f]
      <4>1. s \in Seq(Strings) /\ t \in Seq(Strings)
        BY <1>1, <2>2
      <4> HIDE DEF s, t
      <4>2. Located(f, s \o t, dir) = Located(f, s, dir) \o Located(f, t, dir)
        BY <4>1, LocatedConcat, SMTT(60)
      <4> QED
        BY <4>2 DEF s, t
    <3>4. FileList(f) \o args[f] \in Seq(Strings)
      BY <1>1, <2>2, SMTT(60)
    <3> QED
      BY <1>1, <1>2, <2>4, <2>7, <2>9, <3>2, <3>3, <3>4
  <2> QED
    BY <2>8, <2>9
<1>4. CASE f \notin Flags
  <2>1. f \notin DOMAIN args
    BY <1>4, FieldNames DEF Flags, Options
  <2>2. flags = <<>>
    <3>1. ListOf(typed, f) = <<>>
      BY <2>1 DEF SameOptions, ListOf, Given
    <3> QED
      BY <3>1, SMTT(60) DEF Located
  <2>3. f \notin Flagged
    <3> SUFFICES ASSUME NEW o \in Flags, FieldSetBy(o) = f PROVE FALSE
      BY DEF Flagged
    <3>1. o # f
      BY <1>4
    <3>2. o \in Switches \ {"no-config"} /\ f = SwitchSets[o].field
      BY <3>1, FlagKinds
    <3> QED
      <4>1. SwitchSets[o].field \in SwitchFields
        BY <3>2, FieldNames
      <4>2. \A g \in SwitchFields : g \notin ListFields
        BY FieldNames
      <4> QED
        BY <3>2, <4>1, <4>2
  <2>4. ListOf(Merged, f) = FileList(f)
    BY <1>1, <2>3, MergedIs DEF ListOf, Given
  <2>6. file \o <<>> = file
    <3> HIDE DEF file
    <3>1. Located(f, FileList(f), dir) \o <<>> = Located(f, FileList(f), dir)
      BY <1>1, LocatedType, SMTT(60)
    <3> QED
      BY <1>1, <3>1
  <2> HIDE DEF flags, file
  <2> QED
    BY <1>1, <1>2, <2>2, <2>4, <2>6
<1> QED
  BY <1>3, <1>4

\* An option of the process is read like the one that was typed.
LEMMA ReadTyped ==
    ASSUME SameOptions, NEW f \in ScalarOptions, f \in DOMAIN args
    PROVE  /\ OptionValue(f, args[f]) = {} <=> OptionValue(f, typed[f]) = {}
           /\ from_arg_str(f, args[f]) = {} <=> from_arg_str(f, typed[f]) = {}
           /\ \A x \in OptionValue(f, args[f]), y \in OptionValue(f, typed[f]) :
                LocatedValue(f, x, dir) = LocatedValue(f, y, "here")
           /\ f = "devtunnel-id" => args[f] = typed[f]
<1>1. /\ args[f] \in {typed[f], LocatedValue(f, typed[f], "here")}
      /\ LocatedValue(f, args[f], dir) = LocatedValue(f, typed[f], "here")
  <2>1. f \in (Options \ ListOptions) \cap DOMAIN args
    BY FieldNames
  <2> QED
    BY <2>1 DEF SameOptions
<1>2. CASE f \notin PathOptions
  <2>1. args[f] = typed[f]
    BY <1>1, <1>2 DEF LocatedValue
  <2>2. \A x, y \in OptionValue(f, typed[f]) : x = y
    BY ReadOne
  <2> QED
    BY <1>2, <2>1, <2>2 DEF LocatedValue
<1>3. CASE f \in PathOptions
  <2>1. f = "devtunnel-bin" \/ f = "sftp-root"
    BY <1>3 DEF PathOptions, ScalarOptions
  <2>2. \A v : OptionValue(f, v) = {v} /\ from_arg_str(f, v) = {v}
    BY <2>1 DEF OptionValue, from_arg_str
  <2>3. \A x \in OptionValue(f, args[f]), y \in OptionValue(f, typed[f]) :
          x = args[f] /\ y = typed[f]
    BY <2>2
  <2>4. f # "devtunnel-id"
    BY <2>1
  <2> QED
    BY <1>1, <2>2, <2>3, <2>4
<1> QED
  BY <1>2, <1>3

\* Options that argh does not take are at fault.
LEMMA IllTyped ==
    ASSUME SameOptions, ~WellTyped(args)
    PROVE  ~Flawless
<1>1. PICK o \in ScalarOptions \cap DOMAIN args : from_arg_str(o, args[o]) = {}
  BY DEF WellTyped
<1>2. o \in DOMAIN typed /\ from_arg_str(o, typed[o]) = {}
  BY <1>1, ReadTyped DEF SameOptions
<1>3. o # "devtunnel-timeout"
  <2>1. \A v : from_arg_str("devtunnel-timeout", v) = {v}
    BY DEF from_arg_str
  <2> QED
    BY <1>2, <2>1
<1>4. OptionValue(o, typed[o]) = {}
  BY <1>2, <1>3 DEF OptionValue
<1>5. MeantByOption(o, typed[o]) = {}
  BY <1>4, OptionMeant
<1> QED
  BY <1>2, <1>5 DEF Flawless

\* The options name no bad id.
IdValid == "devtunnel-id" \in DOMAIN typed => typed["devtunnel-id"] # "bad"

\* An option that is read and that validate_dev_tunnel does not refuse is read as what
\* it means.
LEMMA TypedMeant ==
    ASSUME IdValid, NEW f \in ScalarOptions \cap DOMAIN typed
    PROVE  OptionValue(f, typed[f]) = MeantByOption(f, typed[f])
<1>1. CASE f = "devtunnel-id"
  <2>1. OptionValue(f, typed[f]) = {typed[f]} /\ MeantByOption(f, typed[f]) = {typed[f]} \ {"bad"}
    BY <1>1, OptionMeant
  <2>2. typed[f] # "bad"
    BY <1>1 DEF IdValid
  <2> QED
    BY <2>1, <2>2
<1>2. CASE f # "devtunnel-id"
  BY <1>2, OptionMeant
<1> QED
  BY <1>1, <1>2

\* The other fields are the ones that are wanted.
LEMMA MergedScalars ==
    ASSUME text \in Seq(Line), IsCommandLine(typed), SameOptions, NoConflict,
           FileRead, FlagsValid, IdValid,
           NEW f \in ScalarFields
    PROVE  {LocatedValue(f, Merged[g], dir) : g \in {f} \cap DOMAIN Merged} = WantedScalar(f)
<1> DEFINE uses == {LocatedValue(f, Merged[g], dir) : g \in {f} \cap DOMAIN Merged}
           switches == {o \in Switches \cap DOMAIN typed :
                           o # "no-config" /\ SwitchSets[o].field = f}
<1>1. DOMAIN args = DOMAIN typed
  BY DEF SameOptions
<1>2. \A o \in switches : o \in Flags /\ FieldSetBy(o) = f
  BY <1>1 DEF Flags, Switches, FieldSetBy
<1>3. CASE switches # {}
  <2>1. PICK o \in switches : TRUE
    BY <1>3
  <2>2. o \in Flags /\ FieldSetBy(o) = f /\ o \in Switches /\ f \in SwitchFields
    BY <1>2, FieldNames, SMTT(60)
  <2>3. switches = {o}
    BY <1>2, <2>1, FlagsApart
  <2>4. f \in DOMAIN Merged /\ Merged[f] = SwitchSets[o].value
    BY <2>2, MergedIs, FlagValues
  <2>5. LocatedValue(f, Merged[f], dir) = Merged[f]
    BY <2>2, FieldNames DEF LocatedValue
  <2>6. uses = {SwitchSets[o].value}
    BY <2>4, <2>5
  <2>7. WantedScalar(f) = {SwitchSets[p].value : p \in switches}
    BY <1>3 DEF WantedScalar
  <2> HIDE DEF switches, uses
  <2> QED
    BY <2>3, <2>6, <2>7 DEF uses
<1>4. CASE switches = {} /\ Given(typed, f)
  <2>1. f \in ScalarOptions /\ f \in Flags /\ f \in DOMAIN args
    <3>1. f \in DOMAIN args /\ f \in Switches \cup Options
      BY <1>1, <1>4 DEF Given, IsCommandLine
    <3> QED
      BY <3>1, FieldNames DEF Flags
  <2>2. FieldSetBy(f) = f
    BY <2>1, FlagKinds, FieldNames
  <2>3. f \in DOMAIN Merged /\ Merged[f] \in OptionValue(f, args[f])
    BY <2>1, <2>2, MergedIs, FlagValues
  <2>4. PICK y \in OptionValue(f, typed[f]) : TRUE
    BY <2>1, <2>3, ReadTyped
  <2>5. OptionValue(f, typed[f]) = {y}
    <3>1. \A x \in OptionValue(f, typed[f]) : x = y
      BY <2>1, ReadOne
    <3> QED
      BY <3>1
  <2>6. LocatedValue(f, Merged[f], dir) = LocatedValue(f, y, "here")
    BY <2>1, <2>3, <2>4, ReadTyped
  <2>7. WantedScalar(f) = {LocatedValue(f, v, "here") : v \in MeantByOption(f, typed[f])}
    BY <1>4 DEF WantedScalar
  <2>8. MeantByOption(f, typed[f]) = {y}
    BY <1>1, <2>1, <2>5, TypedMeant
  <2> HIDE DEF switches
  <2> QED
    BY <2>3, <2>6, <2>7, <2>8
<1>5. CASE switches = {} /\ ~Given(typed, f)
  <2>1. f \notin Flagged
    <3> SUFFICES ASSUME NEW o \in Flags, FieldSetBy(o) = f PROVE FALSE
      BY DEF Flagged
    <3>1. o \in DOMAIN typed /\ o # f
      BY <1>1, <1>5 DEF Flags, Given
    <3>2. o \in Switches \ {"no-config"} /\ f = SwitchSets[o].field
      BY <3>1, FlagKinds
    <3> QED
      BY <1>5, <3>1, <3>2
  <2>2. /\ f \in DOMAIN Merged <=> f \in DOMAIN built.field
        /\ f \in DOMAIN Merged => Merged[f] = built.field[f]
    BY <2>1, MergedIs
  <2>3. /\ f \in DOMAIN built.field <=> SaidOf(f) # <<>>
        /\ f \in DOMAIN built.field => built.field[f] \in Read(f, Last(SaidOf(f)))
    BY SoFarSteps DEF FileRead, ScalarsRead
  <2>4. WantedScalar(f) = IF SaidOf(f) # <<>>
                          THEN {LocatedValue(f, v, dir) : v \in Read(f, Last(SaidOf(f)))}
                          ELSE {}
    BY <1>5, ReadMeant DEF WantedScalar
  <2>5. \A x, y \in Read(f, Last(SaidOf(f))) : x = y
    BY ReadOne
  <2> HIDE DEF switches
  <2> QED
    BY <2>2, <2>3, <2>4, <2>5
<1> QED
  BY <1>3, <1>4, <1>5

\* The labels are validated again, with those that were typed, and so is the id.
LEMMA MergedLabels ==
    ASSUME text \in Seq(Line), IsCommandLine(typed), SameOptions, NoConflict, FileRead, FlagsValid
    PROVE  validate_dev_tunnel(Merged) <=>
             LabelsValid(Range(ListOf(typed, "devtunnel-label"))) /\ IdValid
<1> DEFINE f == "devtunnel-label"
           i == "devtunnel-id"
<1>1. f \in ListFields /\ f \notin PathOptions /\ f \in ReplacingLists /\ f # "authorized-keys"
  BY DEF ListFields, ListOptions, ReplacingLists, PathOptions
<1>2. \A s, d : Located(f, s, d) = s
  BY <1>1 DEF Located
<1>3. Located(f, ListOf(Merged, f), dir) = WantedList(f)
  BY <1>1, MergedLists
<1>4. WantedList(f) = IF ListOf(typed, f) # <<>> THEN ListOf(typed, f) ELSE SaidOf(f)
  BY <1>1, <1>2 DEF WantedList
<1>5. ListOf(Merged, f) = IF ListOf(typed, f) # <<>> THEN ListOf(typed, f) ELSE SaidOf(f)
  BY <1>2, <1>3, <1>4
<1>6. LabelsValid(Range(SaidOf(f))) /\ LabelsValid(Range(<<>>))
  BY NoLabels, NothingInEmpty DEF FileRead
<1>7. LabelsValid(Range(ListOf(Merged, f))) <=> LabelsValid(Range(ListOf(typed, f)))
  BY <1>5, <1>6
<1>8. i \in ScalarOptions /\ i \in ScalarFields /\ i \notin Switches /\ i \notin SwitchFields
  BY DEF ScalarFields, ScalarOptions, Switches, SwitchFields
<1>9. (\E g \in {i} \cap DOMAIN Merged : Merged[g] = "bad") <=> ~IdValid
  <2>1. CASE i \in DOMAIN typed
    <3>1. i \in DOMAIN args /\ i \in Flags
      BY <1>8, <2>1, FieldNames DEF SameOptions, Flags
    <3>2. FieldSetBy(i) = i
      BY <1>8 DEF FieldSetBy
    <3>3. i \in DOMAIN Merged /\ Merged[i] \in OptionValue(i, args[i])
      BY <1>8, <3>1, <3>2, MergedIs, FlagValues
    <3>4. OptionValue(i, args[i]) = {typed[i]}
      BY <1>8, <3>1, OptionMeant, ReadTyped
    <3> QED
      BY <2>1, <3>3, <3>4 DEF IdValid
  <2>2. CASE i \notin DOMAIN typed
    <3>1. i \notin Flagged
      <4> SUFFICES ASSUME NEW o \in Flags, FieldSetBy(o) = i PROVE FALSE
        BY DEF Flagged
      <4>1. o # i
        BY <2>2 DEF Flags, SameOptions
      <4>2. o \in Switches \ {"no-config"} /\ i = SwitchSets[o].field
        BY <4>1, FlagKinds
      <4>3. SwitchSets[o].field \in SwitchFields
        BY <4>2, FieldNames
      <4> QED
        BY <1>8, <4>2, <4>3
    <3>2. i \in DOMAIN Merged => i \in DOMAIN built.field /\ Merged[i] = built.field[i]
      BY <3>1, MergedIs
    <3>3. \A v : Read(i, v) = {v} \ {"bad"}
      BY DEF Read
    <3>4. i \in DOMAIN built.field => built.field[i] # "bad"
      <4>1. i \in DOMAIN built.field => built.field[i] \in Read(i, Last(SoFar(i, Len(Said))))
        BY <1>8 DEF FileRead, ScalarsRead
      <4> HIDE DEF i
      <4> QED
        BY <3>3, <4>1
    <3> QED
      BY <2>2, <3>2, <3>4 DEF IdValid
  <2> QED
    BY <2>1, <2>2
<1>10. validate_dev_tunnel(Merged) <=>
         /\ ~\E g \in {i} \cap DOMAIN Merged : Merged[g] = "bad"
         /\ LabelsValid(Range(ListOf(Merged, f)))
  BY DEF validate_dev_tunnel, LabelsValid
<1> QED
  BY <1>7, <1>9, <1>10

\* ApplyFlags makes the configuration, or there is a flaw.
LEMMA Applying ==
    ASSUME text \in Seq(Line), IsCommandLine(typed), IsBuilt, SameOptions, NoConflict, FileRead,
           ApplyFlags
    PROVE  \/ stage' = "failed" /\ ~Flawless /\ built' = built
           \/ /\ stage' = "configured" /\ Flawless /\ FlagsValid /\ IdValid
              /\ built' = [built EXCEPT !.field = Merged]
<1>1. \/ ~(FlagsValid /\ validate_dev_tunnel(Merged)) /\ Fail
      \/ /\ FlagsValid /\ validate_dev_tunnel(Merged)
         /\ built' = [built EXCEPT !.field = Merged]
         /\ stage' = "configured"
  BY DEF ApplyFlags, FlagsValid, Merged, Flags, Flagged, Flag
<1>2. CASE ~FlagsValid
  <2>1. PICK o \in Flags : FlagValue(o) = {}
    BY <1>2 DEF FlagsValid
  <2>2. o \notin Switches /\ o \notin ListOptions
    BY <2>1, FlagValues DEF ListOptions
  <2>3. o \in ScalarOptions
    BY <2>2, FlagKinds
  <2>4. o \in DOMAIN args /\ o \in DOMAIN typed
    BY DEF Flags, SameOptions
  <2>5. OptionValue(o, typed[o]) = {}
    BY <2>1, <2>3, <2>4, ReadTyped, FlagValues
  <2>6. MeantByOption(o, typed[o]) = {}
    BY <2>3, <2>5, OptionMeant
  <2>7. ~Flawless
    BY <2>3, <2>4, <2>6 DEF Flawless
  <2> QED
    BY <1>1, <1>2, <2>7 DEF Fail
<1>3. CASE FlagsValid /\ ~validate_dev_tunnel(Merged)
  <2>1. ~LabelsValid(Range(ListOf(typed, "devtunnel-label"))) \/ ~IdValid
    BY <1>3, MergedLabels
  <2>2. CASE ~LabelsValid(Range(ListOf(typed, "devtunnel-label")))
    BY <1>1, <1>3, <2>2 DEF Flawless, LabelsValid, Fail
  <2>3. CASE ~IdValid
    <3>1. "devtunnel-id" \in ScalarOptions /\ "devtunnel-id" \in DOMAIN typed
      BY <2>3 DEF IdValid, ScalarOptions
    <3>2. MeantByOption("devtunnel-id", typed["devtunnel-id"]) = {}
      BY <2>3, <3>1, OptionMeant DEF IdValid
    <3>3. ~Flawless
      BY <3>1, <3>2 DEF Flawless
    <3> QED
      BY <1>1, <1>3, <3>3 DEF Fail
  <2> QED
    BY <2>1, <2>2, <2>3
<1>4. CASE FlagsValid /\ validate_dev_tunnel(Merged)
  <2>1. ASSUME NEW f \in ScalarFields, NEW v \in Range(SaidOf(f)) PROVE Meant(f, v) # {}
    <3>1. Read(f, v) # {}
      BY SoFarSteps DEF FileRead, ScalarsRead
    <3> QED
      BY <3>1, ReadMeant
  <2>2. LabelsValid(Range(ListOf(typed, "devtunnel-label"))) /\ IdValid
    BY <1>4, MergedLabels
  <2>3. ASSUME NEW f \in ScalarOptions \cap DOMAIN typed PROVE MeantByOption(f, typed[f]) # {}
    <3>1. f \in DOMAIN args /\ f \in Flags
      BY FieldNames DEF SameOptions, Flags
    <3>2. OptionValue(f, typed[f]) # {}
      BY <1>4, <3>1, ReadTyped, FlagValues DEF FlagsValid
    <3> QED
      BY <2>2, <3>2, TypedMeant
  <2>4. LabelsValid(Range(SaidOf("devtunnel-label"))) /\ KeysPlaced
    BY DEF FileRead
  <2>5. Flawless
    BY <2>1, <2>2, <2>3, <2>4 DEF Flawless, NoConflict, LabelsValid, KeysPlaced
  <2> QED
    BY <1>1, <1>4, <2>2, <2>5
<1> QED
  BY <1>2, <1>3, <1>4
=============================================================================
