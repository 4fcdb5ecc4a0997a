---------------------------- MODULE ProofLemmas ----------------------------
(***************************************************************************)
(* Lemmas that several proof modules use: about numbers, sequences and sets *)
(* of threads, and about the linked stacks of the lock-free containers.     *)
(*                                                                          *)
(* The provers have no induction over numbers.  Where one is needed, a proof *)
(* looks at the least number for which its claim fails.                     *)
(***************************************************************************)
EXTENDS Integers, Sequences, FiniteSets, FiniteSetTheorems, WellFoundedInduction, TLAPS

----------------------------------------------------------------------------
(* Numbers, sequences, sets *)

\* A set of numbers has a least one.
LEMMA LeastNumber ==
  ASSUME NEW T, T \subseteq Nat, T # {}
  PROVE  \E x \in T : \A y \in T : x <= y
<1>1. IsWellFoundedOn(OpToRel(<, Nat), Nat)
  BY NatLessThanWellFounded
<1>2. PICK x \in T : \A y \in T : ~ (<<y, x>> \in OpToRel(<, Nat))
  BY <1>1, WFMin
<1>3. \A y \in T : ~ (y < x)
  BY <1>2 DEF OpToRel
<1> QED BY <1>3

\* A function on 1 .. n is a sequence of length n.
LEMMA FunctionIsSeq ==
  ASSUME NEW S, NEW n \in Nat, NEW f \in [1 .. n -> S]
  PROVE  f \in Seq(S) /\ Len(f) = n
<1>1. f \in Seq(S)
  OBVIOUS
<1>2. Len(f) \in Nat /\ DOMAIN f = 1 .. Len(f)
  BY <1>1
<1>3. DOMAIN f = 1 .. n
  OBVIOUS
<1>4. \A i \in Nat : i \in 1 .. n <=> i \in 1 .. Len(f)
  BY <1>2, <1>3
<1>5. Len(f) = n
  <2>1. \A m, k \in Nat : (\A i \in Nat : i \in 1 .. m <=> i \in 1 .. k) => m <= k
    <3> TAKE m, k \in Nat
    <3> HAVE \A i \in Nat : i \in 1 .. m <=> i \in 1 .. k
    <3>1. m # 0 => m \in 1 .. k
      OBVIOUS
    <3> QED BY <3>1
  <2>2. n <= Len(f) /\ Len(f) <= n
    BY <1>2, <1>4, <2>1
  <2> QED BY <1>2, <2>2
<1> QED BY <1>1, <1>5

\* A sequence is a function.
LEMMA SeqIsFunction ==
  ASSUME NEW S, NEW s \in Seq(S)
  PROVE  s = [i \in 1 .. Len(s) |-> s[i]]
OBVIOUS

\* Its elements.
LEMMA ElementOf ==
  ASSUME NEW S, NEW s \in Seq(S), NEW i \in 1 .. Len(s)
  PROVE  i \in DOMAIN s /\ s[i] \in S
OBVIOUS

\* The empty sequence is the one of length 0.
LEMMA LengthZero ==
  ASSUME NEW S, NEW s \in Seq(S)
  PROVE  Len(s) \in Nat /\ (s = <<>> <=> Len(s) = 0)
OBVIOUS

\* An element in front of a sequence.
LEMMA Prepended ==
  ASSUME NEW S, NEW s \in Seq(S), NEW e \in S
  PROVE  /\ <<e>> \o s \in Seq(S) /\ Len(<<e>> \o s) = Len(s) + 1
         /\ (<<e>> \o s)[1] = e
         /\ \A i \in 1 .. Len(s) : (<<e>> \o s)[i + 1] = s[i]
OBVIOUS

\* One sequence after the other.
LEMMA Concatenated ==
  ASSUME NEW S, NEW s \in Seq(S), NEW u \in Seq(S)
  PROVE  /\ s \o u \in Seq(S) /\ Len(s \o u) = Len(s) + Len(u)
         /\ \A i \in 1 .. Len(s) : (s \o u)[i] = s[i]
         /\ \A i \in 1 .. Len(u) : (s \o u)[Len(s) + i] = u[i]
OBVIOUS

\* One element behind the others.
LEMMA Appended ==
  ASSUME NEW S, NEW s \in Seq(S), NEW a \in S
  PROVE  /\ Append(s, a) \in Seq(S) /\ Len(Append(s, a)) = Len(s) + 1
         /\ \A i \in 1 .. Len(s) : Append(s, a)[i] = s[i]
         /\ Append(s, a)[Len(s) + 1] = a
OBVIOUS

\* Sequences that agree everywhere are the same.
LEMMA SameSequence ==
  ASSUME NEW S, NEW s \in Seq(S), NEW u \in Seq(S), Len(s) = Len(u),
         \A i \in 1 .. Len(s) : s[i] = u[i]
  PROVE  s = u
<1>1. s = [i \in 1 .. Len(s) |-> s[i]] /\ u = [i \in 1 .. Len(u) |-> u[i]]
  BY SeqIsFunction
<1>2. [i \in 1 .. Len(s) |-> s[i]] = [i \in 1 .. Len(u) |-> u[i]]
  OBVIOUS
<1> QED BY ONLY <1>1, <1>2

\* A part of a sequence.
LEMMA PartOf ==
  ASSUME NEW S, NEW s \in Seq(S), NEW m \in 1 .. Len(s) + 1, NEW n \in m - 1 .. Len(s)
  PROVE  /\ SubSeq(s, m, n) \in Seq(S) /\ Len(SubSeq(s, m, n)) = n + 1 - m
         /\ \A i \in 1 .. n + 1 - m : SubSeq(s, m, n)[i] = s[m - 1 + i]
<1>1. /\ Len(s) \in Nat /\ m \in Nat /\ n \in Nat /\ m >= 1 /\ n <= Len(s) /\ n + 1 - m \in Nat
  OBVIOUS
<1>2. SubSeq(s, m, n) = [i \in 1 .. n + 1 - m |-> s[m - 1 + i]]
  <2>1. SubSeq(s, m, n) = [i \in 1 .. (1 + n) - m |-> s[(i + m) - 1]]
    BY <1>1
  <2>2. (1 + n) - m = n + 1 - m
    BY <1>1
  <2>3. \A i \in 1 .. n + 1 - m : (i + m) - 1 = m - 1 + i
    BY <1>1
  <2> QED BY <2>1, <2>2, <2>3
<1>3. \A i \in 1 .. n + 1 - m : s[m - 1 + i] \in S
  BY <1>1
<1> DEFINE f == [i \in 1 .. n + 1 - m |-> s[m - 1 + i]]
<1>4. f \in [1 .. n + 1 - m -> S] /\ \A i \in 1 .. n + 1 - m : f[i] = s[m - 1 + i]
  BY <1>3
<1> HIDE DEF f
<1>5. f \in Seq(S) /\ Len(f) = n + 1 - m
  BY <1>1, <1>4, FunctionIsSeq
<1> QED BY <1>2, <1>4, <1>5 DEF f

\* The first three elements of a sequence.
LEMMA FirstThree ==
  ASSUME NEW S, NEW s \in Seq(S), Len(s) >= 3
  PROVE  SubSeq(s, 1, 3) = <<s[1], s[2], s[3]>>
<1> DEFINE u == SubSeq(s, 1, 3)
           v == <<s[1], s[2], s[3]>>
<1>1. 1 \in 1 .. Len(s) + 1 /\ 3 \in 1 - 1 .. Len(s) /\ Len(s) \in Nat
  OBVIOUS
<1>2. u \in Seq(S) /\ Len(u) = 3 + 1 - 1 /\ \A i \in 1 .. 3 + 1 - 1 : u[i] = s[1 - 1 + i]
  BY <1>1, PartOf
<1>3. Len(u) = 3 /\ u[1] = s[1] /\ u[2] = s[2] /\ u[3] = s[3]
  BY <1>2
<1>4. s[1] \in S /\ s[2] \in S /\ s[3] \in S
  BY <1>1
<1>5. v \in Seq(S) /\ Len(v) = 3 /\ v[1] = s[1] /\ v[2] = s[2] /\ v[3] = s[3]
  BY <1>4
<1> HIDE DEF u, v
<1>6. u = [i \in 1 .. 3 |-> u[i]] /\ v = [i \in 1 .. 3 |-> v[i]]
  BY <1>2, <1>3, <1>5, SeqIsFunction
<1>7. \A i \in 1 .. 3 : u[i] = v[i]
  BY <1>3, <1>5
<1> QED BY <1>6, <1>7 DEF u, v

\* The first element of a sequence taken away.
LEMMA TailOf ==
  ASSUME NEW S, NEW s \in Seq(S), s # <<>>
  PROVE  /\ Tail(s) \in Seq(S) /\ Len(Tail(s)) = Len(s) - 1 /\ Len(s) \in Nat \ {0}
         /\ s[1] \in S /\ Head(s) = s[1]
         /\ \A i \in 1 .. Len(s) - 1 : Tail(s)[i] = s[i + 1]
OBVIOUS

\* The head and the tail of a sequence with an element in front.
LEMMA PrependedParts ==
  ASSUME NEW S, NEW s \in Seq(S), NEW e \in S
  PROVE  <<e>> \o s \in Seq(S) /\ Len(<<e>> \o s) = Len(s) + 1
         /\ Head(<<e>> \o s) = e /\ Tail(<<e>> \o s) = s
<1> DEFINE r == <<e>> \o s
<1>1. /\ r \in Seq(S) /\ Len(r) = Len(s) + 1 /\ Len(s) \in Nat /\ r[1] = e
      /\ \A i \in 1 .. Len(s) : r[i + 1] = s[i]
  BY Prepended
<1> HIDE DEF r
<1>2. r # <<>>
  BY <1>1
<1>3. /\ Tail(r) \in Seq(S) /\ Len(Tail(r)) = Len(s) /\ Head(r) = e
      /\ \A i \in 1 .. Len(s) : Tail(r)[i] = r[i + 1]
  BY <1>1, <1>2, TailOf
<1> DEFINE u == Tail(r)
<1>4. u \in Seq(S) /\ Len(u) = Len(s) /\ \A i \in 1 .. Len(s) : u[i] = s[i]
  BY <1>1, <1>3
<1> HIDE DEF u
<1>5. u = s
  <2>1. u = [i \in 1 .. Len(u) |-> u[i]] /\ s = [i \in 1 .. Len(s) |-> s[i]]
    BY <1>4, SeqIsFunction
  <2> QED BY <1>4, <2>1
<1> QED BY <1>1, <1>3, <1>5 DEF r, u

\* A set of which any two elements are equal has at most one.
LEMMA AtMostOne ==
  ASSUME NEW S, \A x, y \in S : x = y
  PROVE  Cardinality(S) <= 1
<1>1. CASE S = {}
  BY <1>1, FS_EmptySet
<1>2. CASE S # {}
  <2>1. PICK x \in S : S = {x}
    BY <1>2
  <2>2. Cardinality(S) = 1
    BY <2>1, FS_Singleton
  <2>3. QED
    BY <2>2
<1>3. QED
  BY <1>1, <1>2

\* f computes each of its values on 1 .. n from the one before, starting from a.
Recursion(f, S, n, a, step) ==
  /\ f \in [0 .. n -> S] /\ f[0] = a
  /\ \A i \in 1 .. n : f[i] = step[<<f[i - 1], i>>]

\* There is such a function.
LEMMA RecursionExists ==
  ASSUME NEW S, NEW n \in Nat, NEW a \in S, NEW step \in [S \X (1 .. n) -> S]
  PROVE  \E f : Recursion(f, S, n, a, step)
<1> DEFINE Solves(f, m) == /\ f \in [0 .. m -> S] /\ f[0] = a
                           /\ \A i \in 1 .. m : f[i] = step[<<f[i - 1], i>>]
           T == { m \in 0 .. n : ~\E f : Solves(f, m) }
<1>1. ASSUME T # {} PROVE FALSE
  <2>1. PICK m \in T : \A y \in T : m <= y
    <3>1. T \subseteq Nat
      OBVIOUS
    <3> HIDE DEF T
    <3> QED BY <1>1, <3>1, LeastNumber
  <2>2. m \in 0 .. n /\ ~\E f : Solves(f, m)
    BY <2>1
  <2>3. m # 0
    <3>1. Solves([i \in 0 .. 0 |-> a], 0)
      OBVIOUS
    <3> QED BY <2>2, <3>1
  <2>4. m - 1 \in 0 .. n /\ ~(m <= m - 1) /\ m \in 1 .. n
    BY <2>2, <2>3
  <2>5. PICK f : Solves(f, m - 1)
    <3>1. m - 1 \notin T
      BY <2>1, <2>4
    <3> QED BY <2>4, <3>1
  <2> DEFINE g == [i \in 0 .. m |-> IF i = m THEN step[<<f[m - 1], m>>] ELSE f[i]]
  <2>6. f \in [0 .. m - 1 -> S] /\ f[0] = a
        /\ \A i \in 1 .. m - 1 : f[i] = step[<<f[i - 1], i>>]
    BY <2>5
  <2>7. step[<<f[m - 1], m>>] \in S
    BY <2>4, <2>6
  <2>8. \A i \in 0 .. m - 1 : g[i] = f[i] /\ f[i] \in S
    BY <2>4, <2>6
  <2>9. g[m] = step[<<f[m - 1], m>>]
    BY <2>4
  <2>10. g \in [0 .. m -> S]
    BY <2>4, <2>6, <2>7
  <2> HIDE DEF g
  <2>11. g[0] = a
    BY <2>4, <2>6, <2>8
  <2>12. \A i \in 1 .. m : g[i] = step[<<g[i - 1], i>>]
    <3> TAKE i \in 1 .. m
    <3>1. CASE i = m
      <4>1. g[m - 1] = f[m - 1]
        BY <2>4, <2>8
      <4> QED BY <2>9, <3>1, <4>1
    <3>2. CASE i # m
      <4>1. i \in 1 .. m - 1 /\ i \in 0 .. m - 1 /\ i - 1 \in 0 .. m - 1
        BY <2>4, <3>2
      <4> QED BY <2>6, <2>8, <4>1
    <3> QED BY <3>1, <3>2
  <2>13. Solves(g, m)
    BY <2>10, <2>11, <2>12
  <2> QED BY <2>2, <2>13
<1>2. n \in 0 .. n
  OBVIOUS
<1>3. n \notin T
  <2> HIDE DEF T
  <2> QED BY <1>1
<1>4. \E f : Solves(f, n)
  <2> HIDE DEF Solves
  <2> QED BY <1>2, <1>3
<1> QED BY <1>4 DEF Recursion

----------------------------------------------------------------------------
(* How often something is in a sequence *)

PlacesOf(s, e) == { i \in DOMAIN s : s[i] = e }

Occurrences(s, e) == Cardinality(PlacesOf(s, e))

LEMMA OccurrencesNat ==
  ASSUME NEW S, NEW s \in Seq(S), NEW e
  PROVE  IsFiniteSet(PlacesOf(s, e)) /\ Occurrences(s, e) \in Nat
<1>1. Len(s) \in Nat /\ DOMAIN s = 1 .. Len(s)
  OBVIOUS
<1>2. IsFiniteSet(1 .. Len(s)) /\ PlacesOf(s, e) \in SUBSET (1 .. Len(s))
  BY <1>1, FS_Interval DEF PlacesOf
<1>3. IsFiniteSet(PlacesOf(s, e))
  BY <1>2, FS_Subset
<1> QED BY <1>3, FS_CardinalityType DEF Occurrences

LEMMA OccurrencesEmpty ==
  ASSUME NEW e
  PROVE  Occurrences(<<>>, e) = 0
<1>1. PlacesOf(<<>>, e) = {}
  BY DEF PlacesOf
<1> QED BY <1>1, FS_EmptySet DEF Occurrences

LEMMA OccurrencesAppend ==
  ASSUME NEW S, NEW s \in Seq(S), NEW a \in S, NEW e
  PROVE  Occurrences(Append(s, a), e) = Occurrences(s, e) + (IF a = e THEN 1 ELSE 0)
<1> DEFINE r == Append(s, a)
<1>1. /\ Len(s) \in Nat /\ DOMAIN s = 1 .. Len(s) /\ DOMAIN r = 1 .. Len(s) + 1
      /\ \A i \in 1 .. Len(s) : r[i] = s[i]
      /\ r[Len(s) + 1] = a
  OBVIOUS
<1> HIDE DEF r
<1>2. Len(s) + 1 \notin PlacesOf(s, e)
  BY <1>1 DEF PlacesOf
<1>3. CASE a = e
  <2>1. PlacesOf(r, e) = PlacesOf(s, e) \cup {Len(s) + 1}
    BY <1>1, <1>3 DEF PlacesOf
  <2> QED BY <1>2, <1>3, <2>1, OccurrencesNat, FS_AddElement DEF Occurrences, r
<1>4. CASE a # e
  <2>1. PlacesOf(r, e) = PlacesOf(s, e)
    BY <1>1, <1>4 DEF PlacesOf
  <2>2. Occurrences(r, e) = Occurrences(s, e) /\ Occurrences(s, e) \in Nat
    BY <2>1, OccurrencesNat DEF Occurrences
  <2> QED BY <1>4, <2>2 DEF r
<1> QED BY <1>3, <1>4

LEMMA OccurrencesConcat ==
  ASSUME NEW S, NEW s \in Seq(S), NEW u \in Seq(S), NEW e
  PROVE  Occurrences(s \o u, e) = Occurrences(s, e) + Occurrences(u, e)
<1> DEFINE r == s \o u
           moved == { Len(s) + i : i \in PlacesOf(u, e) }
<1>1. /\ Len(s) \in Nat /\ DOMAIN s = 1 .. Len(s) /\ Len(u) \in Nat /\ DOMAIN u = 1 .. Len(u)
      /\ DOMAIN r = 1 .. Len(s) + Len(u)
      /\ \A i \in 1 .. Len(s) : r[i] = s[i]
      /\ \A i \in 1 .. Len(u) : r[Len(s) + i] = u[i]
  OBVIOUS
<1> HIDE DEF r
<1>2. PlacesOf(r, e) = PlacesOf(s, e) \cup moved
  <2>1. ASSUME NEW i \in PlacesOf(r, e)
        PROVE  i \in PlacesOf(s, e) \cup moved
    <3>1. CASE i \in 1 .. Len(s)
      BY <1>1, <3>1 DEF PlacesOf
    <3>2. CASE i \notin 1 .. Len(s)
      <4>1. i - Len(s) \in 1 .. Len(u) /\ i = Len(s) + (i - Len(s)) /\ r[i] = e
        BY <1>1, <3>2 DEF PlacesOf
      <4>2. i - Len(s) \in PlacesOf(u, e)
        BY <1>1, <4>1 DEF PlacesOf
      <4> QED BY <4>1, <4>2
    <3> QED BY <3>1, <3>2
  <2>2. PlacesOf(s, e) \subseteq PlacesOf(r, e)
    BY <1>1 DEF PlacesOf
  <2>3. moved \subseteq PlacesOf(r, e)
    BY <1>1 DEF PlacesOf
  <2> QED BY <2>1, <2>2, <2>3
<1>3. PlacesOf(s, e) \cap moved = {}
  BY <1>1 DEF PlacesOf
<1>4. IsFiniteSet(moved) /\ Cardinality(moved) = Occurrences(u, e)
  <2> DEFINE f == [i \in PlacesOf(u, e) |-> Len(s) + i]
  <2>1. PlacesOf(u, e) \subseteq Nat
    BY <1>1 DEF PlacesOf
  <2>2. f \in Bijection(PlacesOf(u, e), moved)
    BY <1>1, <2>1 DEF Bijection, Injection, Surjection, IsInjective
  <2>3. ExistsBijection(PlacesOf(u, e), moved)
    BY <2>2 DEF ExistsBijection
  <2> QED BY <2>3, OccurrencesNat, FS_Bijection DEF Occurrences
<1> HIDE DEF moved
<1>5. Cardinality(PlacesOf(r, e)) = Cardinality(PlacesOf(s, e)) + Cardinality(moved)
  <2>1. /\ IsFiniteSet(PlacesOf(s, e)) /\ Cardinality(PlacesOf(s, e)) \in Nat
        /\ Cardinality(moved) \in Nat
    BY <1>4, OccurrencesNat DEF Occurrences
  <2>2. Cardinality(PlacesOf(s, e) \cap moved) = 0
    BY <1>3, FS_EmptySet
  <2>3. Cardinality(PlacesOf(s, e) \cup moved) = Cardinality(PlacesOf(s, e)) + Cardinality(moved)
                                                 - Cardinality(PlacesOf(s, e) \cap moved)
    BY <1>4, <2>1, FS_Union
  <2> QED BY <1>2, <2>1, <2>2, <2>3
<1> QED BY <1>4, <1>5 DEF Occurrences, r

LEMMA OccurrencesSplit ==
  ASSUME NEW S, NEW s \in Seq(S), NEW n \in 0 .. Len(s), NEW e
  PROVE  Occurrences(s, e) = Occurrences(SubSeq(s, 1, n), e)
                               + Occurrences(SubSeq(s, n + 1, Len(s)), e)
<1>1. SubSeq(s, 1, n) \in Seq(S) /\ SubSeq(s, n + 1, Len(s)) \in Seq(S)
  OBVIOUS
<1> DEFINE a == SubSeq(s, 1, n)
           b == SubSeq(s, n + 1, Len(s))
<1>2. s = a \o b
  <2>1. /\ Len(s) \in Nat /\ n \in Nat /\ Len(a) = n /\ \A i \in 1 .. n : a[i] = s[i]
    OBVIOUS
  <2>2. Len(b) = Len(s) - n /\ \A i \in 1 .. Len(s) - n : b[i] = s[n + i]
    OBVIOUS
  <2> HIDE DEF a, b
  <2>3. a \in Seq(S) /\ b \in Seq(S)
    BY <1>1 DEF a, b
  <2>4. /\ a \o b \in Seq(S) /\ Len(a \o b) = Len(a) + Len(b)
        /\ \A i \in 1 .. Len(a) : (a \o b)[i] = a[i]
        /\ \A i \in 1 .. Len(b) : (a \o b)[Len(a) + i] = b[i]
    BY <2>3, Concatenated
  <2>5. \A i \in 1 .. Len(s) : (a \o b)[i] = s[i]
    <3> TAKE i \in 1 .. Len(s)
    <3>1. CASE i <= n
      <4>1. i \in 1 .. n
        BY <2>1, <3>1
      <4> QED BY <2>1, <2>4, <4>1
    <3>2. CASE i > n
      <4> DEFINE j == i - n
      <4>1. j \in 1 .. Len(s) - n /\ n + j = i
        BY <2>1, <3>2
      <4> HIDE DEF j
      <4>2. (a \o b)[n + j] = b[j] /\ b[j] = s[n + j]
        BY <2>1, <2>2, <2>4, <4>1
      <4> QED BY <4>1, <4>2
    <3>3. i <= n \/ i > n
      <4>1. \A k, m \in Int : k <= m \/ k > m
        OBVIOUS
      <4> QED BY <2>1, <4>1
    <3> QED BY <3>1, <3>2, <3>3
  <2>6. a \o b = [i \in 1 .. Len(s) |-> (a \o b)[i]]
    <3>1. Len(a \o b) = Len(s)
      BY <2>1, <2>2, <2>4
    <3> QED BY <2>4, <3>1, SeqIsFunction
  <2>7. s = [i \in 1 .. Len(s) |-> s[i]]
    BY SeqIsFunction
  <2> QED BY <2>5, <2>6, <2>7
<1>3. a \in Seq(S) /\ b \in Seq(S)
  BY <1>1
<1> HIDE DEF a, b
<1>4. Occurrences(a \o b, e) = Occurrences(a, e) + Occurrences(b, e)
  BY <1>3, OccurrencesConcat
<1> QED BY <1>2, <1>4 DEF a, b

----------------------------------------------------------------------------
(* A stack of nodes linked by pointers <<node, tag>>, the null pointer being *)
(* node 0: what LockFreeStack and LockFreeObjectPool keep under mTop.        *)

\* The list under top, given the Next of each node: its pointers, all in P, from
\* the top on; no node is in it twice.
IsList(top, next, q, P) ==
  /\ q \in Seq(P)
  /\ top = IF q = <<>> THEN <<0, 0>> ELSE q[1]
  /\ \A i \in 1 .. Len(q) : next[q[i][1]] = IF i = Len(q) THEN <<0, 0>> ELSE q[i + 1]
  /\ \A i, j \in 1 .. Len(q) : q[i][1] = q[j][1] => i = j

\* The top node taken off.
LEMMA ListPop ==
  ASSUME NEW top, NEW next, NEW q, NEW P, IsList(top, next, q, P), q # <<>>
  PROVE  top = q[1] /\ IsList(next[top[1]], next, Tail(q), P)
<1> DEFINE r == Tail(q)
           n == Len(q)
<1>1. /\ q \in Seq(P) /\ top = q[1]
      /\ \A i \in 1 .. n : next[q[i][1]] = IF i = n THEN <<0, 0>> ELSE q[i + 1]
      /\ \A i, j \in 1 .. n : q[i][1] = q[j][1] => i = j
  BY DEF IsList
<1>2. /\ r \in Seq(P) /\ Len(r) = n - 1 /\ n \in Nat \ {0}
      /\ \A i \in 1 .. n - 1 : r[i] = q[i + 1]
  BY <1>1, TailOf
<1>3. r = <<>> <=> n = 1
  <2>1. r = <<>> <=> Len(r) = 0
    BY <1>2, LengthZero
  <2> QED BY <1>2, <2>1
<1> HIDE DEF r, n
<1>4. next[top[1]] = IF r = <<>> THEN <<0, 0>> ELSE r[1]
  <2>1. next[q[1][1]] = IF 1 = n THEN <<0, 0>> ELSE q[2]
    BY <1>1, <1>2
  <2>2. n # 1 => r[1] = q[2]
    BY <1>2
  <2> QED BY <1>1, <1>3, <2>1, <2>2
<1>5. ASSUME NEW i \in 1 .. Len(r)
      PROVE  next[r[i][1]] = IF i = Len(r) THEN <<0, 0>> ELSE r[i + 1]
  <2>1. i \in 1 .. n - 1 /\ i + 1 \in 1 .. n /\ r[i] = q[i + 1]
    BY <1>2
  <2>2. next[q[i + 1][1]] = IF i + 1 = n THEN <<0, 0>> ELSE q[(i + 1) + 1]
    BY <1>1, <2>1
  <2>3. i # n - 1 => r[i + 1] = q[(i + 1) + 1]
    BY <1>2, <2>1
  <2> QED BY <1>2, <2>1, <2>2, <2>3
<1>6. ASSUME NEW i \in 1 .. Len(r), NEW j \in 1 .. Len(r), r[i][1] = r[j][1]
      PROVE  i = j
  <2>1. i + 1 \in 1 .. n /\ j + 1 \in 1 .. n /\ q[i + 1][1] = q[j + 1][1]
    BY <1>2, <1>6
  <2>2. i + 1 = j + 1
    BY <1>1, <2>1
  <2> QED BY <1>2, <2>2
<1>7. IsList(next[top[1]], next, r, P)
  BY <1>2, <1>4, <1>5, <1>6 DEF IsList
<1> QED BY <1>1, <1>7 DEF r

\* A node that is not in the list, whose Next is the top, put on it.
LEMMA ListPush ==
  ASSUME NEW top, NEW next, NEW q, NEW P, IsList(top, next, q, P),
         NEW p \in P, next[p[1]] = top, \A i \in 1 .. Len(q) : q[i][1] # p[1]
  PROVE  IsList(p, next, <<p>> \o q, P)
<1> DEFINE r == <<p>> \o q
<1>1. /\ q \in Seq(P) /\ top = IF q = <<>> THEN <<0, 0>> ELSE q[1]
      /\ \A i \in 1 .. Len(q) : next[q[i][1]] = IF i = Len(q) THEN <<0, 0>> ELSE q[i + 1]
      /\ \A i, j \in 1 .. Len(q) : q[i][1] = q[j][1] => i = j
  BY DEF IsList
<1>2. /\ r \in Seq(P) /\ Len(r) = Len(q) + 1 /\ Len(q) \in Nat /\ r[1] = p
      /\ \A i \in 1 .. Len(q) : r[i + 1] = q[i]
  BY <1>1, Prepended
<1> HIDE DEF r
<1>3. p = IF r = <<>> THEN <<0, 0>> ELSE r[1]
  BY <1>2
<1>4. ASSUME NEW i \in 1 .. Len(r)
      PROVE  next[r[i][1]] = IF i = Len(r) THEN <<0, 0>> ELSE r[i + 1]
  <2>1. CASE i = 1
    <3>1. CASE Len(q) = 0
      BY <1>1, <1>2, <2>1, <3>1
    <3>2. CASE Len(q) # 0
      <4>1. r[i + 1] = q[1] /\ i # Len(r) /\ q # <<>>
        BY <1>2, <2>1, <3>2
      <4> QED BY <1>1, <1>2, <2>1, <4>1
    <3> QED BY <3>1, <3>2
  <2>2. CASE i # 1
    <3> DEFINE j == i - 1
    <3>1. j \in 1 .. Len(q) /\ i = j + 1 /\ (i = Len(r) <=> j = Len(q))
      BY <1>2, <2>2
    <3> HIDE DEF j
    <3>2. r[i] = q[j] /\ (j # Len(q) => r[i + 1] = q[j + 1])
      BY <1>2, <3>1
    <3> QED BY <1>1, <3>1, <3>2
  <2> QED BY <2>1, <2>2
<1>5. ASSUME NEW i \in 1 .. Len(r), NEW j \in 1 .. Len(r), r[i][1] = r[j][1]
      PROVE  i = j
  <2>1. \A k \in 1 .. Len(r) : k # 1 => k - 1 \in 1 .. Len(q) /\ r[k] = q[k - 1]
    <3> TAKE k \in 1 .. Len(r)
    <3> HAVE k # 1
    <3>1. k - 1 \in 1 .. Len(q) /\ k = (k - 1) + 1
      BY <1>2
    <3>2. r[(k - 1) + 1] = q[k - 1]
      BY <1>2, <3>1
    <3> QED BY <3>1, <3>2
  <2>2. CASE i = 1 \/ j = 1
    BY <1>2, <1>5, <2>1, <2>2
  <2>3. CASE i # 1 /\ j # 1
    <3>1. i - 1 \in 1 .. Len(q) /\ j - 1 \in 1 .. Len(q) /\ q[i - 1][1] = q[j - 1][1]
      BY <1>5, <2>1, <2>3
    <3>2. i - 1 = j - 1
      BY <1>1, <3>1
    <3>3. i \in Int /\ j \in Int
      BY <1>2
    <3> QED BY <3>2, <3>3
  <2> QED BY <2>2, <2>3
<1>6. IsList(p, next, r, P)
  BY <1>2, <1>3, <1>4, <1>5 DEF IsList
<1> QED BY <1>6 DEF r

\* A node that is not in the list appended to it.
LEMMA ListAppend ==
  ASSUME NEW top, NEW next, NEW q, NEW P, IsList(top, next, q, P), q # <<>>,
         NEW p \in P, p[1] \in DOMAIN next, next[p[1]] = <<0, 0>>,
         \A i \in 1 .. Len(q) : q[i][1] # p[1] /\ q[i][1] \in DOMAIN next
  PROVE  IsList(top, [next EXCEPT ![q[Len(q)][1]] = p], Append(q, p), P)
<1> DEFINE r == Append(q, p)
           n == Len(q)
           new == [next EXCEPT ![q[n][1]] = p]
<1>1. /\ q \in Seq(P) /\ top = q[1]
      /\ \A i \in 1 .. n : next[q[i][1]] = IF i = n THEN <<0, 0>> ELSE q[i + 1]
      /\ \A i, j \in 1 .. n : q[i][1] = q[j][1] => i = j
  BY DEF IsList
<1>2. /\ r \in Seq(P) /\ Len(r) = n + 1 /\ \A i \in 1 .. n : r[i] = q[i]
      /\ r[n + 1] = p
  BY <1>1, Appended
<1>3. n \in Nat \ {0}
  BY <1>1, LengthZero
<1>4. /\ new[q[n][1]] = p /\ new[p[1]] = <<0, 0>>
      /\ \A i \in 1 .. n : i # n => new[q[i][1]] = next[q[i][1]]
  BY <1>1, <1>3
<1> HIDE DEF r, n, new
<1>5. r # <<>> /\ top = r[1]
  BY <1>1, <1>2, <1>3
<1>6. ASSUME NEW i \in 1 .. Len(r)
      PROVE  new[r[i][1]] = IF i = Len(r) THEN <<0, 0>> ELSE r[i + 1]
  <2>1. CASE i = n + 1
    BY <1>2, <1>4, <2>1
  <2>2. CASE i = n
    BY <1>2, <1>3, <1>4, <2>2
  <2>3. CASE i # n /\ i # n + 1
    <3>1. i \in 1 .. n /\ i + 1 \in 1 .. n /\ i # Len(r)
      BY <1>2, <1>3, <2>3
    <3> QED BY <1>1, <1>2, <1>4, <2>3, <3>1
  <2> QED BY <2>1, <2>2, <2>3
<1>7. ASSUME NEW i \in 1 .. Len(r), NEW j \in 1 .. Len(r), r[i][1] = r[j][1]
      PROVE  i = j
  <2>1. \A k \in 1 .. Len(r) : k = n + 1 \/ k \in 1 .. n
    BY <1>2, <1>3
  <2>2. \A k \in 1 .. n : r[k][1] # p[1]
    BY <1>2 DEF n
  <2> QED BY <1>1, <1>2, <1>7, <2>1, <2>2
<1>8. IsList(top, new, r, P)
  BY <1>2, <1>5, <1>6, <1>7 DEF IsList
<1> QED BY <1>8 DEF new, r, n

\* The Next of a node that is not in the list may change.
LEMMA ListUntouched ==
  ASSUME NEW top, NEW next, NEW q, NEW P, IsList(top, next, q, P),
         NEW o, NEW p, \A i \in 1 .. Len(q) : q[i][1] # o
  PROVE  IsList(top, [next EXCEPT ![o] = p], q, P)
<1> DEFINE new == [next EXCEPT ![o] = p]
<1>1. \A i \in 1 .. Len(q) : new[q[i][1]] = next[q[i][1]]
  OBVIOUS
<1> HIDE DEF new
<1>2. IsList(top, new, q, P)
  BY <1>1 DEF IsList
<1> QED BY <1>2 DEF new

\* What the recursive functions NodeAt compute: the first n nodes under top, 0 below the
\* last one.
Walked(top, next, n) ==
  CHOOSE f : f = [i \in 1 .. n |-> IF i = 1 THEN top[1]
                                   ELSE IF f[i - 1] = 0 THEN 0 ELSE next[f[i - 1]][1]]

\* The walk finds the nodes of the list in order.
LEMMA ListWalk ==
  ASSUME NEW top, NEW next, NEW q, NEW P, IsList(top, next, q, P),
         P \subseteq (Nat \ {0}) \X Nat, NEW n \in Nat, Len(q) < n
  PROVE  Walked(top, next, n) = [i \in 1 .. n |-> IF i <= Len(q) THEN q[i][1] ELSE 0]
<1> DEFINE F(f) == [i \in 1 .. n |-> IF i = 1 THEN top[1]
                                     ELSE IF f[i - 1] = 0 THEN 0 ELSE next[f[i - 1]][1]]
           w == [i \in 1 .. n |-> IF i <= Len(q) THEN q[i][1] ELSE 0]
           c == CHOOSE f : f = F(f)
<1> HIDE DEF F, w, c
<1>1. /\ q \in Seq(P) /\ Len(q) \in Nat
      /\ top = IF q = <<>> THEN <<0, 0>> ELSE q[1]
      /\ \A i \in 1 .. Len(q) : next[q[i][1]] = IF i = Len(q) THEN <<0, 0>> ELSE q[i + 1]
  BY LengthZero DEF IsList
<1>2. \A i \in 1 .. Len(q) : q[i] \in P
  BY <1>1
<1>3. \A i \in 1 .. Len(q) : q[i][1] # 0
  BY <1>2
<1>4. \A i \in 1 .. n : w[i] = IF i <= Len(q) THEN q[i][1] ELSE 0
  BY DEF w
<1>5. ASSUME NEW i \in 1 .. n
      PROVE  w[i] = IF i = 1 THEN top[1] ELSE IF w[i - 1] = 0 THEN 0 ELSE next[w[i - 1]][1]
  <2>1. CASE i = 1
    <3>1. CASE q = <<>>
      <4>1. top[1] = 0 /\ Len(q) = 0
        BY <1>1, <3>1
      <4> QED BY <1>4, <2>1, <4>1
    <3>2. CASE q # <<>>
      <4>1. top = q[1] /\ 1 <= Len(q)
        BY <1>1, <3>2
      <4> QED BY <1>4, <2>1, <4>1
    <3> QED BY <3>1, <3>2
  <2>2. CASE i # 1
    <3> DEFINE j == i - 1
    <3>1. j \in 1 .. n /\ i = j + 1 /\ j \in Nat /\ i - 1 = j /\ j >= 1
      BY <2>2
    <3> HIDE DEF j
    <3>2. CASE j > Len(q)
      <4>1. w[j] = 0 /\ w[i] = 0
        BY <1>1, <1>4, <3>1, <3>2
      <4> QED BY <2>2, <3>1, <4>1
    <3>3. CASE j <= Len(q)
      <4>1. j \in 1 .. Len(q) /\ w[j] = q[j][1] /\ w[j] # 0
        BY <1>1, <1>3, <1>4, <3>1, <3>3
      <4>2. next[w[j]] = IF j = Len(q) THEN <<0, 0>> ELSE q[i]
        BY <1>1, <3>1, <4>1
      <4>3. w[i] = next[w[j]][1]
        <5>1. CASE j = Len(q)
          <6>1. next[w[j]] = <<0, 0>>
            BY <4>2, <5>1
          <6>2. next[w[j]][1] = 0
            BY <6>1
          <6>3. ~(i <= Len(q))
            <7>1. i = Len(q) + 1
              BY <3>1, <5>1
            <7>2. Len(q) \in Nat
              BY <1>1
            <7>3. \A m \in Nat : ~(m + 1 <= m)
              OBVIOUS
            <7> QED BY <7>1, <7>2, <7>3
          <6> QED BY <1>4, <6>2, <6>3
        <5>2. CASE j # Len(q)
          <6>1. next[w[j]] = q[i] /\ i <= Len(q)
            BY <1>1, <3>1, <3>3, <4>2, <5>2
          <6> QED BY <1>4, <6>1
        <5> QED BY <5>1, <5>2
      <4> QED BY <2>2, <3>1, <4>1, <4>3
    <3> QED BY <1>1, <3>1, <3>2, <3>3
  <2> QED BY <2>1, <2>2
<1>6. w = F(w)
  <2>1. w = [i \in 1 .. n |-> w[i]]
    BY DEF w
  <2> QED BY <1>5, <2>1 DEF F
<1>7. c = F(c)
  BY <1>6 DEF c
<1>8. \A i \in 1 .. n : c[i] = IF i = 1 THEN top[1]
                                ELSE IF c[i - 1] = 0 THEN 0 ELSE next[c[i - 1]][1]
  BY <1>7 DEF F
<1> DEFINE T == { i \in 1 .. n : c[i] # w[i] }
<1>9. T = {}
  <2> SUFFICES ASSUME T # {} PROVE FALSE
    OBVIOUS
  <2>1. PICK i \in T : \A y \in T : i <= y
    <3>1. T \subseteq Nat
      OBVIOUS
    <3> HIDE DEF T
    <3> QED BY <3>1, LeastNumber
  <2>2. i # 1
    BY <1>5, <1>8, <2>1
  <2>3. i - 1 \in 1 .. n /\ ~(i <= i - 1)
    BY <2>1, <2>2
  <2>4. c[i - 1] = w[i - 1]
    BY <2>1, <2>3
  <2>5. c[i] = w[i]
    BY <1>5, <1>8, <2>1, <2>2, <2>4
  <2> QED BY <2>1, <2>5
<1>10. c = w
  <2>1. c = [i \in 1 .. n |-> c[i]] /\ w = [i \in 1 .. n |-> w[i]]
    BY <1>7 DEF w, F
  <2>2. \A i \in 1 .. n : c[i] = w[i]
    BY <1>9
  <2> HIDE DEF T
  <2> QED BY <2>1, <2>2
<1> QED BY <1>10 DEF c, w, F, Walked

----------------------------------------------------------------------------
(* Counting *)

\* The first n numbers.
LEMMA FirstNumbers ==
  ASSUME NEW n \in Nat
  PROVE  IsFiniteSet(1 .. n) /\ Cardinality(1 .. n) = n
BY FS_Interval

\* As many values as arguments, where no two of them have the same.
LEMMA ImageCounted ==
  ASSUME NEW S, IsFiniteSet(S), NEW f, \A x, y \in S : f[x] = f[y] => x = y
  PROVE  /\ IsFiniteSet({ f[x] : x \in S })
         /\ Cardinality({ f[x] : x \in S }) = Cardinality(S)
<1> DEFINE T == { f[x] : x \in S }
           g == [x \in S |-> f[x]]
<1>1. g \in [S -> T] /\ \A x \in S : g[x] = f[x]
  OBVIOUS
<1>2. \A y \in T : \E x \in S : g[x] = y
  OBVIOUS
<1> HIDE DEF T, g
<1>3. g \in Bijection(S, T)
  BY <1>1, <1>2 DEF Bijection, Injection, IsInjective, Surjection
<1> QED BY <1>3, FS_Bijection DEF ExistsBijection, T

\* Three sets that share nothing and have n of the first n numbers have them all.
LEMMA AllAreCounted ==
  ASSUME NEW n \in Nat, NEW A, NEW B, NEW C, A \cup B \cup C \subseteq 1 .. n,
         A \cap B = {}, A \cap C = {}, B \cap C = {},
         Cardinality(A) + Cardinality(B) + Cardinality(C) = n
  PROVE  A \cup B \cup C = 1 .. n
<1>1. IsFiniteSet(1 .. n) /\ Cardinality(1 .. n) = n
  BY FirstNumbers
<1>2. IsFiniteSet(A) /\ IsFiniteSet(B) /\ IsFiniteSet(C)
  BY <1>1, FS_Subset
<1>3. Cardinality(A) \in Nat /\ Cardinality(B) \in Nat /\ Cardinality(C) \in Nat
  BY <1>2, FS_CardinalityType
<1> DEFINE D == A \cup B
<1>4. IsFiniteSet(D) /\ Cardinality(D) = Cardinality(A) + Cardinality(B)
  <2>1. IsFiniteSet(D) /\ Cardinality(D) = Cardinality(A) + Cardinality(B) - Cardinality({})
    BY <1>2, FS_Union
  <2> QED BY <1>3, <2>1, FS_EmptySet
<1>5. D \cap C = {}
  OBVIOUS
<1> HIDE DEF D
<1>6. Cardinality(D \cup C) = Cardinality(D) + Cardinality(C)
  <2>1. Cardinality(D \cup C) = Cardinality(D) + Cardinality(C) - Cardinality({})
    BY <1>2, <1>4, <1>5, FS_Union
  <2> QED BY <1>3, <1>4, <2>1, FS_EmptySet
<1>7. Cardinality(D \cup C) = n
  BY <1>3, <1>4, <1>6
<1>8. D \cup C \in SUBSET (1 .. n)
  BY DEF D
<1>9. D \cup C = 1 .. n
  BY <1>1, <1>7, <1>8, FS_Subset
<1> QED BY <1>9 DEF D

----------------------------------------------------------------------------
(* Things in three places *)

\* The things of U that are spare, those that calls have, and those in a row are all different.
Apart(U, spare, has, row) ==
  /\ spare \subseteq U
  /\ \A t \in DOMAIN has : has[t] \in U \ spare
  /\ \A t, u \in DOMAIN has : has[t] = has[u] => t = u
  /\ row \in Seq(U)
  /\ \A i \in 1 .. Len(row) : row[i] \notin spare /\ \A t \in DOMAIN has : has[t] # row[i]
  /\ \A i, j \in 1 .. Len(row) : row[i] = row[j] => i = j

\* A call gets something, or has it no longer.
With(has, t, e)  == [u \in DOMAIN has \cup {t} |-> IF u = t THEN e ELSE has[u]]
Without(has, t) == [u \in DOMAIN has \ {t} |-> has[u]]

\* What is not in the row.
Off(spare, has) == spare \cup { has[t] : t \in DOMAIN has }

\* A call takes a spare thing.
LEMMA ApartTake ==
  ASSUME NEW U, NEW spare, NEW has, NEW row, Apart(U, spare, has, row),
         NEW t, t \notin DOMAIN has, NEW e \in spare
  PROVE  /\ Apart(U, spare \ {e}, With(has, t, e), row)
         /\ Off(spare \ {e}, With(has, t, e)) = Off(spare, has)
<1> DEFINE f == With(has, t, e)
<1>1. /\ DOMAIN f = DOMAIN has \cup {t} /\ f[t] = e
      /\ \A u \in DOMAIN has : f[u] = has[u]
  BY DEF With
<1> HIDE DEF f
<1>2. Apart(U, spare \ {e}, f, row)
  BY <1>1 DEF Apart
<1>3. Off(spare \ {e}, f) = Off(spare, has)
  BY <1>1 DEF Off
<1> QED BY <1>2, <1>3 DEF f

\* It gives it back.
LEMMA ApartGive ==
  ASSUME NEW U, NEW spare, NEW has, NEW row, Apart(U, spare, has, row), NEW t \in DOMAIN has
  PROVE  /\ Apart(U, spare \cup {has[t]}, Without(has, t), row)
         /\ Off(spare \cup {has[t]}, Without(has, t)) = Off(spare, has)
<1> DEFINE f == Without(has, t)
<1>1. DOMAIN f = DOMAIN has \ {t} /\ \A u \in DOMAIN f : f[u] = has[u]
  BY DEF Without
<1> HIDE DEF f
<1>2. Apart(U, spare \cup {has[t]}, f, row)
  BY <1>1 DEF Apart
<1>3. Off(spare \cup {has[t]}, f) = Off(spare, has)
  BY <1>1 DEF Off
<1> QED BY <1>2, <1>3 DEF f

\* It takes the first of the row.
LEMMA ApartPop ==
  ASSUME NEW U, NEW spare, NEW has, NEW row, Apart(U, spare, has, row), row # <<>>,
         NEW t, t \notin DOMAIN has
  PROVE  /\ Apart(U, spare, With(has, t, row[1]), Tail(row))
         /\ Off(spare, With(has, t, row[1])) = Off(spare, has) \cup {Head(row)}
<1> DEFINE f == With(has, t, row[1])
           r == Tail(row)
<1>1. /\ DOMAIN f = DOMAIN has \cup {t} /\ f[t] = row[1]
      /\ \A u \in DOMAIN has : f[u] = has[u]
  BY DEF With
<1>2. /\ r \in Seq(U) /\ Len(row) \in Nat \ {0} /\ Len(r) = Len(row) - 1
      /\ row[1] \in U /\ Head(row) = row[1]
      /\ \A i \in 1 .. Len(row) - 1 : r[i] = row[i + 1]
  BY TailOf DEF Apart
<1> HIDE DEF f, r
<1>3. \A i \in 1 .. Len(r) : i + 1 \in 1 .. Len(row) /\ i + 1 # 1 /\ r[i] = row[i + 1]
  BY <1>2
<1>4. 1 \in 1 .. Len(row)
  BY <1>2
<1>5. \A i \in 1 .. Len(r) : r[i] \notin spare /\ r[i] # row[1]
                             /\ \A u \in DOMAIN has : has[u] # r[i]
  BY <1>3, <1>4 DEF Apart
<1>6. ASSUME NEW i \in 1 .. Len(r), NEW j \in 1 .. Len(r), r[i] = r[j]
      PROVE  i = j
  <2>1. i + 1 = j + 1
    BY <1>3, <1>6 DEF Apart
  <2> QED BY <2>1
<1>7. \A u \in DOMAIN has : has[u] # row[1]
  BY <1>4 DEF Apart
<1>8. row[1] \in U \ spare
  BY <1>2, <1>4 DEF Apart
<1>9. Apart(U, spare, f, r)
  BY <1>1, <1>2, <1>5, <1>6, <1>7, <1>8 DEF Apart
<1>10. Off(spare, f) = Off(spare, has) \cup {row[1]}
  BY <1>1 DEF Off
<1> QED BY <1>2, <1>9, <1>10 DEF f, r

\* It puts what it has in front of the row.
LEMMA ApartPush ==
  ASSUME NEW U, NEW spare, NEW has, NEW row, Apart(U, spare, has, row), NEW t \in DOMAIN has
  PROVE  /\ Apart(U, spare, Without(has, t), <<has[t]>> \o row)
         /\ has[t] \in Off(spare, has) /\ has[t] \in U
         /\ Off(spare, Without(has, t)) = Off(spare, has) \ {has[t]}
<1> DEFINE f == Without(has, t)
           e == has[t]
           r == <<e>> \o row
<1>1. DOMAIN f = DOMAIN has \ {t} /\ \A u \in DOMAIN f : f[u] = has[u]
  BY DEF Without
<1>2. row \in Seq(U) /\ e \in U \ spare
  BY DEF Apart
<1>3. /\ r \in Seq(U) /\ Len(r) = Len(row) + 1 /\ Len(row) \in Nat /\ r[1] = e
      /\ \A i \in 1 .. Len(row) : r[i + 1] = row[i]
  BY <1>2, Prepended, LengthZero
<1> HIDE DEF f, r
<1>4. \A i \in 1 .. Len(r) : i = 1 \/ (i - 1 \in 1 .. Len(row) /\ r[i] = row[i - 1])
  <2> TAKE i \in 1 .. Len(r)
  <2>1. CASE i # 1
    <3>1. i - 1 \in 1 .. Len(row) /\ i = (i - 1) + 1
      BY <1>3, <2>1
    <3>2. r[(i - 1) + 1] = row[i - 1]
      BY <1>3, <3>1
    <3> QED BY <3>1, <3>2
  <2> QED BY <2>1
<1>5. \A u \in DOMAIN has : u # t => has[u] # e
  BY DEF Apart
<1>6. \A i \in 1 .. Len(row) : row[i] # e
  BY DEF Apart
<1>7. ASSUME NEW i \in 1 .. Len(r)
      PROVE  r[i] \notin spare /\ \A u \in DOMAIN f : f[u] # r[i]
  <2>1. CASE i = 1
    BY <1>1, <1>2, <1>3, <1>5, <2>1
  <2>2. CASE i # 1
    BY <1>1, <1>4, <2>2 DEF Apart
  <2> QED BY <2>1, <2>2
<1>8. ASSUME NEW i \in 1 .. Len(r), NEW j \in 1 .. Len(r), r[i] = r[j]
      PROVE  i = j
  <2>1. CASE i = 1 \/ j = 1
    BY <1>3, <1>4, <1>6, <1>8, <2>1
  <2>2. CASE i # 1 /\ j # 1
    <3>1. i - 1 = j - 1
      BY <1>4, <1>8, <2>2 DEF Apart
    <3>2. i \in Int /\ j \in Int
      BY <1>3
    <3> QED BY <3>1, <3>2
  <2> QED BY <2>1, <2>2
<1>9. \A u \in DOMAIN f : f[u] \in U \ spare
  BY <1>1 DEF Apart
<1>10. \A u, v \in DOMAIN f : f[u] = f[v] => u = v
  BY <1>1 DEF Apart
<1>11. Apart(U, spare, f, r)
  BY <1>3, <1>7, <1>8, <1>9, <1>10 DEF Apart
<1>12. e \in Off(spare, has)
  BY DEF Off
<1>13. Off(spare, f) = Off(spare, has) \ {e}
  BY <1>1, <1>2, <1>5 DEF Off
<1> QED BY <1>2, <1>11, <1>12, <1>13 DEF f, r

\* It puts what it has behind the row.
LEMMA ApartAppend ==
  ASSUME NEW U, NEW spare, NEW has, NEW row, Apart(U, spare, has, row), NEW t \in DOMAIN has
  PROVE  /\ Apart(U, spare, Without(has, t), Append(row, has[t]))
         /\ has[t] \in Off(spare, has) /\ has[t] \in U
         /\ Off(spare, Without(has, t)) = Off(spare, has) \ {has[t]}
<1> DEFINE f == Without(has, t)
           e == has[t]
           r == Append(row, e)
<1>1. DOMAIN f = DOMAIN has \ {t} /\ \A u \in DOMAIN f : f[u] = has[u]
  BY DEF Without
<1>2. e \in U /\ e \notin spare /\ e \in Off(spare, has)
  BY DEF Apart, Off
<1>3. /\ r \in Seq(U) /\ Len(r) = Len(row) + 1 /\ Len(row) \in Nat /\ r[Len(row) + 1] = e
      /\ \A i \in 1 .. Len(row) : r[i] = row[i]
  <2>1. row \in Seq(U)
    BY DEF Apart
  <2> QED BY <1>2, <2>1, Appended, LengthZero
<1>4. \A u \in DOMAIN f : f[u] # e /\ u \in DOMAIN has
  BY <1>1 DEF Apart
<1>5. \A i \in 1 .. Len(row) : row[i] # e
  BY DEF Apart
<1> HIDE DEF f, e, r
<1>6. \A i \in 1 .. Len(r) : i = Len(row) + 1 \/ i \in 1 .. Len(row)
  BY <1>3
<1>7. /\ \A u \in DOMAIN f : f[u] \in U \ spare
      /\ \A u, v \in DOMAIN f : f[u] = f[v] => u = v
  BY <1>1, <1>4 DEF Apart
<1>8. \A i \in 1 .. Len(r) : r[i] \notin spare /\ \A u \in DOMAIN f : f[u] # r[i]
  <2> TAKE i \in 1 .. Len(r)
  <2>1. CASE i = Len(row) + 1
    BY <1>2, <1>3, <1>4, <2>1
  <2>2. CASE i \in 1 .. Len(row)
    BY <1>1, <1>3, <1>4, <2>2 DEF Apart
  <2> QED BY <1>6, <2>1, <2>2
<1>9. ASSUME NEW i \in 1 .. Len(r), NEW j \in 1 .. Len(r), r[i] = r[j]
      PROVE  i = j
  <2>1. CASE i = Len(row) + 1 \/ j = Len(row) + 1
    BY <1>3, <1>5, <1>6, <1>9, <2>1
  <2>2. CASE i \in 1 .. Len(row) /\ j \in 1 .. Len(row)
    BY <1>3, <1>9, <2>2 DEF Apart
  <2> QED BY <1>6, <2>1, <2>2
<1>10. Apart(U, spare, f, r)
  BY <1>3, <1>7, <1>8, <1>9 DEF Apart
<1>11. Off(spare, f) = Off(spare, has) \ {e}
  <2>1. \A u \in DOMAIN has : u = t \/ u \in DOMAIN f
    BY <1>1
  <2>2. has[t] = e
    BY DEF e
  <2> QED BY <1>1, <1>2, <1>4, <2>1, <2>2 DEF Off
<1> QED BY <1>2, <1>10, <1>11 DEF f, e, r
=============================================================================
