------------------------------- MODULE ArrayProofs -------------------------------
(***************************************************************************)
(* What the operators of Arrays return, keep and leave out, and induction   *)
(* over the natural numbers for the loops that the models write as          *)
(* recursive functions.                                                     *)
(***************************************************************************)
EXTENDS Arrays, WellFoundedInduction, TLAPS

\* Without, on a sequence without repetition, is the sequence of the other
\* elements: nothing is lost, nothing is added, nothing is repeated.
LEMMA WithoutProperties ==
    ASSUME NEW S, NEW s \in Seq(S), NEW x, Distinct(s)
    PROVE  /\ Without(s, x) \in Seq(S)
           /\ Elements(Without(s, x)) = Elements(s) \ {x}
           /\ Distinct(Without(s, x))
<1>1. CASE x \notin Elements(s)
  BY <1>1 DEF Without, Distinct, Elements
<1>2. CASE x \in Elements(s)
  <2> DEFINE k == CHOOSE i \in DOMAIN s : s[i] = x
             w == [i \in 1 .. (Len(s) - 1) |-> IF i < k THEN s[i] ELSE s[i + 1]]
  <2>1. k \in 1 .. Len(s) /\ s[k] = x
    BY <1>2 DEF Elements
  <2>2. Without(s, x) = w
    BY <1>2 DEF Without
  <2>3. Len(s) \in Nat /\ Len(s) - 1 \in Nat
    BY <2>1
  <2> HIDE DEF k
  <2>4. w \in Seq(S) /\ Len(w) = Len(s) - 1 /\ DOMAIN w = 1 .. (Len(s) - 1)
    BY <2>1, <2>3
  <2>5. Distinct(w)
    BY <2>1, <2>3, <2>4 DEF Distinct
  <2>6. ASSUME NEW e \in Elements(w) PROVE e \in Elements(s) \ {x}
    <3>1. PICK i \in 1 .. (Len(s) - 1) : e = w[i]
      BY <2>4 DEF Elements
    <3> QED BY <3>1, <2>1, <2>3 DEF Elements, Distinct
  <2>7. ASSUME NEW e \in Elements(s) \ {x} PROVE e \in Elements(w)
    <3>1. PICK i \in 1 .. Len(s) : e = s[i] /\ i # k
      BY <2>1 DEF Elements
    <3>2. CASE i < k
      <4>1. i \in 1 .. (Len(s) - 1) /\ w[i] = e
        BY <3>1, <3>2, <2>1, <2>3
      <4> QED BY <4>1, <2>4 DEF Elements
    <3>3. CASE i > k
      <4>1. i - 1 \in 1 .. (Len(s) - 1) /\ w[i - 1] = e
        BY <3>1, <3>3, <2>1, <2>3
      <4> QED BY <4>1, <2>4 DEF Elements
    <3> QED BY <3>1, <3>2, <3>3, <2>1
  <2> QED BY <2>2, <2>4, <2>5, <2>6, <2>7
<1> QED BY <1>1, <1>2

\* Array.push adds its argument and nothing else.
LEMMA AppendProperties ==
    ASSUME NEW S, NEW s \in Seq(S), NEW x \in S
    PROVE  /\ Append(s, x) \in Seq(S)
           /\ Append(s, x) # <<>>
           /\ Elements(Append(s, x)) = Elements(s) \cup {x}
           /\ Distinct(s) /\ x \notin Elements(s) => Distinct(Append(s, x))
<1>1. /\ Append(s, x) \in Seq(S)
      /\ Append(s, x) # <<>>
      /\ Len(s) \in Nat
      /\ DOMAIN s = 1 .. Len(s)
      /\ DOMAIN Append(s, x) = 1 .. (Len(s) + 1)
      /\ \A i \in 1 .. Len(s) : Append(s, x)[i] = s[i]
      /\ Append(s, x)[Len(s) + 1] = x
  OBVIOUS
<1>2. Elements(Append(s, x)) = Elements(s) \cup {x}
  BY <1>1 DEF Elements
<1>3. Distinct(s) /\ x \notin Elements(s) => Distinct(Append(s, x))
  BY <1>1 DEF Elements, Distinct
<1> QED BY <1>1, <1>2, <1>3

\* What acquireLease leaves in the idle array when it takes the i-th lease: it
\* drops that lease and everything in front of it.
LEMMA SuffixProperties ==
    ASSUME NEW S, NEW s \in Seq(S), NEW i \in DOMAIN s
    PROVE  /\ s[i] \in S
           /\ s[i] \in Elements(s)
           /\ SubSeq(s, i + 1, Len(s)) \in Seq(S)
           /\ Elements(SubSeq(s, i + 1, Len(s))) \subseteq Elements(s)
           /\ Distinct(s) => /\ Distinct(SubSeq(s, i + 1, Len(s)))
                             /\ s[i] \notin Elements(SubSeq(s, i + 1, Len(s)))
<1> DEFINE t == SubSeq(s, i + 1, Len(s))
<1>1. /\ Len(s) \in Nat
      /\ DOMAIN s = 1 .. Len(s)
      /\ i \in 1 .. Len(s)
      /\ s[i] \in S
  OBVIOUS
<1>2. /\ t \in Seq(S)
      /\ DOMAIN t = 1 .. (Len(s) - i)
      /\ \A j \in 1 .. (Len(s) - i) : t[j] = s[i + j]
  BY <1>1
<1> HIDE DEF t
<1>3. \A j \in DOMAIN t : i + j \in DOMAIN s /\ i + j # i /\ t[j] = s[i + j]
  BY <1>1, <1>2
<1>4. Elements(t) \subseteq Elements(s)
  BY <1>3 DEF Elements
<1>5. ASSUME Distinct(s) PROVE Distinct(t) /\ s[i] \notin Elements(t)
  <2>1. Distinct(t)
    BY <1>1, <1>2, <1>3, <1>5 DEF Distinct
  <2>2. s[i] \notin Elements(t)
    BY <1>1, <1>2, <1>3, <1>5 DEF Distinct, Elements
  <2> QED BY <2>1, <2>2
<1> QED BY <1>1, <1>2, <1>4, <1>5 DEF Elements, t

\* The type of Without does not depend on repetitions.
LEMMA WithoutType ==
    ASSUME NEW S, NEW s \in Seq(S), NEW x
    PROVE  Without(s, x) \in Seq(S)
<1>1. CASE x \notin Elements(s)
  BY <1>1 DEF Without
<1>2. CASE x \in Elements(s)
  <2> DEFINE k == CHOOSE i \in DOMAIN s : s[i] = x
  <2>1. k \in 1 .. Len(s) /\ Len(s) \in Nat /\ Len(s) - 1 \in Nat
    BY <1>2 DEF Elements
  <2>2. Without(s, x) = [i \in 1 .. (Len(s) - 1) |-> IF i < k THEN s[i] ELSE s[i + 1]]
    BY <1>2 DEF Without
  <2> HIDE DEF k
  <2> QED BY <2>1, <2>2
<1> QED BY <1>1, <1>2

\* Without makes no sequence longer.
LEMMA WithoutLen ==
    ASSUME NEW S, NEW s \in Seq(S), NEW x
    PROVE  Len(Without(s, x)) <= Len(s)
<1>1. CASE x \notin Elements(s)
  BY <1>1 DEF Without
<1>2. CASE x \in Elements(s)
  <2> DEFINE k == CHOOSE i \in DOMAIN s : s[i] = x
  <2>1. k \in 1 .. Len(s) /\ Len(s) \in Nat /\ Len(s) - 1 \in Nat
    BY <1>2 DEF Elements
  <2>2. Without(s, x) = [i \in 1 .. (Len(s) - 1) |-> IF i < k THEN s[i] ELSE s[i + 1]]
    BY <1>2 DEF Without
  <2> HIDE DEF k
  <2>3. Without(s, x) \in Seq(S) /\ DOMAIN Without(s, x) = 1 .. (Len(s) - 1)
    BY <2>1, <2>2, WithoutType
  <2> QED BY <2>1, <2>3
<1> QED BY <1>1, <1>2

\* An empty array.
LEMMA EmptyProperties == Elements(<<>>) = {} /\ Distinct(<<>>)
BY DEF Elements, Distinct

\* Array.shift takes the first object out.
LEMMA TailProperties ==
    ASSUME NEW S, NEW s \in Seq(S), s # <<>>
    PROVE  /\ Head(s) \in S
           /\ Head(s) \in Elements(s)
           /\ Tail(s) \in Seq(S)
           /\ Len(Tail(s)) = Len(s) - 1
           /\ Elements(s) = Elements(Tail(s)) \cup {Head(s)}
           /\ Distinct(s) => Distinct(Tail(s)) /\ Head(s) \notin Elements(Tail(s))
<1>1. /\ Len(s) \in Nat \ {0}
      /\ DOMAIN s = 1 .. Len(s)
      /\ Head(s) = s[1] /\ Head(s) \in S
      /\ Tail(s) \in Seq(S)
      /\ Len(Tail(s)) = Len(s) - 1
      /\ DOMAIN Tail(s) = 1 .. (Len(s) - 1)
      /\ \A i \in 1 .. (Len(s) - 1) : Tail(s)[i] = s[i + 1]
  OBVIOUS
<1>2. Head(s) \in Elements(s)
  BY <1>1 DEF Elements
<1>3. Elements(Tail(s)) \subseteq Elements(s)
  BY <1>1 DEF Elements
<1>4. ASSUME NEW e \in Elements(s), e # Head(s) PROVE e \in Elements(Tail(s))
  <2>1. PICK i \in 1 .. Len(s) : e = s[i] /\ i # 1
    BY <1>1, <1>4 DEF Elements
  <2>2. i - 1 \in 1 .. (Len(s) - 1) /\ Tail(s)[i - 1] = e
    BY <1>1, <2>1
  <2> QED BY <1>1, <2>2 DEF Elements
<1>5. Distinct(s) => Distinct(Tail(s)) /\ Head(s) \notin Elements(Tail(s))
  BY <1>1 DEF Distinct, Elements
<1> QED BY <1>1, <1>2, <1>3, <1>4, <1>5

\* Array.push by positions.
LEMMA AppendIndexes ==
    ASSUME NEW S, NEW s \in Seq(S), NEW x \in S
    PROVE  /\ Append(s, x) \in Seq(S)
           /\ Append(s, x) # <<>>
           /\ s \o <<x>> = Append(s, x)
           /\ Len(s) \in Nat
           /\ Len(Append(s, x)) = Len(s) + 1
           /\ DOMAIN Append(s, x) = 1 .. (Len(s) + 1)
           /\ DOMAIN s = 1 .. Len(s)
           /\ Append(s, x)[Len(s) + 1] = x
           /\ \A i \in 1 .. Len(s) : Append(s, x)[i] = s[i]
OBVIOUS

----------------------------------------------------------------------------
(* Induction.  The principle is stated for a set, so that it needs no       *)
(* operator as a parameter.                                                 *)

\* A set of natural numbers that is not empty has a least member.
LEMMA LeastNumber ==
    ASSUME NEW S, S \subseteq Nat, S # {}
    PROVE  \E n \in S : \A m \in S : n <= m
<1> DEFINE R == OpToRel(<, Nat)
<1>1. IsWellFoundedOn(R, Nat)
  BY NatLessThanWellFounded
<1>2. \A m, n \in Nat : m < n => <<m, n>> \in R
  BY DEF OpToRel
<1> HIDE DEF R
<1>3. PICK n \in S : \A m \in S : ~(<<m, n>> \in R)
  BY <1>1, WFMin
<1>4. \A m \in S : n <= m
  <2> SUFFICES ASSUME NEW m \in S PROVE n <= m
    OBVIOUS
  <2>1. m \in Nat /\ n \in Nat
    OBVIOUS
  <2>2. ~(m < n)
    BY <1>2, <1>3, <2>1
  <2> QED BY <2>1, <2>2
<1> QED BY <1>4

\* Induction over the natural numbers.
LEMMA SetInduction ==
    ASSUME NEW S, 0 \in S, \A n \in Nat : n \in S => n + 1 \in S
    PROVE  \A n \in Nat : n \in S
<1> SUFFICES ASSUME Nat \ S # {} PROVE FALSE
  OBVIOUS
<1>1. PICK n \in Nat \ S : \A m \in Nat \ S : n <= m
  BY LeastNumber
<1>2. n # 0
  OBVIOUS
<1>3. n - 1 \in Nat /\ n - 1 \in S
  BY <1>1, <1>2
<1>4. (n - 1) + 1 \in S
  BY <1>3
<1>5. (n - 1) + 1 = n
  OBVIOUS
<1> QED BY <1>4, <1>5

\* A loop of n turns from state a, whose i-th turn is the function f[i], has a
\* function of its states after every turn.
LEMMA Iteration ==
    ASSUME NEW S, NEW a \in S, NEW n \in Nat, NEW f \in [1 .. n -> [S -> S]]
    PROVE  \E g : g \in [0 .. n -> S] /\ g[0] = a /\ \A i \in 1 .. n : g[i] = f[i][g[i - 1]]
<1> DEFINE IsIter(g, k) == g[0] = a /\ \A i \in 1 .. k : g[i] = f[i][g[i - 1]]
           Good == {k \in Nat : k <= n => \E g \in [0 .. k -> S] : IsIter(g, k)}
<1>1. 0 \in Good
  <2> DEFINE g == [i \in 0 .. 0 |-> a]
  <2>1. g \in [0 .. 0 -> S]
    OBVIOUS
  <2>2. IsIter(g, 0)
    OBVIOUS
  <2> QED BY <2>1, <2>2
<1>2. ASSUME NEW k \in Nat, k \in Good PROVE k + 1 \in Good
  <2> SUFFICES ASSUME k + 1 <= n PROVE \E g \in [0 .. (k + 1) -> S] : IsIter(g, k + 1)
    OBVIOUS
  <2>1. PICK g \in [0 .. k -> S] : IsIter(g, k)
    BY <1>2
  <2> DEFINE h == [i \in 0 .. (k + 1) |-> IF i = k + 1 THEN f[k + 1][g[k]] ELSE g[i]]
  <2>a. f[k + 1] \in [S -> S]
    OBVIOUS
  <2>2. h \in [0 .. (k + 1) -> S]
    BY <2>a
  <2>3. \A i \in 1 .. (k + 1) : h[i] = f[i][h[i - 1]]
    <3> SUFFICES ASSUME NEW i \in 1 .. (k + 1) PROVE h[i] = f[i][h[i - 1]]
      OBVIOUS
    <3>1. CASE i = k + 1
      <4>1. h[i - 1] = g[k]
        BY <3>1
      <4> QED BY <3>1, <4>1
    <3>2. CASE i # k + 1
      <4>1. i \in 1 .. k
        BY <3>2
      <4>2. h[i] = g[i]
        BY <3>2
      <4>3. h[i - 1] = g[i - 1]
        BY <4>1
      <4>4. g[i] = f[i][g[i - 1]]
        BY <2>1, <4>1
      <4> HIDE DEF h
      <4> QED BY <4>2, <4>3, <4>4
    <3> QED BY <3>1, <3>2
  <2>4. h[0] = a
    BY <2>1
  <2>5. IsIter(h, k + 1)
    <3> HIDE DEF h
    <3> QED BY <2>3, <2>4
  <2> HIDE DEF h, IsIter
  <2> QED BY <2>2, <2>5
<1> HIDE DEF Good
<1>3. n \in Good
  BY <1>1, <1>2, SetInduction
<1> QED BY <1>3 DEF Good
=============================================================================
