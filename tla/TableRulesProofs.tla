-------------------------- MODULE TableRulesProofs --------------------------
(***************************************************************************)
(* Proofs for the table requests of sn-p4: no array of a pack is freed     *)
(* twice, since fields that fit make a whole that fits; each pipeline that *)
(* a request names is answered once and in order; and a dump that nobody   *)
(* disturbs lists each entry of its table once.  For any number of         *)
(* workers, devices, pipelines, tables, fields and requests.               *)
(***************************************************************************)
EXTENDS TableRulesRefinement, FiniteSetTheorems, SequenceTheorems,
        WellFoundedInduction, TLAPS

-----------------------------------------------------------------------------
(* Induction, and lists *)

\* A set of numbers that is not empty has a least one.
LEMMA Least ==
  ASSUME NEW T, T \subseteq Nat, T # {}
  PROVE  \E x \in T : \A y \in T : x <= y
<1> DEFINE R == OpToRel(<, Nat)
<1>1. IsWellFoundedOn(R, Nat)
  BY NatLessThanWellFounded
<1>2. \A x, y \in Nat : y < x => <<y, x>> \in R
  BY DEF OpToRel
<1> HIDE DEF R
<1>3. PICK x \in T : \A y \in T : ~(<<y, x>> \in R)
  BY <1>1, WFMin
<1>4. \A y \in T : ~(y < x)
  BY <1>2, <1>3
<1> QED
  BY <1>4

\* Induction up to a bound, over a set instead of a predicate.
LEMMA UpTo ==
  ASSUME NEW N \in Nat, NEW T, 0 \in T,
         \A n \in 0 .. N - 1 : n \in T => n + 1 \in T
  PROVE  \A n \in 0 .. N : n \in T
<1> DEFINE Missing == {n \in 0 .. N : n \notin T}
<1> SUFFICES ASSUME Missing # {} PROVE FALSE
  OBVIOUS
<1>1. Missing \subseteq Nat
  OBVIOUS
<1>2. PICK x \in Missing : \A y \in Missing : x <= y
  <2> HIDE DEF Missing
  <2> QED
    BY <1>1, Least
<1>3. x \in 0 .. N /\ x \notin T /\ x # 0
  BY <1>2
<1>4. x - 1 \in 0 .. N - 1 /\ (x - 1) + 1 = x
  BY <1>3
<1>5. x - 1 \notin T
  BY <1>3, <1>4
<1>6. x - 1 \in Missing
  BY <1>4, <1>5
<1>7. x <= x - 1
  BY <1>2, <1>6
<1> QED
  BY <1>3, <1>7

\* A sequence is a list.
LEMMA SeqIsList ==
  ASSUME NEW S, NEW q \in Seq(S)
  PROVE  IsList(q) /\ Len(q) \in Nat /\ \A n \in 1 .. Len(q) : q[n] \in S
<1>1. Len(q) \in Nat /\ q \in [1 .. Len(q) -> S]
  BY LenProperties
<1> QED
  BY <1>1 DEF IsList

\* A list is a sequence of what it holds.
LEMMA ListIsSeq ==
  ASSUME NEW q, IsList(q)
  PROVE  q \in Seq({q[n] : n \in 1 .. Len(q)})
<1> DEFINE S == {q[n] : n \in 1 .. Len(q)}
<1>1. Len(q) \in Nat /\ q = [n \in 1 .. Len(q) |-> q[n]]
  BY DEF IsList
<1>2. \A n \in 1 .. Len(q) : q[n] \in S
  OBVIOUS
<1> HIDE DEF S
<1>3. [n \in 1 .. Len(q) |-> q[n]] \in Seq(S)
  BY <1>1, <1>2, IsASeq
<1>4. q \in Seq(S)
  BY <1>1, <1>3
<1> QED
  BY <1>4 DEF S

\* A list without its first item.
LEMMA ListTail ==
  ASSUME NEW q, IsList(q), q # <<>>
  PROVE  /\ Len(q) \in Nat /\ Len(q) > 0 /\ Head(q) = q[1]
         /\ IsList(Tail(q))
         /\ Len(Tail(q)) = Len(q) - 1
         /\ \A m \in 1 .. Len(q) - 1 : Tail(q)[m] = q[m + 1]
<1> DEFINE S == {q[m] : m \in 1 .. Len(q)}
<1>1. q \in Seq(S)
  BY ListIsSeq
<1> HIDE DEF S
<1>2. Len(q) \in Nat /\ Len(q) # 0
  BY <1>1, EmptySeq, LenProperties
<1>3. Head(q) = q[1]
  BY <1>1, HeadTailProperties
<1>4. Tail(q) \in Seq(S)
  BY <1>1, HeadTailProperties
<1>5. Len(Tail(q)) = Len(q) - 1
  BY <1>1, HeadTailProperties
<1>6. \A m \in 1 .. Len(Tail(q)) : Tail(q)[m] = q[m + 1]
  BY <1>1, HeadTailProperties
<1>7. IsList(Tail(q))
  BY <1>4, SeqIsList
<1>8. Len(q) > 0
  BY <1>2
<1>9. \A m \in 1 .. Len(q) - 1 : Tail(q)[m] = q[m + 1]
  BY <1>5, <1>6
<1> QED
  BY <1>2, <1>3, <1>5, <1>7, <1>8, <1>9

\* Where the items of two sequences are in the one of both.
LEMMA Appended ==
  ASSUME NEW S, NEW s \in Seq(S), NEW t \in Seq(S)
  PROVE  /\ s \o t \in Seq(S) /\ Len(s) \in Nat /\ Len(t) \in Nat
         /\ Len(s \o t) = Len(s) + Len(t)
         /\ \A a \in 1 .. Len(s) : (s \o t)[a] = s[a] /\ a \in 1 .. Len(s \o t)
         /\ \A b \in 1 .. Len(t) : /\ (s \o t)[Len(s) + b] = t[b]
                                   /\ Len(s) + b \in 1 .. Len(s \o t)
         /\ \A c \in 1 .. Len(s \o t) :
              c \in 1 .. Len(s) \/ (c > Len(s) /\ c - Len(s) \in 1 .. Len(t)
                                      /\ (s \o t)[c] = t[c - Len(s)])
<1>1. Len(s) \in Nat /\ Len(t) \in Nat
  BY LenProperties
<1>2. s \o t \in Seq(S) /\ Len(s \o t) = Len(s) + Len(t)
  BY ConcatProperties
<1>3. \A i \in 1 .. Len(s) + Len(t) :
        (s \o t)[i] = IF i <= Len(s) THEN s[i] ELSE t[i - Len(s)]
  BY ConcatProperties
<1>4. \A a \in 1 .. Len(s) : a \in 1 .. Len(s) + Len(t) /\ a <= Len(s)
  BY <1>1
<1>5. \A b \in 1 .. Len(t) : /\ Len(s) + b \in 1 .. Len(s) + Len(t)
                             /\ ~(Len(s) + b <= Len(s)) /\ (Len(s) + b) - Len(s) = b
  BY <1>1
<1>6. \A c \in 1 .. Len(s) + Len(t) :
        c \in 1 .. Len(s) \/ (~(c <= Len(s)) /\ c > Len(s) /\ c - Len(s) \in 1 .. Len(t))
  BY <1>1
<1>7. \A a \in 1 .. Len(s) : (s \o t)[a] = s[a] /\ a \in 1 .. Len(s \o t)
  BY <1>2, <1>3, <1>4
<1>8. \A b \in 1 .. Len(t) : /\ (s \o t)[Len(s) + b] = t[b]
                             /\ Len(s) + b \in 1 .. Len(s \o t)
  BY <1>2, <1>3, <1>5
<1>9. \A c \in 1 .. Len(s \o t) :
        c \in 1 .. Len(s) \/ (c > Len(s) /\ c - Len(s) \in 1 .. Len(t)
                                /\ (s \o t)[c] = t[c - Len(s)])
  BY <1>2, <1>3, <1>6
<1> QED
  BY <1>1, <1>2, <1>7, <1>8, <1>9

\* A sequence is a list.

LEMMA EmptyList == IsList(<<>>) /\ Len(<<>>) = 0
<1>1. <<>> \in Seq({})
  OBVIOUS
<1> QED
  BY <1>1, SeqIsList, EmptySeq

\* Each value of g follows from the one before by a step of G.
StepsBy(g, x, N, G) == g[0] = x /\ \A n \in 1 .. N : g[n] = G[n, g[n - 1]]

\* Such a function is there.
LEMMA Recursion ==
  ASSUME NEW N \in Nat, NEW S, NEW x \in S, NEW G \in [(1 .. N) \X S -> S]
  PROVE  \E g \in [0 .. N -> S] : StepsBy(g, x, N, G)
<1> DEFINE Body(g, k) == [n \in 0 .. k |-> IF n = 0 THEN x ELSE G[n, g[n - 1]]]
           T == {k \in 0 .. N : \E g \in [0 .. k -> S] : g = Body(g, k)}
<1>1. 0 \in T
  <2> DEFINE g == [n \in {0} |-> x]
  <2>1. 0 .. 0 = {0}
    OBVIOUS
  <2>2. \A n \in 0 .. 0 : n = 0
    BY <2>1
  <2>3. Body(g, 0) = [n \in 0 .. 0 |-> x]
    BY <2>2, Zenon
  <2>4. g = Body(g, 0)
    BY <2>1, <2>3
  <2>5. g \in [0 .. 0 -> S]
    BY <2>1
  <2> HIDE DEF g
  <2>6. \E u \in [0 .. 0 -> S] : u = Body(u, 0)
    <3> HIDE DEF Body
    <3> QED
      BY <2>4, <2>5
  <2>7. 0 \in 0 .. N
    OBVIOUS
  <2> HIDE DEF Body
  <2> QED
    BY <2>6, <2>7
<1>2. ASSUME NEW k \in 0 .. N - 1, k \in T PROVE k + 1 \in T
  <2>1. PICK g \in [0 .. k -> S] : g = Body(g, k)
    BY <1>2
  <2> DEFINE h == [n \in 0 .. k + 1 |-> IF n = k + 1 THEN G[k + 1, g[k]] ELSE g[n]]
  <2>n. k \in Nat /\ \A n \in 0 .. k : n \in 0 .. k + 1 /\ n # k + 1
    OBVIOUS
  <2>2. \A n \in 0 .. k : h[n] = g[n]
    BY <2>n
  <2>3. g[k] \in S /\ k + 1 \in 1 .. N
    OBVIOUS
  <2>4. G[k + 1, g[k]] \in S
    BY <2>3
  <2>5. h \in [0 .. k + 1 -> S]
    <3>1. \A n \in 0 .. k + 1 : n = k + 1 \/ n \in 0 .. k
      BY <2>n
    <3>2. \A n \in 0 .. k + 1 : h[n] \in S
      BY <2>2, <2>4, <3>1
    <3> QED
      BY <3>2
  <2>6. ASSUME NEW n \in 0 .. k + 1
        PROVE  h[n] = IF n = 0 THEN x ELSE G[n, h[n - 1]]
    <3>1. CASE n = k + 1
      <4>1. n # 0 /\ n - 1 = k /\ k \in 0 .. k
        BY <3>1
      <4>2. h[n] = G[n, g[k]]
        BY <3>1
      <4>3. h[k] = g[k]
        BY <2>2, <4>1
      <4> HIDE DEF h
      <4> QED
        BY <4>1, <4>2, <4>3
    <3>2. CASE n # k + 1
      <4>1. n \in 0 .. k
        BY <3>2
      <4>2. h[n] = g[n] /\ g[n] = IF n = 0 THEN x ELSE G[n, g[n - 1]]
        BY <2>1, <2>2, <4>1
      <4>3. n # 0 => n - 1 \in 0 .. k
        BY <4>1
      <4>4. n # 0 => h[n - 1] = g[n - 1]
        BY <2>2, <4>3
      <4> HIDE DEF h
      <4> QED
        BY <4>2, <4>4
    <3> QED
      BY <3>1, <3>2
  <2>7. h = [n \in 0 .. k + 1 |-> h[n]]
    OBVIOUS
  <2>8. h = Body(h, k + 1)
    <3> HIDE DEF h
    <3> QED
      BY <2>6, <2>7
  <2>9. k + 1 \in 0 .. N
    OBVIOUS
  <2> HIDE DEF h
  <2> QED
    BY <2>5, <2>8, <2>9
<1> HIDE DEF T
<1>3. \A n \in 0 .. N : n \in T
  BY <1>1, <1>2, UpTo
<1>4. N \in T
  BY <1>3
<1>5. PICK g \in [0 .. N -> S] : g = Body(g, N)
  BY <1>4 DEF T
<1>6. \A n \in 0 .. N : g[n] = IF n = 0 THEN x ELSE G[n, g[n - 1]]
  BY <1>5, Zenon
<1>7. 0 \in 0 .. N /\ \A n \in 1 .. N : n \in 0 .. N /\ n # 0
  OBVIOUS
<1>8. StepsBy(g, x, N, G)
  BY <1>6, <1>7, Zenon DEF StepsBy
<1> QED
  BY <1>8

-----------------------------------------------------------------------------
(* Powers of two *)

\* The first n numbers.
LEMMA Segment == ASSUME NEW n \in Nat PROVE IsFiniteSet(1 .. n) /\ Cardinality(1 .. n) = n
<1>1. 1 \in Int /\ n \in Int
  OBVIOUS
<1>2. IsFiniteSet(1 .. n) /\ Cardinality(1 .. n) = IF 1 > n THEN 0 ELSE n - 1 + 1
  BY <1>1, FS_Interval
<1> QED
  BY <1>2

\* 2^n counts the subsets of a set with n members.
LEMMA Power ==
  ASSUME NEW n \in Nat
  PROVE  IsFiniteSet(SUBSET (1 .. n)) /\ Cardinality(SUBSET (1 .. n)) = 2^n /\ 2^n \in Nat /\ 2^n > 0
<1>1. IsFiniteSet(SUBSET (1 .. n)) /\ Cardinality(SUBSET (1 .. n)) = 2^n
  BY Segment, FS_SUBSET
<1>2. 2^n \in Nat
  BY <1>1, FS_CardinalityType
<1>3. {} \in SUBSET (1 .. n)
  OBVIOUS
<1>4. 2^n # 0
  <2>1. SUBSET (1 .. n) # {}
    BY <1>3
  <2> QED
    BY <1>1, <2>1, FS_EmptySet
<1> QED
  BY <1>1, <1>2, <1>4

\* A subset of 1 .. n + m is one of the first n numbers and one of the others.
LEMMA PowerOfSum ==
  ASSUME NEW n \in Nat, NEW m \in Nat
  PROVE  2^(n + m) = 2^n * 2^m
<1> DEFINE A == SUBSET (1 .. n)
           B == SUBSET (1 .. m)
           C == SUBSET (1 .. n + m)
           up(b) == {x + n : x \in b}
           down(c) == {x \in 1 .. m : x + n \in c}
           f == [p \in A \X B |-> p[1] \cup up(p[2])]
<1>1. \A a \in A, b \in B : a \cup up(b) \in C
  <2>1. \A b \in B : \A x \in b : x + n \in 1 .. n + m
    OBVIOUS
  <2>2. \A a \in A : \A x \in a : x \in 1 .. n + m
    OBVIOUS
  <2> QED
    BY <2>1, <2>2
<1>2. f \in [A \X B -> C]
  BY <1>1
<1>3. ASSUME NEW a \in A, NEW b \in B
      PROVE  /\ (a \cup up(b)) \cap (1 .. n) = a
             /\ {x \in 1 .. m : x + n \in a \cup up(b)} = b
  <2>1. \A x \in b : x + n \notin 1 .. n
    OBVIOUS
  <2>2. (a \cup up(b)) \cap (1 .. n) = a
    BY <2>1
  <2>3. \A x \in 1 .. m : x + n \notin a
    OBVIOUS
  <2>4. \A x \in 1 .. m : x + n \in up(b) => x \in b
    <3> SUFFICES ASSUME NEW x \in 1 .. m, x + n \in up(b) PROVE x \in b
      OBVIOUS
    <3>1. PICK y \in b : x + n = y + n
      OBVIOUS
    <3>2. y \in Int /\ x \in Int
      OBVIOUS
    <3>3. x = y
      BY <3>1, <3>2
    <3> QED
      BY <3>3
  <2>5. \A x \in b : x + n \in up(b) /\ x \in 1 .. m
    OBVIOUS
  <2>6. {x \in 1 .. m : x + n \in a \cup up(b)} = b
    <3> HIDE DEF up
    <3> QED
      BY <2>3, <2>4, <2>5
  <2> QED
    BY <2>2, <2>6
<1>4. f \in Injection(A \X B, C)
  <2>1. ASSUME NEW p \in A \X B, NEW q \in A \X B, f[p] = f[q] PROVE p = q
    <3>1. p = <<p[1], p[2]>> /\ q = <<q[1], q[2]>> /\ p[1] \in A /\ q[1] \in A
          /\ p[2] \in B /\ q[2] \in B
      OBVIOUS
    <3>2. p[1] \cup up(p[2]) = q[1] \cup up(q[2])
      BY <2>1
    <3>3. \A a \in A, b \in B : (a \cup up(b)) \cap (1 .. n) = a
      BY <1>3
    <3>4. \A a \in A, b \in B : down(a \cup up(b)) = b
      BY <1>3
    <3> HIDE DEF up, down, A, B
    <3>5. (p[1] \cup up(p[2])) \cap (1 .. n) = p[1]
      BY <3>1, <3>3, Zenon
    <3>6. (q[1] \cup up(q[2])) \cap (1 .. n) = q[1]
      BY <3>1, <3>3, Zenon
    <3>7. down(p[1] \cup up(p[2])) = p[2]
      BY <3>1, <3>4, Zenon
    <3>8. down(q[1] \cup up(q[2])) = q[2]
      BY <3>1, <3>4, Zenon
    <3>9. p[1] = q[1]
      BY <3>2, <3>5, <3>6
    <3>10. p[2] = q[2]
      BY <3>2, <3>7, <3>8
    <3> QED
      BY <3>1, <3>9, <3>10
  <2> QED
    BY <1>2, <2>1 DEF Injection, IsInjective
<1>5. f \in Surjection(A \X B, C)
  <2>1. ASSUME NEW c \in C PROVE \E p \in A \X B : f[p] = c
    <3> DEFINE a == c \cap (1 .. n)
               b == {x \in 1 .. m : x + n \in c}
    <3>1. a \in A /\ b \in B
      OBVIOUS
    <3>2. ASSUME NEW z \in c PROVE z \in a \cup up(b)
      <4>1. CASE z <= n
        BY <4>1
      <4>2. CASE ~(z <= n)
        <5>1. z \in Int /\ z - n \in 1 .. m /\ (z - n) + n = z
          BY <4>2
        <5>2. z - n \in b
          BY <5>1
        <5> QED
          BY <5>1, <5>2
      <4> QED
        BY <4>1, <4>2
    <3>3. ASSUME NEW z \in a \cup up(b) PROVE z \in c
      OBVIOUS
    <3>4. a \cup up(b) = c
      <4> HIDE DEF a, b, up
      <4> QED
        BY <3>2, <3>3
    <3>5. <<a, b>> \in A \X B /\ f[<<a, b>>] = a \cup up(b)
      BY <3>1
    <3> QED
      BY <3>4, <3>5
  <2> QED
    BY <1>2, <2>1 DEF Surjection
<1>6. ExistsBijection(A \X B, C)
  BY <1>4, <1>5 DEF ExistsBijection, Bijection
<1>7. IsFiniteSet(A \X B) /\ Cardinality(A \X B) = 2^n * 2^m
  <2>1. IsFiniteSet(A) /\ Cardinality(A) = 2^n
    BY Power
  <2>2. IsFiniteSet(B) /\ Cardinality(B) = 2^m
    BY Power
  <2> HIDE DEF A, B
  <2> QED
    BY <2>1, <2>2, FS_Product
<1>8. n + m \in Nat
  OBVIOUS
<1>9. Cardinality(C) = 2^(n + m)
  BY <1>8, Power
<1> QED
  BY <1>6, <1>7, <1>9, FS_Bijection

\* More bits have more values.
LEMMA PowerGrows ==
  ASSUME NEW n \in Nat, NEW m \in Nat, n <= m
  PROVE  2^n <= 2^m
<1>1. m - n \in Nat /\ n + (m - n) = m
  OBVIOUS
<1>2. 2^(n + (m - n)) = 2^n * 2^(m - n)
  BY <1>1, PowerOfSum
<1>3. 2^n \in Nat /\ 2^(m - n) \in Nat /\ 2^(m - n) > 0
  BY <1>1, Power
<1>4. \A x, y \in Nat : y > 0 => x <= x * y
  OBVIOUS
<1> QED
  BY <1>1, <1>2, <1>3, <1>4

-----------------------------------------------------------------------------
(* Parts that fit make a whole that fits *)

\* The function in the definition of Total is there.
LEMMA TotalSteps ==
  ASSUME NEW bits \in Seq(Nat)
  PROVE  \E g \in [0 .. Len(bits) -> Nat] :
           /\ Total(bits) = g[Len(bits)]
           /\ g[0] = 0
           /\ \A n \in 1 .. Len(bits) : g[n] = g[n - 1] + bits[n]
<1> DEFINE N == Len(bits)
           G == [p \in (1 .. N) \X Nat |-> p[2] + bits[p[1]]]
           Body(g) == [i \in 0 .. N |-> IF i = 0 THEN 0 ELSE g[i - 1] + bits[i]]
           g == CHOOSE u : u = Body(u)
<1>1. N \in Nat /\ \A n \in 1 .. N : bits[n] \in Nat
  BY LenProperties
<1> HIDE DEF N
<1>2. G \in [(1 .. N) \X Nat -> Nat] /\ 0 \in Nat
  BY <1>1
<1>3. \A n \in 1 .. N, x \in Nat : G[n, x] = x + bits[n]
  OBVIOUS
<1> HIDE DEF G
<1>4. PICK h \in [0 .. N -> Nat] : StepsBy(h, 0, N, G)
  BY <1>1, <1>2, Recursion
<1>5. \A n \in 0 .. N : n # 0 => n \in 1 .. N /\ h[n - 1] \in Nat
  BY <1>1
<1>6. h[0] = 0 /\ \A n \in 1 .. N : h[n] = G[n, h[n - 1]]
  BY <1>4 DEF StepsBy
<1>7. \A n \in 0 .. N : h[n] = IF n = 0 THEN 0 ELSE h[n - 1] + bits[n]
  BY <1>3, <1>5, <1>6
<1>8. h = [n \in 0 .. N |-> h[n]]
  OBVIOUS
<1>9. h = Body(h)
  BY <1>7, <1>8
<1>10. g = Body(g)
  BY <1>9
<1>11. Total(bits) = g[N]
  BY DEF Total, N
<1> HIDE DEF g
<1>12. \A n \in 0 .. N : g[n] = IF n = 0 THEN 0 ELSE g[n - 1] + bits[n]
  BY <1>10, Zenon
<1>13. g[0] = 0 /\ \A n \in 1 .. N : g[n] = g[n - 1] + bits[n]
  <2>1. 0 \in 0 .. N /\ \A n \in 1 .. N : n \in 0 .. N /\ n # 0
    BY <1>1
  <2> QED
    BY <1>12, <2>1, Zenon
<1>14. g \in [0 .. N -> Nat]
  <2> DEFINE T == {n \in 0 .. N : g[n] \in Nat}
  <2>1. 0 \in T
    BY <1>1, <1>13
  <2>2. ASSUME NEW n \in 0 .. N - 1, n \in T PROVE n + 1 \in T
    <3>1. n + 1 \in 1 .. N /\ (n + 1) - 1 = n /\ n + 1 \in 0 .. N
      BY <1>1
    <3>2. g[n + 1] = g[n] + bits[n + 1]
      BY <1>13, <3>1
    <3> QED
      BY <1>1, <2>2, <3>1, <3>2
  <2> HIDE DEF T
  <2>3. \A n \in 0 .. N : n \in T
    BY <1>1, <2>1, <2>2, UpTo
  <2>4. \A n \in 0 .. N : g[n] \in Nat
    BY <2>3 DEF T
  <2>5. g = [n \in 0 .. N |-> g[n]]
    BY <1>10, Zenon
  <2> QED
    BY <2>4, <2>5
<1> QED
  BY <1>11, <1>13, <1>14 DEF N

\* One more part leaves room for what was there, whatever the signs.
LEMMA ExtendFits ==
  ASSUME NEW x \in Int, NEW part \in Int, NEW t \in Nat, NEW b \in Nat,
         Magnitude(x) < 2^t, Magnitude(part) < 2^b
  PROVE  Extend(x, part, b) \in Int /\ Magnitude(Extend(x, part, b)) < 2^(t + b)
<1>1. 2^(t + b) = 2^t * 2^b
  BY PowerOfSum
<1>2. 2^t \in Nat /\ 2^t > 0 /\ 2^b \in Nat /\ 2^b > 0
  BY Power
<1> DEFINE X == 2^t
           Y == 2^b
<1>3. X \in Nat /\ X > 0 /\ Y \in Nat /\ Y > 0 /\ 2^(t + b) = X * Y
  BY <1>1, <1>2
<1>4. Magnitude(x) < X /\ Magnitude(part) < Y
  OBVIOUS
<1>5. Extend(x, part, b) = IF part < 0 THEN part ELSE x * Y + part
  BY DEF Extend
<1> HIDE DEF X, Y
<1>6. CASE part < 0
  <2>1. Extend(x, part, b) = part
    BY <1>5, <1>6
  <2>2. Y <= X * Y
    <3>1. \A p, q \in Nat : p > 0 => q <= p * q
      OBVIOUS
    <3> QED
      BY <1>3, <3>1
  <2>3. X * Y \in Nat
    BY <1>3
  <2>4. Magnitude(part) \in Int
    BY DEF Magnitude
  <2> QED
    BY <1>3, <1>4, <2>1, <2>2, <2>3, <2>4
<1>7. CASE ~(part < 0)
  <2>1. Extend(x, part, b) = x * Y + part
    BY <1>5, <1>7
  <2>2. 0 <= part /\ part <= Y - 1 /\ x <= X - 1 /\ 0 - (X - 1) <= x
    BY <1>3, <1>4, <1>7 DEF Magnitude
  <2>3. x * Y \in Int /\ X * Y \in Int
    BY <1>3
  <2>4. \A p, q \in Int : p <= q => p * Y <= q * Y
    BY <1>3
  <2>5. x * Y <= (X - 1) * Y /\ (0 - (X - 1)) * Y <= x * Y
    BY <1>3, <2>2, <2>4
  <2>6. (X - 1) * Y = X * Y - Y /\ (0 - (X - 1)) * Y = Y - X * Y
    BY <1>3
  <2>7. x * Y + part < X * Y /\ 0 - (x * Y + part) < X * Y
    BY <1>3, <2>2, <2>3, <2>5, <2>6
  <2>8. Magnitude(x * Y + part) < X * Y
    BY <2>7 DEF Magnitude
  <2> QED
    BY <1>3, <2>1, <2>3, <2>8
<1> QED
  BY <1>6, <1>7

\* The parts one after the other, when each of them fits.
LEMMA WholeFits ==
  ASSUME NEW parts \in Seq(Int), NEW bits \in Seq(Nat), Len(parts) = Len(bits),
         \A n \in 1 .. Len(parts) : Magnitude(parts[n]) < 2^bits[n]
  PROVE  Joined(parts, bits) \in Int /\ Magnitude(Joined(parts, bits)) < 2^Total(bits)
<1> DEFINE N == Len(parts)
           G == [p \in (1 .. N) \X Int |-> Extend(p[2], parts[p[1]], bits[p[1]])]
           Body(g) == [i \in 0 .. N |-> IF i = 0 THEN 0
                                        ELSE Extend(g[i - 1], parts[i], bits[i])]
           g == CHOOSE u : u = Body(u)
<1>1. N \in Nat /\ \A n \in 1 .. N : parts[n] \in Int /\ bits[n] \in Nat
  BY LenProperties
<1>f. \A n \in 1 .. N : Magnitude(parts[n]) < 2^bits[n]
  OBVIOUS
<1>l. Len(bits) = N
  OBVIOUS
<1> HIDE DEF N
<1>e. \A n \in 1 .. N, x \in Int : Extend(x, parts[n], bits[n]) \in Int
  <2>1. \A n \in 1 .. N : 2^bits[n] \in Nat
    BY <1>1, Power
  <2> QED
    BY <1>1, <2>1 DEF Extend
<1>2. G \in [(1 .. N) \X Int -> Int] /\ 0 \in Int
  <2>1. \A p \in (1 .. N) \X Int : p[1] \in 1 .. N /\ p[2] \in Int
    OBVIOUS
  <2>2. \A p \in (1 .. N) \X Int : Extend(p[2], parts[p[1]], bits[p[1]]) \in Int
    BY <1>e, <2>1
  <2> QED
    BY <2>2
<1>3. \A n \in 1 .. N, x \in Int : G[n, x] = Extend(x, parts[n], bits[n])
  OBVIOUS
<1> HIDE DEF G
<1>4. PICK h \in [0 .. N -> Int] : StepsBy(h, 0, N, G)
  BY <1>1, <1>2, Recursion
<1>5. \A n \in 0 .. N : n # 0 => n \in 1 .. N /\ h[n - 1] \in Int
  BY <1>1
<1>6. h[0] = 0 /\ \A n \in 1 .. N : h[n] = G[n, h[n - 1]]
  BY <1>4 DEF StepsBy
<1>7. \A n \in 0 .. N : h[n] = IF n = 0 THEN 0 ELSE Extend(h[n - 1], parts[n], bits[n])
  BY <1>3, <1>5, <1>6
<1>8. h = [n \in 0 .. N |-> h[n]]
  OBVIOUS
<1>9. h = Body(h)
  BY <1>7, <1>8
<1>10. g = Body(g)
  BY <1>9
<1>11. Joined(parts, bits) = g[N]
  BY DEF Joined, N
<1> HIDE DEF g
<1>12. \A n \in 0 .. N : g[n] = IF n = 0 THEN 0 ELSE Extend(g[n - 1], parts[n], bits[n])
  BY <1>10, Zenon
<1>13. g[0] = 0 /\ \A n \in 1 .. N : g[n] = Extend(g[n - 1], parts[n], bits[n])
  <2>1. 0 \in 0 .. N /\ \A n \in 1 .. N : n \in 0 .. N /\ n # 0
    BY <1>1
  <2> QED
    BY <1>12, <2>1, Zenon
<1>14. PICK s \in [0 .. N -> Nat] :
         /\ Total(bits) = s[N]
         /\ s[0] = 0
         /\ \A n \in 1 .. N : s[n] = s[n - 1] + bits[n]
  BY <1>l, TotalSteps
<1> DEFINE T == {n \in 0 .. N : g[n] \in Int /\ Magnitude(g[n]) < 2^s[n]}
<1>15. 0 \in T
  <2>1. 2^0 > 0
    BY Power
  <2>2. Magnitude(0) = 0
    BY DEF Magnitude
  <2>3. Magnitude(g[0]) < 2^s[0] /\ g[0] \in Int /\ 0 \in 0 .. N
    BY <1>1, <1>13, <1>14, <2>1, <2>2
  <2> QED
    BY <2>3
<1>16. ASSUME NEW n \in 0 .. N - 1, n \in T PROVE n + 1 \in T
  <2>1. n + 1 \in 1 .. N /\ (n + 1) - 1 = n /\ n + 1 \in 0 .. N /\ n \in 0 .. N
    BY <1>1
  <2>2. g[n + 1] = Extend(g[n], parts[n + 1], bits[n + 1])
    BY <1>13, <2>1
  <2>3. s[n + 1] = s[n] + bits[n + 1] /\ s[n] \in Nat
    BY <1>14, <2>1
  <2>4. g[n] \in Int /\ Magnitude(g[n]) < 2^s[n]
    BY <1>16
  <2>5. parts[n + 1] \in Int /\ bits[n + 1] \in Nat
    BY <1>1, <2>1
  <2>6. Magnitude(parts[n + 1]) < 2^bits[n + 1]
    BY <1>f, <2>1
  <2>7. Extend(g[n], parts[n + 1], bits[n + 1]) \in Int
    BY <1>e, <2>1, <2>4
  <2>8. Magnitude(Extend(g[n], parts[n + 1], bits[n + 1])) < 2^(s[n] + bits[n + 1])
    BY <2>3, <2>4, <2>5, <2>6, ExtendFits
  <2> QED
    BY <2>1, <2>2, <2>3, <2>7, <2>8
<1> HIDE DEF T
<1>17. \A n \in 0 .. N : n \in T
  BY <1>1, <1>15, <1>16, UpTo
<1>18. N \in T
  BY <1>1, <1>17
<1> QED
  BY <1>11, <1>14, <1>18 DEF T

-----------------------------------------------------------------------------
(* A rule that is loaded *)

\* The first complaint is one of the verdicts, and there is none when all are "OK".
LEMMA FirstOf ==
  ASSUME NEW v, DOMAIN v \subseteq Nat
  PROVE  /\ FirstFailure(v) = "OK" => \A i \in DOMAIN v : v[i] = "OK"
         /\ FirstFailure(v) # "OK" => \E i \in DOMAIN v : FirstFailure(v) = v[i]
<1> DEFINE bad == {i \in DOMAIN v : v[i] # "OK"}
           first == CHOOSE i \in bad : \A j \in bad : i <= j
<1>1. FirstFailure(v) = IF bad = {} THEN "OK" ELSE v[first]
  BY DEF FirstFailure
<1>2. CASE bad = {}
  BY <1>1, <1>2
<1>3. CASE bad # {}
  <2>1. bad \subseteq Nat
    OBVIOUS
  <2>2. \E i \in bad : \A j \in bad : i <= j
    <3> HIDE DEF bad
    <3> QED
      BY <1>3, <2>1, Least
  <2>3. first \in bad
    <3> HIDE DEF bad
    <3> QED
      BY <2>2
  <2> HIDE DEF first
  <2>4. first \in DOMAIN v /\ v[first] # "OK"
    BY <2>3
  <2> QED
    BY <1>1, <1>3, <2>4
<1> QED
  BY <1>2, <1>3

Formats == {"key_mask", "key_only", "prefix", "range", "unused"}

\* A match that parses has numbers where its format has them.
LEMMA ParsedNumbers ==
  ASSUME NEW m, IsMatch(m), ParseMatch(m) = "OK"
  PROVE  /\ m.format \in Formats
         /\ KeyPart(m) \in Int
         /\ m.format = "key_mask" => m.mask[1] \in Int
         /\ m.format = "prefix" => m.mask \in Nat
         /\ m.format = "range" => m.mask \in Int
<1>1. m.format \in Formats
  BY DEF ParseMatch, Formats
<1>2. m.format \in {"key_mask", "key_only", "prefix"} => m.key # <<>> /\ m.key[1] \in Int
  BY DEF ParseMatch, IsMatch, IsText
<1>3. m.format = "key_mask" => m.mask # <<>> /\ m.mask[1] \in Int
  BY DEF ParseMatch, IsMatch, IsText
<1>4. /\ m.format = "prefix" => m.mask \in Nat
      /\ m.format = "range" => m.key \in Nat /\ m.mask \in Nat
  BY DEF IsMatch
<1>5. KeyPart(m) \in Int
  BY <1>1, <1>2, <1>4 DEF KeyPart, Formats
<1> QED
  BY <1>1, <1>3, <1>4, <1>5

\* A match that its field takes has a key and a mask that fit the field.
LEMMA FieldTakes ==
  ASSUME NEW m, NEW field, IsMatch(m), ParseMatch(m) = "OK",
         field.bits \in Nat, FieldStatus(m, field) = "OK"
  PROVE  /\ KeyPart(m) \in Int /\ Magnitude(KeyPart(m)) < 2^field.bits
         /\ MaskPart(m, field) \in Int /\ Magnitude(MaskPart(m, field)) < 2^field.bits
<1>1. /\ m.format \in Formats
      /\ KeyPart(m) \in Int
      /\ m.format = "key_mask" => m.mask[1] \in Int
      /\ m.format = "prefix" => m.mask \in Nat
      /\ m.format = "range" => m.mask \in Int
  BY ParsedNumbers
<1>2. m.format = "prefix" => m.mask <= field.bits
  <2>1. ~(m.format = "prefix" /\ m.mask > field.bits)
    BY DEF FieldStatus
  <2> QED
    BY <1>1, <2>1
<1>3. ~ WiderThan(KeyPart(m), field.bits) /\ ~ WiderThan(MaskPart(m, field), field.bits)
  BY DEF FieldStatus
<1>4. Ones(field.bits) \in Int
  BY Power DEF Ones
<1>5. DefaultMask(m, field) \in Int
  BY <1>1, <1>4 DEF DefaultMask
<1>6. m.format = "prefix" => Ones(m.mask) * 2^(field.bits - m.mask) \in Int
  <2> SUFFICES ASSUME m.format = "prefix"
               PROVE  Ones(m.mask) * 2^(field.bits - m.mask) \in Int
    OBVIOUS
  <2>1. m.mask \in Nat /\ field.bits - m.mask \in Nat
    BY <1>1, <1>2
  <2>2. 2^m.mask \in Nat /\ 2^(field.bits - m.mask) \in Nat
    BY <2>1, Power
  <2> QED
    BY <2>2 DEF Ones
<1>7. MaskPart(m, field) \in Int
  BY <1>1, <1>5, <1>6 DEF MaskPart, Formats
<1>8. 2^field.bits \in Nat
  BY Power
<1>9. \A x \in Int : Magnitude(x) \in Int
  BY DEF Magnitude
<1> QED
  BY <1>1, <1>3, <1>7, <1>8, <1>9 DEF WiderThan

\* A sequence of numbers that is written as a function of a list's places.
LEMMA NumbersOf ==
  ASSUME NEW S, NEW N \in Nat, NEW g, DOMAIN g = 1 .. N, g = [i \in 1 .. N |-> g[i]],
         \A i \in 1 .. N : g[i] \in S
  PROVE  g \in Seq(S) /\ Len(g) = N
<1>1. [i \in 1 .. N |-> g[i]] \in Seq(S)
  BY IsASeq
<1>2. g \in Seq(S)
  BY <1>1
<1> QED
  BY <1>2, LenProperties

\* A whole that all bits of a key, or of a word of parameters, have room for.
LEMMA NotWider ==
  ASSUME NEW x \in Int, NEW t \in Nat, NEW b \in Nat, b # 0, t <= b, Magnitude(x) < 2^t
  PROVE  ~ WiderThan(x, b)
<1>1. 2^t <= 2^b
  BY PowerGrows
<1>2. 2^t \in Nat /\ 2^b \in Nat
  BY Power
<1>3. Magnitude(x) \in Int
  BY DEF Magnitude
<1> QED
  BY <1>1, <1>2, <1>3 DEF WiderThan

TooBig == {"PACK_KEY_TOO_BIG", "PACK_MASK_TOO_BIG", "PACK_PARAMS_TOO_BIG"}

\* The matches of a rule that is loaded: no complaint about the whole key or mask.
LEMMA MatchesFit ==
  ASSUME NEW matches, NEW fields, NEW key_bits \in Nat \ {0},
         IsList(matches), IsList(fields), Len(matches) = Len(fields),
         \A i \in 1 .. Len(matches) : IsMatch(matches[i]) /\ ParseMatch(matches[i]) = "OK",
         \A i \in 1 .. Len(fields) : fields[i].bits \in Nat,
         Total(Widths(fields)) <= key_bits
  PROVE  MatchesStatus(matches, fields, key_bits) \notin TooBig
<1> DEFINE N == Len(matches)
           v == [i \in DOMAIN matches |-> FieldStatus(matches[i], fields[i])]
           bits == Widths(fields)
           keys == [i \in DOMAIN matches |-> KeyPart(matches[i])]
           masks == [i \in DOMAIN matches |-> MaskPart(matches[i], fields[i])]
<1>1. N \in Nat /\ DOMAIN matches = 1 .. N /\ DOMAIN fields = 1 .. N
  BY DEF IsList
<1>2. DOMAIN v \subseteq Nat
  BY <1>1
<1>3. CASE FirstFailure(v) # "OK"
  <2>1. MatchesStatus(matches, fields, key_bits) = FirstFailure(v)
    BY <1>3 DEF MatchesStatus
  <2>2. PICK i \in DOMAIN v : FirstFailure(v) = v[i]
    BY <1>2, <1>3, FirstOf
  <2>3. v[i] = FieldStatus(matches[i], fields[i])
    OBVIOUS
  <2>4. FieldStatus(matches[i], fields[i]) \notin TooBig
    BY DEF FieldStatus, TooBig
  <2> QED
    BY <2>1, <2>2, <2>3, <2>4
<1>4. CASE FirstFailure(v) = "OK"
  <2>1. \A i \in DOMAIN v : v[i] = "OK"
    BY <1>2, <1>4, FirstOf
  <2>2. \A i \in 1 .. N : FieldStatus(matches[i], fields[i]) = "OK"
    BY <1>1, <2>1
  <2>3. \A i \in 1 .. N :
          /\ KeyPart(matches[i]) \in Int /\ Magnitude(KeyPart(matches[i])) < 2^fields[i].bits
          /\ MaskPart(matches[i], fields[i]) \in Int
          /\ Magnitude(MaskPart(matches[i], fields[i])) < 2^fields[i].bits
    BY <1>1, <2>2, FieldTakes
  <2>4. /\ DOMAIN bits = 1 .. N /\ bits = [i \in 1 .. N |-> bits[i]]
        /\ \A i \in 1 .. N : bits[i] = fields[i].bits /\ bits[i] \in Nat
    BY <1>1 DEF Widths
  <2>5. bits \in Seq(Nat) /\ Len(bits) = N
    <3> HIDE DEF bits, N
    <3> QED
      BY <1>1, <2>4, NumbersOf
  <2>6. /\ DOMAIN keys = 1 .. N /\ keys = [i \in 1 .. N |-> keys[i]]
        /\ \A i \in 1 .. N : keys[i] = KeyPart(matches[i]) /\ keys[i] \in Int
    BY <1>1, <2>3
  <2>7. keys \in Seq(Int) /\ Len(keys) = N
    <3> HIDE DEF keys, N
    <3> QED
      BY <1>1, <2>6, NumbersOf
  <2>8. /\ DOMAIN masks = 1 .. N /\ masks = [i \in 1 .. N |-> masks[i]]
        /\ \A i \in 1 .. N : masks[i] = MaskPart(matches[i], fields[i]) /\ masks[i] \in Int
    BY <1>1, <2>3
  <2>9. masks \in Seq(Int) /\ Len(masks) = N
    <3> HIDE DEF masks, N
    <3> QED
      BY <1>1, <2>8, NumbersOf
  <2>10. KeyOf(matches, fields) = Joined(keys, bits)
    BY DEF KeyOf
  <2>11. MaskOf(matches, fields) = Joined(masks, bits)
    BY DEF MaskOf
  <2> HIDE DEF v, bits, keys, masks, N
  <2>12. /\ \A i \in 1 .. N : Magnitude(keys[i]) < 2^bits[i]
         /\ \A i \in 1 .. N : Magnitude(masks[i]) < 2^bits[i]
    BY <2>3, <2>4, <2>6, <2>8
  <2>13. /\ Joined(keys, bits) \in Int
         /\ Magnitude(Joined(keys, bits)) < 2^Total(bits)
    BY <2>5, <2>7, <2>12, WholeFits
  <2>14. /\ Joined(masks, bits) \in Int
         /\ Magnitude(Joined(masks, bits)) < 2^Total(bits)
    BY <2>5, <2>9, <2>12, WholeFits
  <2>15. Total(bits) \in Nat
    BY <1>1, <2>5, TotalSteps
  <2>16. Total(bits) <= key_bits
    BY DEF bits
  <2>17. ~ WiderThan(KeyOf(matches, fields), key_bits)
    BY <2>10, <2>13, <2>15, <2>16, NotWider
  <2>18. ~ WiderThan(MaskOf(matches, fields), key_bits)
    BY <2>11, <2>14, <2>15, <2>16, NotWider
  <2>19. MatchesStatus(matches, fields, key_bits) = "OK"
    BY <1>4, <2>17, <2>18 DEF MatchesStatus, v
  <2> QED
    BY <2>19 DEF TooBig
<1> QED
  BY <1>3, <1>4

LEMMA SmallRest ==
  ASSUME NEW p \in Nat \ {0}, NEW x \in 0 .. p - 1
  PROVE  x % p = x
<1>1. x \div p \in Int /\ x % p \in 0 .. p - 1 /\ x = p * (x \div p) + (x % p)
  OBVIOUS
<1>2. \A k \in Int, r \in 0 .. p - 1 : x = p * k + r => r = x
  OBVIOUS
<1> QED
  BY <1>1, <1>2

\* The parameters of a rule that is loaded: no complaint about the whole of them.
LEMMA ParamsFit ==
  ASSUME NEW params, NEW widths \in Seq(Nat), IsList(params), Len(params) = Len(widths),
         \A i \in 1 .. Len(params) : params[i][1] \in Int,
         Total(widths) <= UINT16_MAX
  PROVE  ParamsStatus(params, widths, ParamBits(widths)) \notin TooBig
<1> DEFINE N == Len(params)
           word == [i \in DOMAIN params |-> params[i][1]]
           b == ParamBits(widths)
<1>1. N \in Nat /\ DOMAIN params = 1 .. N /\ Len(widths) = N
  BY DEF IsList
<1>2. Total(widths) \in Nat
  BY <1>1, TotalSteps
<1>3. b = Total(widths)
  <2>1. \A x \in Nat : x <= 65535 => x % 65536 = x
    BY SmallRest
  <2>2. Total(widths) <= 65535 /\ b = Total(widths) % (65535 + 1) /\ 65535 + 1 = 65536
    BY DEF ParamBits, UINT16_MAX
  <2> HIDE DEF b
  <2>3. Total(widths) % 65536 = Total(widths)
    BY <1>2, <2>1, <2>2
  <2>4. b = Total(widths) % 65536
    BY <2>2
  <2> QED
    BY <2>3, <2>4
<1>4. CASE b = 0 \/ \E i \in DOMAIN params : WiderThan(params[i][1], widths[i])
  BY <1>4 DEF ParamsStatus, TooBig
<1>5. CASE b # 0 /\ \A i \in DOMAIN params : ~ WiderThan(params[i][1], widths[i])
  <2>1. /\ DOMAIN word = 1 .. N /\ word = [i \in 1 .. N |-> word[i]]
        /\ \A i \in 1 .. N : word[i] = params[i][1] /\ word[i] \in Int
    BY <1>1
  <2>2. word \in Seq(Int) /\ Len(word) = N
    <3> HIDE DEF word, N
    <3> QED
      BY <1>1, <2>1, NumbersOf
  <2>3. \A i \in 1 .. N : ~ WiderThan(word[i], widths[i])
    BY <1>1, <1>5
  <2>4. \A i \in 1 .. N : widths[i] \in Nat
    BY <1>1, LenProperties
  <2>5. ParamsOf(params, widths) = Joined(word, widths)
    BY DEF ParamsOf
  <2> HIDE DEF word, N
  <2>6. \A i \in 1 .. N : Magnitude(word[i]) < 2^widths[i]
    <3>1. \A i \in 1 .. N : 2^widths[i] \in Nat
      BY <2>4, Power
    <3>2. \A i \in 1 .. N : Magnitude(word[i]) \in Int
      BY <2>1 DEF Magnitude
    <3> QED
      BY <2>3, <3>1, <3>2 DEF WiderThan
  <2>7. Joined(word, widths) \in Int /\ Magnitude(Joined(word, widths)) < 2^Total(widths)
    BY <1>1, <2>2, <2>6, WholeFits
  <2>8. ~ WiderThan(ParamsOf(params, widths), b)
    <3> HIDE DEF b
    <3> QED
      BY <1>2, <1>3, <1>5, <2>5, <2>7, NotWider
  <2>9. ParamsStatus(params, widths, b) = "OK"
    BY <1>5, <2>8 DEF ParamsStatus
  <2> QED
    BY <2>9 DEF TooBig
<1> QED
  BY <1>4, <1>5

\* What the checks of a load have made sure of.
LEMMA Loaded ==
  ASSUME NEW op, NEW rule, IsRule(rule), LoadStatus(op, rule) = "OK"
  PROVE  /\ rule.table \in DOMAIN TableInfo
         /\ Len(rule.matches) = Len(TableInfo[rule.table].fields)
         /\ \A i \in 1 .. Len(rule.matches) : ParseMatch(rule.matches[i]) = "OK"
         /\ op # "delete" =>
              /\ rule.action \in DOMAIN TableInfo[rule.table].actions
              /\ Len(rule.params) = Len(TableInfo[rule.table].actions[rule.action])
              /\ \A i \in 1 .. Len(rule.params) : rule.params[i][1] \in Int
<1> DEFINE info == TableInfo[rule.table]
           v == [i \in DOMAIN rule.matches |-> ParseMatch(rule.matches[i])]
<1>1. rule.table \in DOMAIN TableInfo
  BY DEF LoadStatus
<1>2. /\ ~(Len(rule.matches) < Len(info.fields))
      /\ ~(Len(rule.matches) > Len(info.fields))
      /\ FirstFailure(v) = "OK"
  BY DEF LoadStatus
<1>3. /\ Len(rule.matches) \in Nat /\ DOMAIN rule.matches = 1 .. Len(rule.matches)
      /\ Len(info.fields) \in Nat
  BY <1>1, TableInfoAssumption DEF IsRule, IsList
<1>4. Len(rule.matches) = Len(info.fields)
  BY <1>2, <1>3
<1>5. \A i \in 1 .. Len(rule.matches) : ParseMatch(rule.matches[i]) = "OK"
  <2>1. DOMAIN v \subseteq Nat
    BY <1>3
  <2>2. \A i \in DOMAIN v : v[i] = "OK"
    <3> HIDE DEF v
    <3> QED
      BY <1>2, <2>1, FirstOf
  <2> QED
    BY <1>3, <2>2
<1>6. ASSUME op # "delete"
      PROVE  /\ rule.action \in DOMAIN info.actions
             /\ Len(rule.params) = Len(info.actions[rule.action])
             /\ \A i \in 1 .. Len(rule.params) : rule.params[i][1] \in Int
  <2>1. rule.action \in DOMAIN info.actions
    BY <1>6 DEF LoadStatus
  <2>2. /\ ~(Len(rule.params) < Len(info.actions[rule.action]))
        /\ ~(Len(rule.params) > Len(info.actions[rule.action]))
        /\ ~(\E i \in DOMAIN rule.params : rule.params[i] = <<>>)
    BY <1>6 DEF LoadStatus
  <2>3. /\ Len(rule.params) \in Nat /\ DOMAIN rule.params = 1 .. Len(rule.params)
        /\ \A i \in 1 .. Len(rule.params) : IsText(rule.params[i])
    BY DEF IsRule, IsList
  <2>4. info.actions[rule.action] \in Seq(Nat)
    BY <1>1, <2>1, TableInfoAssumption
  <2>5. Len(info.actions[rule.action]) \in Nat
    BY <2>4, LenProperties
  <2>6. Len(rule.params) = Len(info.actions[rule.action])
    BY <2>2, <2>3, <2>5
  <2>7. \A i \in 1 .. Len(rule.params) : rule.params[i][1] \in Int
    BY <2>2, <2>3 DEF IsText
  <2> QED
    BY <2>1, <2>6, <2>7
<1> QED
  BY <1>1, <1>4, <1>5, <1>6

\* So the packers never free an array for a whole that is too big.
LEMMA NeverTooBig ==
  ASSUME NEW op, NEW rule, IsRule(rule), LoadStatus(op, rule) = "OK"
  PROVE  PackStatus(op, rule) \notin TooBig
<1> DEFINE info == TableInfo[rule.table]
           widths == info.actions[rule.action]
           matches == MatchesStatus(rule.matches, info.fields, info.key_bits)
<1>1. /\ rule.table \in DOMAIN TableInfo
      /\ Len(rule.matches) = Len(info.fields)
      /\ \A i \in 1 .. Len(rule.matches) : ParseMatch(rule.matches[i]) = "OK"
  BY Loaded
<1>2. op # "delete" =>
        /\ rule.action \in DOMAIN info.actions
        /\ Len(rule.params) = Len(widths)
        /\ \A i \in 1 .. Len(rule.params) : rule.params[i][1] \in Int
  BY Loaded
<1>3. /\ IsList(info.fields)
      /\ \A i \in 1 .. Len(info.fields) : info.fields[i].bits \in Nat
      /\ info.key_bits \in Nat \ {0}
      /\ Total(Widths(info.fields)) <= info.key_bits
  BY <1>1, TableInfoAssumption
<1>4. /\ IsList(rule.matches) /\ IsList(rule.params)
      /\ \A i \in 1 .. Len(rule.matches) : IsMatch(rule.matches[i])
  BY DEF IsRule
<1>5. matches \notin TooBig
  BY <1>1, <1>3, <1>4, MatchesFit
<1>6. CASE matches # "OK" \/ op = "delete"
  <2>1. PackStatus(op, rule) = matches
    BY <1>6 DEF PackStatus
  <2> QED
    BY <1>5, <2>1
<1>7. CASE ~(matches # "OK" \/ op = "delete")
  <2>1. PackStatus(op, rule) = ParamsStatus(rule.params, widths, ParamBits(widths))
    BY <1>7 DEF PackStatus
  <2>2. widths \in Seq(Nat) /\ Total(widths) <= UINT16_MAX
    BY <1>1, <1>2, <1>7, TableInfoAssumption
  <2>3. ParamsStatus(rule.params, widths, ParamBits(widths)) \notin TooBig
    <3> HIDE DEF widths
    <3> QED
      BY <1>2, <1>4, <1>7, <2>2, ParamsFit
  <2> QED
    BY <2>1, <2>3
<1> QED
  BY <1>6, <1>7

-----------------------------------------------------------------------------
(* The targets of a request *)

\* A target at one of the devices lo .. hi - 1, for a request that names a pipeline,
\* or all of them.
Meant(x, lo, hi, pipe) ==
  /\ x.dev \in lo .. hi - 1
  /\ \/ x.pipe = -1 /\ x.code = "INVALID_PIPELINE_ID"
     \/ /\ x.code = "OK" /\ x.pipe \in 0 .. NPipelines[x.dev + 1] - 1
        /\ pipe < 0 \/ x.pipe = pipe

AllMeant(s, lo, hi, pipe) == \A i \in 1 .. Len(s) : Meant(s[i], lo, hi, pipe)

EachTaken(s, lo, hi, pipe) ==
  \A d \in lo .. hi - 1 : \A q \in 0 .. NPipelines[d + 1] - 1 :
    pipe < 0 \/ q = pipe => \E i \in 1 .. Len(s) : s[i].dev = d /\ s[i].pipe = q

Before(x, y) == x.dev < y.dev \/ (x.dev = y.dev /\ x.pipe < y.pipe)

InOrderOf(s) == \A i, j \in 1 .. Len(s) : i < j => Before(s[i], s[j])

EachMissed(s, lo, hi, pipe) ==
  \A d \in lo .. hi - 1 : pipe >= NPipelines[d + 1] =>
    \E i \in 1 .. Len(s) : s[i].dev = d /\ s[i].code = "INVALID_PIPELINE_ID"

Row(s, lo, hi, pipe) ==
  /\ s \in Seq(Places)
  /\ AllMeant(s, lo, hi, pipe)
  /\ EachTaken(s, lo, hi, pipe)
  /\ InOrderOf(s)
  /\ EachMissed(s, lo, hi, pipe)

Devices == 0 .. Len(NPipelines) - 1

LEMMA PipelinesOf ==
  Len(NPipelines) \in Nat /\ \A d \in Devices : NPipelines[d + 1] \in Nat
<1>1. Len(NPipelines) \in Nat /\ \A i \in 1 .. Len(NPipelines) : NPipelines[i] \in Nat
  BY PipelinesAssumption, LenProperties
<1>2. \A d \in Devices : d + 1 \in 1 .. Len(NPipelines)
  BY <1>1 DEF Devices
<1> QED
  BY <1>1, <1>2

\* One target for one device.
LEMMA OneTarget ==
  ASSUME NEW d \in Devices, NEW pipe \in Int, NEW x \in Places, Meant(x, d, d + 1, pipe),
         \A q \in 0 .. NPipelines[d + 1] - 1 : pipe < 0 \/ q = pipe => x.pipe = q,
         pipe >= NPipelines[d + 1] => x.code = "INVALID_PIPELINE_ID"
  PROVE  Row(<<x>>, d, d + 1, pipe)
<1>1. <<x>> \in Seq(Places) /\ Len(<<x>>) = 1 /\ <<x>>[1] = x
  OBVIOUS
<1>2. 1 .. 1 = {1} /\ 1 \in 1 .. 1
  OBVIOUS
<1>3. \A e \in d .. (d + 1) - 1 : e = d
  BY DEF Devices
<1>4. x.dev = d
  BY <1>3 DEF Meant
<1> DEFINE s == <<x>>
<1>5. s \in Seq(Places) /\ Len(s) = 1 /\ s[1] = x
  BY <1>1
<1> HIDE DEF s
<1>6. AllMeant(s, d, d + 1, pipe)
  BY <1>2, <1>5 DEF AllMeant
<1>7. EachTaken(s, d, d + 1, pipe)
  BY <1>2, <1>3, <1>4, <1>5 DEF EachTaken
<1>8. InOrderOf(s)
  BY <1>2, <1>5 DEF InOrderOf
<1>9. EachMissed(s, d, d + 1, pipe)
  BY <1>2, <1>3, <1>4, <1>5 DEF EachMissed
<1>10. Row(s, d, d + 1, pipe)
  BY <1>5, <1>6, <1>7, <1>8, <1>9 DEF Row
<1> QED
  BY <1>10 DEF s

\* The targets at one device.
LEMMA PipeRow ==
  ASSUME NEW d \in Devices, NEW pipe \in Int
  PROVE  Row(PipeTargets(d, pipe), d, d + 1, pipe)
<1> DEFINE N == NPipelines[d + 1]
<1>1. N \in Nat /\ d \in Nat
  BY PipelinesOf DEF Devices
<1> HIDE DEF N
<1>2. d \in d .. (d + 1) - 1 /\ \A e \in d .. (d + 1) - 1 : e = d
  BY <1>1
<1>3. CASE pipe > N - 1
  <2> DEFINE x == Target(d, -1, "INVALID_PIPELINE_ID")
  <2>1. PipeTargets(d, pipe) = <<x>>
    BY <1>3 DEF PipeTargets, N
  <2>2. x \in Places /\ x.dev = d /\ x.pipe = -1 /\ x.code = "INVALID_PIPELINE_ID"
    BY <1>1 DEF Target, Places
  <2> HIDE DEF x
  <2>3. Meant(x, d, d + 1, pipe)
    BY <1>2, <2>2 DEF Meant
  <2>4. \A q \in 0 .. N - 1 : ~(pipe < 0 \/ q = pipe)
    BY <1>1, <1>3
  <2> QED
    BY <2>1, <2>2, <2>3, <2>4, OneTarget DEF N
<1>4. CASE ~(pipe > N - 1) /\ pipe > -1
  <2> DEFINE x == Target(d, pipe, "OK")
  <2>1. PipeTargets(d, pipe) = <<x>>
    BY <1>4 DEF PipeTargets, N
  <2>2. x \in Places /\ x.dev = d /\ x.pipe = pipe /\ x.code = "OK"
    BY <1>1 DEF Target, Places
  <2>3. pipe \in 0 .. N - 1
    BY <1>1, <1>4
  <2> HIDE DEF x
  <2>4. Meant(x, d, d + 1, pipe)
    BY <1>2, <2>2, <2>3 DEF Meant, N
  <2>5. \A q \in 0 .. N - 1 : pipe < 0 \/ q = pipe => x.pipe = q
    BY <1>1, <1>4, <2>2
  <2>6. ~(pipe >= N)
    BY <1>1, <1>4
  <2> QED
    BY <2>1, <2>2, <2>4, <2>5, <2>6, OneTarget DEF N
<1>5. CASE ~(pipe > N - 1) /\ ~(pipe > -1)
  <2> DEFINE s == [i \in 1 .. N |-> Target(d, i - 1, "OK")]
  <2>1. PipeTargets(d, pipe) = s
    BY <1>5 DEF PipeTargets, N
  <2>2. \A i \in 1 .. N : Target(d, i - 1, "OK") \in Places
    BY <1>1 DEF Target, Places
  <2>3. /\ DOMAIN s = 1 .. N /\ s = [i \in 1 .. N |-> s[i]]
        /\ \A i \in 1 .. N : s[i] \in Places
    BY <2>2
  <2>4. \A i \in 1 .. N : s[i].dev = d /\ s[i].pipe = i - 1 /\ s[i].code = "OK"
    BY DEF Target
  <2> HIDE DEF s
  <2>5. s \in Seq(Places) /\ Len(s) = N
    BY <1>1, <2>3, NumbersOf
  <2>6. pipe < 0 /\ \A i \in 1 .. N : i - 1 \in 0 .. N - 1
    BY <1>1, <1>5
  <2>7. AllMeant(s, d, d + 1, pipe)
    BY <1>2, <2>4, <2>5, <2>6 DEF AllMeant, Meant, N
  <2>8. \A q \in 0 .. N - 1 : q + 1 \in 1 .. N /\ (q + 1) - 1 = q
    BY <1>1
  <2>9. EachTaken(s, d, d + 1, pipe)
    <3>1. \A q \in 0 .. N - 1 : s[q + 1].dev = d /\ s[q + 1].pipe = q /\ q + 1 \in 1 .. Len(s)
      BY <2>4, <2>5, <2>8
    <3>2. \A q \in 0 .. N - 1 : \E i \in 1 .. Len(s) : s[i].dev = d /\ s[i].pipe = q
      BY <3>1
    <3> QED
      BY <1>2, <3>2 DEF EachTaken, N
  <2>10. InOrderOf(s)
    <3>1. \A i, j \in 1 .. N : i < j => i - 1 < j - 1
      BY <1>1
    <3> QED
      BY <2>4, <2>5, <3>1 DEF InOrderOf, Before
  <2>11. EachMissed(s, d, d + 1, pipe)
    <3>1. ~(pipe >= N)
      BY <1>1, <1>5
    <3> QED
      BY <1>2, <3>1 DEF EachMissed, N
  <2> QED
    BY <2>1, <2>5, <2>7, <2>9, <2>10, <2>11 DEF Row
<1> QED
  BY <1>3, <1>4, <1>5

\* The targets at some devices, and after them those at the next ones.
LEMMA RowsJoined ==
  ASSUME NEW lo \in Nat, NEW mid \in Nat, NEW hi \in Nat, NEW pipe \in Int,
         lo <= mid, mid <= hi,
         NEW s, NEW t, Row(s, lo, mid, pipe), Row(t, mid, hi, pipe)
  PROVE  Row(s \o t, lo, hi, pipe)
<1> DEFINE u == s \o t
<1>0. s \in Seq(Places) /\ t \in Seq(Places)
  BY DEF Row
<1>1. /\ u \in Seq(Places) /\ Len(s) \in Nat /\ Len(t) \in Nat
      /\ Len(u) = Len(s) + Len(t)
  BY <1>0, Appended
<1>2. \A a \in 1 .. Len(s) : u[a] = s[a] /\ a \in 1 .. Len(u)
  BY <1>0, Appended
<1>3. \A b \in 1 .. Len(t) : u[Len(s) + b] = t[b] /\ Len(s) + b \in 1 .. Len(u)
  BY <1>0, Appended
<1>4. \A c \in 1 .. Len(u) :
        c \in 1 .. Len(s) \/ (c > Len(s) /\ c - Len(s) \in 1 .. Len(t)
                                /\ u[c] = t[c - Len(s)])
  BY <1>0, Appended
<1> HIDE DEF u
<1>5. \A x : Meant(x, lo, mid, pipe) \/ Meant(x, mid, hi, pipe) => Meant(x, lo, hi, pipe)
  <2>1. \A d : d \in lo .. mid - 1 \/ d \in mid .. hi - 1 => d \in lo .. hi - 1
    OBVIOUS
  <2> QED
    BY <2>1 DEF Meant
<1>6. AllMeant(u, lo, hi, pipe)
  <2>1. AllMeant(s, lo, mid, pipe) /\ AllMeant(t, mid, hi, pipe)
    BY DEF Row
  <2> QED
    BY <1>2, <1>4, <1>5, <2>1 DEF AllMeant
<1>7. \A d \in lo .. hi - 1 : d \in lo .. mid - 1 \/ d \in mid .. hi - 1
  OBVIOUS
<1>8. EachTaken(u, lo, hi, pipe)
  <2>1. EachTaken(s, lo, mid, pipe) /\ EachTaken(t, mid, hi, pipe)
    BY DEF Row
  <2> SUFFICES ASSUME NEW d \in lo .. hi - 1, NEW q \in 0 .. NPipelines[d + 1] - 1,
                      pipe < 0 \/ q = pipe
               PROVE  \E i \in 1 .. Len(u) : u[i].dev = d /\ u[i].pipe = q
    BY DEF EachTaken
  <2>4. /\ \A e \in lo .. mid - 1 : \A r \in 0 .. NPipelines[e + 1] - 1 :
              pipe < 0 \/ r = pipe => \E i \in 1 .. Len(s) : s[i].dev = e /\ s[i].pipe = r
        /\ \A e \in mid .. hi - 1 : \A r \in 0 .. NPipelines[e + 1] - 1 :
              pipe < 0 \/ r = pipe => \E i \in 1 .. Len(t) : t[i].dev = e /\ t[i].pipe = r
    BY <2>1 DEF EachTaken
  <2>2. CASE d \in lo .. mid - 1
    <3>0. \A r \in 0 .. NPipelines[d + 1] - 1 :
            pipe < 0 \/ r = pipe => \E i \in 1 .. Len(s) : s[i].dev = d /\ s[i].pipe = r
      BY <2>2, <2>4, Zenon
    <3>1. PICK i \in 1 .. Len(s) : s[i].dev = d /\ s[i].pipe = q
      BY <3>0, Zenon
    <3> QED
      BY <1>2, <3>1
  <2>3. CASE d \in mid .. hi - 1
    <3>0. \A r \in 0 .. NPipelines[d + 1] - 1 :
            pipe < 0 \/ r = pipe => \E i \in 1 .. Len(t) : t[i].dev = d /\ t[i].pipe = r
      BY <2>3, <2>4, Zenon
    <3>1. PICK i \in 1 .. Len(t) : t[i].dev = d /\ t[i].pipe = q
      BY <3>0, Zenon
    <3>2. u[Len(s) + i] = t[i] /\ Len(s) + i \in 1 .. Len(u)
      BY <1>3
    <3> QED
      BY <3>1, <3>2
  <2> QED
    BY <1>7, <2>2, <2>3
<1>9. EachMissed(u, lo, hi, pipe)
  <2>1. EachMissed(s, lo, mid, pipe) /\ EachMissed(t, mid, hi, pipe)
    BY DEF Row
  <2> SUFFICES ASSUME NEW d \in lo .. hi - 1, pipe >= NPipelines[d + 1]
               PROVE  \E i \in 1 .. Len(u) :
                        u[i].dev = d /\ u[i].code = "INVALID_PIPELINE_ID"
    BY DEF EachMissed
  <2>2. CASE d \in lo .. mid - 1
    <3>1. PICK i \in 1 .. Len(s) : s[i].dev = d /\ s[i].code = "INVALID_PIPELINE_ID"
      BY <2>1, <2>2 DEF EachMissed
    <3> QED
      BY <1>2, <3>1
  <2>3. CASE d \in mid .. hi - 1
    <3>1. PICK i \in 1 .. Len(t) : t[i].dev = d /\ t[i].code = "INVALID_PIPELINE_ID"
      BY <2>1, <2>3 DEF EachMissed
    <3>2. u[Len(s) + i] = t[i] /\ Len(s) + i \in 1 .. Len(u)
      BY <1>3
    <3> QED
      BY <3>1, <3>2
  <2> QED
    BY <1>7, <2>2, <2>3
<1>10. InOrderOf(u)
  <2>1. InOrderOf(s) /\ InOrderOf(t) /\ AllMeant(s, lo, mid, pipe) /\ AllMeant(t, mid, hi, pipe)
    BY DEF Row
  <2> SUFFICES ASSUME NEW i \in 1 .. Len(u), NEW j \in 1 .. Len(u), i < j
               PROVE  Before(u[i], u[j])
    BY DEF InOrderOf
  <2>2. CASE i \in 1 .. Len(s) /\ j \in 1 .. Len(s)
    BY <1>2, <2>1, <2>2 DEF InOrderOf
  <2>3. CASE i \in 1 .. Len(s) /\ j \notin 1 .. Len(s)
    <3>1. j - Len(s) \in 1 .. Len(t) /\ u[j] = t[j - Len(s)] /\ u[i] = s[i]
      BY <1>2, <1>4, <2>3
    <3>2. Meant(u[i], lo, mid, pipe) /\ Meant(u[j], mid, hi, pipe)
      BY <2>1, <2>3, <3>1 DEF AllMeant
    <3>3. u[i].dev \in lo .. mid - 1 /\ u[j].dev \in mid .. hi - 1
      BY <3>2 DEF Meant
    <3>4. u[i].dev < u[j].dev
      BY <3>3
    <3> QED
      BY <3>4 DEF Before
  <2>4. CASE i \notin 1 .. Len(s)
    <3>1. i > Len(s) /\ i - Len(s) \in 1 .. Len(t) /\ u[i] = t[i - Len(s)]
      BY <1>4, <2>4
    <3>2. j \notin 1 .. Len(s)
      BY <1>1, <3>1
    <3>3. j - Len(s) \in 1 .. Len(t) /\ u[j] = t[j - Len(s)]
      BY <1>4, <3>2
    <3>4. i - Len(s) < j - Len(s)
      BY <1>1
    <3> QED
      BY <2>1, <3>1, <3>3, <3>4 DEF InOrderOf
  <2> QED
    BY <2>2, <2>3, <2>4
<1>11. Row(u, lo, hi, pipe)
  BY <1>1, <1>6, <1>8, <1>9, <1>10 DEF Row
<1> QED
  BY <1>11 DEF u

\* The function in the definition of Targets is there.
LEMMA TargetSteps ==
  ASSUME NEW r, r.pipe \in Int, r.dev \in Int, r.dev < 0
  PROVE  \E g : /\ Targets(r) = g[Len(NPipelines)]
                /\ g[0] = <<>>
                /\ \A n \in 1 .. Len(NPipelines) : g[n] = g[n - 1] \o PipeTargets(n - 1, r.pipe)
<1> DEFINE N == Len(NPipelines)
           S == Seq(Places)
           G == [p \in (1 .. N) \X S |-> p[2] \o PipeTargets(p[1] - 1, r.pipe)]
           Body(g) == [d \in 0 .. N |-> IF d = 0 THEN <<>>
                                        ELSE g[d - 1] \o PipeTargets(d - 1, r.pipe)]
           g == CHOOSE u : u = Body(u)
<1>1. N \in Nat
  BY PipelinesOf
<1>2. \A n \in 1 .. N : n - 1 \in Devices
  BY <1>1 DEF Devices
<1>3. \A n \in 1 .. N : PipeTargets(n - 1, r.pipe) \in S
  BY <1>2, PipeRow DEF Row
<1>d. ~(r.dev > N - 1) /\ ~(r.dev > -1)
  BY <1>1
<1>t. Targets(r) = g[N]
  BY <1>d DEF Targets
<1> HIDE DEF N
<1>4. \A n \in 1 .. N, x \in S : x \o PipeTargets(n - 1, r.pipe) \in S
  BY <1>3, ConcatProperties
<1>5. \A p \in (1 .. N) \X S : p[1] \in 1 .. N /\ p[2] \in S
  OBVIOUS
<1>6. G \in [(1 .. N) \X S -> S] /\ <<>> \in S
  <2>1. \A p \in (1 .. N) \X S : p[2] \o PipeTargets(p[1] - 1, r.pipe) \in S
    BY <1>4, <1>5
  <2> QED
    BY <2>1
<1>7. \A n \in 1 .. N, x \in S : G[n, x] = x \o PipeTargets(n - 1, r.pipe)
  OBVIOUS
<1> HIDE DEF G, S
<1>8. PICK h \in [0 .. N -> S] : StepsBy(h, <<>>, N, G)
  BY <1>1, <1>6, Recursion
<1>9. \A n \in 0 .. N : n # 0 => n \in 1 .. N /\ h[n - 1] \in S
  BY <1>1
<1>10. h[0] = <<>> /\ \A n \in 1 .. N : h[n] = G[n, h[n - 1]]
  BY <1>8 DEF StepsBy
<1>11. \A n \in 0 .. N :
         h[n] = IF n = 0 THEN <<>> ELSE h[n - 1] \o PipeTargets(n - 1, r.pipe)
  BY <1>7, <1>9, <1>10
<1>12. h = [n \in 0 .. N |-> h[n]]
  OBVIOUS
<1>13. h = Body(h)
  BY <1>11, <1>12
<1>14. g = Body(g)
  BY <1>13
<1> HIDE DEF g
<1>15. \A n \in 0 .. N :
         g[n] = IF n = 0 THEN <<>> ELSE g[n - 1] \o PipeTargets(n - 1, r.pipe)
  BY <1>14, Zenon
<1>16. 0 \in 0 .. N /\ \A n \in 1 .. N : n \in 0 .. N /\ n # 0
  BY <1>1
<1>17. g[0] = <<>> /\ \A n \in 1 .. N : g[n] = g[n - 1] \o PipeTargets(n - 1, r.pipe)
  BY <1>15, <1>16, Zenon
<1> QED
  BY <1>17, <1>t DEF N

\* The targets of a request: a row for the devices it names.
LEMMA TargetsRow ==
  ASSUME NEW r, r.dev \in Int, r.pipe \in Int, r.dev <= Len(NPipelines) - 1
  PROVE  IF r.dev < 0 THEN Row(Targets(r), 0, Len(NPipelines), r.pipe)
         ELSE r.dev \in Devices /\ Row(Targets(r), r.dev, r.dev + 1, r.pipe)
<1>1. Len(NPipelines) \in Nat
  BY PipelinesOf
<1>2. CASE ~(r.dev < 0)
  <2>1. r.dev \in Devices
    BY <1>1, <1>2 DEF Devices
  <2>2. ~(r.dev > Len(NPipelines) - 1) /\ r.dev > -1
    BY <1>1, <1>2
  <2>3. Targets(r) = PipeTargets(r.dev, r.pipe)
    BY <2>2 DEF Targets
  <2> QED
    BY <1>2, <2>1, <2>3, PipeRow
<1>3. CASE r.dev < 0
  <2> DEFINE N == Len(NPipelines)
  <2>1. PICK g : /\ Targets(r) = g[N]
                 /\ g[0] = <<>>
                 /\ \A n \in 1 .. N : g[n] = g[n - 1] \o PipeTargets(n - 1, r.pipe)
    BY <1>3, TargetSteps
  <2> DEFINE T == {n \in 0 .. N : Row(g[n], 0, n, r.pipe)}
  <2>2. 0 \in T
    <3>1. <<>> \in Seq(Places) /\ Len(<<>>) = 0 /\ 1 .. 0 = {} /\ 0 .. 0 - 1 = {}
      OBVIOUS
    <3>2. Row(<<>>, 0, 0, r.pipe)
      BY <3>1 DEF Row, AllMeant, EachTaken, InOrderOf, EachMissed
    <3> QED
      BY <1>1, <2>1, <3>2
  <2>3. ASSUME NEW n \in 0 .. N - 1, n \in T PROVE n + 1 \in T
    <3>1. n \in Devices /\ n \in Nat /\ n + 1 \in Nat /\ n + 1 \in 0 .. N
      BY <1>1 DEF Devices
    <3>2. n + 1 \in 1 .. N /\ (n + 1) - 1 = n
      BY <1>1
    <3>3. g[n + 1] = g[n] \o PipeTargets(n, r.pipe)
      BY <2>1, <3>2
    <3>4. Row(g[n], 0, n, r.pipe)
      BY <2>3
    <3>5. Row(PipeTargets(n, r.pipe), n, n + 1, r.pipe)
      BY <3>1, PipeRow
    <3>6. 0 \in Nat /\ 0 <= n /\ n <= n + 1
      BY <3>1
    <3>7. Row(g[n] \o PipeTargets(n, r.pipe), 0, n + 1, r.pipe)
      BY <3>1, <3>4, <3>5, <3>6, RowsJoined
    <3> QED
      BY <3>1, <3>3, <3>7
  <2> HIDE DEF T
  <2>4. \A n \in 0 .. N : n \in T
    BY <1>1, <2>2, <2>3, UpTo
  <2>5. N \in T
    BY <1>1, <2>4
  <2> QED
    BY <1>3, <2>1, <2>5 DEF T
<1> QED
  BY <1>2, <1>3

\* A device that is not there has one answer of its own.
LEMMA TargetsNone ==
  ASSUME NEW r, r.dev \in Int, r.dev > Len(NPipelines) - 1
  PROVE  Targets(r) = <<Target(-1, -1, "INVALID_DEVICE_ID")>>
BY DEF Targets

\* What the loops need to know of their targets.
LEMMA TargetsTyped ==
  ASSUME NEW r, r.dev \in Int, r.pipe \in Int
  PROVE  /\ Targets(r) \in Seq(Places)
         /\ \A i \in 1 .. Len(Targets(r)) :
              LET x == Targets(r)[i] IN x.code = "OK" => <<x.dev, x.pipe>> \in Pipe
<1>1. Len(NPipelines) \in Nat
  BY PipelinesOf
<1>2. CASE r.dev > Len(NPipelines) - 1
  <2> DEFINE x == Target(-1, -1, "INVALID_DEVICE_ID")
  <2>1. Targets(r) = <<x>>
    BY <1>2, TargetsNone
  <2>2. x \in Places /\ x.code # "OK"
    BY DEF Target, Places
  <2> HIDE DEF x
  <2>3. <<x>> \in Seq(Places) /\ Len(<<x>>) = 1 /\ \A i \in 1 .. 1 : <<x>>[i] = x
    BY <2>2
  <2> QED
    BY <2>1, <2>2, <2>3
<1>3. CASE ~(r.dev > Len(NPipelines) - 1)
  <2>1. \E lo, hi \in 0 .. Len(NPipelines) : Row(Targets(r), lo, hi, r.pipe)
    <3>1. CASE r.dev < 0
      <4>1. Row(Targets(r), 0, Len(NPipelines), r.pipe)
        BY <1>1, <1>3, <3>1, TargetsRow
      <4>2. 0 \in 0 .. Len(NPipelines) /\ Len(NPipelines) \in 0 .. Len(NPipelines)
        BY <1>1
      <4> QED
        BY <4>1, <4>2
    <3>2. CASE ~(r.dev < 0)
      <4>1. Row(Targets(r), r.dev, r.dev + 1, r.pipe)
        BY <1>1, <1>3, <3>2, TargetsRow
      <4>2. r.dev \in 0 .. Len(NPipelines) /\ r.dev + 1 \in 0 .. Len(NPipelines)
        BY <1>1, <1>3, <3>2
      <4> QED
        BY <4>1, <4>2
    <3> QED
      BY <3>1, <3>2
  <2>2. PICK lo \in 0 .. Len(NPipelines), hi \in 0 .. Len(NPipelines) :
          Row(Targets(r), lo, hi, r.pipe)
    BY <2>1
  <2>3. Targets(r) \in Seq(Places) /\ AllMeant(Targets(r), lo, hi, r.pipe)
    BY <2>2 DEF Row
  <2>4. ASSUME NEW x, Meant(x, lo, hi, r.pipe), x.code = "OK"
        PROVE  <<x.dev, x.pipe>> \in Pipe
    <3>1. x.dev \in lo .. hi - 1 /\ x.pipe \in 0 .. NPipelines[x.dev + 1] - 1
      BY <2>4 DEF Meant
    <3>2. x.dev + 1 \in 1 .. Len(NPipelines) /\ (x.dev + 1) - 1 = x.dev
      BY <1>1, <3>1
    <3>3. x.dev + 1 \in DOMAIN NPipelines
      BY <3>2, PipelinesAssumption
    <3> DEFINE d == x.dev + 1
    <3>4. <<x.dev, x.pipe>> \in {d - 1} \X (0 .. NPipelines[d] - 1)
      BY <3>1, <3>2
    <3> HIDE DEF d
    <3>5. d \in DOMAIN NPipelines
      BY <3>3 DEF d
    <3> QED
      BY <3>4, <3>5 DEF Pipe
  <2> QED
    BY <2>3, <2>4 DEF AllMeant
<1> QED
  BY <1>2, <1>3

\* The pipelines of a device are those that it is said to have.
LEMMA PipeIs ==
  ASSUME NEW p
  PROVE  p \in Pipe <=> \E d \in Devices, q \in Nat : q \in 0 .. NPipelines[d + 1] - 1 /\ p = <<d, q>>
<1>1. Len(NPipelines) \in Nat /\ DOMAIN NPipelines = 1 .. Len(NPipelines)
  BY PipelinesOf, PipelinesAssumption
<1>2. ASSUME p \in Pipe
      PROVE  \E d \in Devices, q \in Nat : q \in 0 .. NPipelines[d + 1] - 1 /\ p = <<d, q>>
  <2>1. PICK n \in DOMAIN NPipelines : p \in {n - 1} \X (0 .. NPipelines[n] - 1)
    BY <1>2 DEF Pipe
  <2>2. n - 1 \in Devices /\ (n - 1) + 1 = n
    BY <1>1 DEF Devices
  <2>3. p = <<p[1], p[2]>> /\ p[1] = n - 1 /\ p[2] \in 0 .. NPipelines[n] - 1
    BY <2>1
  <2>4. p[2] \in Nat
    BY <2>3
  <2> QED
    BY <2>2, <2>3, <2>4
<1>3. ASSUME NEW d \in Devices, NEW q \in Nat, q \in 0 .. NPipelines[d + 1] - 1, p = <<d, q>>
      PROVE  p \in Pipe
  <2> DEFINE n == d + 1
  <2>1. n \in DOMAIN NPipelines /\ n - 1 = d
    BY <1>1 DEF Devices
  <2>2. p \in {n - 1} \X (0 .. NPipelines[n] - 1)
    BY <1>3, <2>1
  <2> HIDE DEF n
  <2> QED
    BY <2>1, <2>2 DEF Pipe
<1> QED
  BY <1>2, <1>3

\* The answers s are to the targets t: where a target names an error, they do.
Answers(s, t) ==
  /\ Len(s) = Len(t) /\ DOMAIN s = 1 .. Len(t)
  /\ \A i \in 1 .. Len(t) : /\ s[i].dev = t[i].dev /\ s[i].pipe = t[i].pipe
                            /\ t[i].code # "OK" => s[i].code = t[i].code

Given(s) == {i \in DOMAIN s : s[i].pipe # -1}
Place(s, i) == <<s[i].dev, s[i].pipe>>

LEMMA PlacesAnswered ==
  ASSUME NEW r, r.dev \in Int, r.pipe \in Int, NEW s, Answers(s, Targets(r))
  PROVE  {Place(s, i) : i \in Given(s)} = Store!Named(r)
<1> DEFINE t == Targets(r)
           N == Len(NPipelines)
<1>1. N \in Nat
  BY PipelinesOf
<1>2. DOMAIN s = 1 .. Len(t) /\ Len(t) \in Nat
      /\ \A i \in 1 .. Len(t) : s[i].dev = t[i].dev /\ s[i].pipe = t[i].pipe
  <2>1. t \in Seq(Places)
    BY TargetsTyped
  <2>2. Len(t) \in Nat
    BY <2>1, LenProperties
  <2> QED
    BY <2>2 DEF Answers
<1>3. \A p : p \in Store!Named(r) <=> p \in Pipe /\ (r.dev < 0 \/ r.dev = p[1])
                                               /\ (r.pipe < 0 \/ r.pipe = p[2])
  BY DEF Store!Named
<1>4. CASE r.dev > N - 1
  <2>1. Store!Named(r) = {}
    <3> SUFFICES ASSUME NEW p \in Store!Named(r) PROVE FALSE
      OBVIOUS
    <3>1. p \in Pipe /\ (r.dev < 0 \/ r.dev = p[1])
      BY <1>3
    <3>2. PICK d \in Devices, q \in Nat : p = <<d, q>>
      BY <3>1, PipeIs
    <3>3. p[1] \in 0 .. N - 1
      BY <3>2 DEF Devices
    <3> QED
      BY <1>1, <1>4, <3>1, <3>3
  <2>2. t = <<Target(-1, -1, "INVALID_DEVICE_ID")>>
    BY <1>4, TargetsNone
  <2>3. Len(t) = 1 /\ t[1].pipe = -1 /\ \A i \in 1 .. 1 : i = 1
    BY <2>2 DEF Target
  <2>4. Given(s) = {}
    BY <1>2, <2>3 DEF Given
  <2> QED
    BY <2>1, <2>4
<1>5. ASSUME NEW lo \in Nat, NEW hi \in Nat, Row(t, lo, hi, r.pipe), hi <= N,
             \A d \in Devices : d \in lo .. hi - 1 <=> (r.dev < 0 \/ r.dev = d)
      PROVE  {Place(s, i) : i \in Given(s)} = Store!Named(r)
  <2> HIDE DEF t
  <2>1. AllMeant(t, lo, hi, r.pipe) /\ EachTaken(t, lo, hi, r.pipe)
    BY <1>5 DEF Row
  <2>2. ASSUME NEW i \in Given(s) PROVE Place(s, i) \in Store!Named(r)
    <3>1. i \in 1 .. Len(t) /\ t[i].pipe # -1 /\ Place(s, i) = <<t[i].dev, t[i].pipe>>
      BY <1>2, <2>2 DEF Given, Place
    <3> DEFINE x == t[i]
    <3>2. Meant(x, lo, hi, r.pipe) /\ x.pipe # -1
      BY <2>1, <3>1 DEF AllMeant
    <3>3. Place(s, i) = <<x.dev, x.pipe>>
      BY <3>1
    <3> HIDE DEF x
    <3>4. /\ x.dev \in lo .. hi - 1 /\ x.pipe \in 0 .. NPipelines[x.dev + 1] - 1
          /\ r.pipe < 0 \/ x.pipe = r.pipe
      BY <3>2 DEF Meant
    <3>5. x.dev \in Devices /\ x.pipe \in Nat
      BY <1>1, <1>5, <3>4 DEF Devices
    <3>6. <<x.dev, x.pipe>> \in Pipe
      BY <3>4, <3>5, PipeIs
    <3>7. r.dev < 0 \/ r.dev = x.dev
      BY <1>5, <3>4, <3>5
    <3> QED
      BY <1>3, <3>3, <3>4, <3>6, <3>7
  <2>3. ASSUME NEW p \in Store!Named(r) PROVE \E i \in Given(s) : p = Place(s, i)
    <3>1. p \in Pipe /\ (r.dev < 0 \/ r.dev = p[1]) /\ (r.pipe < 0 \/ r.pipe = p[2])
      BY <1>3
    <3>2. PICK d \in Devices, q \in Nat : q \in 0 .. NPipelines[d + 1] - 1 /\ p = <<d, q>>
      BY <3>1, PipeIs
    <3>3. d \in lo .. hi - 1 /\ (r.pipe < 0 \/ q = r.pipe)
      BY <1>5, <3>1, <3>2
    <3>4. PICK i \in 1 .. Len(t) : t[i].dev = d /\ t[i].pipe = q
      BY <2>1, <3>2, <3>3 DEF EachTaken
    <3>5. i \in Given(s) /\ Place(s, i) = <<d, q>>
      BY <1>2, <3>4 DEF Given, Place
    <3> QED
      BY <3>2, <3>5
  <2> QED
    BY <2>2, <2>3
<1>6. CASE ~(r.dev > N - 1) /\ r.dev < 0
  <2>1. Row(t, 0, N, r.pipe)
    BY <1>1, <1>6, TargetsRow
  <2>2. \A d \in Devices : d \in 0 .. N - 1 <=> (r.dev < 0 \/ r.dev = d)
    BY <1>6 DEF Devices
  <2> QED
    BY <1>1, <1>5, <2>1, <2>2
<1>7. CASE ~(r.dev > N - 1) /\ ~(r.dev < 0)
  <2>1. r.dev \in Devices /\ Row(t, r.dev, r.dev + 1, r.pipe)
    BY <1>1, <1>7, TargetsRow
  <2>2. r.dev \in Nat /\ r.dev + 1 \in Nat /\ r.dev + 1 <= N
    BY <1>1, <2>1 DEF Devices
  <2>3. \A d \in Devices : d \in r.dev .. (r.dev + 1) - 1 <=> (r.dev < 0 \/ r.dev = d)
    BY <1>1, <1>7, <2>2 DEF Devices
  <2> QED
    BY <1>5, <2>1, <2>2, <2>3
<1> QED
  BY <1>4, <1>6, <1>7

LEMMA InOrderAnswered ==
  ASSUME NEW r, r.dev \in Int, r.pipe \in Int, NEW s, Answers(s, Targets(r))
  PROVE  \A i, j \in Given(s) : i < j =>
           \/ Place(s, i)[1] < Place(s, j)[1]
           \/ Place(s, i)[1] = Place(s, j)[1] /\ Place(s, i)[2] < Place(s, j)[2]
<1> DEFINE t == Targets(r)
           N == Len(NPipelines)
<1>1. N \in Nat
  BY PipelinesOf
<1>2. DOMAIN s = 1 .. Len(t)
      /\ \A i \in 1 .. Len(t) : s[i].dev = t[i].dev /\ s[i].pipe = t[i].pipe
  BY DEF Answers
<1>3. InOrderOf(t)
  <2>1. CASE r.dev > N - 1
    <3>1. t = <<Target(-1, -1, "INVALID_DEVICE_ID")>>
      BY <2>1, TargetsNone
    <3>2. Len(t) = 1 /\ \A i, j \in 1 .. 1 : ~(i < j)
      BY <3>1
    <3> QED
      BY <3>2 DEF InOrderOf
  <2>2. CASE ~(r.dev > N - 1)
    <3>1. r.dev <= N - 1
      BY <1>1, <2>2
    <3> QED
      BY <3>1, TargetsRow DEF Row
  <2> QED
    BY <2>1, <2>2
<1> HIDE DEF t
<1>4. \A i \in Given(s) : i \in 1 .. Len(t) /\ Place(s, i) = <<t[i].dev, t[i].pipe>>
  BY <1>2 DEF Given, Place
<1>5. \A i, j \in Given(s) : i < j => Before(t[i], t[j])
  BY <1>3, <1>4 DEF InOrderOf
<1> QED
  BY <1>4, <1>5 DEF Before

LEMMA MissesAnswered ==
  ASSUME NEW r, r.dev \in Int, r.pipe \in Int, NEW s, Answers(s, Targets(r)),
         NEW d \in Devices, r.dev < 0 \/ r.dev = d, r.pipe >= NPipelines[d + 1]
  PROVE  \E i \in DOMAIN s : s[i].dev = d /\ s[i].code = "INVALID_PIPELINE_ID"
<1> DEFINE t == Targets(r)
           N == Len(NPipelines)
<1>1. N \in Nat
  BY PipelinesOf
<1>2. DOMAIN s = 1 .. Len(t)
      /\ \A i \in 1 .. Len(t) : s[i].dev = t[i].dev
                                /\ (t[i].code # "OK" => s[i].code = t[i].code)
  BY DEF Answers
<1>3. r.dev <= N - 1
  BY <1>1 DEF Devices
<1>4. \E i \in 1 .. Len(t) : t[i].dev = d /\ t[i].code = "INVALID_PIPELINE_ID"
  <2>1. CASE r.dev < 0
    <3>1. EachMissed(t, 0, N, r.pipe)
      BY <1>3, <2>1, TargetsRow DEF Row
    <3>2. d \in 0 .. N - 1
      BY DEF Devices
    <3> QED
      BY <3>1, <3>2 DEF EachMissed
  <2>2. CASE ~(r.dev < 0)
    <3>1. EachMissed(t, r.dev, r.dev + 1, r.pipe)
      BY <1>3, <2>2, TargetsRow DEF Row
    <3>2. d \in r.dev .. (r.dev + 1) - 1
      BY <2>2 DEF Devices
    <3> QED
      BY <3>1, <3>2 DEF EachMissed
  <2> QED
    BY <2>1, <2>2
<1> HIDE DEF t
<1> QED
  BY <1>2, <1>4

-----------------------------------------------------------------------------
(* Types, and where a worker is in its request *)

Step(w) ==
  \/ Begin(w) \/ Refuse(w) \/ EnterPipeline(w) \/ WriteResponse(w) \/ Finish(w)
  \/ LoadRule(w) \/ PackRule(w) \/ CallDriver(w) \/ RulesDone(w)
  \/ ResetTable(w) \/ TablesDone(w)
  \/ BeginDump(w) \/ GetByResponse(w) \/ GetByKey(w) \/ InfoDone(w)

Domains ==
  /\ DOMAIN req = Worker /\ DOMAIN todo = Worker /\ DOMAIN pc = Worker
  /\ DOMAIN at = Worker /\ DOMAIN err = Worker /\ DOMAIN pack = Worker
  /\ DOMAIN entered = Worker /\ DOMAIN quiet = Worker /\ DOMAIN past = Worker
  /\ DOMAIN answers = Worker /\ DOMAIN cursor = Worker /\ DOMAIN found = Worker
  /\ DOMAIN dump = Worker /\ DOMAIN cut = Worker

TablesTyped ==
  /\ DOMAIN tables = Pipe
  /\ \A p \in Pipe : /\ DOMAIN tables[p] = DOMAIN TableInfo
                     /\ \A t \in DOMAIN TableInfo : IsTable(t, tables[p][t])

\* What is still to do is at pipelines that are there.
ThereStill(w) ==
  \A i \in 1 .. Len(todo[w]) :
    todo[w][i].code = "OK" => <<todo[w][i].dev, todo[w][i].pipe>> \in Pipe

\* A pass is at such a pipeline.
AtPipe(w) == Passing(w) => todo[w] # <<>> /\ Head(todo[w]).code = "OK"

\* A rule that is packed has been loaded.
AtRule(w) ==
  /\ pc[w] \in {"rule", "pack", "driver"} => req[w].op \in {"insert", "delete"}
  /\ pc[w] \in {"pack", "driver"} =>
       /\ at[w] <= Len(req[w].rules)
       /\ LoadStatus(req[w].op, Rule(w)) = "OK"

AtTable(w) == Walking(w) => at[w] <= Len(TableList)

Ready(w) == ThereStill(w) /\ AtPipe(w) /\ AtRule(w) /\ AtTable(w)

TypeInv == TypeOK /\ \A w \in Worker : Ready(w)

\* All that a worker keeps for itself.
Same(u) ==
  /\ req'[u] = req[u] /\ todo'[u] = todo[u] /\ pc'[u] = pc[u] /\ at'[u] = at[u]
  /\ err'[u] = err[u] /\ pack'[u] = pack[u] /\ entered'[u] = entered[u]
  /\ answers'[u] = answers[u] /\ cursor'[u] = cursor[u] /\ found'[u] = found[u]
  /\ dump'[u] = dump[u] /\ cut'[u] = cut[u]

LEMMA TypeSplit ==
  TypeOK <=> Domains /\ TablesTyped /\ sent \in Nat /\ \A w \in Worker : Typed(w)
BY DEF TypeOK, Domains, TablesTyped

LEMMA NextSteps == ASSUME Next PROVE \E w \in Worker : Step(w)
BY DEF Next, Step

\* A step leaves each function one, and the others what is theirs.
LEMMA DomainsStay ==
  ASSUME Domains, NEW w \in Worker, Step(w)
  PROVE  Domains'
<1>1. CASE Begin(w)
  BY <1>1 DEF Begin, Domains, walkVars
<1>2. CASE Refuse(w)
  BY <1>2 DEF Refuse, Respond, Domains, walkVars
<1>3. CASE EnterPipeline(w)
  BY <1>3 DEF EnterPipeline, Domains, walkVars
<1>4. CASE WriteResponse(w)
  BY <1>4 DEF WriteResponse, Respond, Domains
<1>5. CASE Finish(w)
  BY <1>5 DEF Finish, Domains, walkVars
<1>6. CASE LoadRule(w)
  BY <1>6 DEF LoadRule, Domains, walkVars
<1>7. CASE PackRule(w)
  BY <1>7 DEF PackRule, Domains, walkVars
<1>8. CASE CallDriver(w)
  BY <1>8 DEF CallDriver, Change, Domains, walkVars
<1>9. CASE RulesDone(w)
  BY <1>9 DEF RulesDone, Domains, walkVars
<1>10. CASE ResetTable(w)
  BY <1>10 DEF ResetTable, Change, Domains, walkVars
<1>11. CASE TablesDone(w)
  BY <1>11 DEF TablesDone, Domains, walkVars
<1>12. CASE BeginDump(w)
  BY <1>12 DEF BeginDump, Domains
<1>13. CASE GetByResponse(w)
  BY <1>13 DEF GetByResponse, NextEntry, CutDump, EndDump, Domains
<1>14. CASE GetByKey(w)
  BY <1>14 DEF GetByKey, CutDump, EndDump, Domains
<1>15. CASE InfoDone(w)
  BY <1>15 DEF InfoDone, Domains, walkVars
<1> QED
  BY <1>1, <1>2, <1>3, <1>4, <1>5, <1>6, <1>7, <1>8, <1>9, <1>10, <1>11, <1>12, <1>13,
     <1>14, <1>15 DEF Step

LEMMA OthersStay ==
  ASSUME Domains, NEW w \in Worker, Step(w), NEW u \in Worker, u # w
  PROVE  Same(u) /\ (quiet[u] \in BOOLEAN => quiet'[u] \in BOOLEAN)
<1>1. CASE Begin(w)
  BY <1>1 DEF Begin, Domains, walkVars, Same
<1>2. CASE Refuse(w)
  BY <1>2 DEF Refuse, Respond, Domains, walkVars, Same
<1>3. CASE EnterPipeline(w)
  BY <1>3 DEF EnterPipeline, Domains, walkVars, Same
<1>4. CASE WriteResponse(w)
  BY <1>4 DEF WriteResponse, Respond, Domains, Same
<1>5. CASE Finish(w)
  BY <1>5 DEF Finish, Domains, walkVars, Same
<1>6. CASE LoadRule(w)
  BY <1>6 DEF LoadRule, Domains, walkVars, Same
<1>7. CASE PackRule(w)
  BY <1>7 DEF PackRule, Domains, walkVars, Same
<1>8. CASE CallDriver(w)
  BY <1>8 DEF CallDriver, Change, Domains, walkVars, Same
<1>9. CASE RulesDone(w)
  BY <1>9 DEF RulesDone, Domains, walkVars, Same
<1>10. CASE ResetTable(w)
  BY <1>10 DEF ResetTable, Change, Domains, walkVars, Same
<1>11. CASE TablesDone(w)
  BY <1>11 DEF TablesDone, Domains, walkVars, Same
<1>12. CASE BeginDump(w)
  BY <1>12 DEF BeginDump, Domains, Same
<1>13. CASE GetByResponse(w)
  BY <1>13 DEF GetByResponse, NextEntry, CutDump, EndDump, Domains, Same
<1>14. CASE GetByKey(w)
  BY <1>14 DEF GetByKey, CutDump, EndDump, Domains, Same
<1>15. CASE InfoDone(w)
  BY <1>15 DEF InfoDone, Domains, walkVars, Same
<1> QED
  BY <1>1, <1>2, <1>3, <1>4, <1>5, <1>6, <1>7, <1>8, <1>9, <1>10, <1>11, <1>12, <1>13,
     <1>14, <1>15 DEF Step

LEMMA OthersTyped ==
  ASSUME TypeInv, NEW w \in Worker, Step(w), NEW u \in Worker, u # w
  PROVE  Typed(u)' /\ Ready(u)'
<1>1. Domains /\ Typed(u) /\ Ready(u)
  BY TypeSplit DEF TypeInv
<1>2. quiet[u] \in BOOLEAN
  BY <1>1 DEF Typed
<1>3. Same(u) /\ quiet'[u] \in BOOLEAN
  BY <1>1, <1>2, OthersStay
<1>4. Typed(u)'
  BY <1>1, <1>3 DEF Typed, Same
<1>5. ThereStill(u)' /\ AtPipe(u)' /\ AtTable(u)'
  BY <1>1, <1>3 DEF Ready, Same, ThereStill, AtPipe, AtTable, Walking, Passing
<1>6. AtRule(u)'
  BY <1>1, <1>3 DEF Ready, Same, AtRule, Rule
<1> QED
  BY <1>4, <1>5, <1>6 DEF Ready

\* A pass is at a pipeline that is there.
LEMMA HereIs ==
  ASSUME NEW w \in Worker, Typed(w), Ready(w), Passing(w)
  PROVE  Here(w) \in Pipe /\ todo[w] # <<>> /\ Head(todo[w]).code = "OK"
<1>1. todo[w] \in Seq(Places) /\ todo[w] # <<>> /\ Head(todo[w]).code = "OK"
  BY DEF Typed, Ready, AtPipe
<1>2. Head(todo[w]) = todo[w][1] /\ 1 \in 1 .. Len(todo[w])
  <2> DEFINE q == todo[w]
  <2>1. q \in Seq(Places) /\ q # <<>>
    BY <1>1
  <2> HIDE DEF q
  <2>2. Len(q) \in Nat /\ Len(q) # 0
    BY <2>1, EmptySeq, LenProperties
  <2>3. Head(q) = q[1]
    BY <2>1, HeadTailProperties
  <2> QED
    BY <2>2, <2>3 DEF q
<1>3. <<todo[w][1].dev, todo[w][1].pipe>> \in Pipe
  BY <1>1, <1>2 DEF Ready, ThereStill
<1> QED
  BY <1>1, <1>2, <1>3 DEF Here

\* What the driver makes of a table is one.
LEMMA AfterTyped ==
  ASSUME NEW op, NEW rule, NEW table, rule.table \in DOMAIN TableInfo,
         IsTable(rule.table, table),
         op # "delete" => rule.action \in DOMAIN TableInfo[rule.table].actions
  PROVE  IsTable(rule.table, After(op, rule, table))
<1> DEFINE key == DriverKey(rule)
           S == DOMAIN table
<1>1. IsFiniteSet(S) /\ \A k \in S : table[k][1] \in DOMAIN TableInfo[rule.table].actions
  BY DEF IsTable
<1>2. CASE op = "delete"
  <2>1. After(op, rule, table) = [k \in S \ {key} |-> table[k]]
    BY <1>2 DEF After
  <2>2. IsFiniteSet(S \ {key})
    BY <1>1, FS_RemoveElement
  <2> HIDE DEF key
  <2> QED
    BY <1>1, <2>1, <2>2 DEF IsTable
<1>3. CASE op # "delete"
  <2> DEFINE result == DriverResult(rule)
  <2>1. After(op, rule, table) = [k \in S \cup {key} |-> IF k = key THEN result ELSE table[k]]
    BY <1>3 DEF After
  <2>2. IsFiniteSet(S \cup {key})
    BY <1>1, FS_AddElement
  <2>3. result[1] = rule.action
    BY DEF DriverResult
  <2> HIDE DEF key, result
  <2> QED
    BY <1>1, <1>3, <2>1, <2>2, <2>3 DEF IsTable
<1> QED
  BY <1>2, <1>3

LEMMA EmptyTyped == ASSUME NEW t PROVE IsTable(t, Empty)
<1>1. DOMAIN Empty = {} /\ Empty = [k \in {} |-> Empty[k]]
  BY DEF Empty
<1> QED
  BY <1>1, FS_EmptySet DEF IsTable

LEMMA ChangeTyped ==
  ASSUME TablesTyped, NEW w \in Worker, Here(w) \in Pipe, NEW t \in DOMAIN TableInfo,
         NEW content, IsTable(t, content), Change(w, t, content)
  PROVE  TablesTyped'
BY DEF TablesTyped, Change

LEMMA TablesStay ==
  ASSUME TypeInv, NEW w \in Worker, Step(w)
  PROVE  TablesTyped'
<1>1. TablesTyped /\ Typed(w) /\ Ready(w)
  BY TypeSplit DEF TypeInv
<1>2. CASE CallDriver(w)
  <2> DEFINE op == req[w].op
             rule == Rule(w)
             table == tables[Here(w)][rule.table]
  <2>1. pc[w] = "driver"
    BY <1>2 DEF CallDriver
  <2>2. CASE Change(w, rule.table, After(op, rule, table))
    <3>1. Passing(w)
      BY <2>1 DEF Passing
    <3>2. Here(w) \in Pipe
      BY <1>1, <3>1, HereIs
    <3>3. req[w] \in Request[w] /\ at[w] \in Nat \ {0}
      BY <1>1, <2>1 DEF Typed
    <3>4. at[w] <= Len(req[w].rules) /\ LoadStatus(op, rule) = "OK"
      BY <1>1, <2>1 DEF Ready, AtRule
    <3>5. IsList(req[w].rules) /\ \A i \in 1 .. Len(req[w].rules) : IsRule(req[w].rules[i])
      BY <3>3, RequestAssumption
    <3>6. IsRule(rule)
      BY <3>3, <3>4, <3>5 DEF Rule, IsList
    <3> HIDE DEF op, rule
    <3>7. /\ rule.table \in DOMAIN TableInfo
          /\ op # "delete" => rule.action \in DOMAIN TableInfo[rule.table].actions
      BY <3>4, <3>6, Loaded
    <3>8. IsTable(rule.table, table)
      BY <1>1, <3>2, <3>7 DEF TablesTyped
    <3> HIDE DEF table
    <3>9. IsTable(rule.table, After(op, rule, table))
      BY <3>7, <3>8, AfterTyped
    <3> QED
      BY <1>1, <2>2, <3>2, <3>7, <3>9, ChangeTyped
  <2>3. CASE UNCHANGED tables
    BY <1>1, <2>3 DEF TablesTyped
  <2>4. Change(w, rule.table, After(op, rule, table)) \/ UNCHANGED tables
    BY <1>2 DEF CallDriver
  <2> QED
    BY <2>2, <2>3, <2>4
<1>3. CASE ResetTable(w)
  <2> DEFINE t == ToClear(req[w])[at[w]]
  <2>1. pc[w] = "clear"
    BY <1>3 DEF ResetTable
  <2>2. CASE t \in DOMAIN TableInfo /\ Change(w, t, Empty)
    <3>1. Passing(w)
      BY <2>1 DEF Passing
    <3>2. Here(w) \in Pipe
      BY <1>1, <3>1, HereIs
    <3> HIDE DEF t
    <3>3. IsTable(t, Empty)
      BY EmptyTyped
    <3> QED
      BY <1>1, <2>2, <3>2, <3>3, ChangeTyped
  <2>3. CASE UNCHANGED tables
    BY <1>1, <2>3 DEF TablesTyped
  <2>4. (t \in DOMAIN TableInfo /\ Change(w, t, Empty)) \/ UNCHANGED tables
    BY <1>3 DEF ResetTable
  <2> QED
    BY <2>2, <2>3, <2>4
<1>4. CASE ~ CallDriver(w) /\ ~ ResetTable(w)
  <2>1. UNCHANGED tables
    BY <1>4 DEF Step, Begin, Refuse, EnterPipeline, WriteResponse, Finish, LoadRule,
                PackRule, RulesDone, TablesDone, BeginDump, GetByResponse, GetByKey, InfoDone
  <2> QED
    BY <1>1, <2>1 DEF TablesTyped
<1> QED
  BY <1>2, <1>3, <1>4

\* A list with one more item.
LEMMA ListAppend ==
  ASSUME NEW q, IsList(q), NEW x
  PROVE  /\ IsList(Append(q, x)) /\ Len(q) \in Nat
         /\ Len(Append(q, x)) = Len(q) + 1
         /\ DOMAIN Append(q, x) = 1 .. Len(q) + 1
         /\ \A i \in 1 .. Len(q) : Append(q, x)[i] = q[i]
         /\ Append(q, x)[Len(q) + 1] = x
<1> DEFINE R == {q[n] : n \in 1 .. Len(q)}
           S == R \cup {x}
           t == Append(q, x)
<1>1. q \in Seq(R)
  BY ListIsSeq
<1>2. R \subseteq S /\ x \in S
  OBVIOUS
<1> HIDE DEF R, S
<1>3. q \in Seq(S)
  BY <1>1, <1>2
<1>4. t \in Seq(S) /\ Len(t) = Len(q) + 1 /\ Len(q) \in Nat
  BY <1>2, <1>3, AppendProperties
<1>5. /\ \A i \in 1 .. Len(q) : t[i] = q[i]
      /\ t[Len(q) + 1] = x
  BY <1>2, <1>3, AppendProperties
<1>6. IsList(t)
  BY <1>4, SeqIsList
<1> HIDE DEF t
<1>7. DOMAIN t = 1 .. Len(q) + 1
  BY <1>4, <1>6 DEF IsList
<1> QED
  BY <1>4, <1>5, <1>6, <1>7 DEF t

\* What is still to do after one target.
LEMMA RestTyped ==
  ASSUME NEW w \in Worker, Typed(w), Ready(w), todo[w] # <<>>
  PROVE  /\ Tail(todo[w]) \in Seq(Places)
         /\ Len(Tail(todo[w])) = Len(todo[w]) - 1
         /\ \A i \in 1 .. Len(Tail(todo[w])) :
              i + 1 \in 1 .. Len(todo[w]) /\ Tail(todo[w])[i] = todo[w][i + 1]
         /\ Head(todo[w]) = todo[w][1] /\ 1 \in 1 .. Len(todo[w])
<1> DEFINE q == todo[w]
<1>1. q \in Seq(Places) /\ q # <<>>
  BY DEF Typed
<1> HIDE DEF q
<1>2. Tail(q) \in Seq(Places) /\ Head(q) = q[1]
  BY <1>1, HeadTailProperties
<1>3. Len(Tail(q)) = Len(q) - 1
  BY <1>1, HeadTailProperties
<1>4. \A i \in 1 .. Len(Tail(q)) : Tail(q)[i] = q[i + 1]
  BY <1>1, HeadTailProperties
<1>5. Len(q) \in Nat /\ Len(q) # 0
  BY <1>1, EmptySeq, LenProperties
<1>6. \A i \in 1 .. Len(Tail(q)) : i + 1 \in 1 .. Len(q)
  BY <1>3, <1>5
<1>7. 1 \in 1 .. Len(q)
  BY <1>5
<1> QED
  BY <1>2, <1>3, <1>4, <1>6, <1>7 DEF q

\* Responding does not disturb the types.
LEMMA RespondTyped ==
  ASSUME Domains, NEW w \in Worker, Typed(w), Ready(w), todo[w] # <<>>,
         NEW code, Respond(w, code)
  PROVE  todo'[w] \in Seq(Places) /\ IsList(answers'[w]) /\ ThereStill(w)'
<1>1. todo'[w] = Tail(todo[w])
  BY DEF Respond, Domains
<1>2. todo'[w] \in Seq(Places)
  BY <1>1, RestTyped
<1>3. ThereStill(w)'
  BY <1>1, RestTyped DEF ThereStill, Ready
<1>4. \E x : answers'[w] = Append(answers[w], x)
  BY DEF Respond, Domains
<1>5. IsList(answers'[w])
  BY <1>4, ListAppend DEF Typed
<1> QED
  BY <1>2, <1>3, <1>5

\* The arrays of a pack, after the packing.
LEMMA ArraysAre ==
  ASSUME NEW op, NEW status
  PROVE  /\ Arrays(op, status) \in [{"key", "mask", "params"}
                                      -> {"null", "live", "freed", "freed_twice"}]
         /\ status \notin TooBig =>
              Arrays(op, status) \in [{"key", "mask", "params"} -> {"null", "live"}]
<1> DEFINE p == IF op = "insert" THEN "live" ELSE "null"
           A1 == [key |-> "live", mask |-> "live", params |-> p]
           A2 == [key |-> "freed", mask |-> "freed", params |-> "null"]
           A3 == [key |-> "live", mask |-> "live", params |-> "null"]
           A4 == [key |-> "live", mask |-> "live", params |-> "freed"]
<1>2. /\ A1 \in [{"key", "mask", "params"} -> {"null", "live"}]
      /\ A2 \in [{"key", "mask", "params"} -> {"null", "live", "freed", "freed_twice"}]
      /\ A3 \in [{"key", "mask", "params"} -> {"null", "live"}]
      /\ A4 \in [{"key", "mask", "params"} -> {"null", "live", "freed", "freed_twice"}]
      /\ NoPack \in [{"key", "mask", "params"} -> {"null", "live"}]
  BY DEF NoPack
<1>3. Arrays(op, status) \in {A1, A2, A3, A4, NoPack}
      /\ (status \notin TooBig => Arrays(op, status) \in {A1, A3, NoPack})
  BY DEF Arrays, TooBig
<1>4. \A f : f \in [{"key", "mask", "params"} -> {"null", "live"}] =>
              f \in [{"key", "mask", "params"} -> {"null", "live", "freed", "freed_twice"}]
  OBVIOUS
<1> HIDE DEF A1, A2, A3, A4
<1> QED
  BY <1>2, <1>3, <1>4

\* The walk is over a table of the pipeline.
LEMMA WalkedTable ==
  ASSUME NEW w \in Worker, Typed(w), Ready(w), Walking(w)
  PROVE  OfInfo(w) \in DOMAIN TableInfo
<1>1. at[w] \in Nat \ {0} /\ at[w] <= Len(TableList)
  BY DEF Typed, Ready, AtTable
<1>2. TableList \in Seq(DOMAIN TableInfo)
  BY TableListAssumption
<1>3. Len(TableList) \in Nat
  BY <1>2, LenProperties
<1>4. at[w] \in 1 .. Len(TableList)
  BY <1>1, <1>3
<1> QED
  BY <1>2, <1>4, ElementOfSeq DEF OfInfo

\* The worker that takes a step.
LEMMA TakesTyped ==
  ASSUME TypeInv, NEW w \in Worker, Step(w)
  PROVE  Typed(w)' /\ Ready(w)'
<1>1. Domains /\ Typed(w) /\ Ready(w)
  BY TypeSplit DEF TypeInv
<1>d. w \in DOMAIN req /\ w \in DOMAIN todo /\ w \in DOMAIN pc /\ w \in DOMAIN at
      /\ w \in DOMAIN pack /\ w \in DOMAIN quiet /\ w \in DOMAIN answers
      /\ w \in DOMAIN cursor /\ w \in DOMAIN found /\ w \in DOMAIN dump /\ w \in DOMAIN cut
  BY <1>1 DEF Domains
<1>2. CASE Begin(w)
  <2>1. PICK r \in Request[w] : req'[w] = r /\ todo'[w] = Targets(r)
    BY <1>2, <1>d DEF Begin
  <2>2. r.dev \in Int /\ r.pipe \in Int
    BY RequestAssumption
  <2>3. /\ Targets(r) \in Seq(Places)
        /\ \A i \in 1 .. Len(Targets(r)) :
             LET x == Targets(r)[i] IN x.code = "OK" => <<x.dev, x.pipe>> \in Pipe
    BY <2>2, TargetsTyped
  <2>4. pc'[w] = "loop" /\ answers'[w] = <<>>
        /\ UNCHANGED <<at[w], pack[w], quiet[w], cursor[w], dump[w], cut[w]>>
    BY <1>2, <1>d DEF Begin, walkVars
  <2>5. IsList(<<>>)
    BY EmptyList
  <2>6. Typed(w)'
    BY <1>1, <2>1, <2>3, <2>4, <2>5 DEF Typed
  <2>7. ThereStill(w)'
    BY <2>1, <2>3 DEF ThereStill
  <2>8. AtPipe(w)' /\ AtRule(w)' /\ AtTable(w)'
    BY <2>4 DEF AtPipe, AtRule, AtTable, Walking, Passing
  <2> QED
    BY <2>6, <2>7, <2>8 DEF Ready
<1>3. CASE Refuse(w)
  <2>1. pc[w] = "loop" /\ todo[w] # <<>> /\ Respond(w, Head(todo[w]).code)
        /\ UNCHANGED <<req, pc, at, pack, quiet, cursor, dump, cut>>
    BY <1>3 DEF Refuse, walkVars
  <2>2. todo'[w] \in Seq(Places) /\ IsList(answers'[w]) /\ ThereStill(w)'
    BY <1>1, <2>1, RespondTyped
  <2>3. Typed(w)'
    BY <1>1, <2>1, <2>2 DEF Typed
  <2>4. AtPipe(w)' /\ AtRule(w)' /\ AtTable(w)'
    BY <2>1 DEF AtPipe, AtRule, AtTable, Walking, Passing
  <2> QED
    BY <2>2, <2>3, <2>4 DEF Ready
<1>4. CASE WriteResponse(w)
  <2>1. /\ pc[w] = "respond" /\ Respond(w, err[w]) /\ pc'[w] = "loop"
        /\ quiet'[w] = TRUE /\ dump'[w] = Empty /\ cut'[w] = {}
        /\ UNCHANGED <<req, at, pack, cursor>>
    BY <1>4, <1>d DEF WriteResponse
  <2>2. todo[w] # <<>>
    BY <1>1, <2>1 DEF Ready, AtPipe, Passing
  <2>3. todo'[w] \in Seq(Places) /\ IsList(answers'[w]) /\ ThereStill(w)'
    BY <1>1, <2>1, <2>2, RespondTyped
  <2>4. DOMAIN Empty = {}
    BY DEF Empty
  <2>5. Typed(w)'
    BY <1>1, <2>1, <2>3, <2>4 DEF Typed
  <2>6. AtPipe(w)' /\ AtRule(w)' /\ AtTable(w)'
    BY <2>1 DEF AtPipe, AtRule, AtTable, Walking, Passing
  <2> QED
    BY <2>3, <2>5, <2>6 DEF Ready
<1>5. CASE Finish(w)
  <2>1. /\ pc'[w] = "idle"
        /\ UNCHANGED <<todo, at, pack, quiet, answers, cursor, dump, cut>>
    BY <1>5, <1>d DEF Finish, walkVars
  <2>2. Typed(w)'
    BY <1>1, <2>1 DEF Typed
  <2>3. ThereStill(w)' /\ AtPipe(w)' /\ AtRule(w)' /\ AtTable(w)'
    BY <1>1, <2>1 DEF Ready, ThereStill, AtPipe, AtRule, AtTable, Walking, Passing
  <2> QED
    BY <2>2, <2>3 DEF Ready
<1>6. CASE EnterPipeline(w)
  <2>1. /\ pc[w] = "loop" /\ todo[w] # <<>> /\ Head(todo[w]).code = "OK"
        /\ at'[w] = 1 /\ UNCHANGED <<req, todo, pack, quiet, answers, cursor, dump, cut>>
    BY <1>6, <1>d DEF EnterPipeline, walkVars
  <2>2. pc'[w] = CASE req[w].op = "clear" -> "clear"
                   [] req[w].op = "info"  -> "info"
                   [] OTHER               -> "rule"
    BY <1>6, <1>d DEF EnterPipeline
  <2>3. req[w] \in Request[w]
    BY <1>1, <2>1 DEF Typed
  <2>4. req[w].op \in {"insert", "delete", "clear", "info"}
    BY <2>3, RequestAssumption
  <2>5. /\ pc'[w] \in {"clear", "info", "rule"}
        /\ pc'[w] = "rule" => req[w].op \in {"insert", "delete"}
    BY <2>2, <2>4
  <2>6. Typed(w)'
    BY <1>1, <2>1, <2>3, <2>5 DEF Typed
  <2>7. ThereStill(w)' /\ AtPipe(w)' /\ AtRule(w)' /\ AtTable(w)'
    BY <1>1, <2>1, <2>5 DEF Ready, ThereStill, AtPipe, AtRule, AtTable, Walking
  <2> QED
    BY <2>6, <2>7 DEF Ready
<1>7. CASE LoadRule(w)
  <2>1. /\ pc[w] = "rule" /\ at[w] <= Len(req[w].rules)
        /\ pc'[w] = IF LoadStatus(req[w].op, Rule(w)) = "OK" THEN "pack" ELSE "respond"
        /\ UNCHANGED <<req, todo, at, pack, quiet, answers, cursor, dump, cut>>
    BY <1>7, <1>d DEF LoadRule, walkVars
  <2>2. Typed(w)'
    BY <1>1, <2>1 DEF Typed
  <2>3. Rule(w)' = Rule(w)
    BY <2>1 DEF Rule
  <2>4. ThereStill(w)' /\ AtPipe(w)' /\ AtTable(w)'
    BY <1>1, <2>1 DEF Ready, ThereStill, AtPipe, AtTable, Walking, Passing
  <2>5. AtRule(w)'
    BY <1>1, <2>1, <2>3 DEF Ready, AtRule
  <2> QED
    BY <2>2, <2>4, <2>5 DEF Ready
<1>8. CASE PackRule(w)
  <2>1. /\ pc[w] = "pack" /\ pc'[w] \in {"driver", "respond"}
        /\ UNCHANGED <<req, todo, at, quiet, answers, cursor, dump, cut>>
    BY <1>8, <1>d DEF PackRule, walkVars
  <2>2. pack'[w] \in [{"key", "mask", "params"} -> {"null", "live", "freed", "freed_twice"}]
    <3>1. \E status :
            \/ pack'[w] = Arrays(req[w].op, status)
            \/ pack'[w] = Cleared(Arrays(req[w].op, status))
      BY <1>8, <1>d DEF PackRule
    <3>2. \A op, status : Arrays(op, status) \in [{"key", "mask", "params"}
                                                     -> {"null", "live", "freed", "freed_twice"}]
      BY ArraysAre
    <3>3. \A p \in [{"key", "mask", "params"} -> {"null", "live", "freed", "freed_twice"}] :
            Cleared(p) \in [{"key", "mask", "params"} -> {"null", "live", "freed", "freed_twice"}]
      BY DEF Cleared
    <3> QED
      BY <3>1, <3>2, <3>3
  <2>3. Typed(w)'
    BY <1>1, <2>1, <2>2 DEF Typed
  <2>4. Rule(w)' = Rule(w)
    BY <2>1 DEF Rule
  <2>5. ThereStill(w)' /\ AtPipe(w)' /\ AtTable(w)'
    BY <1>1, <2>1 DEF Ready, ThereStill, AtPipe, AtTable, Walking, Passing
  <2>6. AtRule(w)'
    BY <1>1, <2>1, <2>4 DEF Ready, AtRule
  <2> QED
    BY <2>3, <2>5, <2>6 DEF Ready
<1>9. CASE CallDriver(w)
  <2>1. /\ pc[w] = "driver" /\ pc'[w] \in {"rule", "respond"}
        /\ UNCHANGED <<req, todo, answers, cursor, dump, cut>>
        /\ pack'[w] = Cleared(pack[w])
    BY <1>9, <1>d DEF CallDriver, walkVars
  <2>2. at'[w] \in Nat \ {0}
    BY <1>1, <1>9, <1>d DEF CallDriver, Typed
  <2>3. quiet'[w] \in BOOLEAN
    BY <1>1, <1>9, <1>d DEF CallDriver, Change, Typed
  <2>4. pack'[w] \in [{"key", "mask", "params"} -> {"null", "live", "freed", "freed_twice"}]
    BY <1>1, <2>1 DEF Typed, Cleared
  <2>5. Typed(w)'
    BY <1>1, <2>1, <2>2, <2>3, <2>4 DEF Typed
  <2>6. ThereStill(w)' /\ AtPipe(w)' /\ AtRule(w)' /\ AtTable(w)'
    BY <1>1, <2>1 DEF Ready, ThereStill, AtPipe, AtRule, AtTable, Walking, Passing
  <2> QED
    BY <2>5, <2>6 DEF Ready
<1>10. CASE RulesDone(w) \/ TablesDone(w) \/ InfoDone(w)
  <2>1. /\ pc[w] \in {"rule", "clear", "info"} /\ pc'[w] = "respond"
        /\ UNCHANGED <<req, todo, at, pack, quiet, answers, cursor, dump, cut>>
    BY <1>10, <1>d DEF RulesDone, TablesDone, InfoDone, walkVars
  <2>2. Typed(w)'
    BY <1>1, <2>1 DEF Typed
  <2>3. ThereStill(w)' /\ AtPipe(w)' /\ AtRule(w)' /\ AtTable(w)'
    BY <1>1, <2>1 DEF Ready, ThereStill, AtPipe, AtRule, AtTable, Walking, Passing
  <2> QED
    BY <2>2, <2>3 DEF Ready
<1>11. CASE ResetTable(w)
  <2>1. /\ pc[w] = "clear" /\ pc'[w] \in {"clear", "respond"}
        /\ UNCHANGED <<req, todo, pack, answers, cursor, dump, cut>>
    BY <1>11, <1>d DEF ResetTable, walkVars
  <2>2. at'[w] \in Nat \ {0}
    <3>1. at'[w] = at[w] \/ at'[w] = at[w] + 1
      BY <1>11, <1>d DEF ResetTable
    <3> QED
      BY <1>1, <3>1 DEF Typed
  <2>3. quiet'[w] \in BOOLEAN
    BY <1>1, <1>11, <1>d DEF ResetTable, Change, Typed
  <2>4. Typed(w)'
    BY <1>1, <2>1, <2>2, <2>3 DEF Typed
  <2>5. ThereStill(w)' /\ AtPipe(w)' /\ AtRule(w)' /\ AtTable(w)'
    BY <1>1, <2>1 DEF Ready, ThereStill, AtPipe, AtRule, AtTable, Walking, Passing
  <2> QED
    BY <2>4, <2>5 DEF Ready
<1>12. CASE BeginDump(w)
  <2>1. /\ pc[w] = "info" /\ at[w] <= Len(TableList)
        /\ UNCHANGED <<req, todo, pack, quiet, answers, cursor, cut>>
    BY <1>12 DEF BeginDump
  <2>2. \/ pc'[w] = "walk" /\ dump'[w] = Begun(dump[w], OfInfo(w)) /\ at'[w] = at[w]
        \/ pc'[w] = "info" /\ dump'[w] = dump[w] /\ at'[w] = at[w] + 1
    BY <1>12, <1>d, <2>1 DEF BeginDump
  <2>3. at[w] \in 1 .. Len(TableList)
    BY <1>1, <2>1, TableListAssumption, LenProperties DEF Typed
  <2>4. OfInfo(w) \in DOMAIN TableInfo
    BY <2>3, TableListAssumption, LenProperties DEF OfInfo
  <2>5. \A t : /\ DOMAIN Begun(dump[w], t) = DOMAIN dump[w] \cup {t}
               /\ \A v \in DOMAIN Begun(dump[w], t) :
                    Begun(dump[w], t)[v] = IF v = t THEN <<>> ELSE dump[w][v]
    BY DEF Begun
  <2>6. IsList(<<>>)
    BY EmptyList
  <2>7. /\ DOMAIN dump'[w] \subseteq DOMAIN TableInfo
        /\ \A t \in DOMAIN dump'[w] : IsList(dump'[w][t])
    <3>1. \A t \in DOMAIN dump[w] : IsList(dump[w][t]) /\ t \in DOMAIN TableInfo
      BY <1>1 DEF Typed
    <3>2. CASE dump'[w] = dump[w]
      BY <3>1, <3>2
    <3>3. CASE dump'[w] = Begun(dump[w], OfInfo(w))
      <4>1. DOMAIN dump'[w] = DOMAIN dump[w] \cup {OfInfo(w)}
        BY <2>5, <3>3
      <4>2. \A t \in DOMAIN dump'[w] :
              dump'[w][t] = IF t = OfInfo(w) THEN <<>> ELSE dump[w][t]
        BY <2>5, <3>3
      <4> QED
        BY <2>4, <2>6, <3>1, <4>1, <4>2
    <3> QED
      BY <2>2, <3>2, <3>3
  <2>8. at'[w] \in Nat \ {0} /\ pc'[w] \in {"walk", "info"}
    BY <1>1, <2>2 DEF Typed
  <2>9. Typed(w)'
    BY <1>1, <2>1, <2>7, <2>8 DEF Typed
  <2>10. ThereStill(w)' /\ AtPipe(w)' /\ AtRule(w)' /\ AtTable(w)'
    BY <1>1, <2>1, <2>2 DEF Ready, ThereStill, AtPipe, AtRule, AtTable, Walking, Passing
  <2> QED
    BY <2>9, <2>10 DEF Ready
<1>13. CASE GetByResponse(w)
  <2>1. /\ pc[w] = "walk" /\ UNCHANGED <<req, todo, pack, quiet, answers, dump>>
    BY <1>13 DEF GetByResponse
  <2>2. \/ pc'[w] = "info" /\ at'[w] = at[w] + 1 /\ cursor'[w] = Start
        \/ /\ pc'[w] \in {"walk", "lookup"} /\ at'[w] = at[w]
           /\ \/ cursor'[w] = [action |-> cursor[w].action + 1, position |-> 0]
              \/ cursor'[w] = [cursor[w] EXCEPT !.position = @ + 1]
    BY <1>13, <1>d, <2>1 DEF GetByResponse, NextEntry, CutDump, EndDump
  <2>3. cursor'[w] \in [action : Nat \ {0}, position : Nat]
    <3>1. cursor[w] \in [action : Nat \ {0}, position : Nat]
      BY <1>1 DEF Typed
    <3> QED
      BY <2>2, <3>1 DEF Start
  <2>4. at'[w] \in Nat \ {0} /\ pc'[w] \in {"info", "walk", "lookup"}
    BY <1>1, <2>2 DEF Typed
  <2>5. cut'[w] \subseteq DOMAIN TableInfo
    <3>1. cut'[w] = cut[w] \/ cut'[w] = cut[w] \cup {OfInfo(w)}
      BY <1>13, <1>d DEF GetByResponse, CutDump
    <3> QED
      BY <1>1, <2>1, <3>1, WalkedTable DEF Typed, Walking
  <2>6. Typed(w)'
    BY <1>1, <2>1, <2>3, <2>4, <2>5 DEF Typed
  <2>7. ThereStill(w)' /\ AtPipe(w)' /\ AtRule(w)' /\ AtTable(w)'
    BY <1>1, <2>1, <2>2 DEF Ready, ThereStill, AtPipe, AtRule, AtTable, Walking, Passing
  <2> QED
    BY <2>6, <2>7 DEF Ready
<1>14. CASE GetByKey(w)
  <2>1. /\ pc[w] = "lookup" /\ UNCHANGED <<req, todo, pack, quiet, answers>>
    BY <1>14 DEF GetByKey
  <2>2. \/ /\ pc'[w] = "walk" /\ at'[w] = at[w] /\ cursor'[w] = cursor[w]
           /\ \E x : dump'[w] = [dump[w] EXCEPT ![OfInfo(w)] = Append(@, x)]
        \/ pc'[w] = "info" /\ at'[w] = at[w] + 1 /\ cursor'[w] = Start /\ dump'[w] = dump[w]
    BY <1>14, <1>d, <2>1 DEF GetByKey, CutDump, EndDump
  <2>3. cursor'[w] \in [action : Nat \ {0}, position : Nat]
    BY <1>1, <2>2 DEF Typed, Start
  <2>4. at'[w] \in Nat \ {0} /\ pc'[w] \in {"info", "walk"}
    BY <1>1, <2>2 DEF Typed
  <2>5. /\ DOMAIN dump'[w] \subseteq DOMAIN TableInfo
        /\ \A t \in DOMAIN dump'[w] : IsList(dump'[w][t])
    <3>1. CASE dump'[w] = dump[w]
      BY <1>1, <3>1 DEF Typed
    <3>2. ASSUME NEW x, dump'[w] = [dump[w] EXCEPT ![OfInfo(w)] = Append(@, x)]
          PROVE  /\ DOMAIN dump'[w] \subseteq DOMAIN TableInfo
                 /\ \A t \in DOMAIN dump'[w] : IsList(dump'[w][t])
      <4>1. DOMAIN dump'[w] = DOMAIN dump[w]
        BY <3>2
      <4>2. \A t \in DOMAIN dump[w] :
              dump'[w][t] = IF t = OfInfo(w) THEN Append(dump[w][t], x) ELSE dump[w][t]
        BY <3>2
      <4>3. \A t \in DOMAIN dump[w] : IsList(dump[w][t]) /\ IsList(Append(dump[w][t], x))
        BY <1>1, ListAppend DEF Typed
      <4>4. DOMAIN dump[w] \subseteq DOMAIN TableInfo
        BY <1>1 DEF Typed
      <4> QED
        BY <4>1, <4>2, <4>3, <4>4
    <3> QED
      BY <2>2, <3>1, <3>2
  <2>6. cut'[w] \subseteq DOMAIN TableInfo
    <3>1. cut'[w] = cut[w] \/ cut'[w] = cut[w] \cup {OfInfo(w)}
      BY <1>14, <1>d DEF GetByKey, CutDump
    <3> QED
      BY <1>1, <2>1, <3>1, WalkedTable DEF Typed, Walking
  <2>7. Typed(w)'
    BY <1>1, <2>1, <2>3, <2>4, <2>5, <2>6 DEF Typed
  <2>8. ThereStill(w)' /\ AtPipe(w)' /\ AtRule(w)' /\ AtTable(w)'
    BY <1>1, <2>1, <2>2 DEF Ready, ThereStill, AtPipe, AtRule, AtTable, Walking, Passing
  <2> QED
    BY <2>7, <2>8 DEF Ready
<1> QED
  BY <1>2, <1>3, <1>4, <1>5, <1>6, <1>7, <1>8, <1>9, <1>10, <1>11, <1>12, <1>13, <1>14
     DEF Step

LEMMA TypeInit == Init => TypeInv
<1> SUFFICES ASSUME Init PROVE TypeInv
  OBVIOUS
<1>1. Domains
  BY DEF Init, Domains
<1>2. TablesTyped
  BY EmptyTyped DEF Init, TablesTyped
<1>3. ASSUME NEW w \in Worker PROVE Typed(w) /\ Ready(w)
  <2>1. /\ pc[w] = "idle" /\ todo[w] = <<>> /\ at[w] = 1 /\ quiet[w] = TRUE
        /\ answers[w] = <<>> /\ pack[w] = NoPack /\ cursor[w] = Start /\ dump[w] = Empty
        /\ cut[w] = {}
    BY DEF Init
  <2>2. <<>> \in Seq(Places) /\ IsList(<<>>) /\ Len(<<>>) = 0 /\ DOMAIN Empty = {}
    BY EmptyList DEF Empty
  <2>3. Start \in [action : Nat \ {0}, position : Nat]
    BY DEF Start
  <2>4. NoPack \in [{"key", "mask", "params"} -> {"null", "live", "freed", "freed_twice"}]
    BY DEF NoPack
  <2>5. Typed(w)
    <3>1. DOMAIN dump[w] = {}
      BY <2>1, <2>2
    <3>2. /\ cut[w] \subseteq DOMAIN TableInfo /\ DOMAIN dump[w] \subseteq DOMAIN TableInfo
          /\ \A t \in DOMAIN dump[w] : IsList(dump[w][t])
      BY <2>1, <3>1
    <3>3. todo[w] \in Seq(Places) /\ IsList(answers[w])
          /\ cursor[w] \in [action : Nat \ {0}, position : Nat]
          /\ pack[w] \in [{"key", "mask", "params"} -> {"null", "live", "freed", "freed_twice"}]
      BY <2>1, <2>2, <2>3, <2>4
    <3>4. /\ pc[w] \in {"idle", "loop", "rule", "pack", "driver", "clear", "info", "walk",
                       "lookup", "respond"}
          /\ pc[w] # "idle" => req[w] \in Request[w]
          /\ at[w] \in Nat \ {0}
      BY <2>1
    <3>5. quiet[w] \in BOOLEAN
      BY <2>1, Zenon
    <3> QED
      BY <3>2, <3>3, <3>4, <3>5 DEF Typed
  <2>6. ThereStill(w)
    BY <2>1, <2>2 DEF ThereStill
  <2>7. AtPipe(w) /\ AtRule(w) /\ AtTable(w)
    BY <2>1 DEF AtPipe, AtRule, AtTable, Walking, Passing
  <2> QED
    BY <2>5, <2>6, <2>7 DEF Ready
<1>4. sent \in Nat
  BY DEF Init
<1> QED
  BY <1>1, <1>2, <1>3, <1>4, TypeSplit DEF TypeInv

LEMMA TypeNext == TypeInv /\ [Next]_vars => TypeInv'
<1> SUFFICES ASSUME TypeInv, [Next]_vars PROVE TypeInv'
  OBVIOUS
<1>1. CASE UNCHANGED vars
  <2>1. TypeOK'
    <3>1. Domains /\ TablesTyped /\ sent \in Nat /\ \A w \in Worker : Typed(w)
      BY TypeSplit DEF TypeInv
    <3>2. Domains'
      BY <1>1, <3>1 DEF Domains, vars, walkVars
    <3>3. TablesTyped'
      BY <1>1, <3>1 DEF TablesTyped, vars
    <3>4. \A w \in Worker : Typed(w)'
      BY <1>1, <3>1 DEF Typed, vars, walkVars
    <3>5. sent' \in Nat
      BY <1>1, <3>1 DEF vars
    <3> QED
      BY <3>2, <3>3, <3>4, <3>5 DEF TypeOK, Domains, TablesTyped
  <2>2. \A w \in Worker : Ready(w)'
    BY <1>1 DEF TypeInv, Ready, ThereStill, AtPipe, AtRule, AtTable, Walking, Passing, Rule,
                vars, walkVars
  <2> QED
    BY <2>1, <2>2 DEF TypeInv
<1>2. CASE Next
  <2>1. PICK w \in Worker : Step(w)
    BY <1>2, NextSteps
  <2>2. Domains'
    BY <2>1, DomainsStay, TypeSplit DEF TypeInv
  <2>3. TablesTyped'
    BY <2>1, TablesStay
  <2>4. \A u \in Worker : Typed(u)' /\ Ready(u)'
    <3>1. Typed(w)' /\ Ready(w)'
      BY <2>1, TakesTyped
    <3>2. \A u \in Worker : u # w => Typed(u)' /\ Ready(u)'
      BY <2>1, OthersTyped
    <3> QED
      BY <3>1, <3>2
  <2>5. sent' \in Nat
    <3>1. sent \in Nat
      BY DEF TypeInv, TypeOK
    <3>2. sent' = sent \/ sent' = sent + 1
      BY <2>1 DEF Step, Begin, Refuse, EnterPipeline, WriteResponse, Finish, LoadRule,
                  PackRule, CallDriver, RulesDone, ResetTable, TablesDone, BeginDump,
                  GetByResponse, GetByKey, InfoDone
    <3> QED
      BY <3>1, <3>2
  <2>6. TypeOK'
    BY <2>2, <2>3, <2>4, <2>5 DEF TypeOK, Domains, TablesTyped
  <2> QED
    BY <2>4, <2>6 DEF TypeInv
<1> QED
  BY <1>1, <1>2

LEMMA TypeInvariant == Spec => []TypeInv
BY TypeInit, TypeNext, PTL DEF Spec

(***************************************************************************)
(* Types are kept: above all, an entry of a table always has an action of  *)
(* its table, and a table stays finite, whatever the workers do to it at   *)
(* the same time (table.cpp:205-560, snp4_api.c).                          *)
(***************************************************************************)
THEOREM TypeCorrect == Spec => []TypeOK
<1>1. TypeInv => TypeOK
  BY DEF TypeInv
<1> QED
  BY <1>1, TypeInvariant, PTL

-----------------------------------------------------------------------------
(* The arrays of a pack *)

\* No array is there but while the driver is called, and none is a freed one.
PackSafe(w) ==
  /\ pack[w] \in [{"key", "mask", "params"} -> {"null", "live"}]
  /\ pc[w] # "driver" => \A a \in {"key", "mask", "params"} : pack[w][a] = "null"

PackInv == \A w \in Worker : PackSafe(w)

\* What is clear is not live.
LEMMA ClearedNull ==
  ASSUME NEW p \in [{"key", "mask", "params"} -> {"null", "live"}]
  PROVE  /\ Cleared(p) \in [{"key", "mask", "params"} -> {"null", "live"}]
         /\ \A a \in {"key", "mask", "params"} : Cleared(p)[a] = "null"
<1>1. \A a \in {"key", "mask", "params"} : Freed(p[a]) # "freed_twice"
  BY DEF Freed
<1>2. DOMAIN p = {"key", "mask", "params"}
  OBVIOUS
<1> QED
  BY <1>1, <1>2 DEF Cleared

\* Matches that are refused leave nothing, but for those of a whole that is too big.
LEMMA RefusedMatches ==
  ASSUME NEW op, NEW rule, IsRule(rule), LoadStatus(op, rule) = "OK",
         op = "delete", PackStatus(op, rule) # "OK"
  PROVE  Arrays(op, PackStatus(op, rule)) = NoPack
<1> DEFINE info == TableInfo[rule.table]
           v == [i \in DOMAIN rule.matches |-> FieldStatus(rule.matches[i], info.fields[i])]
           s == PackStatus(op, rule)
<1>1. s = MatchesStatus(rule.matches, info.fields, info.key_bits)
  BY DEF PackStatus
<1>2. s \notin TooBig
  BY NeverTooBig
<1>3. s # "OK" => s = FirstFailure(v)
  BY <1>1, <1>2 DEF MatchesStatus, TooBig
<1>4. DOMAIN v \subseteq Nat
  BY DEF IsRule, IsList
<1>5. FirstFailure(v) # "OK" => \E i \in DOMAIN v : FirstFailure(v) = v[i]
  <2> HIDE DEF v
  <2> QED
    BY <1>4, FirstOf
<1>6. \A m, field : FieldStatus(m, field) # "PARAM_TOO_BIG"
  BY DEF FieldStatus
<1>7. s # "PARAM_TOO_BIG"
  BY <1>3, <1>5, <1>6
<1> HIDE DEF s
<1>8. s # "OK"
  BY DEF s
<1>9. Arrays(op, s) = NoPack
  BY <1>2, <1>7, <1>8 DEF Arrays, TooBig
<1> QED
  BY <1>9 DEF s

LEMMA PackNext ==
  ASSUME TypeInv, PackInv, NEW w \in Worker, Step(w)
  PROVE  PackInv'
<1>1. Domains /\ Typed(w) /\ Ready(w)
  BY TypeSplit DEF TypeInv
<1>2. \A u \in Worker : u # w => PackSafe(u)'
  BY <1>1, OthersStay DEF PackInv, PackSafe, Same
<1>3. PackSafe(w)
  BY DEF PackInv
<1>4. PackSafe(w)'
  <2>1. CASE PackRule(w)
    <3> DEFINE op == req[w].op
               status == PackStatus(op, Rule(w))
               arrays == Arrays(op, status)
    <3>1. /\ pc[w] = "pack"
          /\ pc'[w] = IF status = "OK" THEN "driver" ELSE "respond"
          /\ pack'[w] = IF status = "OK" \/ op = "delete" THEN arrays ELSE Cleared(arrays)
      BY <1>1, <2>1 DEF PackRule, Domains
    <3>2. req[w] \in Request[w] /\ at[w] \in Nat \ {0}
      BY <1>1, <3>1 DEF Typed
    <3>3. at[w] <= Len(req[w].rules) /\ LoadStatus(op, Rule(w)) = "OK"
      BY <1>1, <3>1 DEF Ready, AtRule
    <3>4. IsList(req[w].rules) /\ \A i \in 1 .. Len(req[w].rules) : IsRule(req[w].rules[i])
      BY <3>2, RequestAssumption
    <3>5. IsRule(Rule(w))
      BY <3>2, <3>3, <3>4 DEF Rule, IsList
    <3>6. status \notin TooBig
      BY <3>3, <3>5, NeverTooBig
    <3>7. arrays \in [{"key", "mask", "params"} -> {"null", "live"}]
      BY <3>6, ArraysAre
    <3>8. op = "delete" /\ status # "OK" => arrays = NoPack
      BY <3>3, <3>5, RefusedMatches
    <3> HIDE DEF status, arrays
    <3>9. /\ Cleared(arrays) \in [{"key", "mask", "params"} -> {"null", "live"}]
          /\ \A a \in {"key", "mask", "params"} : Cleared(arrays)[a] = "null"
      BY <3>7, ClearedNull
    <3>10. \A a \in {"key", "mask", "params"} : NoPack[a] = "null"
      BY DEF NoPack
    <3>11. pack'[w] \in [{"key", "mask", "params"} -> {"null", "live"}]
      BY <3>1, <3>7, <3>9
    <3>12. status # "OK" => \A a \in {"key", "mask", "params"} : pack'[w][a] = "null"
      BY <3>1, <3>8, <3>9, <3>10
    <3> QED
      BY <3>1, <3>11, <3>12 DEF PackSafe
  <2>2. CASE CallDriver(w)
    <3>1. pack'[w] = Cleared(pack[w])
      BY <1>1, <2>2 DEF CallDriver, Domains
    <3>2. pack[w] \in [{"key", "mask", "params"} -> {"null", "live"}]
      BY <1>3 DEF PackSafe
    <3> QED
      BY <3>1, <3>2, ClearedNull DEF PackSafe
  <2>3. CASE ~ PackRule(w) /\ ~ CallDriver(w)
    <3>1. pack' = pack /\ pc[w] # "driver"
      BY <2>3 DEF Step, Begin, Refuse, EnterPipeline, WriteResponse, Finish, LoadRule,
                  RulesDone, ResetTable, TablesDone, BeginDump, GetByResponse, GetByKey,
                  InfoDone
    <3> QED
      BY <1>3, <3>1 DEF PackSafe
  <2> QED
    BY <2>1, <2>2, <2>3
<1> QED
  BY <1>2, <1>4 DEF PackInv

(***************************************************************************)
(* No array of a pack is freed twice and none outlives its rule            *)
(* (snp4_table.c:277-279, 370-371, 536-538).  It takes that fields that    *)
(* fit make a whole that fits, for any number of fields of any width.      *)
(***************************************************************************)
THEOREM FreedOnce == Spec => []ArraysFreedOnce
<1>1. Init => PackInv
  <2>1. NoPack \in [{"key", "mask", "params"} -> {"null", "live"}]
        /\ \A a \in {"key", "mask", "params"} : NoPack[a] = "null"
    BY DEF NoPack
  <2> QED
    BY <2>1 DEF Init, PackInv, PackSafe
<1>2. TypeInv /\ PackInv /\ [Next]_vars => PackInv'
  <2> SUFFICES ASSUME TypeInv, PackInv, [Next]_vars PROVE PackInv'
    OBVIOUS
  <2>1. CASE UNCHANGED vars
    BY <2>1 DEF PackInv, PackSafe, vars
  <2>2. CASE Next
    BY <2>2, NextSteps, PackNext
  <2> QED
    BY <2>1, <2>2
<1>3. PackInv => ArraysFreedOnce
  <2> SUFFICES ASSUME PackInv, NEW w \in Worker, NEW a \in DOMAIN pack[w]
               PROVE  pack[w][a] # "freed_twice" /\ (pack[w][a] = "live" => pc[w] = "driver")
    BY DEF ArraysFreedOnce
  <2>1. PackSafe(w)
    BY DEF PackInv
  <2>2. pack[w] \in [{"key", "mask", "params"} -> {"null", "live"}]
    BY <2>1 DEF PackSafe
  <2>3. a \in {"key", "mask", "params"} /\ pack[w][a] \in {"null", "live"}
    BY <2>2
  <2> QED
    BY <2>1, <2>3 DEF PackSafe
<1> QED
  BY <1>1, <1>2, <1>3, TypeInvariant, PTL DEF Spec

-----------------------------------------------------------------------------
(* One answer for each target *)

\* The answers a are to the first targets of t, and those of q are still to come.
Progress(a, q, t) ==
  /\ Len(a) + Len(q) = Len(t)
  /\ \A i \in 1 .. Len(a) : /\ a[i].dev = t[i].dev /\ a[i].pipe = t[i].pipe
                            /\ t[i].code # "OK" => a[i].code = t[i].code
  /\ \A i \in 1 .. Len(q) : q[i] = t[Len(a) + i]

AnswerInv ==
  \A w \in Worker : pc[w] # "idle" => Progress(answers[w], todo[w], Targets(req[w]))

LEMMA OneMoreAnswer ==
  ASSUME NEW a, IsList(a), NEW q \in Seq(Places), q # <<>>, NEW t, Len(t) \in Nat,
         Progress(a, q, t), NEW code, q[1].code # "OK" => code = q[1].code
  PROVE  Progress(Append(a, [q[1] EXCEPT !.code = code]), Tail(q), t)
<1> DEFINE x == [q[1] EXCEPT !.code = code]
           b == Append(a, x)
           rest == Tail(q)
           n == Len(a)
<1>1. q \in Seq(Places) /\ Len(q) \in Nat /\ Len(q) # 0
  BY EmptySeq, LenProperties
<1>2. Len(rest) = Len(q) - 1
  BY <1>1, HeadTailProperties
<1>3. \A i \in 1 .. Len(rest) : rest[i] = q[i + 1]
  BY <1>1, HeadTailProperties
<1>4. q[1] \in Places
  BY <1>1, LenProperties
<1>5. x.dev = q[1].dev /\ x.pipe = q[1].pipe /\ x.code = code
  BY <1>4 DEF Places
<1> HIDE DEF x
<1>6. n \in Nat /\ Len(b) = n + 1 /\ b[n + 1] = x /\ \A i \in 1 .. n : b[i] = a[i]
  BY ListAppend
<1> HIDE DEF b, rest, n
<1>7. /\ n + Len(q) = Len(t)
      /\ \A i \in 1 .. n : /\ a[i].dev = t[i].dev /\ a[i].pipe = t[i].pipe
                           /\ t[i].code # "OK" => a[i].code = t[i].code
      /\ \A i \in 1 .. Len(q) : q[i] = t[n + i]
  BY DEF Progress, n
<1>8. Len(b) + Len(rest) = Len(t)
  BY <1>1, <1>2, <1>6, <1>7
<1>9. q[1] = t[n + 1]
  <2>1. 1 \in 1 .. Len(q)
    BY <1>1
  <2> QED
    BY <1>7, <2>1
<1>10. ASSUME NEW i \in 1 .. Len(b)
       PROVE  /\ b[i].dev = t[i].dev /\ b[i].pipe = t[i].pipe
              /\ t[i].code # "OK" => b[i].code = t[i].code
  <2>1. CASE i \in 1 .. n
    <3>1. b[i] = a[i]
      BY <1>6, <2>1
    <3> QED
      BY <1>7, <2>1, <3>1
  <2>2. CASE i = n + 1
    <3>1. b[i] = x /\ t[i] = q[1]
      BY <1>6, <1>9, <2>2
    <3> QED
      BY <1>5, <3>1
  <2>3. i \in 1 .. n \/ i = n + 1
    BY <1>6
  <2> QED
    BY <2>1, <2>2, <2>3
<1>11. ASSUME NEW i \in 1 .. Len(rest) PROVE rest[i] = t[Len(b) + i]
  <2>1. i + 1 \in 1 .. Len(q) /\ n + (i + 1) = Len(b) + i
    BY <1>1, <1>2, <1>6
  <2>2. rest[i] = q[i + 1] /\ q[i + 1] = t[n + (i + 1)]
    BY <1>3, <1>7, <2>1
  <2> QED
    BY <2>1, <2>2
<1>12. Progress(b, rest, t)
  BY <1>8, <1>10, <1>11 DEF Progress
<1> QED
  BY <1>12 DEF b, x, rest

LEMMA RespondAnswers ==
  ASSUME TypeInv, NEW w \in Worker, todo[w] # <<>>,
         Progress(answers[w], todo[w], Targets(req[w])), pc[w] # "idle",
         NEW code, Head(todo[w]).code # "OK" => code = Head(todo[w]).code,
         Respond(w, code)
  PROVE  Progress(answers'[w], todo'[w], Targets(req[w]))
<1>1. Domains /\ Typed(w) /\ Ready(w)
  BY TypeSplit DEF TypeInv
<1>2. /\ answers'[w] = Append(answers[w], [Head(todo[w]) EXCEPT !.code = code])
      /\ todo'[w] = Tail(todo[w])
  BY <1>1 DEF Respond, Domains
<1>3. Head(todo[w]) = todo[w][1] /\ todo[w] \in Seq(Places) /\ IsList(answers[w])
  BY <1>1, RestTyped DEF Typed
<1>4. Len(Targets(req[w])) \in Nat
  <2>1. req[w] \in Request[w]
    BY <1>1 DEF Typed
  <2>2. req[w].dev \in Int /\ req[w].pipe \in Int
    BY <2>1, RequestAssumption
  <2> QED
    BY <2>2, TargetsTyped, LenProperties
<1> DEFINE a == answers[w]
           q == todo[w]
           t == Targets(req[w])
<1>5. q \in Seq(Places) /\ q # <<>> /\ IsList(a) /\ Len(t) \in Nat /\ Progress(a, q, t)
  BY <1>3, <1>4
<1>6. q[1].code # "OK" => code = q[1].code
  BY <1>3
<1>7. answers'[w] = Append(a, [q[1] EXCEPT !.code = code]) /\ todo'[w] = Tail(q)
  BY <1>2, <1>3
<1> HIDE DEF a, q, t
<1>8. Progress(Append(a, [q[1] EXCEPT !.code = code]), Tail(q), t)
  BY <1>5, <1>6, OneMoreAnswer
<1>9. Progress(answers'[w], todo'[w], t)
  BY <1>7, <1>8
<1> QED
  BY <1>9 DEF t

LEMMA AnswerNext ==
  ASSUME TypeInv, AnswerInv, NEW w \in Worker, Step(w)
  PROVE  AnswerInv'
<1>1. Domains /\ Typed(w) /\ Ready(w)
  BY TypeSplit DEF TypeInv
<1>2. \A u \in Worker : u # w /\ pc'[u] # "idle" =>
        Progress(answers'[u], todo'[u], Targets(req'[u]))
  BY <1>1, OthersStay DEF AnswerInv, Same
<1>3. pc[w] # "idle" => Progress(answers[w], todo[w], Targets(req[w]))
  BY DEF AnswerInv
<1>4. pc'[w] # "idle" => Progress(answers'[w], todo'[w], Targets(req'[w]))
  <2>1. CASE Begin(w)
    <3>1. PICK r \in Request[w] : req'[w] = r /\ todo'[w] = Targets(r) /\ answers'[w] = <<>>
      BY <1>1, <2>1 DEF Begin, Domains
    <3>2. r.dev \in Int /\ r.pipe \in Int
      BY RequestAssumption
    <3>3. Len(Targets(r)) \in Nat
      BY <3>2, TargetsTyped, LenProperties
    <3>4. Len(<<>>) = 0
      BY EmptyList
    <3>5. Progress(<<>>, Targets(r), Targets(r))
      BY <3>3, <3>4 DEF Progress
    <3> QED
      BY <3>1, <3>5
  <2>2. CASE Refuse(w)
    <3>1. pc[w] = "loop" /\ todo[w] # <<>> /\ Respond(w, Head(todo[w]).code) /\ req' = req
      BY <2>2 DEF Refuse
    <3>2. Progress(answers'[w], todo'[w], Targets(req[w]))
      BY <1>3, <3>1, RespondAnswers
    <3> QED
      BY <3>1, <3>2
  <2>3. CASE WriteResponse(w)
    <3>1. pc[w] = "respond" /\ Respond(w, err[w]) /\ req' = req
      BY <2>3 DEF WriteResponse
    <3>2. Passing(w)
      BY <3>1 DEF Passing
    <3>3. todo[w] # <<>> /\ Head(todo[w]).code = "OK"
      BY <1>1, <3>2 DEF Ready, AtPipe
    <3>4. Progress(answers'[w], todo'[w], Targets(req[w]))
      BY <1>3, <3>1, <3>3, RespondAnswers
    <3> QED
      BY <3>1, <3>4
  <2>4. CASE Finish(w)
    BY <1>1, <2>4 DEF Finish, Domains
  <2>5. CASE ~ Begin(w) /\ ~ Refuse(w) /\ ~ WriteResponse(w) /\ ~ Finish(w)
    <3>1. pc[w] # "idle" /\ UNCHANGED <<req, todo, answers>>
      BY <2>5 DEF Step, EnterPipeline, LoadRule, PackRule, CallDriver, RulesDone, ResetTable,
                  TablesDone, BeginDump, GetByResponse, GetByKey, InfoDone
    <3> QED
      BY <1>3, <3>1
  <2> QED
    BY <2>1, <2>2, <2>3, <2>4, <2>5
<1> QED
  BY <1>2, <1>4 DEF AnswerInv

(***************************************************************************)
(* When a request ends, each pipeline that it names has had one response,  *)
(* in the order of devices and pipelines, after errors as well, and each   *)
(* device without the pipeline has had one too (table.cpp:287-343,         *)
(* 535-539), for any number of devices and pipelines.                      *)
(***************************************************************************)
THEOREM AnswersAreComplete == Spec => []OneAnswerEach
<1>1. Init => AnswerInv
  BY DEF Init, AnswerInv
<1>2. TypeInv /\ AnswerInv /\ [Next]_vars => AnswerInv'
  <2> SUFFICES ASSUME TypeInv, AnswerInv, [Next]_vars PROVE AnswerInv'
    OBVIOUS
  <2>1. CASE UNCHANGED vars
    BY <2>1 DEF AnswerInv, vars
  <2>2. CASE Next
    BY <2>2, NextSteps, AnswerNext
  <2> QED
    BY <2>1, <2>2
<1>3. TypeInv /\ AnswerInv => OneAnswerEach
  <2> SUFFICES ASSUME TypeInv, AnswerInv, NEW w \in Worker, pc[w] = "loop", todo[w] = <<>>
               PROVE  LET given == {i \in DOMAIN answers[w] : answers[w][i].pipe # -1}
                          place(i) == <<answers[w][i].dev, answers[w][i].pipe>>
                      IN  /\ {place(i) : i \in given} = Store!Named(req[w])
                          /\ \A i, j \in given : i < j =>
                               \/ place(i)[1] < place(j)[1]
                               \/ place(i)[1] = place(j)[1] /\ place(i)[2] < place(j)[2]
                          /\ \A d \in 0 .. Len(NPipelines) - 1 :
                               (req[w].dev < 0 \/ req[w].dev = d)
                                 /\ req[w].pipe >= NPipelines[d + 1] =>
                                 \E i \in DOMAIN answers[w] :
                                   answers[w][i].dev = d
                                   /\ answers[w][i].code = "INVALID_PIPELINE_ID"
    BY DEF OneAnswerEach
  <2> DEFINE s == answers[w]
             r == req[w]
  <2>1. Typed(w)
    BY TypeSplit DEF TypeInv
  <2>2. r \in Request[w] /\ IsList(s)
    BY <2>1 DEF Typed
  <2>3. r.dev \in Int /\ r.pipe \in Int
    BY <2>2, RequestAssumption
  <2>4. Progress(s, <<>>, Targets(r))
    BY DEF AnswerInv
  <2> HIDE DEF s, r
  <2>5. Len(s) \in Nat /\ DOMAIN s = 1 .. Len(s) /\ Len(<<>>) = 0
    BY <2>2, EmptyList DEF IsList
  <2>6. Answers(s, Targets(r))
    BY <2>4, <2>5 DEF Progress, Answers
  <2>7. {Place(s, i) : i \in Given(s)} = Store!Named(r)
    BY <2>3, <2>6, PlacesAnswered
  <2>8. \A i, j \in Given(s) : i < j =>
          \/ Place(s, i)[1] < Place(s, j)[1]
          \/ Place(s, i)[1] = Place(s, j)[1] /\ Place(s, i)[2] < Place(s, j)[2]
    BY <2>3, <2>6, InOrderAnswered
  <2>9. \A d \in 0 .. Len(NPipelines) - 1 :
          (r.dev < 0 \/ r.dev = d) /\ r.pipe >= NPipelines[d + 1] =>
            \E i \in DOMAIN s : s[i].dev = d /\ s[i].code = "INVALID_PIPELINE_ID"
    BY <2>3, <2>6, MissesAnswered DEF Devices
  <2> QED
    BY <2>7, <2>8, <2>9 DEF Given, Place, s, r
<1> QED
  BY <1>1, <1>2, <1>3, TypeInvariant, PTL DEF Spec


-----------------------------------------------------------------------------
(* The walk over a table *)

\* The lines s tell of entries of the table c, and of none twice.
Lines(s, c) ==
  /\ IsList(s)
  /\ \A i \in 1 .. Len(s) : s[i] = <<s[i][1], c[s[i][1]]>> /\ s[i][1] \in DOMAIN c
  /\ \A i, j \in 1 .. Len(s) : s[i][1] = s[j][1] => i = j

Keys(s) == {s[i][1] : i \in 1 .. Len(s)}

\* The entries of the actions before this one, and the first n of its own.
Met(c, acts, action, n) ==
  {k \in DOMAIN c : \/ \E a \in 1 .. action - 1 : c[k][1] = acts[a]
                    \/ \E j \in 1 .. n : k = Entries(c, acts[action])[j]}

\* The lines s are those of the entries that the walk has met, when it is at the nth
\* entry of action a of the table c, and has found f if it is to look it up.
Reached(c, acts, s, a, n, code, f) ==
  /\ Lines(s, c)
  /\ Keys(s) = Met(c, acts, a, IF code = "lookup" THEN n - 1 ELSE n)
  /\ a <= Len(acts) => n <= Len(Entries(c, acts[a]))
  /\ code = "lookup" => /\ a <= Len(acts) /\ n # 0
                        /\ f = Entries(c, acts[a])[n]

AtEntry(w) ==
  Reached(Content(w), Actions(OfInfo(w)), dump[w][OfInfo(w)], cursor[w].action,
          cursor[w].position, pc[w], found[w])

Dumping(w) == pc[w] \in {"info", "walk", "lookup", "respond"}

\* The lines s show a table c: all of it, unless an error ended the dump.
Shows(s, c, short) == Lines(s, c) /\ (short \/ Keys(s) = DOMAIN c)

\* Each table that the walk is through with is shown; t is where it is.
AllShown(d, content, short, walking, t) ==
  \A u \in DOMAIN d : (walking /\ u = t) \/ Shows(d[u], content[u], u \in short)

DumpSafe(w) ==
  /\ ~ Dumping(w) => DOMAIN dump[w] = {}
  /\ ~ Walking(w) => cursor[w] = Start
  /\ Walking(w) => OfInfo(w) \in DOMAIN dump[w]
  /\ quiet[w] /\ Dumping(w) =>
       AllShown(dump[w], tables[Here(w)], cut[w], Walking(w), OfInfo(w))
  /\ quiet[w] /\ Walking(w) => AtEntry(w)

DumpInv == \A w \in Worker : DumpSafe(w)

\* Whoever changes the table: the lines and the table are what it has been.
PastSafe(w) ==
  Walking(w) => /\ ToSet(dump[w][OfInfo(w)]) \subseteq past[w]
                /\ Pairs(Content(w)) \subseteq past[w]

PastInv == \A w \in Worker : PastSafe(w)

\* SetToSeq counts a finite set off.
LEMMA Enumerated ==
  ASSUME NEW S, IsFiniteSet(S)
  PROVE  /\ IsList(SetToSeq(S))
         /\ \A i \in 1 .. Len(SetToSeq(S)) : SetToSeq(S)[i] \in S
         /\ \A i, j \in 1 .. Len(SetToSeq(S)) : SetToSeq(S)[i] = SetToSeq(S)[j] => i = j
         /\ \A x \in S : \E i \in 1 .. Len(SetToSeq(S)) : SetToSeq(S)[i] = x
<1> DEFINE n == Cardinality(S)
           I == 1 .. n
           e == SetToSeq(S)
<1>1. n \in Nat /\ ExistsBijection(I, S)
  BY FS_CardinalityType
<1>2. IsFiniteSet(I) /\ Cardinality(I) = n
  BY <1>1, Segment
<1>3. PICK b \in Bijection(I, S) : TRUE
  BY <1>1 DEF ExistsBijection
<1>4. b \in [I -> S] /\ IsInjective(b)
  BY <1>3 DEF Bijection, Injection
<1>5. e \in [I -> S] /\ IsInjective(e)
  BY <1>4 DEF SetToSeq
<1>6. e \in Injection(I, S)
  BY <1>5 DEF Injection
<1>7. e \in Surjection(I, S)
  BY <1>2, <1>6, FS_Injection
<1> HIDE DEF e, n
<1>8. Len(e) = n /\ DOMAIN e = I
  BY <1>1, <1>5
<1>9. IsList(e)
  BY <1>1, <1>5, <1>8 DEF IsList
<1>10. \A i \in I : e[i] \in S
  BY <1>5
<1>11. \A i, j \in I : e[i] = e[j] => i = j
  BY <1>5 DEF IsInjective
<1>12. \A x \in S : \E i \in I : e[i] = x
  BY <1>7 DEF Surjection
<1> QED
  BY <1>8, <1>9, <1>10, <1>11, <1>12 DEF e

\* Lines of entries are different ones, and those of all entries are the table.
LEMMA LinesShow ==
  ASSUME NEW s, NEW c, Lines(s, c)
  PROVE  /\ IsInjective(s) /\ ToSet(s) \subseteq Pairs(c)
         /\ Keys(s) = DOMAIN c => Pairs(c) \subseteq ToSet(s)
<1> DEFINE I == 1 .. Len(s)
<1>1. /\ DOMAIN s = I
      /\ \A i \in I : s[i] = <<s[i][1], c[s[i][1]]>> /\ s[i][1] \in DOMAIN c
      /\ \A i, j \in I : s[i][1] = s[j][1] => i = j
  BY DEF Lines, IsList
<1>2. ToSet(s) = {s[i] : i \in I}
  BY <1>1 DEF ToSet
<1>3. IsInjective(s)
  BY <1>1 DEF IsInjective
<1>4. ASSUME NEW i \in I PROVE s[i] \in Pairs(c)
  BY <1>1 DEF Pairs
<1>5. ASSUME Keys(s) = DOMAIN c, NEW k \in DOMAIN c PROVE <<k, c[k]>> \in ToSet(s)
  <2>1. PICK i \in I : s[i][1] = k
    BY <1>5 DEF Keys
  <2>2. s[i] = <<k, c[k]>>
    BY <1>1, <2>1
  <2> QED
    BY <1>2, <2>2
<1> QED
  BY <1>2, <1>3, <1>4, <1>5 DEF Pairs

\* One more line.
LEMMA LineAdded ==
  ASSUME NEW s, NEW c, Lines(s, c), NEW k \in DOMAIN c, k \notin Keys(s)
  PROVE  /\ Lines(Append(s, <<k, c[k]>>), c)
         /\ Keys(Append(s, <<k, c[k]>>)) = Keys(s) \cup {k}
<1> DEFINE x == <<k, c[k]>>
           t == Append(s, x)
           n == Len(s)
<1>1. /\ IsList(s)
      /\ \A i \in 1 .. n : s[i] = <<s[i][1], c[s[i][1]]>> /\ s[i][1] \in DOMAIN c
      /\ \A i, j \in 1 .. n : s[i][1] = s[j][1] => i = j
      /\ \A i \in 1 .. n : s[i][1] # k
  BY DEF Lines, Keys
<1>2. x = <<x[1], c[x[1]]>> /\ x[1] = k
  OBVIOUS
<1> HIDE DEF x
<1>3. /\ IsList(t) /\ n \in Nat /\ Len(t) = n + 1
      /\ \A i \in 1 .. n : t[i] = s[i]
      /\ t[n + 1] = x
  BY <1>1, ListAppend
<1> HIDE DEF t, n
<1>4. \A i \in 1 .. Len(t) : i \in 1 .. n \/ i = n + 1
  BY <1>3
<1>5. \A i \in 1 .. Len(t) : t[i] = <<t[i][1], c[t[i][1]]>> /\ t[i][1] \in DOMAIN c
  BY <1>1, <1>2, <1>3, <1>4
<1>6. \A i \in 1 .. n : t[i][1] = s[i][1] /\ t[i][1] # k
  BY <1>1, <1>3
<1>7. t[n + 1][1] = k
  BY <1>2, <1>3
<1>8. ASSUME NEW i \in 1 .. Len(t), NEW j \in 1 .. Len(t), t[i][1] = t[j][1] PROVE i = j
  BY <1>1, <1>4, <1>6, <1>7, <1>8
<1>9. Lines(t, c)
  BY <1>3, <1>5, <1>8 DEF Lines
<1>10. {t[i][1] : i \in 1 .. Len(t)} = {s[i][1] : i \in 1 .. n} \cup {k}
  <2>1. \A i \in 1 .. n : i \in 1 .. Len(t)
    BY <1>3
  <2>2. n + 1 \in 1 .. Len(t)
    BY <1>3
  <2> QED
    BY <1>4, <1>6, <1>7, <2>1, <2>2
<1> QED
  BY <1>9, <1>10 DEF Keys, t, x, n

LEMMA NoLines ==
  ASSUME NEW c
  PROVE  Lines(<<>>, c) /\ Keys(<<>>) = {}
BY EmptyList DEF Lines, Keys

\* The entries of an action of a table, in the order of the driver.
LEMMA OwnEntries ==
  ASSUME NEW c, IsFiniteSet(DOMAIN c), NEW x
  PROVE  LET own == Entries(c, x)
         IN  /\ IsList(own) /\ Len(own) \in Nat
             /\ \A i \in 1 .. Len(own) : own[i] \in DOMAIN c /\ c[own[i]][1] = x
             /\ \A i, j \in 1 .. Len(own) : own[i] = own[j] => i = j
             /\ \A k \in DOMAIN c : c[k][1] = x => \E i \in 1 .. Len(own) : own[i] = k
<1> DEFINE S == {k \in DOMAIN c : c[k][1] = x}
           own == Entries(c, x)
<1>1. IsFiniteSet(S)
  BY FS_Subset
<1>2. own = SetToSeq(S)
  BY DEF Entries
<1>3. \A k : k \in S <=> k \in DOMAIN c /\ c[k][1] = x
  OBVIOUS
<1> HIDE DEF S, own
<1>4. /\ IsList(own)
      /\ \A i \in 1 .. Len(own) : own[i] \in S
      /\ \A i, j \in 1 .. Len(own) : own[i] = own[j] => i = j
      /\ \A k \in S : \E i \in 1 .. Len(own) : own[i] = k
  BY <1>1, <1>2, Enumerated
<1>5. Len(own) \in Nat
  BY <1>4 DEF IsList
<1> QED
  BY <1>3, <1>4, <1>5 DEF own

LEMMA MetNone ==
  ASSUME NEW c, NEW acts PROVE Met(c, acts, 1, 0) = {}
BY DEF Met

\* One more entry of the action.
LEMMA MetOne ==
  ASSUME NEW c, IsFiniteSet(DOMAIN c), NEW acts, NEW a \in 1 .. Len(acts), Len(acts) \in Nat,
         \A i, j \in 1 .. Len(acts) : acts[i] = acts[j] => i = j,
         NEW n \in Nat \ {0}, n <= Len(Entries(c, acts[a]))
  PROVE  LET k == Entries(c, acts[a])[n]
         IN  /\ k \in DOMAIN c /\ k \notin Met(c, acts, a, n - 1)
             /\ Met(c, acts, a, n) = Met(c, acts, a, n - 1) \cup {k}
<1> DEFINE own == Entries(c, acts[a])
           k == own[n]
<1>1. /\ Len(own) \in Nat
      /\ \A i \in 1 .. Len(own) : own[i] \in DOMAIN c /\ c[own[i]][1] = acts[a]
      /\ \A i, j \in 1 .. Len(own) : own[i] = own[j] => i = j
  BY OwnEntries
<1>2. /\ Met(c, acts, a, n) = {y \in DOMAIN c : \/ \E b \in 1 .. a - 1 : c[y][1] = acts[b]
                                                \/ \E j \in 1 .. n : y = own[j]}
      /\ Met(c, acts, a, n - 1) = {y \in DOMAIN c : \/ \E b \in 1 .. a - 1 : c[y][1] = acts[b]
                                                    \/ \E j \in 1 .. n - 1 : y = own[j]}
  BY DEF Met
<1> HIDE DEF own
<1>3. n \in 1 .. Len(own) /\ \A j \in 1 .. n - 1 : j \in 1 .. Len(own) /\ j # n
  BY <1>1 DEF own
<1>4. k \in DOMAIN c /\ c[k][1] = acts[a]
  BY <1>1, <1>3
<1>5. \A b \in 1 .. a - 1 : b \in 1 .. Len(acts) /\ b # a
  OBVIOUS
<1>6. \A b \in 1 .. a - 1 : c[k][1] # acts[b]
  BY <1>4, <1>5
<1>7. \A j \in 1 .. n - 1 : k # own[j]
  BY <1>1, <1>3
<1>8. \A j : j \in 1 .. n <=> j \in 1 .. n - 1 \/ j = n
  OBVIOUS
<1>9. k \notin Met(c, acts, a, n - 1)
  BY <1>2, <1>6, <1>7
<1>10. Met(c, acts, a, n) = Met(c, acts, a, n - 1) \cup {k}
  BY <1>2, <1>4, <1>8
<1> QED
  BY <1>4, <1>9, <1>10 DEF own

\* No more of them: the next action.
LEMMA MetAction ==
  ASSUME NEW c, IsFiniteSet(DOMAIN c), NEW acts, NEW a \in Nat \ {0}
  PROVE  Met(c, acts, a, Len(Entries(c, acts[a]))) = Met(c, acts, a + 1, 0)
<1> DEFINE own == Entries(c, acts[a])
           n == Len(own)
<1>1. /\ Len(own) \in Nat
      /\ \A i \in 1 .. Len(own) : own[i] \in DOMAIN c /\ c[own[i]][1] = acts[a]
      /\ \A k \in DOMAIN c : c[k][1] = acts[a] => \E i \in 1 .. Len(own) : own[i] = k
  BY OwnEntries
<1>2. /\ Met(c, acts, a, n) = {y \in DOMAIN c : \/ \E b \in 1 .. a - 1 : c[y][1] = acts[b]
                                                \/ \E j \in 1 .. n : y = own[j]}
      /\ Met(c, acts, a + 1, 0) = {y \in DOMAIN c : \E b \in 1 .. a : c[y][1] = acts[b]}
  BY DEF Met
<1> HIDE DEF own
<1>3. \A b : b \in 1 .. a <=> b \in 1 .. a - 1 \/ b = a
  OBVIOUS
<1>4. \A y \in DOMAIN c : (\E j \in 1 .. n : y = own[j]) <=> c[y][1] = acts[a]
  BY <1>1
<1> HIDE DEF n
<1>5. Met(c, acts, a, n) = Met(c, acts, a + 1, 0)
  BY <1>2, <1>3, <1>4
<1> QED
  BY <1>5 DEF n, own

\* After the last action there is nothing that was not met.
LEMMA MetAll ==
  ASSUME NEW c, NEW acts, Len(acts) \in Nat, NEW a \in Nat, a > Len(acts), NEW n,
         \A k \in DOMAIN c : \E i \in 1 .. Len(acts) : c[k][1] = acts[i]
  PROVE  Met(c, acts, a, n) = DOMAIN c
<1>1. \A i \in 1 .. Len(acts) : i \in 1 .. a - 1
  OBVIOUS
<1> QED
  BY <1>1 DEF Met

-----------------------------------------------------------------------------
(* The steps of the walk *)

\* What a walk finds at a table that the driver lists.
LEMMA WalkContent ==
  ASSUME TypeInv, NEW w \in Worker, Passing(w), at[w] <= Len(TableList)
  PROVE  /\ Here(w) \in Pipe /\ OfInfo(w) \in DOMAIN TableInfo
         /\ IsFiniteSet(DOMAIN Content(w))
         /\ \A k \in DOMAIN Content(w) :
              Content(w)[k][1] \in DOMAIN TableInfo[OfInfo(w)].actions
<1>1. TablesTyped /\ Typed(w) /\ Ready(w)
  BY TypeSplit DEF TypeInv
<1>2. Here(w) \in Pipe
  BY <1>1, HereIs
<1>3. OfInfo(w) \in DOMAIN TableInfo
  <2>1. at[w] \in Nat \ {0}
    BY <1>1 DEF Typed
  <2>2. TableList \in Seq(DOMAIN TableInfo)
    BY TableListAssumption
  <2>3. Len(TableList) \in Nat
    BY <2>2, LenProperties
  <2>4. at[w] \in 1 .. Len(TableList)
    BY <2>1, <2>3
  <2> QED
    BY <2>2, <2>4, ElementOfSeq DEF OfInfo
<1>4. IsTable(OfInfo(w), Content(w))
  BY <1>1, <1>2, <1>3 DEF TablesTyped, Content
<1> QED
  BY <1>2, <1>3, <1>4 DEF IsTable

LEMMA ActionsAre ==
  ASSUME NEW t \in DOMAIN TableInfo
  PROVE  /\ Len(Actions(t)) \in Nat
         /\ \A i, j \in 1 .. Len(Actions(t)) : Actions(t)[i] = Actions(t)[j] => i = j
         /\ \A x \in DOMAIN TableInfo[t].actions :
              \E i \in 1 .. Len(Actions(t)) : x = Actions(t)[i]
<1> DEFINE S == DOMAIN TableInfo[t].actions
<1>1. IsFiniteSet(S)
  BY TableInfoAssumption
<1>2. Actions(t) = SetToSeq(S)
  BY DEF Actions
<1> HIDE DEF S
<1>3. IsList(SetToSeq(S))
  BY <1>1, Enumerated
<1>4. \A i, j \in 1 .. Len(SetToSeq(S)) : SetToSeq(S)[i] = SetToSeq(S)[j] => i = j
  BY <1>1, Enumerated
<1>5. \A x \in S : \E i \in 1 .. Len(SetToSeq(S)) : SetToSeq(S)[i] = x
  BY <1>1, Enumerated
<1> QED
  BY <1>2, <1>3, <1>4, <1>5 DEF S, IsList

\* No step of another worker changes a table under a pass that stays quiet.
LEMMA QuietStays ==
  ASSUME TypeInv, NEW w \in Worker, Step(w), NEW u \in Worker, u # w, Passing(u), quiet'[u]
  PROVE  quiet[u] /\ tables'[Here(u)] = tables[Here(u)]
<1>1. Domains /\ TablesTyped
  BY TypeSplit DEF TypeInv
<1>2. ASSUME NEW t, NEW content, Change(w, t, content)
      PROVE  quiet[u] /\ tables'[Here(u)] = tables[Here(u)]
  <2>1. quiet'[u] = (quiet[u] /\ (u = w \/ ~ Passing(u) \/ Here(u) # Here(w)))
    BY <1>2 DEF Change
  <2>2. quiet[u] /\ Here(u) # Here(w)
    BY <2>1
  <2>3. tables' = [tables EXCEPT ![Here(w)][t] = content]
    BY <1>2 DEF Change
  <2>4. tables'[Here(u)] = tables[Here(u)]
    BY <2>2, <2>3
  <2> QED
    BY <2>2, <2>4
<1>3. CASE \E t, content : Change(w, t, content)
  BY <1>2, <1>3
<1>4. CASE UNCHANGED tables /\ quiet'[u] = quiet[u]
  BY <1>4
<1>5. CASE CallDriver(w)
  <2>1. (\E t, content : Change(w, t, content)) \/ UNCHANGED <<tables, quiet>>
    BY <1>5 DEF CallDriver
  <2> QED
    BY <1>3, <1>4, <2>1
<1>6. CASE ResetTable(w)
  <2>1. (\E t, content : Change(w, t, content)) \/ UNCHANGED <<tables, quiet>>
    BY <1>6 DEF ResetTable
  <2> QED
    BY <1>3, <1>4, <2>1
<1>7. CASE WriteResponse(w)
  BY <1>1, <1>4, <1>7 DEF WriteResponse, Domains
<1>8. CASE ~ CallDriver(w) /\ ~ ResetTable(w) /\ ~ WriteResponse(w)
  <2>1. UNCHANGED <<tables, quiet>>
    BY <1>8 DEF Step, Begin, Refuse, EnterPipeline, Finish, LoadRule,
                PackRule, RulesDone, TablesDone, BeginDump, GetByResponse, GetByKey, InfoDone
  <2> QED
    BY <1>4, <2>1
<1> QED
  BY <1>5, <1>6, <1>7, <1>8

LEMMA OthersDumps ==
  ASSUME TypeInv, NEW w \in Worker, Step(w), NEW u \in Worker, u # w, DumpSafe(u)
  PROVE  DumpSafe(u)'
<1>1. Domains /\ Typed(u)
  BY TypeSplit DEF TypeInv
<1>2. Same(u)
  BY <1>1, OthersStay
<1>3. /\ Here(u)' = Here(u) /\ OfInfo(u)' = OfInfo(u)
      /\ (Dumping(u)' <=> Dumping(u)) /\ (Walking(u)' <=> Walking(u))
      /\ dump'[u] = dump[u] /\ cursor'[u] = cursor[u] /\ found'[u] = found[u]
      /\ pc'[u] = pc[u] /\ cut'[u] = cut[u]
  BY <1>2 DEF Same, Here, OfInfo, Dumping, Walking
<1>4. Dumping(u) => Passing(u)
  BY DEF Dumping, Passing
<1>5. Walking(u) => Dumping(u)
  BY DEF Dumping, Walking
<1>6. quiet'[u] /\ Dumping(u) => quiet[u] /\ tables'[Here(u)] = tables[Here(u)]
  BY <1>4, QuietStays
<1>7. /\ ~ Dumping(u)' => DOMAIN dump'[u] = {}
      /\ ~ Walking(u)' => cursor'[u] = Start
      /\ Walking(u)' => OfInfo(u)' \in DOMAIN dump'[u]
  BY <1>3 DEF DumpSafe
<1>8. ASSUME quiet'[u], Dumping(u)'
      PROVE  AllShown(dump'[u], tables'[Here(u)'], cut'[u], Walking(u)', OfInfo(u)')
  <2>1. AllShown(dump[u], tables[Here(u)], cut[u], Walking(u), OfInfo(u))
    BY <1>3, <1>6, <1>8 DEF DumpSafe
  <2>2. tables'[Here(u)'] = tables[Here(u)]
    BY <1>3, <1>6, <1>8
  <2> QED
    BY <1>3, <2>1, <2>2 DEF AllShown
<1>9. ASSUME quiet'[u], Walking(u)' PROVE AtEntry(u)'
  <2>1. AtEntry(u)
    BY <1>3, <1>5, <1>6, <1>9 DEF DumpSafe
  <2>2. Content(u)' = Content(u)
    BY <1>3, <1>5, <1>6, <1>9 DEF Content
  <2> QED
    BY <1>3, <2>1, <2>2 DEF AtEntry
<1> QED
  BY <1>7, <1>8, <1>9 DEF DumpSafe

\* Outside a dump nothing of it is there.
LEMMA NoDump ==
  ASSUME NEW w \in Worker, DumpSafe(w), ~ Dumping(w), dump'[w] = dump[w],
         cursor'[w] = cursor[w], pc'[w] \notin {"walk", "lookup"}
  PROVE  DumpSafe(w)'
<1>1. DOMAIN dump'[w] = {} /\ ~ Walking(w)' /\ cursor'[w] = Start
  <2>1. ~ Walking(w)
    BY DEF Walking, Dumping
  <2> QED
    BY <2>1 DEF DumpSafe, Walking
<1>2. \A content, short, walking, t : AllShown(dump'[w], content, short, walking, t)
  BY <1>1 DEF AllShown
<1> QED
  BY <1>1, <1>2 DEF DumpSafe

\* What a step of the walk leaves alone.
LEMMA WalkKeeps ==
  ASSUME TypeInv, NEW w \in Worker, BeginDump(w) \/ GetByResponse(w) \/ GetByKey(w)
  PROVE  /\ tables' = tables /\ quiet' = quiet /\ Here(w)' = Here(w)
         /\ pc[w] \in {"info", "walk", "lookup"} /\ pc'[w] \in {"info", "walk", "lookup"}
         /\ Passing(w) /\ at[w] <= Len(TableList)
<1>1. Domains /\ Ready(w)
  BY TypeSplit DEF TypeInv
<1>2. CASE BeginDump(w)
  BY <1>1, <1>2 DEF BeginDump, Domains, Here, Passing
<1>3. CASE GetByResponse(w)
  BY <1>1, <1>3 DEF GetByResponse, NextEntry, CutDump, EndDump, Domains, Here, Passing, Ready,
                    AtTable, Walking
<1>4. CASE GetByKey(w)
  BY <1>1, <1>4 DEF GetByKey, CutDump, EndDump, Domains, Here, Passing, Ready, AtTable,
                    Walking
<1> QED
  BY <1>2, <1>3, <1>4

LEMMA BeginDumps ==
  ASSUME TypeInv, NEW w \in Worker, BeginDump(w), DumpSafe(w)
  PROVE  DumpSafe(w)'
<1> DEFINE t == OfInfo(w)
           c == Content(w)
<1>1. Domains /\ Typed(w)
  BY TypeSplit DEF TypeInv
<1>2. /\ tables' = tables /\ quiet' = quiet /\ Here(w)' = Here(w)
      /\ Passing(w) /\ at[w] <= Len(TableList)
  BY WalkKeeps
<1>3. /\ pc[w] = "info" /\ cursor' = cursor /\ found' = found /\ cut' = cut
      /\ \/ /\ pc'[w] = "walk" /\ at'[w] = at[w]
            /\ dump'[w] = Begun(dump[w], t)
         \/ pc'[w] = "info" /\ dump'[w] = dump[w]
  BY <1>1 DEF BeginDump, Domains
<1>4. Dumping(w) /\ ~ Walking(w) /\ cursor[w] = Start /\ Dumping(w)'
  BY <1>3 DEF DumpSafe, Dumping, Walking
<1>5. quiet[w] => AllShown(dump[w], tables[Here(w)], cut[w], FALSE, t)
  BY <1>4 DEF DumpSafe, AllShown
<1>6. CASE pc'[w] = "info" /\ dump'[w] = dump[w]
  <2>1. ~ Walking(w)'
    BY <1>6 DEF Walking
  <2>2. quiet'[w] => AllShown(dump'[w], tables'[Here(w)'], cut'[w], Walking(w)', OfInfo(w)')
    BY <1>2, <1>3, <1>5, <1>6 DEF AllShown
  <2> QED
    BY <1>3, <1>4, <2>1, <2>2 DEF DumpSafe
<1>7. CASE pc'[w] = "walk" /\ at'[w] = at[w] /\ dump'[w] = Begun(dump[w], t)
  <2>1. OfInfo(w)' = t /\ Content(w)' = c /\ Walking(w)'
    BY <1>2, <1>7 DEF OfInfo, Content, Walking
  <2> HIDE DEF t, c
  <2>2. DOMAIN dump'[w] = DOMAIN dump[w] \cup {t}
    BY <1>7 DEF Begun
  <2>3. \A u \in DOMAIN dump'[w] : dump'[w][u] = IF u = t THEN <<>> ELSE dump[w][u]
    BY <1>7 DEF Begun
  <2>4. quiet'[w] => AllShown(dump'[w], tables'[Here(w)'], cut'[w], Walking(w)', OfInfo(w)')
    BY <1>2, <1>3, <1>5, <2>1, <2>2, <2>3 DEF AllShown
  <2>5. dump'[w][t] = <<>> /\ cursor'[w].action = 1 /\ cursor'[w].position = 0
    BY <1>3, <1>4, <2>2, <2>3 DEF Start
  <2>6. 0 <= Len(Entries(c, Actions(t)[1]))
    <3>1. IsFiniteSet(DOMAIN c)
      BY <1>2, WalkContent DEF c
    <3>2. Len(Entries(c, Actions(t)[1])) \in Nat
      BY <3>1, OwnEntries
    <3> QED
      BY <3>2
  <2>7. Reached(c, Actions(t), <<>>, 1, 0, "walk", found'[w])
    BY <2>6, NoLines, MetNone DEF Reached
  <2>8. AtEntry(w)'
    BY <1>7, <2>1, <2>5, <2>7 DEF AtEntry
  <2> QED
    BY <1>4, <2>1, <2>2, <2>4, <2>8 DEF DumpSafe
<1> QED
  BY <1>3, <1>6, <1>7

\* The walk is through with its table, or an error ended it.
LEMMA DumpEnds ==
  ASSUME TypeInv, NEW w \in Worker, DumpSafe(w), Walking(w), EndDump(w),
         tables' = tables, quiet'[w] = quiet[w], Here(w)' = Here(w), dump'[w] = dump[w],
         cut[w] \subseteq cut'[w],
         quiet[w] => Shows(dump[w][OfInfo(w)], Content(w), OfInfo(w) \in cut'[w])
  PROVE  DumpSafe(w)'
<1>1. Domains
  BY TypeSplit DEF TypeInv
<1>2. pc'[w] = "info" /\ cursor'[w] = Start
  BY <1>1 DEF EndDump, Domains
<1>3. ~ Walking(w)' /\ Dumping(w)' /\ Dumping(w)
  BY <1>2 DEF Walking, Dumping
<1>4. quiet'[w] => AllShown(dump'[w], tables'[Here(w)'], cut'[w], Walking(w)', OfInfo(w)')
  <2> SUFFICES ASSUME quiet[w]
               PROVE  AllShown(dump[w], tables[Here(w)], cut'[w], Walking(w)', OfInfo(w)')
    OBVIOUS
  <2>1. AllShown(dump[w], tables[Here(w)], cut[w], Walking(w), OfInfo(w))
    BY <1>3 DEF DumpSafe
  <2>2. Shows(dump[w][OfInfo(w)], tables[Here(w)][OfInfo(w)], OfInfo(w) \in cut'[w])
    BY DEF Content
  <2> QED
    BY <2>1, <2>2 DEF AllShown, Shows
<1> QED
  BY <1>2, <1>3, <1>4 DEF DumpSafe

\* The walk goes on in its table, and the lines of the other tables are left alone.
LEMMA WalkGoesOn ==
  ASSUME TypeInv, NEW w \in Worker, DumpSafe(w), Walking(w), Walking(w)', at'[w] = at[w],
         tables' = tables, quiet'[w] = quiet[w], Here(w)' = Here(w),
         DOMAIN dump'[w] = DOMAIN dump[w], cut'[w] = cut[w],
         \A u \in DOMAIN dump[w] : u # OfInfo(w) => dump'[w][u] = dump[w][u],
         quiet[w] => AtEntry(w)'
  PROVE  DumpSafe(w)'
<1>1. OfInfo(w)' = OfInfo(w)
  BY DEF OfInfo
<1>2. Dumping(w) /\ Dumping(w)'
  BY DEF Dumping, Walking
<1>3. quiet[w] => AllShown(dump[w], tables[Here(w)], cut[w], Walking(w), OfInfo(w))
  BY <1>2 DEF DumpSafe
<1>4. quiet'[w] => AllShown(dump'[w], tables'[Here(w)'], cut'[w], Walking(w)', OfInfo(w)')
  BY <1>1, <1>3 DEF AllShown
<1> QED
  BY <1>1, <1>2, <1>4 DEF DumpSafe

LEMMA ResponseDumps ==
  ASSUME TypeInv, NEW w \in Worker, GetByResponse(w), DumpSafe(w)
  PROVE  DumpSafe(w)'
<1> DEFINE t == OfInfo(w)
           c == Content(w)
           acts == Actions(t)
           a == cursor[w].action
           n == cursor[w].position
           s == dump[w][t]
           own == Entries(c, acts[a])
<1>1. Domains /\ Typed(w)
  BY TypeSplit DEF TypeInv
<1>2. /\ tables' = tables /\ quiet' = quiet /\ Here(w)' = Here(w)
      /\ Passing(w) /\ at[w] <= Len(TableList)
  BY WalkKeeps
<1>3. pc[w] = "walk" /\ dump' = dump
  BY DEF GetByResponse
<1>4. Walking(w)
  BY <1>3 DEF Walking
<1>5. a \in Nat \ {0} /\ n \in Nat
  BY <1>1 DEF Typed
<1>6. /\ IsFiniteSet(DOMAIN c) /\ t \in DOMAIN TableInfo
      /\ \A k \in DOMAIN c : c[k][1] \in DOMAIN TableInfo[t].actions
  BY <1>2, WalkContent
<1>7. quiet[w] => Reached(c, acts, s, a, n, "walk", found[w])
  BY <1>3, <1>4 DEF DumpSafe, AtEntry
<1>8. \/ a > Len(acts) /\ EndDump(w) /\ cut'[w] = cut[w]
      \/ EndDump(w) /\ cut'[w] = cut[w] \cup {t}
      \/ /\ ~ (a > Len(acts)) /\ n >= Len(own)
         /\ cursor'[w] = [action |-> a + 1, position |-> 0]
         /\ pc'[w] = pc[w] /\ at'[w] = at[w] /\ found'[w] = found[w] /\ cut'[w] = cut[w]
      \/ /\ ~ (a > Len(acts)) /\ ~ (n >= Len(own))
         /\ found'[w] = own[n + 1]
         /\ cursor'[w] = [cursor[w] EXCEPT !.position = @ + 1]
         /\ pc'[w] = "lookup" /\ at'[w] = at[w] /\ cut'[w] = cut[w]
  BY <1>1 DEF GetByResponse, NextEntry, CutDump, Domains
<1> HIDE DEF t, c, acts, a, n, s, own
<1>9. /\ Len(acts) \in Nat
      /\ \A x \in DOMAIN TableInfo[t].actions : \E i \in 1 .. Len(acts) : x = acts[i]
  BY <1>6, ActionsAre DEF acts
<1>10. \A x : Len(Entries(c, x)) \in Nat
  BY <1>6, OwnEntries
<1>11. Len(own) \in Nat
  BY <1>10 DEF own
<1>12. CASE a > Len(acts) /\ EndDump(w) /\ cut'[w] = cut[w]
  <2>1. ASSUME quiet[w] PROVE Lines(s, c) /\ Keys(s) = DOMAIN c
    <3>1. Lines(s, c) /\ Keys(s) = Met(c, acts, a, n)
      BY <1>7, <2>1 DEF Reached
    <3>2. \A k \in DOMAIN c : \E i \in 1 .. Len(acts) : c[k][1] = acts[i]
      BY <1>6, <1>9
    <3>3. Met(c, acts, a, n) = DOMAIN c
      BY <1>5, <1>9, <1>12, <3>2, MetAll
    <3> QED
      BY <3>1, <3>3
  <2>2. quiet[w] => Shows(dump[w][OfInfo(w)], Content(w), OfInfo(w) \in cut'[w])
    BY <2>1 DEF Shows, s, c, t
  <2> QED
    BY <1>2, <1>3, <1>4, <1>12, <2>2, DumpEnds
<1>13. CASE EndDump(w) /\ cut'[w] = cut[w] \cup {t}
  <2>1. quiet[w] => Shows(dump[w][OfInfo(w)], Content(w), OfInfo(w) \in cut'[w])
    BY <1>7, <1>13 DEF Reached, Shows, s, c, t
  <2> QED
    BY <1>2, <1>3, <1>4, <1>13, <2>1, DumpEnds
<1>14. CASE /\ ~ (a > Len(acts)) /\ n >= Len(own)
            /\ cursor'[w] = [action |-> a + 1, position |-> 0]
            /\ pc'[w] = pc[w] /\ at'[w] = at[w] /\ found'[w] = found[w] /\ cut'[w] = cut[w]
  <2>1. Walking(w)' /\ OfInfo(w)' = t /\ Content(w)' = c /\ dump'[w][t] = s
    BY <1>2, <1>3, <1>14 DEF Walking, OfInfo, Content, t, c, s
  <2>2. cursor'[w].action = a + 1 /\ cursor'[w].position = 0 /\ pc'[w] = "walk"
    BY <1>3, <1>14
  <2>3. ASSUME quiet[w] PROVE Reached(c, acts, s, a + 1, 0, "walk", found[w])
    <3>1. Lines(s, c) /\ Keys(s) = Met(c, acts, a, n) /\ n <= Len(own)
      BY <1>5, <1>7, <1>9, <1>14, <2>3 DEF Reached, own
    <3>2. n = Len(own)
      BY <1>5, <1>11, <1>14, <3>1
    <3>3. Met(c, acts, a, n) = Met(c, acts, a + 1, 0)
      BY <1>5, <1>6, <3>2, MetAction DEF own
    <3>4. 0 <= Len(Entries(c, acts[a + 1]))
      BY <1>10
    <3> QED
      BY <3>1, <3>3, <3>4 DEF Reached
  <2>4. quiet[w] => AtEntry(w)'
    BY <1>14, <2>1, <2>2, <2>3 DEF AtEntry, acts
  <2> QED
    BY <1>2, <1>3, <1>4, <1>14, <2>1, <2>4, WalkGoesOn
<1>15. CASE /\ ~ (a > Len(acts)) /\ ~ (n >= Len(own))
            /\ found'[w] = own[n + 1]
            /\ cursor'[w] = [cursor[w] EXCEPT !.position = @ + 1]
            /\ pc'[w] = "lookup" /\ at'[w] = at[w] /\ cut'[w] = cut[w]
  <2>1. Walking(w)' /\ OfInfo(w)' = t /\ Content(w)' = c /\ dump'[w][t] = s
    BY <1>2, <1>3, <1>15 DEF Walking, OfInfo, Content, t, c, s
  <2>2. cursor'[w].action = a /\ cursor'[w].position = n + 1
    <3>1. cursor[w] \in [action : Nat \ {0}, position : Nat]
      BY <1>1 DEF Typed
    <3> QED
      BY <1>15, <3>1 DEF a, n
  <2>3. ASSUME quiet[w] PROVE Reached(c, acts, s, a, n + 1, "lookup", own[n + 1])
    <3>1. Lines(s, c) /\ Keys(s) = Met(c, acts, a, n)
      BY <1>7, <2>3 DEF Reached
    <3>2. a <= Len(acts) /\ n + 1 <= Len(own) /\ (n + 1) - 1 = n /\ n + 1 # 0
      BY <1>5, <1>9, <1>11, <1>15
    <3> QED
      BY <3>1, <3>2 DEF Reached, own
  <2>4. quiet[w] => AtEntry(w)'
    BY <1>15, <2>1, <2>2, <2>3 DEF AtEntry, acts
  <2> QED
    BY <1>2, <1>3, <1>4, <1>15, <2>1, <2>4, WalkGoesOn
<1> QED
  BY <1>8, <1>12, <1>13, <1>14, <1>15

LEMMA KeyDumps ==
  ASSUME TypeInv, NEW w \in Worker, GetByKey(w), DumpSafe(w)
  PROVE  DumpSafe(w)'
<1> DEFINE t == OfInfo(w)
           c == Content(w)
           acts == Actions(t)
           a == cursor[w].action
           n == cursor[w].position
           s == dump[w][t]
           k == found[w]
<1>1. Domains /\ Typed(w)
  BY TypeSplit DEF TypeInv
<1>2. /\ tables' = tables /\ quiet' = quiet /\ Here(w)' = Here(w)
      /\ Passing(w) /\ at[w] <= Len(TableList)
  BY WalkKeeps
<1>3. pc[w] = "lookup"
  BY DEF GetByKey
<1>4. Walking(w) /\ t \in DOMAIN dump[w]
  BY <1>3 DEF Walking, DumpSafe
<1>5. a \in Nat \ {0} /\ n \in Nat
  BY <1>1 DEF Typed
<1>6. IsFiniteSet(DOMAIN c) /\ t \in DOMAIN TableInfo
  BY <1>2, WalkContent
<1>7. quiet[w] => Reached(c, acts, s, a, n, "lookup", k)
  BY <1>3, <1>4 DEF DumpSafe, AtEntry
<1>8. \/ /\ k \in DOMAIN c /\ pc'[w] = "walk" /\ at'[w] = at[w] /\ cursor'[w] = cursor[w]
         /\ dump'[w] = [dump[w] EXCEPT ![t] = Append(@, <<k, c[k]>>)] /\ cut'[w] = cut[w]
      \/ EndDump(w) /\ dump'[w] = dump[w] /\ cut'[w] = cut[w] \cup {t}
  BY <1>1 DEF GetByKey, CutDump, Domains
<1> HIDE DEF t, c, acts, a, n, s, k
<1>9. /\ Len(acts) \in Nat
      /\ \A i, j \in 1 .. Len(acts) : acts[i] = acts[j] => i = j
  BY <1>6, ActionsAre DEF acts
<1>10. ASSUME quiet[w]
       PROVE  /\ Lines(s, c) /\ k \in DOMAIN c /\ k \notin Keys(s)
              /\ Met(c, acts, a, n) = Keys(s) \cup {k}
              /\ a <= Len(acts) => n <= Len(Entries(c, acts[a]))
  <2>1. /\ Lines(s, c) /\ Keys(s) = Met(c, acts, a, n - 1)
        /\ a <= Len(acts) /\ n # 0 /\ n <= Len(Entries(c, acts[a]))
        /\ k = Entries(c, acts[a])[n]
    BY <1>7, <1>10 DEF Reached
  <2>2. a \in 1 .. Len(acts) /\ n \in Nat \ {0}
    BY <1>5, <1>9, <2>1
  <2>3. /\ k \in DOMAIN c /\ k \notin Met(c, acts, a, n - 1)
        /\ Met(c, acts, a, n) = Met(c, acts, a, n - 1) \cup {k}
    BY <1>6, <1>9, <2>1, <2>2, MetOne
  <2> QED
    BY <2>1, <2>3
<1>11. CASE /\ k \in DOMAIN c /\ pc'[w] = "walk" /\ at'[w] = at[w] /\ cursor'[w] = cursor[w]
            /\ dump'[w] = [dump[w] EXCEPT ![t] = Append(@, <<k, c[k]>>)] /\ cut'[w] = cut[w]
  <2> DEFINE x == <<k, c[k]>>
  <2>1. Walking(w)' /\ OfInfo(w)' = t /\ Content(w)' = c
    BY <1>2, <1>11 DEF Walking, OfInfo, Content, t, c
  <2>2. dump'[w] = [dump[w] EXCEPT ![t] = Append(@, x)]
    BY <1>11
  <2> HIDE DEF x
  <2>3. dump'[w][t] = Append(s, x)
    BY <1>4, <2>2 DEF s
  <2>4. DOMAIN dump'[w] = DOMAIN dump[w]
    BY <2>2
  <2>5. \A u \in DOMAIN dump[w] : u # t => dump'[w][u] = dump[w][u]
    BY <2>2
  <2>6. cursor'[w].action = a /\ cursor'[w].position = n
    BY <1>11 DEF a, n
  <2>7. ASSUME quiet[w] PROVE Reached(c, acts, Append(s, x), a, n, "walk", found'[w])
    <3>1. Lines(Append(s, x), c) /\ Keys(Append(s, x)) = Keys(s) \cup {k}
      BY <1>10, <2>7, LineAdded DEF x
    <3> QED
      BY <1>10, <2>7, <3>1 DEF Reached
  <2>8. quiet[w] => AtEntry(w)'
    BY <1>11, <2>1, <2>3, <2>6, <2>7 DEF AtEntry, acts
  <2> QED
    BY <1>2, <1>4, <1>11, <2>1, <2>4, <2>5, <2>8, WalkGoesOn DEF t
<1>12. CASE EndDump(w) /\ dump'[w] = dump[w] /\ cut'[w] = cut[w] \cup {t}
  <2>1. quiet[w] => Shows(dump[w][OfInfo(w)], Content(w), OfInfo(w) \in cut'[w])
    BY <1>10, <1>12 DEF Shows, s, c, t
  <2> QED
    BY <1>2, <1>4, <1>12, <2>1, DumpEnds
<1> QED
  BY <1>8, <1>11, <1>12

LEMMA DumpNext ==
  ASSUME TypeInv, DumpInv, NEW w \in Worker, Step(w)
  PROVE  DumpInv'
<1>1. Domains /\ DumpSafe(w)
  BY TypeSplit DEF TypeInv, DumpInv
<1>2. \A u \in Worker : u # w => DumpSafe(u)'
  BY OthersDumps DEF DumpInv
<1>3. CASE Begin(w) \/ Refuse(w) \/ EnterPipeline(w) \/ Finish(w) \/ LoadRule(w)
           \/ PackRule(w) \/ CallDriver(w) \/ RulesDone(w) \/ ResetTable(w) \/ TablesDone(w)
  <2>1. dump' = dump /\ cursor' = cursor
    BY <1>3 DEF Begin, Refuse, EnterPipeline, Finish, LoadRule, PackRule, CallDriver,
                RulesDone, ResetTable, TablesDone, walkVars
  <2>2. ~ Dumping(w)
    BY <1>3 DEF Dumping, Begin, Refuse, EnterPipeline, Finish, LoadRule, PackRule,
                CallDriver, RulesDone, ResetTable, TablesDone
  <2>3. pc'[w] \notin {"walk", "lookup"}
    <3>1. pc[w] \notin {"walk", "lookup"}
      BY <2>2 DEF Dumping
    <3>2. CASE Begin(w) \/ Refuse(w) \/ EnterPipeline(w) \/ Finish(w)
      BY <1>1, <3>1, <3>2 DEF Domains, Begin, Refuse, EnterPipeline, Finish
    <3>3. CASE LoadRule(w) \/ PackRule(w) \/ RulesDone(w) \/ TablesDone(w)
      BY <1>1, <3>1, <3>3 DEF Domains, LoadRule, PackRule, RulesDone, TablesDone
    <3>4. CASE CallDriver(w)
      BY <1>1, <3>1, <3>4 DEF Domains, CallDriver
    <3>5. CASE ResetTable(w)
      BY <1>1, <3>1, <3>5 DEF Domains, ResetTable
    <3> QED
      BY <1>3, <3>2, <3>3, <3>4, <3>5
  <2>4. DumpSafe(w)'
    BY <1>1, <2>1, <2>2, <2>3, NoDump
  <2> QED
    BY <1>2, <2>4 DEF DumpInv
<1>4. CASE WriteResponse(w)
  <2>1. pc[w] = "respond" /\ pc'[w] = "loop" /\ dump'[w] = Empty /\ cursor' = cursor
    BY <1>1, <1>4 DEF WriteResponse, Domains
  <2>2. ~ Walking(w) /\ ~ Walking(w)' /\ ~ Dumping(w)'
    BY <2>1 DEF Walking, Dumping
  <2>3. DOMAIN dump'[w] = {} /\ cursor'[w] = Start
    BY <1>1, <2>1, <2>2 DEF Empty, DumpSafe
  <2>4. DumpSafe(w)'
    BY <2>2, <2>3 DEF DumpSafe
  <2> QED
    BY <1>2, <2>4 DEF DumpInv
<1>5. CASE BeginDump(w)
  BY <1>1, <1>2, <1>5, BeginDumps DEF DumpInv
<1>6. CASE GetByResponse(w)
  BY <1>1, <1>2, <1>6, ResponseDumps DEF DumpInv
<1>7. CASE GetByKey(w)
  BY <1>1, <1>2, <1>7, KeyDumps DEF DumpInv
<1>8. CASE InfoDone(w)
  <2>1. /\ pc[w] = "info" /\ pc'[w] = "respond"
        /\ UNCHANGED <<tables, todo, quiet, dump, cursor, cut>>
    BY <1>1, <1>8 DEF InfoDone, Domains, walkVars
  <2>2. ~ Walking(w) /\ ~ Walking(w)' /\ Dumping(w) /\ Dumping(w)' /\ Here(w)' = Here(w)
    BY <2>1 DEF Walking, Dumping, Here
  <2>3. quiet'[w] => AllShown(dump'[w], tables'[Here(w)'], cut'[w], Walking(w)', OfInfo(w)')
    <3>1. quiet[w] => AllShown(dump[w], tables[Here(w)], cut[w], Walking(w), OfInfo(w))
      BY <1>1, <2>2 DEF DumpSafe
    <3> QED
      BY <2>1, <2>2, <3>1 DEF AllShown
  <2>4. cursor'[w] = Start
    BY <1>1, <2>1, <2>2 DEF DumpSafe
  <2>5. DumpSafe(w)'
    BY <2>2, <2>3, <2>4 DEF DumpSafe
  <2> QED
    BY <1>2, <2>5 DEF DumpInv
<1> QED
  BY <1>3, <1>4, <1>5, <1>6, <1>7, <1>8 DEF Step

\* What another worker makes of the table joins what it has been.
LEMMA OthersPast ==
  ASSUME TypeInv, NEW w \in Worker, Step(w), NEW u \in Worker, u # w, PastSafe(u)
  PROVE  PastSafe(u)'
<1>1. Domains /\ TablesTyped /\ Typed(u) /\ Ready(u)
  BY TypeSplit DEF TypeInv
<1>2. Same(u)
  BY <1>1, OthersStay
<1>3. /\ Here(u)' = Here(u) /\ OfInfo(u)' = OfInfo(u) /\ (Walking(u)' <=> Walking(u))
      /\ dump'[u] = dump[u]
  BY <1>2 DEF Same, Here, OfInfo, Walking
<1> SUFFICES ASSUME Walking(u)
             PROVE  /\ ToSet(dump[u][OfInfo(u)]) \subseteq past'[u]
                    /\ Pairs(Content(u)') \subseteq past'[u]
  BY <1>3 DEF PastSafe
<1>4. ToSet(dump[u][OfInfo(u)]) \subseteq past[u] /\ Pairs(Content(u)) \subseteq past[u]
  BY DEF PastSafe
<1>5. Content(u)' = tables'[Here(u)][OfInfo(u)]
  BY <1>3 DEF Content
<1>6. ASSUME NEW t, NEW content, Change(w, t, content)
      PROVE  /\ past[u] \subseteq past'[u]
             /\ Pairs(Content(u)') \subseteq Pairs(Content(u)) \cup past'[u]
  <2>1. past'[u] = IF Here(u) = Here(w) /\ OfInfo(u) = t
                   THEN past[u] \cup Pairs(content) ELSE past[u]
    BY <1>6 DEF Change
  <2>2. tables' = [tables EXCEPT ![Here(w)][t] = content]
    BY <1>6 DEF Change
  <2>3. CASE Here(u) = Here(w) /\ OfInfo(u) = t
    <3>1. Content(u)' = content \/ Content(u)' = Content(u)
      BY <1>5, <2>2, <2>3 DEF Content
    <3> QED
      BY <2>1, <2>3, <3>1
  <2>4. CASE ~ (Here(u) = Here(w) /\ OfInfo(u) = t)
    <3>1. Content(u)' = Content(u)
      BY <1>5, <2>2, <2>4 DEF Content
    <3> QED
      BY <2>1, <2>4, <3>1
  <2> QED
    BY <2>3, <2>4
<1>7. (\E t, content : Change(w, t, content)) \/ (tables' = tables /\ past'[u] = past[u])
  <2>1. CASE CallDriver(w) \/ ResetTable(w)
    BY <2>1 DEF CallDriver, ResetTable
  <2>2. CASE BeginDump(w) \/ GetByResponse(w) \/ GetByKey(w)
    BY <1>1, <2>2 DEF BeginDump, GetByResponse, GetByKey, CutDump, EndDump, Domains
  <2>3. CASE ~ (CallDriver(w) \/ ResetTable(w) \/ BeginDump(w) \/ GetByResponse(w)
                \/ GetByKey(w))
    BY <2>3 DEF Step, Begin, Refuse, EnterPipeline, WriteResponse, Finish, LoadRule, PackRule,
                RulesDone, TablesDone, InfoDone
  <2> QED
    BY <2>1, <2>2, <2>3
<1>8. CASE \E t, content : Change(w, t, content)
  BY <1>4, <1>6, <1>8
<1>9. CASE tables' = tables /\ past'[u] = past[u]
  BY <1>4, <1>5, <1>9 DEF Content
<1> QED
  BY <1>7, <1>8, <1>9

\* A line that is added is what the table has in this step.
LEMMA WalkPast ==
  ASSUME TypeInv, DumpInv, NEW w \in Worker, PastSafe(w),
         BeginDump(w) \/ GetByResponse(w) \/ GetByKey(w)
  PROVE  PastSafe(w)'
<1>1. Domains /\ Typed(w) /\ DumpSafe(w)
  BY TypeSplit DEF TypeInv, DumpInv
<1>2. tables' = tables /\ Here(w)' = Here(w)
  BY WalkKeeps
<1>3. CASE ~ Walking(w)'
  BY <1>3 DEF PastSafe
<1>4. CASE Walking(w)' /\ BeginDump(w)
  <2>1. /\ pc[w] = "info" /\ at' = at /\ past'[w] = Pairs(Content(w))
        /\ dump'[w] = Begun(dump[w], OfInfo(w))
    BY <1>1, <1>4 DEF BeginDump, Domains, Walking
  <2>2. OfInfo(w)' = OfInfo(w) /\ Content(w)' = Content(w)
    BY <1>2, <2>1 DEF OfInfo, Content
  <2>3. dump'[w][OfInfo(w)] = <<>>
    BY <2>1 DEF Begun
  <2>4. ToSet(<<>>) = {}
    BY EmptyList DEF ToSet, IsList
  <2> QED
    BY <2>1, <2>2, <2>3, <2>4 DEF PastSafe
<1>5. CASE Walking(w)' /\ GetByResponse(w)
  <2>1. pc[w] = "walk" /\ at' = at /\ past' = past /\ dump' = dump
    BY <1>1, <1>5 DEF GetByResponse, CutDump, EndDump, Domains, Walking
  <2>2. Walking(w) /\ OfInfo(w)' = OfInfo(w) /\ Content(w)' = Content(w)
    BY <1>2, <2>1 DEF Walking, OfInfo, Content
  <2> QED
    BY <2>1, <2>2 DEF PastSafe
<1>6. CASE Walking(w)' /\ GetByKey(w)
  <2> DEFINE s == dump[w][OfInfo(w)]
             x == <<found[w], Content(w)[found[w]]>>
  <2>1. /\ pc[w] = "lookup" /\ at' = at /\ past' = past
        /\ found[w] \in DOMAIN Content(w)
        /\ dump'[w] = [dump[w] EXCEPT ![OfInfo(w)] = Append(@, x)]
    BY <1>1, <1>6 DEF GetByKey, CutDump, EndDump, Domains, Walking
  <2>2. Walking(w) /\ OfInfo(w)' = OfInfo(w) /\ Content(w)' = Content(w)
    BY <1>2, <2>1 DEF Walking, OfInfo, Content
  <2>3. OfInfo(w) \in DOMAIN dump[w]
    BY <1>1, <2>2 DEF DumpSafe
  <2>4. x \in past[w] /\ ToSet(s) \subseteq past[w]
    BY <2>1, <2>2 DEF PastSafe, Pairs
  <2>5. IsList(s)
    BY <1>1, <2>3 DEF Typed
  <2> HIDE DEF x
  <2>6. dump'[w][OfInfo(w)] = Append(s, x)
    BY <2>1, <2>3
  <2> HIDE DEF s
  <2>7. ToSet(Append(s, x)) \subseteq ToSet(s) \cup {x}
    <3>1. DOMAIN s = 1 .. Len(s) /\ Len(s) \in Nat
      BY <2>5 DEF IsList
    <3>2. /\ DOMAIN Append(s, x) = 1 .. Len(s) + 1
          /\ \A i \in 1 .. Len(s) : Append(s, x)[i] = s[i]
          /\ Append(s, x)[Len(s) + 1] = x
      BY <2>5, ListAppend
    <3>3. \A i \in 1 .. Len(s) + 1 : i \in 1 .. Len(s) \/ i = Len(s) + 1
      BY <3>1
    <3> QED
      BY <3>1, <3>2, <3>3 DEF ToSet
  <2>8. ToSet(dump'[w][OfInfo(w)]) \subseteq past[w]
    BY <2>4, <2>6, <2>7
  <2> QED
    BY <2>1, <2>2, <2>4, <2>8 DEF PastSafe
<1> QED
  BY <1>3, <1>4, <1>5, <1>6

LEMMA PastNext ==
  ASSUME TypeInv, DumpInv, PastInv, NEW w \in Worker, Step(w)
  PROVE  PastInv'
<1>1. Domains
  BY TypeSplit DEF TypeInv
<1>2. \A u \in Worker : u # w => PastSafe(u)'
  BY OthersPast DEF PastInv
<1>3. CASE BeginDump(w) \/ GetByResponse(w) \/ GetByKey(w)
  BY <1>2, <1>3, WalkPast DEF PastInv
<1>4. CASE Begin(w) \/ Refuse(w) \/ EnterPipeline(w) \/ WriteResponse(w) \/ Finish(w)
  <2>1. pc'[w] \notin {"walk", "lookup"}
    BY <1>1, <1>4 DEF Domains, Begin, Refuse, EnterPipeline, WriteResponse, Finish
  <2> QED
    BY <1>2, <2>1 DEF PastInv, PastSafe, Walking
<1>5. CASE LoadRule(w) \/ PackRule(w) \/ RulesDone(w) \/ TablesDone(w) \/ InfoDone(w)
  <2>1. pc'[w] \notin {"walk", "lookup"}
    BY <1>1, <1>5 DEF Domains, LoadRule, PackRule, RulesDone, TablesDone, InfoDone
  <2> QED
    BY <1>2, <2>1 DEF PastInv, PastSafe, Walking
<1>6. CASE CallDriver(w) \/ ResetTable(w)
  <2>1. pc'[w] \notin {"walk", "lookup"}
    BY <1>1, <1>6 DEF Domains, CallDriver, ResetTable
  <2> QED
    BY <1>2, <2>1 DEF PastInv, PastSafe, Walking
<1> QED
  BY <1>3, <1>4, <1>5, <1>6 DEF Step

(***************************************************************************)
(* A line of a dump is what the table has been in a step of its walk,      *)
(* whatever other workers do in between; and when nobody else changes the  *)
(* tables of the pipeline, the dump of each shows no entry twice and,      *)
(* unless an error of the driver ended it, all of them: the walk by        *)
(* actions misses none (snp4_api.c:386-560, pipeline.cpp:336-357), for any *)
(* tables, any actions and any requests of other workers.                  *)
(***************************************************************************)
THEOREM DumpsShow == Spec => []DumpsShowTheTables
<1>1. Init => DumpInv /\ PastInv
  <2> SUFFICES ASSUME Init, NEW w \in Worker PROVE DumpSafe(w) /\ PastSafe(w)
    BY DEF DumpInv, PastInv
  <2>1. pc[w] = "idle" /\ cursor[w] = Start /\ dump[w] = Empty
    BY DEF Init
  <2> QED
    BY <2>1 DEF DumpSafe, PastSafe, Dumping, Walking, Empty
<1>2. TypeInv /\ DumpInv /\ PastInv /\ [Next]_vars => DumpInv' /\ PastInv'
  <2> SUFFICES ASSUME TypeInv, DumpInv, PastInv, [Next]_vars PROVE DumpInv' /\ PastInv'
    OBVIOUS
  <2>1. CASE UNCHANGED vars
    <3>1. DumpInv'
      BY <2>1 DEF DumpInv, DumpSafe, AtEntry, Dumping, Walking, Here, OfInfo, Content, vars,
                  walkVars
    <3>2. PastInv'
      BY <2>1 DEF PastInv, PastSafe, Walking, Here, OfInfo, Content, vars, walkVars
    <3> QED
      BY <3>1, <3>2
  <2>2. CASE Next
    BY <2>2, NextSteps, DumpNext, PastNext
  <2> QED
    BY <2>1, <2>2
<1>3. TypeInv /\ DumpInv /\ PastInv => DumpsShowTheTables
  <2> SUFFICES ASSUME TypeInv, DumpInv, PastInv, NEW w \in Worker
               PROVE  /\ Walking(w) => ToSet(dump[w][OfInfo(w)]) \subseteq past[w]
                      /\ pc[w] = "respond" /\ quiet[w] =>
                           \A t \in DOMAIN dump[w] :
                             /\ IsInjective(dump[w][t])
                             /\ ToSet(dump[w][t]) \subseteq Pairs(tables[Here(w)][t])
                             /\ t \notin cut[w] =>
                                  Pairs(tables[Here(w)][t]) \subseteq ToSet(dump[w][t])
    BY DEF DumpsShowTheTables
  <2>1. Walking(w) => ToSet(dump[w][OfInfo(w)]) \subseteq past[w]
    BY DEF PastInv, PastSafe
  <2>2. ASSUME pc[w] = "respond", quiet[w], NEW t \in DOMAIN dump[w]
        PROVE  Shows(dump[w][t], tables[Here(w)][t], t \in cut[w])
    <3>1. Dumping(w) /\ ~ Walking(w)
      BY <2>2 DEF Dumping, Walking
    <3> QED
      BY <2>2, <3>1 DEF DumpInv, DumpSafe, AllShown
  <2> QED
    BY <2>1, <2>2, LinesShow DEF Shows
<1> QED
  BY <1>1, <1>2, <1>3, TypeInvariant, PTL DEF Spec
=============================================================================
