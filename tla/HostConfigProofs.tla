--------------------------- MODULE HostConfigProofs ---------------------------
(***************************************************************************)
(* Proofs for the queues of a card's hosts: while no Set RPC is at work,    *)
(* the packets of every function go to its queues, to all of them alike;   *)
(* and a Set RPC that takes turns with others leaves what its granted      *)
(* items say.  For any number of hosts, functions, queues, table entries   *)
(* and requests.                                                           *)
(***************************************************************************)
EXTENDS HostConfig, FiniteSetTheorems, SequenceTheorems, WellFoundedInduction, TLAPS

-----------------------------------------------------------------------------
(* Induction, and lists *)

\* A set of numbers that is not empty has a least one.
LEMMA Least ==
  ASSUME NEW T, T \subseteq Nat, T # {}
  PROVE  \E x \in T : \A y \in T : x <= y
<1> DEFINE R == OpToRel(<, Nat)
<1>1. IsWellFoundedOn(R, Nat)
  BY NatLessThanWellFounded
<1>2. \A x, y \in Nat : y < x => <<y, x>> \in R
  BY DEF OpToRel
<1> HIDE DEF R
<1>3. PICK x \in T : \A y \in T : ~(<<y, x>> \in R)
  BY <1>1, WFMin
<1>4. \A y \in T : ~(y < x)
  BY <1>2, <1>3
<1> QED
  BY <1>4

\* Induction up to a bound, over a set instead of a predicate.
LEMMA UpTo ==
  ASSUME NEW N \in Nat, NEW T, 0 \in T,
         \A n \in 0 .. N - 1 : n \in T => n + 1 \in T
  PROVE  \A n \in 0 .. N : n \in T
<1> DEFINE Missing == {n \in 0 .. N : n \notin T}
<1> SUFFICES ASSUME Missing # {} PROVE FALSE
  OBVIOUS
<1>1. Missing \subseteq Nat
  OBVIOUS
<1>2. PICK x \in Missing : \A y \in Missing : x <= y
  <2> HIDE DEF Missing
  <2> QED
    BY <1>1, Least
<1>3. x \in 0 .. N /\ x \notin T /\ x # 0
  BY <1>2
<1>4. x - 1 \in 0 .. N - 1 /\ (x - 1) + 1 = x
  BY <1>3
<1>5. x - 1 \notin T
  BY <1>3, <1>4
<1>6. x - 1 \in Missing
  BY <1>4, <1>5
<1>7. x <= x - 1
  BY <1>2, <1>6
<1> QED
  BY <1>3, <1>7

\* Where the items of two lists are in the list of both.
LEMMA Joined ==
  ASSUME NEW S, NEW s \in Seq(S), NEW t \in Seq(S)
  PROVE  /\ s \o t \in Seq(S) /\ Len(s) \in Nat /\ Len(t) \in Nat
         /\ Len(s \o t) = Len(s) + Len(t)
         /\ \A a \in 1 .. Len(s) : (s \o t)[a] = s[a] /\ a \in 1 .. Len(s \o t)
         /\ \A b \in 1 .. Len(t) : /\ (s \o t)[Len(s) + b] = t[b]
                                   /\ Len(s) + b \in 1 .. Len(s \o t)
         /\ \A c \in 1 .. Len(s \o t) :
              c \in 1 .. Len(s) \/ (c > Len(s) /\ c - Len(s) \in 1 .. Len(t)
                                      /\ (s \o t)[c] = t[c - Len(s)])
<1>1. Len(s) \in Nat /\ Len(t) \in Nat
  BY LenProperties
<1>2. s \o t \in Seq(S) /\ Len(s \o t) = Len(s) + Len(t)
  BY ConcatProperties
<1>3. \A i \in 1 .. Len(s) + Len(t) :
        (s \o t)[i] = IF i <= Len(s) THEN s[i] ELSE t[i - Len(s)]
  BY ConcatProperties
<1>4. \A a \in 1 .. Len(s) : a \in 1 .. Len(s) + Len(t) /\ a <= Len(s)
  BY <1>1
<1>5. \A b \in 1 .. Len(t) : /\ Len(s) + b \in 1 .. Len(s) + Len(t)
                             /\ ~(Len(s) + b <= Len(s)) /\ (Len(s) + b) - Len(s) = b
  BY <1>1
<1>6. \A c \in 1 .. Len(s) + Len(t) :
        c \in 1 .. Len(s) \/ (~(c <= Len(s)) /\ c > Len(s) /\ c - Len(s) \in 1 .. Len(t))
  BY <1>1
<1>7. \A a \in 1 .. Len(s) : (s \o t)[a] = s[a] /\ a \in 1 .. Len(s \o t)
  BY <1>2, <1>3, <1>4
<1>8. \A b \in 1 .. Len(t) : /\ (s \o t)[Len(s) + b] = t[b]
                             /\ Len(s) + b \in 1 .. Len(s \o t)
  BY <1>2, <1>3, <1>5
<1>9. \A c \in 1 .. Len(s \o t) :
        c \in 1 .. Len(s) \/ (c > Len(s) /\ c - Len(s) \in 1 .. Len(t)
                                /\ (s \o t)[c] = t[c - Len(s)])
  BY <1>2, <1>3, <1>6
<1> QED
  BY <1>1, <1>2, <1>7, <1>8, <1>9

\* A sequence is a list.
LEMMA SeqIsList ==
  ASSUME NEW S, NEW q \in Seq(S)
  PROVE  IsList(q) /\ Len(q) \in Nat /\ \A n \in 1 .. Len(q) : q[n] \in S
<1>1. Len(q) \in Nat /\ q \in [1 .. Len(q) -> S]
  BY LenProperties
<1> QED
  BY <1>1 DEF IsList

\* A list is a sequence of what it holds.
LEMMA ListIsSeq ==
  ASSUME NEW q, IsList(q)
  PROVE  q \in Seq({q[n] : n \in 1 .. Len(q)})
<1> DEFINE S == {q[n] : n \in 1 .. Len(q)}
<1>1. Len(q) \in Nat /\ q = [n \in 1 .. Len(q) |-> q[n]]
  BY DEF IsList
<1>2. \A n \in 1 .. Len(q) : q[n] \in S
  OBVIOUS
<1> HIDE DEF S
<1>3. [n \in 1 .. Len(q) |-> q[n]] \in Seq(S)
  BY <1>1, <1>2, IsASeq
<1>4. q \in Seq(S)
  BY <1>1, <1>3
<1> QED
  BY <1>4 DEF S

\* A list after its first n items.
LEMMA ListRest ==
  ASSUME NEW q, IsList(q), NEW n \in 1 .. Len(q)
  PROVE  /\ IsList(SubSeq(q, n + 1, Len(q)))
         /\ Len(SubSeq(q, n + 1, Len(q))) = Len(q) - n
         /\ \A m \in 1 .. Len(q) - n : SubSeq(q, n + 1, Len(q))[m] = q[n + m]
<1> DEFINE S == {q[m] : m \in 1 .. Len(q)}
           t == SubSeq(q, n + 1, Len(q))
<1>1. q \in Seq(S) /\ Len(q) \in Nat
  BY ListIsSeq DEF IsList
<1> HIDE DEF S
<1>2. \A i \in (n + 1) .. Len(q) : q[i] \in S
  BY <1>1, SeqIsList
<1>3. n + 1 \in Int /\ Len(q) \in Int
  BY <1>1
<1>4. n + 1 \in 1 .. Len(q) + 1 /\ Len(q) \in (n + 1) - 1 .. Len(q)
  BY <1>1
<1>5. t \in Seq(S)
  BY <1>1, <1>4, SubSeqProperties
<1>6. Len(t) = IF n + 1 <= Len(q) THEN Len(q) - (n + 1) + 1 ELSE 0
  BY <1>1, <1>4, SubSeqProperties
<1>7. \A i \in 1 .. Len(q) - (n + 1) + 1 : t[i] = q[(n + 1) + i - 1]
  BY <1>1, <1>4, SubSeqProperties
<1>8. Len(t) = Len(q) - n
  BY <1>1, <1>6
<1>9. \A i \in 1 .. Len(q) - n : i \in 1 .. Len(q) - (n + 1) + 1 /\ (n + 1) + i - 1 = n + i
  BY <1>1
<1>10. \A m \in 1 .. Len(q) - n : t[m] = q[n + m]
  BY <1>7, <1>9
<1> QED
  BY <1>5, <1>8, <1>10, SeqIsList

\* A list without its first item.
LEMMA ListTail ==
  ASSUME NEW q, IsList(q), q # <<>>
  PROVE  /\ Len(q) \in Nat /\ Len(q) > 0 /\ Head(q) = q[1]
         /\ IsList(Tail(q))
         /\ Len(Tail(q)) = Len(q) - 1
         /\ \A m \in 1 .. Len(q) - 1 : Tail(q)[m] = q[m + 1]
<1> DEFINE S == {q[m] : m \in 1 .. Len(q)}
<1>1. q \in Seq(S)
  BY ListIsSeq
<1> HIDE DEF S
<1>2. Len(q) \in Nat /\ Len(q) # 0
  BY <1>1, EmptySeq, LenProperties
<1>3. Head(q) = q[1]
  BY <1>1, HeadTailProperties
<1>4. Tail(q) \in Seq(S)
  BY <1>1, HeadTailProperties
<1>5. Len(Tail(q)) = Len(q) - 1
  BY <1>1, HeadTailProperties
<1>6. \A m \in 1 .. Len(Tail(q)) : Tail(q)[m] = q[m + 1]
  BY <1>1, HeadTailProperties
<1>7. IsList(Tail(q))
  BY <1>4, SeqIsList
<1>8. Len(q) > 0
  BY <1>2
<1>9. \A m \in 1 .. Len(q) - 1 : Tail(q)[m] = q[m + 1]
  BY <1>5, <1>6
<1> QED
  BY <1>2, <1>3, <1>5, <1>7, <1>8, <1>9

\* Sequences by the set of their elements, as the items are put together.
LEMMA One == ASSUME NEW S, NEW x \in S PROVE <<x>> \in Seq(S)
  OBVIOUS
LEMMA None == ASSUME NEW S PROVE <<>> \in Seq(S)
  OBVIOUS
LEMMA Both == ASSUME NEW S, NEW s \in Seq(S), NEW t \in Seq(S) PROVE s \o t \in Seq(S)
  BY ConcatProperties

-----------------------------------------------------------------------------
(* The lists of items *)

\* The function in the definition of EachHost is there.
LEMMA EachHostSteps ==
  ASSUME NEW f
  PROVE  \E g : /\ EachHost(f) = g[NHosts]
                /\ g[0] = <<>>
                /\ \A n \in 1 .. NHosts : g[n] = g[n - 1] \o f[n - 1]
<1> DEFINE Body(g, k) == [n \in 0 .. k |-> IF n = 0 THEN <<>> ELSE g[n - 1] \o f[n - 1]]
           T == {k \in 0 .. NHosts : \E g : g = Body(g, k)}
<1>n. NHosts \in Nat
  BY HostConfigAssumption
<1>1. 0 \in T
  <2> DEFINE g == [n \in {0} |-> <<>>]
  <2>1. 0 .. 0 = {0}
    OBVIOUS
  <2>2. g = [n \in 0 .. 0 |-> IF n = 0 THEN <<>> ELSE g[n - 1] \o f[n - 1]]
    <3>1. \A n \in 0 .. 0 : n = 0
      BY <2>1
    <3>2. [n \in 0 .. 0 |-> IF n = 0 THEN <<>> ELSE g[n - 1] \o f[n - 1]]
            = [n \in 0 .. 0 |-> <<>>]
      BY <3>1, Zenon
    <3> QED
      BY <2>1, <3>2
  <2>3. \E u : u = Body(u, 0)
    BY <2>2
  <2> QED
    BY <1>n, <2>3
<1>2. ASSUME NEW k \in 0 .. NHosts - 1, k \in T PROVE k + 1 \in T
  <2>1. PICK g : g = Body(g, k)
    BY <1>2
  <2> DEFINE h == [n \in 0 .. k + 1 |-> IF n = k + 1 THEN g[k] \o f[k] ELSE g[n]]
  <2>2. \A n \in 0 .. k : h[n] = g[n]
    BY <1>n
  <2>3. ASSUME NEW n \in 0 .. k + 1
        PROVE  h[n] = IF n = 0 THEN <<>> ELSE h[n - 1] \o f[n - 1]
    <3>1. CASE n = k + 1
      <4>1. n # 0 /\ n - 1 = k /\ k \in 0 .. k
        BY <3>1, <1>n
      <4>2. h[n] = g[k] \o f[k]
        BY <3>1
      <4>3. h[k] = g[k]
        BY <2>2, <4>1
      <4> HIDE DEF h
      <4> QED
        BY <4>1, <4>2, <4>3
    <3>2. CASE n # k + 1
      <4>1. n \in 0 .. k
        BY <3>2, <1>n
      <4>2. h[n] = g[n] /\ g[n] = IF n = 0 THEN <<>> ELSE g[n - 1] \o f[n - 1]
        BY <2>1, <2>2, <4>1
      <4>3. n # 0 => n - 1 \in 0 .. k
        BY <4>1, <1>n
      <4>4. n # 0 => h[n - 1] = g[n - 1]
        BY <2>2, <4>3
      <4> HIDE DEF h
      <4> QED
        BY <4>2, <4>4
    <3> QED
      BY <3>1, <3>2
  <2>4. h = [n \in 0 .. k + 1 |-> h[n]]
    OBVIOUS
  <2>5. h = Body(h, k + 1)
    <3> HIDE DEF h
    <3> QED
      BY <2>3, <2>4
  <2>6. k + 1 \in 0 .. NHosts
    BY <1>n
  <2> HIDE DEF h
  <2> QED
    BY <2>5, <2>6
<1>3. NHosts \in T
  <2> HIDE DEF T
  <2>1. \A n \in 0 .. NHosts : n \in T
    BY <1>n, <1>1, <1>2, UpTo
  <2> QED
    BY <1>n, <2>1
<1>4. \E g : g = Body(g, NHosts)
  BY <1>3
<1> DEFINE g == CHOOSE u : u = Body(u, NHosts)
<1>5. g = Body(g, NHosts)
  BY <1>4
<1>6. EachHost(f) = g[NHosts]
  BY DEF EachHost
<1> HIDE DEF g
<1>7. g[0] = <<>>
  BY <1>n, <1>5
<1>8. \A n \in 1 .. NHosts : g[n] = g[n - 1] \o f[n - 1]
  <2>1. \A n \in 1 .. NHosts : n \in 0 .. NHosts /\ n # 0
    BY <1>n
  <2>2. \A n \in 0 .. NHosts : g[n] = IF n = 0 THEN <<>> ELSE g[n - 1] \o f[n - 1]
    BY <1>5, Zenon
  <2> QED
    BY <2>1, <2>2, Zenon
<1> QED
  BY <1>6, <1>7, <1>8

\* Items of one response are next to each other.
Grouped(q) ==
  \A a, b, c \in 1 .. Len(q) :
    a <= b /\ b <= c /\ q[a].unit = q[c].unit => q[b].unit = q[a].unit

Number == 0 .. Wrap - 1

\* An item that a handler may ask for.
WellFormed(i) ==
  /\ i.op \in {"queues", "channel", "sum", "threshold", "refused"}
  /\ i.op # "refused" => i.host \in Host
  /\ i.op = "queues" => i.func \in Function \cup {NoFunction}
  /\ i.op \in {"queues", "channel"} => i.base \in Number /\ i.num \in Number
  /\ i.op = "threshold" => i.value \in Number

\* The items that a sum takes into account, or that come under it.
OfSum == {"queues", "channel", "sum"}

\* Once a host's functions are summed up, their queues stay as they are.
SumLast(q) ==
  \A n, m \in 1 .. Len(q) :
    n < m /\ q[n].op = "sum" /\ q[m].op \in OfSum => q[m].host # q[n].host

Shape(q) ==
  /\ IsList(q) /\ Grouped(q) /\ SumLast(q)
  /\ \A n \in 1 .. Len(q) : WellFormed(q[n])

\* Two lists after each other, if the second does not disturb the sums of the first.
LEMMA SumLastJoined ==
  ASSUME NEW S, NEW s \in Seq(S), NEW t \in Seq(S), SumLast(s), SumLast(t),
         \A n \in 1 .. Len(s), m \in 1 .. Len(t) :
           s[n].op = "sum" /\ t[m].op \in OfSum => t[m].host # s[n].host
  PROVE  SumLast(s \o t)
<1> DEFINE u == s \o t
<1>1. /\ Len(s) \in Nat /\ Len(t) \in Nat /\ Len(u) = Len(s) + Len(t)
      /\ \A a \in 1 .. Len(s) : u[a] = s[a]
      /\ \A c \in 1 .. Len(u) : c \in 1 .. Len(s) \/ (c > Len(s)
                                  /\ c - Len(s) \in 1 .. Len(t) /\ u[c] = t[c - Len(s)])
  BY Joined
<1> HIDE DEF u
<1>2. ASSUME NEW n \in 1 .. Len(u), NEW m \in 1 .. Len(u), n < m,
             u[n].op = "sum", u[m].op \in OfSum
      PROVE  u[m].host # u[n].host
  <2>1. CASE m \in 1 .. Len(s)
    <3>1. n \in 1 .. Len(s)
      BY <1>1, <1>2, <2>1
    <3>2. u[n] = s[n] /\ u[m] = s[m]
      BY <1>1, <2>1, <3>1
    <3> QED
      BY <1>2, <2>1, <3>1, <3>2 DEF SumLast
  <2>2. CASE m > Len(s) /\ m - Len(s) \in 1 .. Len(t) /\ u[m] = t[m - Len(s)]
    <3>1. CASE n \in 1 .. Len(s)
      <4>1. u[n] = s[n]
        BY <1>1, <3>1
      <4> QED
        BY <1>2, <2>2, <3>1, <4>1
    <3>2. CASE n > Len(s) /\ n - Len(s) \in 1 .. Len(t) /\ u[n] = t[n - Len(s)]
      <4>1. n - Len(s) < m - Len(s)
        BY <1>1, <1>2
      <4> QED
        BY <1>2, <2>2, <3>2, <4>1 DEF SumLast
    <3> QED
      BY <1>1, <3>1, <3>2
  <2> QED
    BY <1>1, <2>1, <2>2
<1> QED
  BY <1>2 DEF SumLast, u

\* The items of one unit and host after those of lower ones.
LEMMA UnitsJoined ==
  ASSUME NEW S, NEW s \in Seq(S), NEW t \in Seq(S), NEW n \in Nat,
         SumLast(s), SumLast(t),
         \A a \in 1 .. Len(s) : s[a].unit \in 0 .. n - 1 /\ s[a].host = s[a].unit,
         \A b \in 1 .. Len(t) : t[b].unit = n /\ t[b].host = n,
         \A a, b \in 1 .. Len(s) : a <= b => s[a].unit <= s[b].unit
  PROVE  /\ s \o t \in Seq(S) /\ SumLast(s \o t)
         /\ \A a \in 1 .. Len(s \o t) : /\ (s \o t)[a].unit \in 0 .. (n + 1) - 1
                                        /\ (s \o t)[a].host = (s \o t)[a].unit
         /\ \A a, b \in 1 .. Len(s \o t) : a <= b => (s \o t)[a].unit <= (s \o t)[b].unit
<1> DEFINE u == s \o t
<1>1. /\ u \in Seq(S) /\ Len(s) \in Nat /\ Len(t) \in Nat /\ Len(u) = Len(s) + Len(t)
      /\ \A a \in 1 .. Len(s) : u[a] = s[a]
      /\ \A c \in 1 .. Len(u) : c \in 1 .. Len(s) \/ (c > Len(s)
                                  /\ c - Len(s) \in 1 .. Len(t) /\ u[c] = t[c - Len(s)])
  BY Joined
<1>2. \A a \in 1 .. Len(s), b \in 1 .. Len(t) : t[b].host # s[a].host
  <2>1. \A x \in 0 .. n - 1 : x # n
    OBVIOUS
  <2> QED
    BY <2>1
<1>3. SumLast(u)
  BY <1>2, SumLastJoined
<1> HIDE DEF u
<1>4. ASSUME NEW c \in 1 .. Len(u)
      PROVE  /\ u[c].unit \in 0 .. (n + 1) - 1 /\ u[c].host = u[c].unit
             /\ c > Len(s) => u[c].unit = n
  <2>1. CASE c \in 1 .. Len(s)
    <3>1. u[c] = s[c] /\ ~(c > Len(s))
      BY <1>1, <2>1
    <3>2. u[c].unit \in 0 .. n - 1 /\ u[c].host = u[c].unit
      BY <2>1, <3>1
    <3> QED
      BY <3>1, <3>2
  <2>2. CASE c - Len(s) \in 1 .. Len(t) /\ u[c] = t[c - Len(s)]
    BY <2>2
  <2> QED
    BY <1>1, <2>1, <2>2
<1>5. ASSUME NEW a \in 1 .. Len(u), NEW b \in 1 .. Len(u), a <= b
      PROVE  u[a].unit <= u[b].unit
  <2>1. CASE b \in 1 .. Len(s)
    <3>1. a \in 1 .. Len(s)
      BY <1>1, <1>5, <2>1
    <3> QED
      BY <1>1, <1>5, <2>1, <3>1
  <2>2. CASE b > Len(s)
    <3>1. u[b].unit = n /\ u[a].unit \in 0 .. (n + 1) - 1
      BY <1>4, <2>2
    <3> QED
      BY <3>1
  <2> QED
    BY <1>1, <2>1, <2>2
<1> QED
  BY <1>1, <1>3, <1>4, <1>5 DEF u

\* EachHost puts the items of the hosts after each other.
LEMMA EachHostListed ==
  ASSUME NEW S, NEW f, \A h \in Host : f[h] \in Seq(S),
         \A h \in Host : SumLast(f[h]),
         \A h \in Host : \A m \in 1 .. Len(f[h]) : f[h][m].unit = h /\ f[h][m].host = h
  PROVE  LET q == EachHost(f)
         IN  /\ q \in Seq(S) /\ SumLast(q)
             /\ \A a \in 1 .. Len(q) : q[a].unit \in Int
             /\ \A a, b \in 1 .. Len(q) : a <= b => q[a].unit <= q[b].unit
<1>n. NHosts \in Nat
  BY HostConfigAssumption
<1>1. PICK g : /\ EachHost(f) = g[NHosts]
               /\ g[0] = <<>>
               /\ \A n \in 1 .. NHosts : g[n] = g[n - 1] \o f[n - 1]
  BY EachHostSteps
<1> DEFINE Good(s, n) ==
             /\ s \in Seq(S) /\ SumLast(s)
             /\ \A a \in 1 .. Len(s) : s[a].unit \in 0 .. n - 1 /\ s[a].host = s[a].unit
             /\ \A a, b \in 1 .. Len(s) : a <= b => s[a].unit <= s[b].unit
           T == {n \in 0 .. NHosts : Good(g[n], n)}
<1>2. 0 \in T
  <2>1. g[0] \in Seq(S) /\ 1 .. Len(g[0]) = {}
    BY <1>1
  <2>2. Good(g[0], 0)
    BY <2>1 DEF SumLast
  <2> QED
    BY <1>n, <2>2
<1>3. ASSUME NEW n \in 0 .. NHosts - 1, n \in T PROVE n + 1 \in T
  <2>1. n \in Nat /\ n \in Host /\ n + 1 \in 1 .. NHosts /\ (n + 1) - 1 = n
        /\ n + 1 \in 0 .. NHosts
    BY <1>n DEF Host
  <2>2. Good(g[n], n)
    BY <1>3
  <2>3. f[n] \in Seq(S) /\ SumLast(f[n])
        /\ \A m \in 1 .. Len(f[n]) : f[n][m].unit = n /\ f[n][m].host = n
    BY <2>1
  <2>4. Good(g[n] \o f[n], n + 1)
    BY <2>1, <2>2, <2>3, UnitsJoined
  <2>5. g[n + 1] = g[n] \o f[n]
    BY <1>1, <2>1
  <2> QED
    BY <2>1, <2>4, <2>5
<1> HIDE DEF T
<1>4. NHosts \in T
  <2>1. \A n \in 0 .. NHosts : n \in T
    BY <1>n, <1>2, <1>3, UpTo
  <2> QED
    BY <1>n, <2>1
<1>5. Good(EachHost(f), NHosts)
  BY <1>1, <1>4 DEF T
<1>6. 0 .. NHosts - 1 \subseteq Int
  OBVIOUS
<1>7. \A a \in 1 .. Len(EachHost(f)) : EachHost(f)[a].unit \in Int
  BY <1>5, <1>6
<1> QED
  BY <1>5, <1>7

\* And only those.
LEMMA EachHostIn ==
  ASSUME NEW S, NEW f, \A h \in Host : f[h] \in Seq(S)
  PROVE  EachHost(f) \in Seq(S)
<1>n. NHosts \in Nat
  BY HostConfigAssumption
<1>1. PICK g : /\ EachHost(f) = g[NHosts]
               /\ g[0] = <<>>
               /\ \A n \in 1 .. NHosts : g[n] = g[n - 1] \o f[n - 1]
  BY EachHostSteps
<1> DEFINE T == {n \in 0 .. NHosts : g[n] \in Seq(S)}
<1>2. 0 \in T
  <2>1. g[0] \in Seq(S) /\ 0 \in 0 .. NHosts
    BY <1>n, <1>1, None
  <2> QED
    BY <2>1
<1>3. ASSUME NEW n \in 0 .. NHosts - 1, n \in T PROVE n + 1 \in T
  <2>1. n \in Host /\ n + 1 \in 1 .. NHosts /\ (n + 1) - 1 = n /\ n + 1 \in 0 .. NHosts
    BY <1>n DEF Host
  <2>2. g[n] \in Seq(S) /\ f[n] \in Seq(S)
    BY <1>3, <2>1
  <2>3. g[n] \o f[n] \in Seq(S)
    BY <2>2, Both
  <2> QED
    BY <1>1, <2>1, <2>3
<1> HIDE DEF T
<1>4. NHosts \in T
  <2>1. \A n \in 0 .. NHosts : n \in T
    BY <1>n, <1>2, <1>3, UpTo
  <2> QED
    BY <1>n, <2>1
<1> QED
  BY <1>1, <1>4 DEF T

-----------------------------------------------------------------------------
(* What the items of a request have in common *)

LEMMA DivMod ==
  ASSUME NEW a \in Int, NEW b \in Nat \ {0}
  PROVE  /\ a \div b \in Int
         /\ a % b \in 0 .. b - 1
         /\ a = b * (a \div b) + (a % b)
OBVIOUS

\* convert_to_driver_qdma_function
LEMMA FunctionConverted ==
  ASSUME NEW t, NEW x \in Number
  PROVE  FunctionOf(t, x) \in Function \cup {NoFunction}
<1>n. NFunctions \in Nat \ {0} /\ Wrap \in Nat \ {0} /\ VFMin + x \in Int
  BY HostConfigAssumption DEF Number, VFMin
<1>1. (VFMin + x) % Wrap \in 0 .. Wrap - 1
  BY <1>n, DivMod
<1>2. (VFMin + x) % Wrap < NFunctions => (VFMin + x) % Wrap \in Function
  BY <1>n, <1>1 DEF Function
<1>3. PF \in Function
  BY <1>n DEF PF, Function
<1>4. FunctionOf(t, x) \in {PF, NoFunction}
        \/ /\ (VFMin + x) % Wrap < NFunctions
           /\ FunctionOf(t, x) = (VFMin + x) % Wrap
  BY Zenon DEF FunctionOf
<1> QED
  BY <1>2, <1>3, <1>4

\* Items of which none is a sum, and a single one.
LEMMA NoSums ==
  ASSUME NEW q, \A n \in 1 .. Len(q) : q[n].op # "sum"
  PROVE  SumLast(q)
  BY DEF SumLast

LEMMA OneSum == ASSUME NEW x PROVE SumLast(<<x>>)
<1>1. \A n, m \in 1 .. Len(<<x>>) : ~(n < m)
  OBVIOUS
<1> QED
  BY <1>1 DEF SumLast

\* The items of a host: its functions' queues first, their sum, the threshold.
LEMMA HostListed ==
  ASSUME NEW r \in Request, r.kind = "host", NEW h \in Host
  PROVE  LET q == HostItems(r, h)
         IN  /\ q \in Seq({q[n] : n \in 1 .. Len(q)})
             /\ SumLast(q)
             /\ \A n \in 1 .. Len(q) : /\ WellFormed(q[n])
                                       /\ q[n].unit = h /\ q[n].host = h
<1> DEFINE reset == [n \in 1 .. NFunctions |-> SetQueues(h, h, n - 1, 0, 0)]
           down  == reset \o <<SetChannel(h, h, 0, 0)>>
           each(n) == SetQueues(h, h, FunctionOf(r.functions[n].ftype, r.functions[n].index),
                                r.functions[n].base, r.functions[n].num)
           functions == [n \in DOMAIN r.functions |-> each(n)]
           first == IF r.reset THEN down ELSE <<>>
           dma   == IF "dma" \in r.has THEN first \o functions \o <<SumUp(h)>> ELSE <<>>
           last  == IF "flow_control" \in r.has THEN <<SetThreshold(h, r.threshold)>>
                    ELSE <<>>
           A == {SetQueues(h, h, n - 1, 0, 0) : n \in 1 .. NFunctions}
                  \cup {SetChannel(h, h, 0, 0)}
                  \cup {each(n) : n \in DOMAIN r.functions}
           B == {SumUp(h)}
           C == {SetThreshold(h, r.threshold)}
           All == A \cup B \cup C
<1>n. /\ NFunctions \in Nat \ {0} /\ Wrap \in Nat /\ NFunctions < Wrap /\ 0 \in Number
      /\ r.threshold \in Int /\ r.threshold < Wrap
  BY HostConfigAssumption DEF Number
<1>f. /\ DOMAIN r.functions = 1 .. Len(r.functions) /\ Len(r.functions) \in Nat
      /\ \A n \in 1 .. Len(r.functions) : /\ r.functions[n].index \in Number
                                          /\ r.functions[n].base \in Number
                                          /\ r.functions[n].num \in Number
  <2>1. IsList(r.functions)
        /\ \A n \in 1 .. Len(r.functions) :
             {r.functions[n].index, r.functions[n].base, r.functions[n].num}
               \subseteq 0 .. Wrap - 1
    BY HostConfigAssumption
  <2>2. DOMAIN r.functions = 1 .. Len(r.functions) /\ Len(r.functions) \in Nat
    BY <2>1 DEF IsList
  <2> QED
    BY <2>1, <2>2 DEF Number
<1>o. \A n \in 1 .. Len(r.functions) :
        FunctionOf(r.functions[n].ftype, r.functions[n].index) \in Function \cup {NoFunction}
  BY <1>f, FunctionConverted
<1>1. \A x \in A : x.op \in {"queues", "channel"} /\ WellFormed(x) /\ x.unit = h /\ x.host = h
  <2>1. ASSUME NEW n \in 1 .. NFunctions
        PROVE  LET x == SetQueues(h, h, n - 1, 0, 0)
               IN  x.op = "queues" /\ WellFormed(x) /\ x.unit = h /\ x.host = h
    <3>1. n - 1 \in Function
      BY <1>n DEF Function
    <3> QED
      BY <1>n, <3>1 DEF SetQueues, WellFormed
  <2>2. LET x == SetChannel(h, h, 0, 0)
        IN  x.op = "channel" /\ WellFormed(x) /\ x.unit = h /\ x.host = h
    BY <1>n DEF SetChannel, WellFormed
  <2>3. ASSUME NEW n \in 1 .. Len(r.functions)
        PROVE  each(n).op = "queues" /\ WellFormed(each(n)) /\ each(n).unit = h
               /\ each(n).host = h
    BY <1>f, <1>o DEF SetQueues, WellFormed
  <2> HIDE DEF each
  <2> QED
    BY <1>f, <2>1, <2>2, <2>3
<1>2. \A x \in B : x.op = "sum" /\ WellFormed(x) /\ x.unit = h /\ x.host = h
  BY DEF SumUp, WellFormed
<1>3. \A x \in C : x.op = "threshold" /\ WellFormed(x) /\ x.unit = h /\ x.host = h
  <2>1. (IF r.threshold < 0 THEN Unlimited ELSE r.threshold) \in Number
    BY <1>n DEF Unlimited, Number
  <2> QED
    BY <2>1 DEF SetThreshold, WellFormed
<1>4. down \in Seq(A)
  <2>1. \A n \in 1 .. NFunctions : SetQueues(h, h, n - 1, 0, 0) \in A
    OBVIOUS
  <2>2. SetChannel(h, h, 0, 0) \in A
    OBVIOUS
  <2> HIDE DEF A
  <2>3. reset \in Seq(A)
    BY <1>n, <2>1, IsASeq
  <2>4. <<SetChannel(h, h, 0, 0)>> \in Seq(A)
    BY <2>2, One
  <2> HIDE DEF reset
  <2> QED
    BY <2>3, <2>4, Both
<1>5. functions \in Seq(A)
  <2>1. \A n \in 1 .. Len(r.functions) : each(n) \in A
    BY <1>f
  <2> HIDE DEF A, each
  <2>2. [n \in 1 .. Len(r.functions) |-> each(n)] \in Seq(A)
    BY <1>f, <2>1, IsASeq
  <2> QED
    BY <1>f, <2>2
<1>6. first \o functions \in Seq(A)
  <2>1. first \in Seq(A)
    <3> HIDE DEF A, down
    <3> QED
      BY <1>4, None
  <2> HIDE DEF first, functions, A
  <2> QED
    BY <1>5, <2>1, Both
<1>7. <<SumUp(h)>> \in Seq(B) /\ last \in Seq(C)
  BY One, None
<1> HIDE DEF A, B, C, first, functions, last, down, reset
<1>8. /\ A \subseteq All /\ B \subseteq All /\ C \subseteq All
      /\ \A x \in All : WellFormed(x) /\ x.unit = h /\ x.host = h
  BY <1>1, <1>2, <1>3
<1> HIDE DEF All
<1>9. /\ first \o functions \in Seq(All) /\ <<SumUp(h)>> \in Seq(All) /\ last \in Seq(All)
  BY <1>6, <1>7, <1>8, SeqMonotonic
<1>10. dma \in Seq(All) /\ SumLast(dma)
  <2>1. CASE "dma" \in r.has
    <3>1. dma = (first \o functions) \o <<SumUp(h)>>
      BY <2>1
    <3>2. \A n \in 1 .. Len(first \o functions) : (first \o functions)[n].op # "sum"
      <4>1. \A n \in 1 .. Len(first \o functions) : (first \o functions)[n] \in A
        BY <1>6, SeqIsList
      <4> QED
        BY <1>1, <4>1
    <3>3. SumLast(first \o functions) /\ SumLast(<<SumUp(h)>>)
      BY <3>2, NoSums, OneSum
    <3>4. SumLast((first \o functions) \o <<SumUp(h)>>)
      BY <1>9, <3>2, <3>3, SumLastJoined
    <3>5. (first \o functions) \o <<SumUp(h)>> \in Seq(All)
      BY <1>9, Both
    <3> QED
      BY <3>1, <3>4, <3>5
  <2>2. CASE "dma" \notin r.has
    <3>1. dma = <<>> /\ 1 .. Len(<<>>) = {}
      BY <2>2
    <3> QED
      BY <3>1, None DEF SumLast
  <2> QED
    BY <2>1, <2>2
<1>11. HostItems(r, h) = dma \o last
  BY DEF HostItems, dma, first, functions, last, down, reset
<1> HIDE DEF dma
<1>12. \A n \in 1 .. Len(last) : last[n].op = "threshold"
  <2>1. \A n \in 1 .. Len(last) : last[n] \in C
    BY <1>7, SeqIsList
  <2> QED
    BY <1>3, <2>1
<1>13. SumLast(last)
  BY <1>12, NoSums
<1>14. SumLast(dma \o last)
  <2>1. \A n \in 1 .. Len(last) : last[n].op \notin OfSum
    BY <1>12 DEF OfSum
  <2> QED
    BY <1>9, <1>10, <1>13, <2>1, SumLastJoined
<1>15. dma \o last \in Seq(All)
  BY <1>9, <1>10, Both
<1>16. \A n \in 1 .. Len(dma \o last) : (dma \o last)[n] \in All
  BY <1>15, SeqIsList
<1>17. IsList(dma \o last)
  BY <1>15, SeqIsList
<1>18. dma \o last \in Seq({(dma \o last)[n] : n \in 1 .. Len(dma \o last)})
  BY <1>17, ListIsSeq
<1> QED
  BY <1>8, <1>11, <1>14, <1>16, <1>18

\* A list in the order of its units is grouped.
LEMMA InOrderGrouped ==
  ASSUME NEW q, \A a \in 1 .. Len(q) : q[a].unit \in Int,
         \A a, b \in 1 .. Len(q) : a <= b => q[a].unit <= q[b].unit
  PROVE  Grouped(q)
<1> SUFFICES ASSUME NEW a \in 1 .. Len(q), NEW b \in 1 .. Len(q), NEW c \in 1 .. Len(q),
                    a <= b, b <= c, q[a].unit = q[c].unit
             PROVE  q[b].unit = q[a].unit
  BY DEF Grouped
<1>1. q[a].unit <= q[b].unit /\ q[b].unit <= q[c].unit
  OBVIOUS
<1> QED
  BY <1>1

\* So is one of a single unit.
LEMMA OneUnitGrouped ==
  ASSUME NEW q, NEW u, \A n \in 1 .. Len(q) : q[n].unit = u
  PROVE  Grouped(q)
  BY DEF Grouped

\* Items are in a set that holds more than them.
LEMMA InSet ==
  ASSUME NEW S, NEW q \in Seq(S), NEW n \in 1 .. Len(q)
  PROVE  q[n] \in S
  BY SeqIsList

\* set_defaults_one_to_one
LEMMA DefaultsShape == Shape(DefaultItems)
<1> DEFINE pair(h) == <<SetQueues(0, h, PF, h, 1), SetChannel(0, h, h, 1)>>
           f == [h \in Host |-> pair(h)]
           S == {SetQueues(0, h, PF, h, 1) : h \in Host}
                  \cup {SetChannel(0, h, h, 1) : h \in Host}
<1>n. /\ NHosts \in Nat \ {0} /\ NFunctions \in Nat \ {0} /\ Wrap \in Nat
      /\ NHosts < Wrap /\ NFunctions < Wrap
  BY HostConfigAssumption
<1>1. \A x \in S : WellFormed(x) /\ x.unit = 0 /\ x.op # "sum"
  <2>1. ASSUME NEW h \in Host
        PROVE  h \in Number /\ 1 \in Number /\ PF \in Function
    BY <1>n DEF Host, Number, Function, PF
  <2>2. ASSUME NEW h \in Host
        PROVE  LET x == SetQueues(0, h, PF, h, 1)
               IN  WellFormed(x) /\ x.unit = 0 /\ x.op # "sum"
    BY <2>1 DEF SetQueues, WellFormed
  <2>3. ASSUME NEW h \in Host
        PROVE  LET x == SetChannel(0, h, h, 1)
               IN  WellFormed(x) /\ x.unit = 0 /\ x.op # "sum"
    BY <2>1 DEF SetChannel, WellFormed
  <2> QED
    BY <2>2, <2>3
<1>2. ASSUME NEW h \in Host PROVE f[h] \in Seq(S)
  <2>1. SetQueues(0, h, PF, h, 1) \in S /\ SetChannel(0, h, h, 1) \in S
    OBVIOUS
  <2>2. f[h] = pair(h)
    OBVIOUS
  <2> HIDE DEF S, f
  <2> QED
    BY <2>1, <2>2
<1> HIDE DEF S, f
<1>3. EachHost(f) \in Seq(S)
  BY <1>2, EachHostIn
<1>4. DefaultItems = EachHost(f)
  BY DEF DefaultItems, f
<1>5. IsList(DefaultItems) /\ \A n \in 1 .. Len(DefaultItems) : DefaultItems[n] \in S
  BY <1>3, <1>4, SeqIsList
<1>6. Grouped(DefaultItems)
  <2>1. \A n \in 1 .. Len(DefaultItems) : DefaultItems[n].unit = 0
    BY <1>1, <1>5
  <2> QED
    BY <2>1, OneUnitGrouped
<1>7. SumLast(DefaultItems)
  BY <1>1, <1>5, NoSums
<1> QED
  BY <1>1, <1>5, <1>6, <1>7 DEF Shape

\* The items of every request.
LEMMA ItemsShape ==
  ASSUME NEW r \in Request
  PROVE  Shape(Items(r))
<1>n. NHosts \in Nat \ {0} /\ r.kind \in {"host", "defaults"}
  BY HostConfigAssumption
<1>1. CASE r.kind = "defaults"
  <2>1. Items(r) = DefaultItems
    BY <1>1 DEF Items
  <2> QED
    BY <2>1, DefaultsShape
<1>2. CASE r.kind = "host" /\ r.host > NHosts - 1
  <2>0. r.host \in Int /\ ~(r.host < 0) /\ r.kind # "defaults"
    BY <1>n, <1>2, HostConfigAssumption
  <2>1. Items(r) = <<Refused(r.host)>>
    BY <1>2, <2>0 DEF Items
  <2> DEFINE q == <<Refused(r.host)>>
  <2>2. q \in Seq({Refused(r.host)})
    OBVIOUS
  <2> HIDE DEF q
  <2>3. IsList(q) /\ \A n \in 1 .. Len(q) : q[n] = Refused(r.host)
    BY <2>2, SeqIsList
  <2>4. WellFormed(Refused(r.host)) /\ Refused(r.host).op # "sum"
    BY DEF Refused, WellFormed
  <2>5. Grouped(q)
    BY <2>3, OneUnitGrouped
  <2>6. SumLast(q)
    BY <2>3, <2>4, NoSums
  <2>7. Shape(q)
    BY <2>3, <2>4, <2>5, <2>6 DEF Shape
  <2> QED
    BY <2>1, <2>7 DEF q
<1>3. CASE r.kind = "host" /\ r.host <= NHosts - 1 /\ r.host >= 0
  <2>0. r.host \in Int /\ ~(r.host > NHosts - 1) /\ ~(r.host < 0) /\ r.kind # "defaults"
    BY <1>n, <1>3, HostConfigAssumption
  <2>1. Items(r) = HostItems(r, r.host)
    BY <2>0 DEF Items
  <2>2. r.host \in Host
    BY <1>n, <1>3, <2>0 DEF Host
  <2> DEFINE q == HostItems(r, r.host)
  <2>3. /\ q \in Seq({q[n] : n \in 1 .. Len(q)}) /\ SumLast(q)
        /\ \A n \in 1 .. Len(q) : WellFormed(q[n]) /\ q[n].unit = r.host
    BY <1>3, <2>2, HostListed
  <2> HIDE DEF q
  <2>4. IsList(q) /\ Grouped(q)
    BY <2>3, SeqIsList, OneUnitGrouped
  <2>5. Shape(q)
    BY <2>3, <2>4 DEF Shape
  <2> QED
    BY <2>1, <2>5 DEF q
<1>4. CASE r.kind = "host" /\ r.host < 0
  <2>0. r.host \in Int /\ ~(r.host > NHosts - 1) /\ r.kind # "defaults"
    BY <1>n, <1>4, HostConfigAssumption
  <2> DEFINE f == [h \in Host |-> HostItems(r, h)]
             S(h) == {HostItems(r, h)[n] : n \in 1 .. Len(HostItems(r, h))}
             All == UNION {S(h) : h \in Host}
             q == EachHost(f)
  <2>1. Items(r) = q
    BY <1>4, <2>0 DEF Items
  <2>2. ASSUME NEW h \in Host
        PROVE  /\ HostItems(r, h) \in Seq(S(h)) /\ SumLast(HostItems(r, h))
               /\ \A n \in 1 .. Len(HostItems(r, h)) :
                    /\ WellFormed(HostItems(r, h)[n])
                    /\ HostItems(r, h)[n].unit = h /\ HostItems(r, h)[n].host = h
    BY <1>4, HostListed
  <2>3. \A x \in All : WellFormed(x)
    <3>1. \A h \in Host : \A x \in S(h) : WellFormed(x)
      BY <2>2
    <3> HIDE DEF S
    <3> QED
      BY <3>1
  <2>4. \A h \in Host : f[h] = HostItems(r, h) /\ S(h) \subseteq All
    OBVIOUS
  <2> HIDE DEF S, All, f
  <2>5. \A h \in Host : f[h] \in Seq(All)
    BY <2>2, <2>4, SeqMonotonic
  <2>6. \A h \in Host : SumLast(f[h])
    BY <2>2, <2>4
  <2>7. \A h \in Host : \A m \in 1 .. Len(f[h]) : f[h][m].unit = h /\ f[h][m].host = h
    BY <2>2, <2>4
  <2>8. /\ q \in Seq(All) /\ SumLast(q)
        /\ \A a \in 1 .. Len(q) : q[a].unit \in Int
        /\ \A a, b \in 1 .. Len(q) : a <= b => q[a].unit <= q[b].unit
    BY <2>5, <2>6, <2>7, EachHostListed
  <2> HIDE DEF q
  <2>9. IsList(q) /\ \A n \in 1 .. Len(q) : q[n] \in All
    BY <2>8, SeqIsList
  <2>10. Grouped(q)
    BY <2>8, InOrderGrouped
  <2>11. Shape(q)
    BY <2>3, <2>8, <2>9, <2>10 DEF Shape
  <2> QED
    BY <2>1, <2>11
<1> QED
  BY <1>n, <1>1, <1>2, <1>3, <1>4, HostConfigAssumption

-----------------------------------------------------------------------------
(* Types *)

Small == \A h \in Host, f \in Function : range[h][f].num <= TableSize

\* What writer w has to do are items of a request, and one that it has begun to
\* write is of a function and has no more queues than the table entries.
Waiting(w) == IsList(todo[w]) /\ \A m \in 1 .. Len(todo[w]) : WellFormed(todo[w][m])
MidItem(w) ==
  place[w] # "base" =>
    NextIs(w, "queues") /\ Item(w).func \in Function /\ Item(w).num <= TableSize

TypeInv ==
  /\ TypeOK /\ Small /\ DOMAIN before = Writer
  /\ \A w \in Writer : Waiting(w) /\ MidItem(w)

LEMMA Sizes ==
  /\ NHosts \in Nat /\ NHosts > 0 /\ NFunctions \in Nat /\ NFunctions > 0
  /\ TableSize \in Nat /\ TableSize > 0 /\ Wrap \in Nat
  /\ TableSize < Wrap /\ NFunctions < Wrap /\ NFunctions * TableSize < Wrap /\ 1 < Wrap
  /\ 0 \in Number /\ Wrap - 1 \in Number /\ Number \subseteq Nat
<1>1. /\ NHosts \in Nat /\ NHosts > 0 /\ NFunctions \in Nat /\ NFunctions > 0
      /\ TableSize \in Nat /\ TableSize > 0 /\ Wrap \in Nat
      /\ NFunctions < Wrap /\ NFunctions * TableSize < Wrap
  BY HostConfigAssumption
<1>2. TableSize <= NFunctions * TableSize
  BY <1>1
<1>3. TableSize < Wrap /\ 1 < Wrap
  <2>1. NFunctions * TableSize \in Int
    BY <1>1
  <2> QED
    BY <1>1, <1>2, <2>1
<1>4. 0 \in Number /\ Wrap - 1 \in Number /\ Number \subseteq Nat
  BY <1>1 DEF Number
<1> QED
  BY <1>1, <1>3, <1>4

LEMMA Kinds == \A r \in Request : r # Idle
  BY HostConfigAssumption DEF Idle

\* The empty list.
LEMMA EmptyList == IsList(<<>>) /\ Len(<<>>) = 0
<1>1. <<>> \in Seq({})
  OBVIOUS
<1>2. IsList(<<>>)
  BY <1>1, SeqIsList
<1> QED
  BY <1>2

LEMMA TypeInit == Init => TypeInv
<1> SUFFICES ASSUME Init PROVE TypeInv
  OBVIOUS
<1>1. NoQueues \in Queues /\ [base |-> 0, spread |-> 1] \in
        [base : 0 .. Wrap - 1, spread : 1 .. TableSize] /\ Unlimited \in 0 .. Wrap - 1
  BY Sizes DEF NoQueues, Queues, Unlimited
<1>2. NoSum \in [next : 0 .. NFunctions, base : 0 .. Wrap - 1, num : 0 .. Wrap - 1]
  BY Sizes DEF NoSum
<1>3. TypeOK
  BY <1>1, <1>2 DEF Init, TypeOK
<1>4. Small
  BY Sizes DEF Init, Small, NoQueues
<1>5. ASSUME NEW w \in Writer PROVE Waiting(w) /\ MidItem(w)
  <2>1. todo[w] = <<>> /\ place[w] = "base"
    BY DEF Init
  <2> QED
    BY <2>1, EmptyList DEF Waiting, MidItem
<1> QED
  BY <1>3, <1>4, <1>5 DEF TypeInv, Init

\* The item that a writer is at.
LEMMA ItemFits ==
  ASSUME TypeInv, NEW w \in Writer, todo[w] # <<>>
  PROVE  WellFormed(Item(w)) /\ Item(w) = todo[w][1] /\ IsList(todo[w])
         /\ Len(todo[w]) \in Nat /\ Len(todo[w]) > 0
<1>1. IsList(todo[w]) /\ \A m \in 1 .. Len(todo[w]) : WellFormed(todo[w][m])
  BY DEF TypeInv, Waiting
<1>2. Len(todo[w]) \in Nat /\ Len(todo[w]) > 0 /\ Head(todo[w]) = todo[w][1]
  BY <1>1, ListTail
<1> QED
  BY <1>1, <1>2 DEF Item

\* The items after one that is done.
LEMMA DoneLeaves ==
  ASSUME TypeInv, NEW w \in Writer, todo[w] # <<>>, Done(w)
  PROVE  /\ DOMAIN todo' = Writer /\ todo'[w] = Tail(todo[w])
         /\ \A o \in Writer : o # w => todo'[o] = todo[o]
         /\ Waiting(w)'
<1>1. /\ DOMAIN todo' = Writer /\ todo'[w] = Tail(todo[w])
      /\ \A o \in Writer : o # w => todo'[o] = todo[o]
  BY DEF Done, TypeInv, TypeOK
<1>2. IsList(todo[w]) /\ \A m \in 1 .. Len(todo[w]) : WellFormed(todo[w][m])
  BY DEF TypeInv, Waiting
<1>3. /\ IsList(Tail(todo[w])) /\ Len(Tail(todo[w])) = Len(todo[w]) - 1
      /\ Len(todo[w]) \in Nat
      /\ \A m \in 1 .. Len(todo[w]) - 1 : Tail(todo[w])[m] = todo[w][m + 1]
  BY <1>2, ListTail
<1>4. ASSUME NEW m \in 1 .. Len(Tail(todo[w])) PROVE WellFormed(Tail(todo[w])[m])
  <2>1. m \in 1 .. Len(todo[w]) - 1 /\ m + 1 \in 1 .. Len(todo[w])
    BY <1>3
  <2> QED
    BY <1>2, <1>3, <2>1
<1> QED
  BY <1>1, <1>3, <1>4 DEF Waiting

\* The items after those of a response that is given up.
LEMMA AbortLeaves ==
  ASSUME TypeInv, NEW w \in Writer, Abort(w)
  PROVE  /\ DOMAIN todo' = Writer /\ place' = [place EXCEPT ![w] = "base"]
         /\ \A o \in Writer : o # w => todo'[o] = todo[o] /\ place'[o] = place[o]
         /\ Waiting(w)' /\ place'[w] = "base"
         /\ \E n \in 1 .. Len(todo[w]) :
              /\ \A m \in 1 .. n : todo[w][m].unit = Item(w).unit
              /\ n < Len(todo[w]) => todo[w][n + 1].unit # Item(w).unit
              /\ todo'[w] = SubSeq(todo[w], n + 1, Len(todo[w]))
<1>1. IsList(todo[w]) /\ \A m \in 1 .. Len(todo[w]) : WellFormed(todo[w][m])
  BY DEF TypeInv, Waiting
<1>2. DOMAIN todo[w] = 1 .. Len(todo[w]) /\ Len(todo[w]) \in Nat
  BY <1>1 DEF IsList
<1>3. PICK n \in 1 .. Len(todo[w]) :
        /\ \A m \in 1 .. n : todo[w][m].unit = Item(w).unit
        /\ n < Len(todo[w]) => todo[w][n + 1].unit # Item(w).unit
        /\ todo' = [todo EXCEPT ![w] = SubSeq(@, n + 1, Len(@))]
  BY <1>2 DEF Abort
<1>4. /\ place' = [place EXCEPT ![w] = "base"] /\ DOMAIN todo = Writer
      /\ place \in [Writer -> {"base", "table", "range"}]
  BY DEF Abort, GoTo, TypeInv, TypeOK
<1>5. /\ DOMAIN todo' = Writer /\ todo'[w] = SubSeq(todo[w], n + 1, Len(todo[w]))
      /\ \A o \in Writer : o # w => todo'[o] = todo[o] /\ place'[o] = place[o]
      /\ place'[w] = "base"
  BY <1>3, <1>4
<1>6. /\ IsList(todo'[w]) /\ Len(todo'[w]) = Len(todo[w]) - n
      /\ \A m \in 1 .. Len(todo[w]) - n : todo'[w][m] = todo[w][n + m]
  BY <1>1, <1>5, ListRest
<1>7. ASSUME NEW m \in 1 .. Len(todo'[w]) PROVE WellFormed(todo'[w][m])
  <2>1. m \in 1 .. Len(todo[w]) - n /\ n + m \in 1 .. Len(todo[w])
    BY <1>2, <1>6
  <2> QED
    BY <1>1, <1>6, <2>1
<1> QED
  BY <1>3, <1>4, <1>5, <1>6, <1>7 DEF Waiting

\* What a step of writer w has to keep.
LEMMA TypeBy ==
  ASSUME TypeInv, NEW w \in Writer, TypeOK', Small', DOMAIN before' = Writer,
         \A o \in Writer : o # w => /\ request'[o] = request[o] /\ todo'[o] = todo[o]
                                    /\ place'[o] = place[o],
         Waiting(w)', MidItem(w)'
  PROVE  TypeInv'
<1>1. ASSUME NEW o \in Writer, o # w PROVE Waiting(o)' /\ MidItem(o)'
  BY <1>1 DEF TypeInv, Waiting, MidItem, NextIs, Busy, Item
<1> QED
  BY <1>1 DEF TypeInv

\* A base and a spread of a function's table.
Spreads == [base : 0 .. Wrap - 1, spread : 1 .. TableSize]

LEMMA TableTyped ==
  ASSUME NEW H \in [Host -> [Function -> Spreads]], NEW h \in Host, NEW f \in Function,
         NEW b \in 0 .. Wrap - 1, NEW n \in 1 .. TableSize
  PROVE  /\ [H EXCEPT ![h][f].base = b] \in [Host -> [Function -> Spreads]]
         /\ [H EXCEPT ![h][f].spread = n] \in [Host -> [Function -> Spreads]]
<1>1. \A x \in Spreads : [x EXCEPT !.base = b] \in Spreads /\ [x EXCEPT !.spread = n] \in Spreads
  BY DEF Spreads
<1>2. H[h] \in [Function -> Spreads] /\ H[h][f] \in Spreads
  OBVIOUS
<1>3. [H[h] EXCEPT ![f] = [H[h][f] EXCEPT !.base = b]] \in [Function -> Spreads]
  BY <1>1, <1>2
<1>4. [H[h] EXCEPT ![f] = [H[h][f] EXCEPT !.spread = n]] \in [Function -> Spreads]
  BY <1>1, <1>2
<1>5. [H EXCEPT ![h] = [H[h] EXCEPT ![f] = [H[h][f] EXCEPT !.base = b]]]
        \in [Host -> [Function -> Spreads]]
  BY <1>3
<1>6. [H EXCEPT ![h] = [H[h] EXCEPT ![f] = [H[h][f] EXCEPT !.spread = n]]]
        \in [Host -> [Function -> Spreads]]
  BY <1>4
<1> QED
  BY <1>5, <1>6

LEMMA TypeNext ==
  ASSUME TypeInv, [Next]_vars
  PROVE  TypeInv'
<1> USE DEF registers
<1>t. /\ TypeOK /\ Small /\ DOMAIN before = Writer
      /\ \A w \in Writer : Waiting(w) /\ MidItem(w)
  BY DEF TypeInv
<1>1. ASSUME NEW w \in Writer, Begin(w) PROVE TypeInv'
  <2>1. PICK r \in Request : /\ request' = [request EXCEPT ![w] = r]
                             /\ todo' = [todo EXCEPT ![w] = Items(r)]
    BY <1>1 DEF Begin
  <2>2. /\ ~Busy(w) /\ before' = [before EXCEPT ![w] = registers]
        /\ UNCHANGED <<registers, place, sum, spoilt>>
    BY <1>1 DEF Begin
  <2>3. TypeOK'
    BY <1>t, <2>1, <2>2 DEF TypeOK
  <2>4. todo'[w] = Items(r) /\ place[w] = "base"
    BY <1>t, <2>1, <2>2 DEF TypeOK, MidItem, NextIs
  <2>5. Waiting(w)'
    BY <2>4, ItemsShape DEF Shape, Waiting
  <2>6. \A o \in Writer : o # w => request'[o] = request[o] /\ todo'[o] = todo[o]
                                     /\ place'[o] = place[o]
    BY <1>t, <2>1, <2>2 DEF TypeOK
  <2>7. MidItem(w)'
    BY <2>2, <2>4 DEF MidItem
  <2>8. Small' /\ DOMAIN before' = Writer
    BY <1>t, <2>2 DEF Small
  <2> QED
    BY <2>3, <2>5, <2>6, <2>7, <2>8, TypeBy
<1>2. ASSUME NEW w \in Writer, Refuse(w) PROVE TypeInv'
  <2>1. Abort(w) /\ UNCHANGED <<registers, request, sum, before, spoilt>>
    BY <1>2 DEF Refuse
  <2>2. /\ DOMAIN todo' = Writer /\ place' = [place EXCEPT ![w] = "base"]
        /\ \A o \in Writer : o # w => todo'[o] = todo[o] /\ place'[o] = place[o]
        /\ Waiting(w)' /\ place'[w] = "base"
    BY <2>1, AbortLeaves
  <2>3. TypeOK'
    BY <1>t, <2>1, <2>2 DEF TypeOK
  <2>4. MidItem(w)'
    BY <2>2 DEF MidItem
  <2>5. Small' /\ DOMAIN before' = Writer
    BY <1>t, <2>1 DEF Small
  <2> QED
    BY <2>1, <2>2, <2>3, <2>4, <2>5, TypeBy
<1>3. ASSUME NEW w \in Writer, WriteBase(w) PROVE TypeInv'
  <2> DEFINE i == Item(w)
  <2>1. /\ NextIs(w, "queues") /\ i.func # NoFunction /\ todo[w] # <<>>
        /\ hash' = [hash EXCEPT ![i.host][i.func].base = i.base]
        /\ UNCHANGED <<range, channel, threshold, request, sum, before>>
    BY <1>3 DEF WriteBase, NextIs
  <2>2. i.host \in Host /\ i.func \in Function /\ i.base \in Number
    BY <2>1, ItemFits DEF WellFormed, NextIs
  <2>3. hash' \in [Host -> [Function -> [base : 0 .. Wrap - 1, spread : 1 .. TableSize]]]
    <3>1. hash \in [Host -> [Function -> Spreads]] /\ i.base \in 0 .. Wrap - 1
      BY <1>t, <2>2 DEF TypeOK, Spreads, Number
    <3>2. 1 \in 1 .. TableSize
      BY Sizes
    <3> HIDE DEF i
    <3>3. [hash EXCEPT ![i.host][i.func].base = i.base] \in [Host -> [Function -> Spreads]]
      BY <2>2, <3>1, <3>2, TableTyped
    <3> QED
      BY <2>1, <3>3 DEF Spreads
  <2>4. Small' /\ DOMAIN before' = Writer
    BY <1>t, <2>1 DEF Small
  <2>5. CASE i.num <= TableSize /\ GoTo(w, "table") /\ UNCHANGED <<todo, spoilt>>
    <3>1. /\ place' = [place EXCEPT ![w] = "table"] /\ place'[w] = "table"
          /\ \A o \in Writer : o # w => place'[o] = place[o]
      BY <1>t, <2>5 DEF GoTo, TypeOK
    <3>2. TypeOK'
      BY <1>t, <2>1, <2>3, <2>5, <3>1 DEF TypeOK
    <3>3. Waiting(w)'
      BY <1>t, <2>5 DEF Waiting
    <3>4. MidItem(w)'
      BY <2>1, <2>2, <2>5 DEF MidItem, NextIs, Busy, Item
    <3> QED
      BY <2>1, <2>4, <2>5, <3>1, <3>2, <3>3, <3>4, TypeBy
  <2>6. CASE i.num > TableSize /\ Abort(w) /\ spoilt' = spoilt \cup {<<i.host, i.func>>}
    <3>1. /\ DOMAIN todo' = Writer /\ place' = [place EXCEPT ![w] = "base"]
          /\ \A o \in Writer : o # w => todo'[o] = todo[o] /\ place'[o] = place[o]
          /\ Waiting(w)' /\ place'[w] = "base"
      BY <2>6, AbortLeaves
    <3>2. spoilt' \subseteq Host \X Function
      BY <1>t, <2>2, <2>6 DEF TypeOK
    <3>3. TypeOK'
      BY <1>t, <2>1, <2>3, <3>1, <3>2 DEF TypeOK
    <3>4. MidItem(w)'
      BY <3>1 DEF MidItem
    <3> QED
      BY <2>1, <2>4, <3>1, <3>3, <3>4, TypeBy
  <2> QED
    BY <1>3, <2>5, <2>6 DEF WriteBase
<1>4. ASSUME NEW w \in Writer, WriteTable(w) PROVE TypeInv'
  <2> DEFINE i == Item(w)
             n == IF i.num > 0 THEN i.num ELSE 1
  <2>1. /\ NextIs(w, "queues") /\ place[w] = "table" /\ todo[w] # <<>>
        /\ hash' = [hash EXCEPT ![i.host][i.func].spread = n]
        /\ place' = [place EXCEPT ![w] = "range"]
        /\ UNCHANGED <<range, channel, threshold, request, todo, sum, before, spoilt>>
    BY <1>4 DEF WriteTable, NextIs, GoTo
  <2>2. i.host \in Host /\ i.func \in Function /\ i.num \in Number /\ i.num <= TableSize
    BY <1>t, <2>1, ItemFits DEF WellFormed, NextIs, MidItem
  <2>3. n \in 1 .. TableSize
    <3>1. i.num \in Nat
      BY <2>2, Sizes
    <3> HIDE DEF i
    <3> QED
      BY <2>2, <3>1, Sizes
  <2> HIDE DEF n
  <2>4. hash' \in [Host -> [Function -> [base : 0 .. Wrap - 1, spread : 1 .. TableSize]]]
    <3>1. hash \in [Host -> [Function -> Spreads]]
      BY <1>t DEF TypeOK, Spreads
    <3>2. 0 \in 0 .. Wrap - 1
      BY Sizes
    <3> HIDE DEF i
    <3>3. [hash EXCEPT ![i.host][i.func].spread = n] \in [Host -> [Function -> Spreads]]
      BY <2>2, <2>3, <3>1, <3>2, TableTyped
    <3> QED
      BY <2>1, <3>3 DEF Spreads
  <2>5. TypeOK'
    BY <1>t, <2>1, <2>4 DEF TypeOK
  <2>6. Waiting(w)' /\ Small' /\ DOMAIN before' = Writer
    BY <1>t, <2>1 DEF Waiting, Small
  <2>7. MidItem(w)'
    BY <2>1, <2>2 DEF MidItem, NextIs, Busy, Item
  <2>8. \A o \in Writer : o # w => place'[o] = place[o]
    BY <1>t, <2>1 DEF TypeOK
  <2> QED
    BY <2>1, <2>5, <2>6, <2>7, <2>8, TypeBy
<1>5. ASSUME NEW w \in Writer, WriteRange(w) PROVE TypeInv'
  <2> DEFINE i == Item(w)
             q == [base |-> i.base, num |-> i.num]
  <2>1. /\ NextIs(w, "queues") /\ place[w] = "range" /\ todo[w] # <<>> /\ Done(w)
        /\ range' = [range EXCEPT ![i.host][i.func] = q]
        /\ spoilt' \subseteq spoilt
        /\ place' = [place EXCEPT ![w] = "base"]
        /\ UNCHANGED <<hash, channel, threshold, request, sum, before>>
    BY <1>5 DEF WriteRange, NextIs, GoTo
  <2>2. i.host \in Host /\ i.func \in Function /\ i.base \in Number /\ i.num \in Number
        /\ i.num <= TableSize
    BY <1>t, <2>1, ItemFits DEF WellFormed, NextIs, MidItem
  <2>3. q \in Queues /\ q.num <= TableSize
    BY <2>2 DEF Queues, Number
  <2> HIDE DEF q
  <2>4. range' \in [Host -> [Function -> Queues]] /\ Small'
    BY <1>t, <2>1, <2>2, <2>3 DEF TypeOK, Small
  <2>5. /\ DOMAIN todo' = Writer /\ Waiting(w)'
        /\ \A o \in Writer : o # w => todo'[o] = todo[o]
    BY <2>1, DoneLeaves
  <2>6. TypeOK'
    BY <1>t, <2>1, <2>4, <2>5 DEF TypeOK
  <2>7. /\ MidItem(w)' /\ DOMAIN before' = Writer
        /\ \A o \in Writer : o # w => place'[o] = place[o]
    BY <1>t, <2>1 DEF MidItem, TypeOK
  <2> QED
    BY <2>1, <2>4, <2>5, <2>6, <2>7, TypeBy
<1>6. ASSUME NEW w \in Writer, WriteChannel(w) PROVE TypeInv'
  <2> DEFINE i == Item(w)
             q == [base |-> i.base, num |-> i.num]
  <2>1. /\ NextIs(w, "channel") /\ todo[w] # <<>> /\ Done(w)
        /\ channel' = [channel EXCEPT ![i.host] = q]
        /\ UNCHANGED <<range, hash, threshold, request, place, sum, before, spoilt>>
    BY <1>6 DEF WriteChannel, NextIs
  <2>2. i.host \in Host /\ i.base \in Number /\ i.num \in Number
    BY <2>1, ItemFits DEF WellFormed, NextIs
  <2>3. q \in Queues
    BY <2>2 DEF Queues, Number
  <2> HIDE DEF q
  <2>4. channel' \in [Host -> Queues]
    BY <1>t, <2>1, <2>2, <2>3 DEF TypeOK
  <2>5. /\ DOMAIN todo' = Writer /\ Waiting(w)'
        /\ \A o \in Writer : o # w => todo'[o] = todo[o]
    BY <2>1, DoneLeaves
  <2>6. TypeOK'
    BY <1>t, <2>1, <2>4, <2>5 DEF TypeOK
  <2>7. MidItem(w)' /\ DOMAIN before' = Writer /\ Small'
    BY <1>t, <2>1 DEF MidItem, NextIs, Small
  <2> QED
    BY <2>1, <2>5, <2>6, <2>7, TypeBy
<1>7. ASSUME NEW w \in Writer, AddFunction(w) PROVE TypeInv'
  <2> DEFINE f == sum[w].next
             q == range[Item(w).host][f]
             s == IF q.num = 0 THEN [sum[w] EXCEPT !.next = f + 1]
                  ELSE [next |-> f + 1,
                        base |-> IF q.base < sum[w].base THEN q.base ELSE sum[w].base,
                        num  |-> (sum[w].num + q.num) % Wrap]
  <2>0. w \in DOMAIN sum
    BY <1>t DEF TypeOK
  <2>1. /\ NextIs(w, "sum") /\ todo[w] # <<>> /\ f \in Function
        /\ sum' = [sum EXCEPT ![w] = s]
        /\ UNCHANGED <<registers, request, todo, place, before, spoilt>>
    BY <1>7, <2>0 DEF AddFunction, NextIs
  <2>2. Item(w).host \in Host
    BY <2>1, ItemFits DEF WellFormed, NextIs
  <2>3. q \in Queues
    BY <1>t, <2>1, <2>2 DEF TypeOK
  <2>4. s \in [next : 0 .. NFunctions, base : 0 .. Wrap - 1, num : 0 .. Wrap - 1]
    <3>1. f + 1 \in 0 .. NFunctions
      BY <2>1, Sizes DEF Function
    <3>2. sum[w] \in [next : 0 .. NFunctions, base : 0 .. Wrap - 1, num : 0 .. Wrap - 1]
      BY <1>t DEF TypeOK
    <3>3. q.base \in 0 .. Wrap - 1 /\ q.num \in 0 .. Wrap - 1
      BY <2>3 DEF Queues
    <3>4. (sum[w].num + q.num) % Wrap \in 0 .. Wrap - 1
      <4>1. sum[w].num + q.num \in Int /\ Wrap \in Nat \ {0}
        BY <3>2, <3>3, Sizes
      <4> QED
        BY <4>1, DivMod
    <3> HIDE DEF f, q
    <3> QED
      BY <3>1, <3>2, <3>3, <3>4
  <2> HIDE DEF s
  <2>5. sum' \in [Writer ->
                    [next : 0 .. NFunctions, base : 0 .. Wrap - 1, num : 0 .. Wrap - 1]]
    BY <1>t, <2>1, <2>4 DEF TypeOK
  <2>6. TypeOK'
    BY <1>t, <2>1, <2>5 DEF TypeOK
  <2>7. Waiting(w)' /\ MidItem(w)' /\ DOMAIN before' = Writer /\ Small'
    BY <1>t, <2>1 DEF Waiting, MidItem, NextIs, Busy, Item, Small
  <2> QED
    BY <2>1, <2>6, <2>7, TypeBy
<1>8. ASSUME NEW w \in Writer, WriteSum(w) PROVE TypeInv'
  <2> DEFINE q == [base |-> sum[w].base, num |-> sum[w].num]
  <2>1. /\ NextIs(w, "sum") /\ todo[w] # <<>> /\ Done(w)
        /\ channel' \in {[channel EXCEPT ![Item(w).host] = q], channel}
        /\ sum' = [sum EXCEPT ![w] = NoSum]
        /\ UNCHANGED <<range, hash, threshold, request, place, before, spoilt>>
    BY <1>8 DEF WriteSum, NextIs
  <2>2. Item(w).host \in Host
    BY <2>1, ItemFits DEF WellFormed, NextIs
  <2>3. q \in Queues
    BY <1>t DEF TypeOK, Queues
  <2> HIDE DEF q
  <2>4. channel' \in [Host -> Queues]
    BY <1>t, <2>1, <2>2, <2>3 DEF TypeOK
  <2>5. /\ DOMAIN todo' = Writer /\ Waiting(w)'
        /\ \A o \in Writer : o # w => todo'[o] = todo[o]
    BY <2>1, DoneLeaves
  <2>6. NoSum \in [next : 0 .. NFunctions, base : 0 .. Wrap - 1, num : 0 .. Wrap - 1]
    BY Sizes DEF NoSum
  <2>7. TypeOK'
    BY <1>t, <2>1, <2>4, <2>5, <2>6 DEF TypeOK
  <2>8. MidItem(w)' /\ DOMAIN before' = Writer /\ Small'
    BY <1>t, <2>1 DEF MidItem, NextIs, Small
  <2> QED
    BY <2>1, <2>5, <2>7, <2>8, TypeBy
<1>9. ASSUME NEW w \in Writer, WriteThreshold(w) PROVE TypeInv'
  <2>1. /\ NextIs(w, "threshold") /\ todo[w] # <<>> /\ Done(w)
        /\ threshold' = [threshold EXCEPT ![Item(w).host] = Item(w).value]
        /\ UNCHANGED <<range, hash, channel, request, place, sum, before, spoilt>>
    BY <1>9 DEF WriteThreshold, NextIs
  <2>2. Item(w).host \in Host /\ Item(w).value \in 0 .. Wrap - 1
    BY <2>1, ItemFits DEF WellFormed, NextIs, Number
  <2>3. threshold' \in [Host -> 0 .. Wrap - 1]
    BY <1>t, <2>1, <2>2 DEF TypeOK
  <2>5. /\ DOMAIN todo' = Writer /\ Waiting(w)'
        /\ \A o \in Writer : o # w => todo'[o] = todo[o]
    BY <2>1, DoneLeaves
  <2>6. TypeOK'
    BY <1>t, <2>1, <2>3, <2>5 DEF TypeOK
  <2>7. MidItem(w)' /\ DOMAIN before' = Writer /\ Small'
    BY <1>t, <2>1 DEF MidItem, NextIs, Small
  <2> QED
    BY <2>1, <2>5, <2>6, <2>7, TypeBy
<1>10. ASSUME NEW w \in Writer, Respond(w) PROVE TypeInv'
  <2>1. /\ Busy(w) /\ todo[w] = <<>>
        /\ request' = [request EXCEPT ![w] = Idle]
        /\ before'  = [before EXCEPT ![w] = <<>>]
        /\ UNCHANGED <<registers, todo, place, sum, spoilt>>
    BY <1>10 DEF Respond
  <2>2. TypeOK'
    BY <1>t, <2>1 DEF TypeOK
  <2>3. Waiting(w)' /\ MidItem(w)' /\ DOMAIN before' = Writer /\ Small'
    BY <1>t, <2>1 DEF Waiting, MidItem, NextIs, Small
  <2>4. \A o \in Writer : o # w => request'[o] = request[o]
    BY <1>t, <2>1 DEF TypeOK
  <2> QED
    BY <2>1, <2>2, <2>3, <2>4, TypeBy
<1>11. CASE UNCHANGED vars
  <2>1. TypeOK' /\ Small' /\ DOMAIN before' = Writer
    BY <1>t, <1>11 DEF vars, TypeOK, Small
  <2>2. \A w \in Writer : Waiting(w)' /\ MidItem(w)'
    BY <1>t, <1>11 DEF vars, Waiting, MidItem, NextIs, Busy, Item
  <2> QED
    BY <2>1, <2>2 DEF TypeInv
<1> QED
  BY <1>1, <1>2, <1>3, <1>4, <1>5, <1>6, <1>7, <1>8, <1>9, <1>10, <1>11 DEF Next, Serve

LEMMA TypeInvariant == Spec => []TypeInv
<1>1. TypeInv /\ [Next]_vars => TypeInv'
  BY TypeNext
<1> QED
  BY <1>1, TypeInit, PTL DEF Spec

\* The registers and what the writers keep have their types, whether or not Set
\* RPCs take turns (qdma.c writes a table only with the entries that there are).
THEOREM TypeCorrect == Spec => []TypeOK
<1>1. TypeInv => TypeOK
  BY DEF TypeInv
<1> QED
  BY <1>1, TypeInvariant, PTL

-----------------------------------------------------------------------------
(* The tables of the functions, while Set requests take turns                *)

TurnsTaken == \A w, o \in Writer : Busy(w) /\ Busy(o) => w = o

\* What writer w has written of the item that it is at.
Written(w) ==
  LET i == Item(w) IN
  /\ place[w] # "base" => hash[i.host][i.func].base = i.base
  /\ place[w] = "range" => hash[i.host][i.func].spread = IF i.num > 0 THEN i.num ELSE 1

\* The table of a function is the one for its queues.
Fits(h, f) ==
  range[h][f].num > 0 => /\ hash[h][f].base = range[h][f].base
                         /\ hash[h][f].spread = range[h][f].num

\* A writer is between the table of a function and its queues.
AtWork(h, f) == \E w \in Writer : place[w] # "base" /\ Item(w).host = h /\ Item(w).func = f

Spread == \A h \in Host, f \in Function : Fits(h, f) \/ <<h, f>> \in spoilt \/ AtWork(h, f)

EvenInv == TypeInv /\ TurnsTaken /\ Spread /\ \A w \in Writer : Written(w)

LEMMA TurnsNext ==
  ASSUME Serialized, TypeInv, TurnsTaken, [Next]_vars
  PROVE  TurnsTaken'
<1> USE DEF TurnsTaken, Busy
<1>t. request \in [Writer -> Request \cup {Idle}]
  BY DEF TypeInv, TypeOK
<1>1. ASSUME NEW w \in Writer, Begin(w) PROVE TurnsTaken'
  BY <1>t, <1>1 DEF Begin
<1>2. ASSUME NEW w \in Writer, Respond(w) PROVE TurnsTaken'
  BY <1>t, <1>2 DEF Respond
<1>3. ASSUME NEW w \in Writer,
             \/ Refuse(w) \/ WriteBase(w) \/ WriteTable(w) \/ WriteRange(w) \/ WriteChannel(w)
             \/ AddFunction(w) \/ WriteSum(w) \/ WriteThreshold(w)
      PROVE  TurnsTaken'
  <2>1. request' = request
    BY <1>3 DEF Refuse, WriteBase, WriteTable, WriteRange, WriteChannel, AddFunction,
                WriteSum, WriteThreshold
  <2> QED
    BY <2>1
<1>4. CASE UNCHANGED vars
  BY <1>4 DEF vars
<1> QED
  BY <1>1, <1>2, <1>3, <1>4 DEF Next, Serve

\* Only the writer that is busy is at an item.
LEMMA OneAtWork ==
  ASSUME TypeInv, TurnsTaken, NEW w \in Writer, Busy(w)
  PROVE  \A o \in Writer : o # w => place[o] = "base"
<1>1. \A o \in Writer : o # w => ~Busy(o)
  BY DEF TurnsTaken
<1> QED
  BY <1>1 DEF TypeInv, MidItem, NextIs

\* A step that leaves the tables and the queues alone, and after which its writer
\* is at no item.
LEMMA SpreadKept ==
  ASSUME EvenInv, NEW w \in Writer, Busy(w) \/ \A o \in Writer : ~Busy(o),
         UNCHANGED <<range, hash, spoilt>>, place[w] = "base",
         place' = place
  PROVE  Spread' /\ \A o \in Writer : Written(o)'
<1>1. \A o \in Writer : place[o] = "base"
  BY OneAtWork DEF EvenInv, TypeInv, MidItem, NextIs
<1>2. \A h \in Host, f \in Function : Fits(h, f) \/ <<h, f>> \in spoilt
  BY <1>1 DEF EvenInv, Spread, AtWork
<1>3. \A h \in Host, f \in Function : Fits(h, f)' \/ <<h, f>> \in spoilt'
  BY <1>2 DEF Fits
<1> QED
  BY <1>1, <1>3 DEF Spread, Written

\* The steps of an item that sets the queues of a function.
LEMMA BaseWritten ==
  ASSUME EvenInv, NEW w \in Writer, WriteBase(w)
  PROVE  Spread' /\ \A o \in Writer : Written(o)'
<1> DEFINE i == Item(w)
<1>1. /\ NextIs(w, "queues") /\ i.func # NoFunction /\ todo[w] # <<>> /\ place[w] = "base"
      /\ Busy(w)
      /\ hash' = [hash EXCEPT ![i.host][i.func].base = i.base]
      /\ UNCHANGED <<range, channel, threshold, request, sum, before>>
  BY DEF WriteBase, NextIs
<1>2. i.host \in Host /\ i.func \in Function
  BY <1>1, ItemFits DEF EvenInv, WellFormed, NextIs
<1>3. \A o \in Writer : place[o] = "base"
  BY <1>1, OneAtWork DEF EvenInv
<1>4. \A h \in Host, f \in Function : Fits(h, f) \/ <<h, f>> \in spoilt
  BY <1>3 DEF EvenInv, Spread, AtWork
<1>t. /\ hash \in [Host -> [Function -> Spreads]] /\ place \in [Writer -> {"base", "table", "range"}]
  BY DEF EvenInv, TypeInv, TypeOK, Spreads
<1>5. /\ hash'[i.host][i.func].base = i.base
      /\ \A h \in Host, f \in Function :
           h # i.host \/ f # i.func => hash'[h][f] = hash[h][f]
  <2> HIDE DEF i
  <2> QED
    BY <1>1, <1>2, <1>t DEF Spreads
<1>6. \A h \in Host, f \in Function :
        h # i.host \/ f # i.func => Fits(h, f)' \/ <<h, f>> \in spoilt
  BY <1>1, <1>4, <1>5 DEF Fits
<1>7. CASE i.num <= TableSize /\ GoTo(w, "table") /\ UNCHANGED <<todo, spoilt>>
  <2>1. place'[w] = "table" /\ \A o \in Writer : o # w => place'[o] = "base"
    BY <1>3, <1>7, <1>t DEF GoTo
  <2>2. Item(w)' = i
    BY <1>7 DEF Item
  <2>3. Written(w)'
    BY <1>5, <2>1, <2>2 DEF Written
  <2>4. \A o \in Writer : Written(o)'
    BY <2>1, <2>3 DEF Written
  <2>5. \A h \in Host, f \in Function : h = i.host /\ f = i.func => AtWork(h, f)'
    BY <2>1, <2>2 DEF AtWork
  <2> HIDE DEF i
  <2>6. \A h \in Host, f \in Function :
          Fits(h, f)' \/ <<h, f>> \in spoilt' \/ AtWork(h, f)'
    BY <1>6, <1>7, <2>5
  <2> QED
    BY <2>4, <2>6 DEF Spread
<1>8. CASE i.num > TableSize /\ Abort(w) /\ spoilt' = spoilt \cup {<<i.host, i.func>>}
  <2>1. \A o \in Writer : place'[o] = "base"
    BY <1>3, <1>8, <1>t DEF Abort, GoTo
  <2>2. \A o \in Writer : Written(o)'
    BY <2>1 DEF Written
  <2> HIDE DEF i
  <2>3. \A h \in Host, f \in Function : Fits(h, f)' \/ <<h, f>> \in spoilt'
    BY <1>6, <1>8
  <2> QED
    BY <2>2, <2>3 DEF Spread
<1> QED
  BY <1>7, <1>8 DEF WriteBase

LEMMA TableWritten ==
  ASSUME EvenInv, NEW w \in Writer, WriteTable(w)
  PROVE  Spread' /\ \A o \in Writer : Written(o)'
<1> DEFINE i == Item(w)
           n == IF i.num > 0 THEN i.num ELSE 1
<1>1. /\ NextIs(w, "queues") /\ todo[w] # <<>> /\ place[w] = "table" /\ Busy(w)
      /\ hash' = [hash EXCEPT ![i.host][i.func].spread = n]
      /\ place' = [place EXCEPT ![w] = "range"]
      /\ UNCHANGED <<range, channel, threshold, request, todo, sum, before, spoilt>>
  BY DEF WriteTable, NextIs, GoTo
<1>2. i.host \in Host /\ i.func \in Function
  BY <1>1, ItemFits DEF EvenInv, WellFormed, NextIs, TypeInv, MidItem
<1>3. \A o \in Writer : o # w => place[o] = "base"
  BY <1>1, OneAtWork DEF EvenInv
<1>t. /\ hash \in [Host -> [Function -> Spreads]] /\ place \in [Writer -> {"base", "table", "range"}]
  BY DEF EvenInv, TypeInv, TypeOK, Spreads
<1>4. /\ hash'[i.host][i.func].spread = n
      /\ hash'[i.host][i.func].base = hash[i.host][i.func].base
      /\ \A h \in Host, f \in Function :
           h # i.host \/ f # i.func => hash'[h][f] = hash[h][f]
  <2> HIDE DEF i, n
  <2> QED
    BY <1>1, <1>2, <1>t DEF Spreads
<1>5. hash[i.host][i.func].base = i.base
  BY <1>1 DEF EvenInv, Written
<1>6. place'[w] = "range" /\ \A o \in Writer : o # w => place'[o] = "base"
  BY <1>1, <1>3, <1>t
<1>7. Item(w)' = i
  BY <1>1 DEF Item
<1>8. Written(w)'
  BY <1>4, <1>5, <1>6, <1>7 DEF Written
<1>9. \A o \in Writer : Written(o)'
  BY <1>6, <1>8 DEF Written
<1>10. \A h \in Host, f \in Function : h = i.host /\ f = i.func => AtWork(h, f)'
  BY <1>6, <1>7 DEF AtWork
<1>11. \A h \in Host, f \in Function : AtWork(h, f) => h = i.host /\ f = i.func
  BY <1>3 DEF AtWork
<1> HIDE DEF i, n
<1>12. ASSUME NEW h \in Host, NEW f \in Function, h # i.host \/ f # i.func
       PROVE  Fits(h, f)' \/ <<h, f>> \in spoilt'
  <2>1. Fits(h, f) \/ <<h, f>> \in spoilt
    BY <1>11, <1>12 DEF EvenInv, Spread
  <2>2. hash'[h][f] = hash[h][f]
    BY <1>4, <1>12
  <2> QED
    BY <1>1, <2>1, <2>2 DEF Fits
<1> QED
  BY <1>9, <1>10, <1>12 DEF Spread

LEMMA RangeWritten ==
  ASSUME EvenInv, NEW w \in Writer, WriteRange(w)
  PROVE  Spread' /\ \A o \in Writer : Written(o)'
<1> DEFINE i == Item(w)
           q == [base |-> i.base, num |-> i.num]
<1>1. /\ NextIs(w, "queues") /\ todo[w] # <<>> /\ place[w] = "range" /\ Busy(w)
      /\ range' = [range EXCEPT ![i.host][i.func] = q]
      /\ spoilt' = spoilt \ {<<i.host, i.func>>}
      /\ place' = [place EXCEPT ![w] = "base"]
      /\ UNCHANGED <<hash, channel, threshold, request, sum, before>>
  BY DEF WriteRange, NextIs, GoTo
<1>2. i.host \in Host /\ i.func \in Function
  BY <1>1, ItemFits DEF EvenInv, WellFormed, NextIs, TypeInv, MidItem
<1>3. \A o \in Writer : o # w => place[o] = "base"
  BY <1>1, OneAtWork DEF EvenInv
<1>t. /\ range \in [Host -> [Function -> Queues]] /\ place \in [Writer -> {"base", "table", "range"}]
  BY DEF EvenInv, TypeInv, TypeOK
<1>q. q.base = i.base /\ q.num = i.num
  OBVIOUS
<1>4. /\ range'[i.host][i.func] = q
      /\ \A h \in Host, f \in Function :
           h # i.host \/ f # i.func => range'[h][f] = range[h][f]
  <2> HIDE DEF i, q
  <2> QED
    BY <1>1, <1>2, <1>t
<1>5. /\ hash[i.host][i.func].base = i.base
      /\ hash[i.host][i.func].spread = IF i.num > 0 THEN i.num ELSE 1
  BY <1>1 DEF EvenInv, Written
<1>6. \A o \in Writer : place'[o] = "base"
  BY <1>1, <1>3, <1>t
<1>7. \A o \in Writer : Written(o)'
  BY <1>6 DEF Written
<1>8. \A h \in Host, f \in Function : AtWork(h, f) => h = i.host /\ f = i.func
  BY <1>3 DEF AtWork
<1> HIDE DEF i, q
<1>9. ASSUME NEW h \in Host, NEW f \in Function, h = i.host, f = i.func
      PROVE  Fits(h, f)'
  <2>1. range'[h][f] = q /\ hash' = hash
    BY <1>1, <1>4, <1>9
  <2>2. hash[h][f].base = q.base /\ (q.num > 0 => hash[h][f].spread = q.num)
    BY <1>5, <1>9, <1>q
  <2> QED
    BY <2>1, <2>2 DEF Fits
<1>10. ASSUME NEW h \in Host, NEW f \in Function, h # i.host \/ f # i.func
       PROVE  Fits(h, f)' \/ <<h, f>> \in spoilt'
  <2>1. Fits(h, f) \/ <<h, f>> \in spoilt
    BY <1>8, <1>10 DEF EvenInv, Spread
  <2>2. range'[h][f] = range[h][f]
    BY <1>4, <1>10
  <2>3. <<h, f>> # <<i.host, i.func>>
    BY <1>10
  <2> QED
    BY <1>1, <2>1, <2>2, <2>3 DEF Fits
<1> QED
  BY <1>7, <1>9, <1>10 DEF Spread

LEMMA EvenNext ==
  ASSUME Serialized, EvenInv, [Next]_vars
  PROVE  EvenInv'
<1> USE DEF registers
<1>1. TypeInv' /\ TurnsTaken'
  BY TypeNext, TurnsNext DEF EvenInv
<1>t. /\ place \in [Writer -> {"base", "table", "range"}]
      /\ \A w \in Writer : MidItem(w)
  BY DEF EvenInv, TypeInv, TypeOK
<1>2. ASSUME NEW w \in Writer, Begin(w) PROVE Spread' /\ \A o \in Writer : Written(o)'
  <2>1. place[w] = "base"
    BY <1>t, <1>2 DEF Begin, MidItem, NextIs
  <2> QED
    BY <1>2, <2>1, SpreadKept DEF Begin
<1>3. ASSUME NEW w \in Writer, Refuse(w) PROVE Spread' /\ \A o \in Writer : Written(o)'
  <2>1. place[w] = "base"
    <3>1. Item(w).op = "refused" \/ (Item(w).op = "queues" /\ Item(w).func \notin Function)
      BY <1>3, Sizes DEF Refuse, NoFunction, Function
    <3> QED
      BY <1>t, <3>1 DEF MidItem, NextIs
  <2>2. place' = place
    BY <1>t, <1>3, <2>1 DEF Refuse, Abort, GoTo
  <2> QED
    BY <1>3, <2>1, <2>2, SpreadKept DEF Refuse
<1>4. ASSUME NEW w \in Writer,
             WriteChannel(w) \/ AddFunction(w) \/ WriteSum(w) \/ WriteThreshold(w) \/ Respond(w)
      PROVE  Spread' /\ \A o \in Writer : Written(o)'
  <2>1. Busy(w) /\ UNCHANGED <<range, hash, spoilt, place>>
    BY <1>4 DEF WriteChannel, AddFunction, WriteSum, WriteThreshold, Respond, NextIs
  <2>2. todo[w] = <<>> \/ Item(w).op # "queues"
    BY <1>4 DEF WriteChannel, AddFunction, WriteSum, WriteThreshold, Respond, NextIs
  <2>3. place[w] = "base"
    BY <1>t, <2>2 DEF MidItem, NextIs
  <2> QED
    BY <2>1, <2>3, SpreadKept
<1>5. ASSUME UNCHANGED vars PROVE Spread' /\ \A o \in Writer : Written(o)'
  BY <1>5 DEF EvenInv, vars, Spread, Fits, AtWork, Written, Item
<1>6. Spread' /\ \A o \in Writer : Written(o)'
  BY <1>2, <1>3, <1>4, <1>5, BaseWritten, TableWritten, RangeWritten DEF Next, Serve
<1> QED
  BY <1>1, <1>6 DEF EvenInv

LEMMA EvenInit == Init => EvenInv
<1> SUFFICES ASSUME Init PROVE EvenInv
  OBVIOUS
<1>1. TypeInv /\ TurnsTaken
  BY TypeInit DEF Init, TurnsTaken, Busy
<1>2. \A h \in Host, f \in Function : Fits(h, f)
  BY DEF Init, Fits, NoQueues
<1>3. \A w \in Writer : Written(w)
  BY DEF Init, Written
<1> QED
  BY <1>1, <1>2, <1>3 DEF EvenInv, Spread

LEMMA EvenInvariant == ASSUME Serialized PROVE Spec => []EvenInv
<1>1. EvenInv /\ [Next]_vars => EvenInv'
  BY EvenNext
<1> QED
  BY <1>1, EvenInit, PTL DEF Spec

-----------------------------------------------------------------------------
(* How the entries of a table fall to its queues *)

LEMMA Unique ==
  ASSUME NEW b \in Nat \ {0}, NEW q \in Int, NEW r \in 0 .. b - 1,
         NEW k \in Int, NEW s \in 0 .. b - 1, b * q + r = b * k + s
  PROVE  q = k /\ r = s
OBVIOUS

LEMMA DivModOf ==
  ASSUME NEW b \in Nat \ {0}, NEW q \in Int, NEW r \in 0 .. b - 1
  PROVE  (b * q + r) \div b = q /\ (b * q + r) % b = r
<1> DEFINE a == b * q + r
<1>1. a \in Int
  OBVIOUS
<1>2. a \div b \in Int /\ a % b \in 0 .. b - 1 /\ a = b * (a \div b) + (a % b)
  BY <1>1, DivMod
<1>3. a \div b = q /\ a % b = r
  BY <1>2, Unique
<1> QED
  BY <1>3

LEMMA Positive ==
  ASSUME NEW b \in Nat \ {0}, NEW q \in Int, NEW r \in 0 .. b - 1, b * q + r >= 0
  PROVE  q >= 0
OBVIOUS

LEMMA NextMultiple ==
  ASSUME NEW b \in Nat \ {0}, NEW q \in Int, q >= 0, q # 0
  PROVE  b * (q - 1) = b * q - b /\ b * (q - 1) >= 0
OBVIOUS

\* The entries of which the rest is a, below T.
Residues(T, n, a) == {e \in 0 .. T - 1 : e % n = a}

\* An entry is its rest, or comes a round after one that has another given rest.
LEMMA RoundBefore ==
  ASSUME NEW T \in Nat \ {0}, NEW n \in 1 .. T, NEW a \in 0 .. n - 1, NEW b \in 0 .. n - 1,
         NEW e \in Residues(T, n, a), e # a
  PROVE  e - a + b - n \in Residues(T, n, b)
<1>1. e \in 0 .. T - 1 /\ e % n = a /\ n \in Nat \ {0} /\ e \in Int
  BY DEF Residues
<1> DEFINE q == e \div n
<1>2. q \in Int /\ e = n * q + a
  BY <1>1, DivMod
<1> HIDE DEF q
<1>3. q >= 0
  BY <1>1, <1>2, Positive
<1>4. q # 0
  BY <1>1, <1>2
<1>5. n * (q - 1) = n * q - n /\ n * (q - 1) >= 0
  BY <1>1, <1>2, <1>3, <1>4, NextMultiple
<1>6. n * q \in Int /\ n * (q - 1) \in Int
  BY <1>1, <1>2
<1>7. e - a + b - n = n * (q - 1) + b
  BY <1>1, <1>2, <1>5, <1>6
<1>8. e - a + b - n \in 0 .. T - 1
  <2>1. n * (q - 1) + b >= 0
    BY <1>5, <1>6
  <2>2. e - a + b - n <= e
    BY <1>1
  <2> QED
    BY <1>1, <1>7, <2>1, <2>2
<1>9. (n * (q - 1) + b) % n = b
  <2>1. q - 1 \in Int
    BY <1>2
  <2> QED
    BY <1>1, <2>1, DivModOf
<1> QED
  BY <1>7, <1>8, <1>9 DEF Residues

\* None falls out, and none gets more than another by more than one.
LEMMA EvenShares ==
  ASSUME NEW T \in Nat \ {0}, NEW n \in 1 .. T, NEW a \in 0 .. n - 1, NEW b \in 0 .. n - 1
  PROVE  /\ Cardinality(Residues(T, n, a)) > 0
         /\ Cardinality(Residues(T, n, a)) - Cardinality(Residues(T, n, b)) <= 1
<1> DEFINE A == Residues(T, n, a)
           B == Residues(T, n, b)
           C == A \ {a}
           f == [e \in C |-> e - a + b - n]
<1>1. /\ IsFiniteSet(A) /\ IsFiniteSet(B)
      /\ Cardinality(A) \in Nat /\ Cardinality(B) \in Nat
  <2>1. IsFiniteSet(0 .. T - 1)
    BY FS_Interval
  <2>2. A \subseteq 0 .. T - 1 /\ B \subseteq 0 .. T - 1
    BY DEF Residues
  <2> QED
    BY <2>1, <2>2, FS_Subset, FS_CardinalityType
<1>2. a \in A
  <2>1. n * 0 + a = a /\ a \in 0 .. T - 1 /\ n \in Nat \ {0}
    OBVIOUS
  <2>2. (n * 0 + a) % n = a
    BY <2>1, DivModOf
  <2> QED
    BY <2>1, <2>2 DEF Residues
<1>3. /\ IsFiniteSet(C) /\ Cardinality(C) = Cardinality(A) - 1 /\ Cardinality(C) \in Nat
  <2> HIDE DEF A
  <2>1. IsFiniteSet(A \ {a}) /\ Cardinality(A \ {a}) = Cardinality(A) - 1
    BY <1>1, <1>2, FS_RemoveElement
  <2> QED
    BY <2>1, FS_CardinalityType
<1>4. A \subseteq Int
  BY DEF Residues
<1>5. f \in [C -> B]
  <2>1. \A e \in C : e - a + b - n \in B
    BY RoundBefore
  <2> HIDE DEF B, C
  <2> QED
    BY <2>1
<1>6. \A x, y \in C : f[x] = f[y] => x = y
  <2>1. \A x, y \in Int : x - a + b - n = y - a + b - n => x = y
    OBVIOUS
  <2>2. \A x \in C : x \in Int /\ f[x] = x - a + b - n
    BY <1>4
  <2> HIDE DEF C, f
  <2> QED
    BY <2>1, <2>2
<1>7. f \in Injection(C, B)
  BY <1>5, <1>6 DEF Injection, IsInjective
<1> HIDE DEF f, C
<1>8. Cardinality(C) <= Cardinality(B)
  BY <1>1, <1>7, FS_Injection
<1> HIDE DEF A, B
<1>9. Cardinality(A) > 0 /\ Cardinality(A) - Cardinality(B) <= 1
  BY <1>1, <1>3, <1>8
<1> QED
  BY <1>9 DEF A, B

\* What a table that fits its queues does with the packets.
LEMMA FitSpreads ==
  ASSUME TypeInv, NEW h \in Host, NEW f \in Function, range[h][f].num > 0, Fits(h, f)
  PROVE  /\ \A e \in 0 .. TableSize - 1 : QueueOf(h, f, e) \in Own(h, f)
         /\ \A j, k \in Own(h, f) : Share(h, f, j) > 0 /\ Share(h, f, j) - Share(h, f, k) <= 1
<1> DEFINE b == range[h][f].base
           n == range[h][f].num
<1>1. /\ b \in 0 .. Wrap - 1 /\ n \in 1 .. TableSize /\ n \in Nat \ {0} /\ n < Wrap
      /\ TableSize \in Nat \ {0} /\ Wrap \in Nat
  <2>1. range[h][f] \in Queues
    BY DEF TypeInv, TypeOK
  <2>2. b \in 0 .. Wrap - 1 /\ n \in 0 .. Wrap - 1 /\ n > 0 /\ n <= TableSize
    BY <2>1 DEF Queues, TypeInv, Small
  <2> HIDE DEF b, n
  <2> QED
    BY <2>2, Sizes
<1>2. \A e : QueueOf(h, f, e) = b + (e % n)
  BY DEF QueueOf, Fits
<1>3. Own(h, f) = {q \in 0 .. 2 * Wrap : q >= b /\ q < b + n}
  BY DEF Own
<1> HIDE DEF b, n
<1>4. \A e \in 0 .. TableSize - 1 : e % n \in 0 .. n - 1
  <2>1. \A e \in 0 .. TableSize - 1 : e \in Int
    OBVIOUS
  <2> QED
    BY <1>1, <2>1, DivMod
<1>5. ASSUME NEW e \in 0 .. TableSize - 1 PROVE QueueOf(h, f, e) \in Own(h, f)
  <2>1. \A r \in 0 .. n - 1 : b + r \in 0 .. 2 * Wrap /\ b + r >= b /\ b + r < b + n
    BY <1>1
  <2> QED
    BY <1>2, <1>3, <1>4, <2>1
<1>6. ASSUME NEW j \in Own(h, f)
      PROVE  /\ j - b \in 0 .. n - 1
             /\ Share(h, f, j) = Cardinality(Residues(TableSize, n, j - b))
  <2>1. j \in Int /\ j >= b /\ j < b + n
    BY <1>3
  <2>2. j - b \in 0 .. n - 1
    BY <1>1, <2>1
  <2>3. \A e \in 0 .. TableSize - 1 : b + (e % n) = j <=> e % n = j - b
    <3>1. \A r \in 0 .. n - 1 : b + r = j <=> r = j - b
      BY <1>1, <2>1
    <3> QED
      BY <1>4, <3>1
  <2>4. {e \in 0 .. TableSize - 1 : QueueOf(h, f, e) = j} = Residues(TableSize, n, j - b)
    BY <1>2, <2>3 DEF Residues
  <2> QED
    BY <2>2, <2>4 DEF Share
<1>7. ASSUME NEW j \in Own(h, f), NEW k \in Own(h, f)
      PROVE  Share(h, f, j) > 0 /\ Share(h, f, j) - Share(h, f, k) <= 1
  <2>1. /\ Cardinality(Residues(TableSize, n, j - b)) > 0
        /\ Cardinality(Residues(TableSize, n, j - b))
             - Cardinality(Residues(TableSize, n, k - b)) <= 1
    BY <1>1, <1>6, EvenShares
  <2> QED
    BY <1>6, <2>1
<1> QED
  BY <1>5, <1>7

\* When no Set RPC is at work, the packets of a function go to its queues, to all
\* of them and to each alike (qdma_function_set_queues writes the table before the
\* queues), unless its last request was refused half way.
THEOREM QueuesShareAlike == ASSUME Serialized PROVE Spec => []EvenlySpread
<1>1. ASSUME EvenInv PROVE EvenlySpread
  <2> SUFFICES ASSUME Quiet, NEW h \in Host, NEW f \in Function,
                      range[h][f].num > 0, <<h, f>> \notin spoilt
               PROVE  /\ \A e \in 0 .. TableSize - 1 : QueueOf(h, f, e) \in Own(h, f)
                      /\ \A j, k \in Own(h, f) :
                           Share(h, f, j) > 0 /\ Share(h, f, j) - Share(h, f, k) <= 1
    BY DEF EvenlySpread
  <2>1. \A w \in Writer : place[w] = "base"
    BY <1>1 DEF EvenInv, TypeInv, MidItem, NextIs, Quiet
  <2>2. Fits(h, f)
    BY <1>1, <2>1 DEF EvenInv, Spread, AtWork
  <2> QED
    BY <1>1, <2>2, FitSpreads DEF EvenInv
<1>2. EvenInv => EvenlySpread
  BY <1>1
<1> QED
  BY <1>2, EvenInvariant, PTL

-----------------------------------------------------------------------------
(* What is said up to a place of a list *)

\* What value has said at the last of the places S up to k, or else old.
Upto(S, k) == {n \in S : n <= k}
LastOf(S)  == CHOOSE n \in S : \A m \in S : m <= n
Said(S, k, value, old) == IF Upto(S, k) = {} THEN old ELSE value[LastOf(Upto(S, k))]

\* A set of numbers with a bound has a last one.
LEMMA Greatest ==
  ASSUME NEW k \in Nat, NEW T, T \subseteq 0 .. k, T # {}
  PROVE  LastOf(T) \in T /\ \A m \in T : m <= LastOf(T)
<1> DEFINE R == {k - t : t \in T}
<1>1. R \subseteq Nat /\ R # {}
  <2>1. \A t \in T : k - t \in Nat
    OBVIOUS
  <2>2. R \subseteq Nat
    BY <2>1
  <2>3. PICK t \in T : TRUE
    OBVIOUS
  <2>4. k - t \in R
    OBVIOUS
  <2> HIDE DEF R
  <2> QED
    BY <2>2, <2>4
<1>2. PICK x \in R : \A y \in R : x <= y
  <2> HIDE DEF R
  <2> QED
    BY <1>1, Least
<1>3. PICK t \in T : x = k - t
  BY <1>2
<1>4. ASSUME NEW m \in T PROVE m <= t
  <2>1. k - m \in R
    OBVIOUS
  <2>2. k - t <= k - m
    BY <1>2, <1>3, <2>1
  <2>3. m \in Int /\ t \in Int
    OBVIOUS
  <2> QED
    BY <2>2, <2>3
<1>5. \E n \in T : \A m \in T : m <= n
  BY <1>4
<1> QED
  BY <1>5 DEF LastOf

\* What one more place says.
LEMMA SaidNext ==
  ASSUME NEW k \in Int, NEW S, S \subseteq Int, NEW value, NEW old
  PROVE  Said(S, k + 1, value, old) =
           IF k + 1 \in S THEN value[k + 1] ELSE Said(S, k, value, old)
<1>1. CASE k + 1 \in S
  <2>1. k + 1 \in Upto(S, k + 1) /\ \A m \in Upto(S, k + 1) : m <= k + 1
    BY <1>1 DEF Upto
  <2>2. \A n \in Upto(S, k + 1) :
          (\A m \in Upto(S, k + 1) : m <= n) => n = k + 1
    <3>1. Upto(S, k + 1) \subseteq Int
      BY DEF Upto
    <3> QED
      BY <2>1, <3>1
  <2>3. LastOf(Upto(S, k + 1)) = k + 1
    BY <2>1, <2>2 DEF LastOf
  <2> QED
    BY <1>1, <2>1, <2>3 DEF Said
<1>2. CASE k + 1 \notin S
  <2>1. \A n \in S : n <= k \/ n > k + 1
    BY <1>2
  <2>2. \A n \in S : n <= k + 1 <=> n <= k
    BY <2>1
  <2>3. Upto(S, k + 1) = Upto(S, k)
    BY <2>2 DEF Upto
  <2> QED
    BY <1>2, <2>3 DEF Said
<1> QED
  BY <1>1, <1>2

\* What the places say before the first one.
LEMMA SaidNone ==
  ASSUME NEW N, NEW S, S \subseteq 1 .. N, NEW value, NEW old
  PROVE  Said(S, 0, value, old) = old
<1>1. Upto(S, 0) = {}
  <2>1. \A n \in S : ~(n <= 0)
    OBVIOUS
  <2> QED
    BY <2>1 DEF Upto
<1> QED
  BY <1>1 DEF Said

\* The last place of all.
LEMMA SaidAll ==
  ASSUME NEW N, NEW S, N \in Nat, S \subseteq 1 .. N
  PROVE  /\ Upto(S, N) = S
         /\ S # {} => LastOf(S) \in S /\ \A m \in S : m <= LastOf(S)
<1>1. Upto(S, N) = S
  <2>1. \A n \in S : n <= N
    OBVIOUS
  <2> QED
    BY <2>1 DEF Upto
<1>2. S \subseteq 0 .. N
  OBVIOUS
<1> QED
  BY <1>1, <1>2, Greatest

\* The places of a list.
LEMMA ListDomain ==
  ASSUME NEW q, IsList(q)
  PROVE  Len(q) \in Nat /\ DOMAIN q = 1 .. Len(q) /\ Granted(q) \subseteq 1 .. Len(q)
<1>1. Len(q) \in Nat /\ DOMAIN q = 1 .. Len(q)
  BY DEF IsList
<1> QED
  BY <1>1 DEF Granted

\* Items that are not granted say nothing.
LEMMA NotSaid ==
  ASSUME NEW q, IsList(q), NEW k \in Nat, NEW n \in Nat,
         \A m \in (k + 1) .. (k + n) : m \notin Granted(q),
         NEW S, S \subseteq Granted(q), NEW value, NEW old
  PROVE  Said(S, k + n, value, old) = Said(S, k, value, old)
<1>1. S \subseteq Int
  BY ListDomain
<1>2. \A m \in S : m <= k + n <=> m <= k
  BY <1>1
<1>3. Upto(S, k + n) = Upto(S, k)
  BY <1>2 DEF Upto
<1> QED
  BY <1>3 DEF Said

-----------------------------------------------------------------------------
(* Where a request is, as its items are done or refused *)

\* rest is the end of the list q, of responses none of whose items was refused.
Place(q, rest) ==
  LET past == Len(q) - Len(rest) IN
  /\ IsList(rest)
  /\ Len(rest) <= Len(q)
  /\ \A m \in 1 .. Len(rest) : rest[m] = q[past + m]
  /\ \A n \in 1 .. past : \A m \in 1 .. Len(rest) :
       Refusable(q[n]) => q[n].unit # rest[m].unit

\* A request that begins has all its items before it.
LEMMA PlaceStart ==
  ASSUME NEW q, IsList(q)
  PROVE  Place(q, q) /\ Len(q) - Len(q) = 0
<1>1. Len(q) \in Nat
  BY DEF IsList
<1>2. Len(q) - Len(q) = 0 /\ Len(q) <= Len(q) /\ 1 .. 0 = {}
  BY <1>1
<1>3. \A m \in 1 .. Len(q) : 0 + m = m
  OBVIOUS
<1> QED
  BY <1>2, <1>3 DEF Place

\* One item is done that could not be refused.
LEMMA PlaceDone ==
  ASSUME NEW q, IsList(q), NEW rest, Place(q, rest), rest # <<>>, ~Refusable(Head(rest))
  PROVE  LET k == Len(q) - Len(rest)
         IN  /\ Place(q, Tail(rest))
             /\ Len(q) - Len(Tail(rest)) = k + 1
             /\ k \in Nat /\ k + 1 \in Granted(q) /\ q[k + 1] = Head(rest)
<1> DEFINE k == Len(q) - Len(rest)
           t == Tail(rest)
<1>1. /\ IsList(rest) /\ Len(rest) <= Len(q)
      /\ \A m \in 1 .. Len(rest) : rest[m] = q[k + m]
      /\ \A n \in 1 .. k : \A m \in 1 .. Len(rest) : Refusable(q[n]) => q[n].unit # rest[m].unit
  BY DEF Place
<1>2. /\ Len(rest) \in Nat /\ Len(rest) > 0 /\ Head(rest) = rest[1]
      /\ IsList(t) /\ Len(t) = Len(rest) - 1
      /\ \A m \in 1 .. Len(rest) - 1 : t[m] = rest[m + 1]
  BY <1>1, ListTail
<1>3. Len(q) \in Nat /\ DOMAIN q = 1 .. Len(q)
  BY ListDomain
<1>k. k = Len(q) - Len(rest)
  OBVIOUS
<1> HIDE DEF k, t
<1>4. k \in Nat /\ k + 1 \in 1 .. Len(q) /\ 1 \in 1 .. Len(rest)
      /\ Len(q) - Len(t) = k + 1 /\ Len(t) <= Len(q)
  BY <1>1, <1>2, <1>3, <1>k
<1>5. q[k + 1] = Head(rest) /\ q[k + 1] = rest[1]
  BY <1>1, <1>2, <1>4
<1>6. \A n \in 1 .. k + 1 : n \in 1 .. k \/ n = k + 1
  BY <1>4
<1>7. \A n \in 1 .. k + 1 : q[n].unit = q[k + 1].unit => ~Refusable(q[n])
  BY <1>1, <1>4, <1>5, <1>6
<1>9. k + 1 \in Granted(q)
  BY <1>3, <1>4, <1>7 DEF Granted
<1>10. \A m \in 1 .. Len(t) :
         m + 1 \in 1 .. Len(rest) /\ m \in 1 .. Len(rest) - 1 /\ k + (m + 1) = (k + 1) + m
  BY <1>2, <1>4
<1>11. \A m \in 1 .. Len(t) : t[m] = q[(k + 1) + m]
  BY <1>1, <1>2, <1>10
<1>12. ASSUME NEW n \in 1 .. k + 1, NEW m \in 1 .. Len(t), Refusable(q[n])
       PROVE  q[n].unit # t[m].unit
  <2>1. t[m] = rest[m + 1] /\ m + 1 \in 1 .. Len(rest)
    BY <1>2, <1>10
  <2>2. n # k + 1
    BY <1>5, <1>12
  <2>3. n \in 1 .. k
    BY <1>6, <2>2
  <2> QED
    BY <1>1, <1>12, <2>1, <2>3
<1>14. Place(q, t)
  BY <1>2, <1>4, <1>11, <1>12 DEF Place
<1> QED
  BY <1>4, <1>5, <1>9, <1>14 DEF k, t

\* An item that is refused takes the rest of its unit with it.
LEMMA PlaceRefused ==
  ASSUME NEW q, IsList(q), Grouped(q), NEW rest, Place(q, rest),
         rest # <<>>, Refusable(Head(rest)),
         NEW n \in 1 .. Len(rest), \A m \in 1 .. n : rest[m].unit = Head(rest).unit,
         n < Len(rest) => rest[n + 1].unit # Head(rest).unit
  PROVE  LET k == Len(q) - Len(rest)
             t == SubSeq(rest, n + 1, Len(rest))
         IN  /\ Place(q, t)
             /\ k \in Nat /\ Len(q) - Len(t) = k + n
             /\ \A m \in (k + 1) .. (k + n) : m \notin Granted(q)
<1> DEFINE k == Len(q) - Len(rest)
           t == SubSeq(rest, n + 1, Len(rest))
           u == Head(rest).unit
<1>1. /\ IsList(rest) /\ Len(rest) <= Len(q)
      /\ \A m \in 1 .. Len(rest) : rest[m] = q[k + m]
      /\ \A a \in 1 .. k : \A m \in 1 .. Len(rest) : Refusable(q[a]) => q[a].unit # rest[m].unit
  BY DEF Place
<1>2. Len(rest) \in Nat /\ Len(rest) > 0 /\ Head(rest) = rest[1]
  BY <1>1, ListTail
<1>3. Len(q) \in Nat /\ DOMAIN q = 1 .. Len(q)
  BY ListDomain
<1>4. IsList(t) /\ Len(t) = Len(rest) - n /\ \A m \in 1 .. Len(rest) - n : t[m] = rest[n + m]
  BY <1>1, ListRest
<1>k. k = Len(q) - Len(rest) /\ u = Head(rest).unit
  OBVIOUS
<1> HIDE DEF k, t, u
<1>5. k \in Nat /\ n \in Nat /\ k + 1 \in 1 .. Len(q) /\ 1 \in 1 .. Len(rest)
      /\ Len(q) - Len(t) = k + n /\ Len(t) <= Len(q) /\ k + 1 \in 1 .. k + n
  BY <1>1, <1>2, <1>3, <1>4, <1>k
<1>6. q[k + 1] = Head(rest) /\ q[k + 1].unit = u
  BY <1>1, <1>2, <1>5, <1>k
<1>7. ASSUME NEW m \in (k + 1) .. (k + n) PROVE q[m].unit = u /\ m \in 1 .. Len(q)
  <2>1. m - k \in 1 .. n /\ k + (m - k) = m /\ m - k \in 1 .. Len(rest) /\ m \in 1 .. Len(q)
    BY <1>2, <1>3, <1>5, <1>k
  <2>2. rest[m - k] = q[m]
    BY <1>1, <2>1
  <2>3. rest[m - k].unit = u
    BY <1>k, <2>1
  <2> QED
    BY <2>1, <2>2, <2>3
<1>8. ASSUME NEW m \in (k + 1) .. (k + n) PROVE m \notin Granted(q)
  <2>1. k + 1 \in 1 .. m
    BY <1>5
  <2>2. q[k + 1].unit = q[m].unit /\ Refusable(q[k + 1])
    BY <1>6, <1>7
  <2> QED
    BY <2>1, <2>2 DEF Granted
<1>9. \A a \in 1 .. k + n : a \in 1 .. k \/ a \in (k + 1) .. (k + n)
  BY <1>5
<1>12. ASSUME NEW m \in 1 .. Len(t)
       PROVE  /\ t[m] = q[(k + n) + m] /\ t[m].unit # u
              /\ \A a \in 1 .. k : Refusable(q[a]) => q[a].unit # t[m].unit
  <2>1. /\ n + m \in 1 .. Len(rest) /\ m \in 1 .. Len(rest) - n
        /\ k + (n + m) = (k + n) + m /\ (k + n) + m \in 1 .. Len(q)
        /\ n < Len(rest) /\ n + 1 \in 1 .. Len(rest)
        /\ k + (n + 1) \in 1 .. Len(q) /\ k + 1 <= k + (n + 1)
        /\ k + (n + 1) <= (k + n) + m
    BY <1>2, <1>3, <1>4, <1>5, <1>k
  <2>2. t[m] = q[(k + n) + m] /\ t[m] = rest[n + m]
    BY <1>1, <1>4, <2>1
  <2>3. rest[n + 1] = q[k + (n + 1)]
    BY <1>1, <2>1
  <2>4. q[k + (n + 1)].unit # u
    BY <1>k, <2>1, <2>3
  <2>5. q[(k + n) + m].unit # u
    <3>1. q[(k + n) + m].unit = q[k + 1].unit => q[k + (n + 1)].unit = q[k + 1].unit
      BY <1>5, <2>1 DEF Grouped
    <3> QED
      BY <1>6, <2>4, <3>1
  <2>6. \A a \in 1 .. k : Refusable(q[a]) => q[a].unit # t[m].unit
    BY <1>1, <2>1, <2>2
  <2> QED
    BY <2>2, <2>5, <2>6
<1>13. \A a \in 1 .. k + n : \A m \in 1 .. Len(t) : Refusable(q[a]) => q[a].unit # t[m].unit
  BY <1>7, <1>9, <1>12
<1>14. Place(q, t)
  BY <1>4, <1>5, <1>12, <1>13 DEF Place
<1> QED
  BY <1>5, <1>8, <1>14 DEF k, t

-----------------------------------------------------------------------------
(* The sum of the queues of a host's functions *)

\* The function in the definition of Sums is there.
LEMMA SumsSteps ==
  ASSUME NEW queues
  PROVE  /\ Sums(queues)[0] = 0
         /\ \A n \in 1 .. NFunctions : Sums(queues)[n] = Sums(queues)[n - 1] + queues[n - 1].num
<1> DEFINE Body(g, k) == [n \in 0 .. k |-> IF n = 0 THEN 0 ELSE g[n - 1] + queues[n - 1].num]
           T == {k \in 0 .. NFunctions : \E g : g = Body(g, k)}
<1>n. NFunctions \in Nat
  BY HostConfigAssumption
<1>1. 0 \in T
  <2> DEFINE g == [n \in {0} |-> 0]
  <2>1. 0 .. 0 = {0}
    OBVIOUS
  <2>2. g = [n \in 0 .. 0 |-> IF n = 0 THEN 0 ELSE g[n - 1] + queues[n - 1].num]
    <3>1. \A n \in 0 .. 0 : n = 0
      BY <2>1
    <3>2. [n \in 0 .. 0 |-> IF n = 0 THEN 0 ELSE g[n - 1] + queues[n - 1].num]
            = [n \in 0 .. 0 |-> 0]
      BY <3>1, Zenon
    <3> QED
      BY <2>1, <3>2
  <2>3. \E u : u = Body(u, 0)
    BY <2>2
  <2> QED
    BY <1>n, <2>3
<1>2. ASSUME NEW k \in 0 .. NFunctions - 1, k \in T PROVE k + 1 \in T
  <2>1. PICK g : g = Body(g, k)
    BY <1>2
  <2> DEFINE h == [n \in 0 .. k + 1 |-> IF n = k + 1 THEN g[k] + queues[k].num ELSE g[n]]
  <2>2. \A n \in 0 .. k : h[n] = g[n]
    BY <1>n
  <2>3. ASSUME NEW n \in 0 .. k + 1
        PROVE  h[n] = IF n = 0 THEN 0 ELSE h[n - 1] + queues[n - 1].num
    <3>1. CASE n = k + 1
      <4>1. n # 0 /\ n - 1 = k /\ k \in 0 .. k
        BY <3>1, <1>n
      <4>2. h[n] = g[k] + queues[k].num
        BY <3>1
      <4>3. h[k] = g[k]
        BY <2>2, <4>1
      <4> HIDE DEF h
      <4> QED
        BY <4>1, <4>2, <4>3
    <3>2. CASE n # k + 1
      <4>1. n \in 0 .. k
        BY <3>2, <1>n
      <4>2. h[n] = g[n] /\ g[n] = IF n = 0 THEN 0 ELSE g[n - 1] + queues[n - 1].num
        BY <2>1, <2>2, <4>1
      <4>3. n # 0 => n - 1 \in 0 .. k
        BY <4>1, <1>n
      <4>4. n # 0 => h[n - 1] = g[n - 1]
        BY <2>2, <4>3
      <4> HIDE DEF h
      <4> QED
        BY <4>2, <4>4
    <3> QED
      BY <3>1, <3>2
  <2>4. h = [n \in 0 .. k + 1 |-> h[n]]
    OBVIOUS
  <2>5. h = Body(h, k + 1)
    <3> HIDE DEF h
    <3> QED
      BY <2>3, <2>4
  <2>6. k + 1 \in 0 .. NFunctions
    BY <1>n
  <2> HIDE DEF h
  <2> QED
    BY <2>5, <2>6
<1>3. NFunctions \in T
  <2> HIDE DEF T
  <2>1. \A n \in 0 .. NFunctions : n \in T
    BY <1>n, <1>1, <1>2, UpTo
  <2> QED
    BY <1>n, <2>1
<1>4. \E g : g = Body(g, NFunctions)
  BY <1>3
<1> DEFINE g == CHOOSE u : u = Body(u, NFunctions)
<1>5. g = Body(g, NFunctions)
  BY <1>4
<1>6. Sums(queues) = g
  BY DEF Sums
<1> HIDE DEF g
<1>7. g[0] = 0
  BY <1>n, <1>5
<1>8. \A n \in 1 .. NFunctions : g[n] = g[n - 1] + queues[n - 1].num
  <2>1. \A n \in 1 .. NFunctions : n \in 0 .. NFunctions /\ n # 0
    BY <1>n
  <2>2. \A n \in 0 .. NFunctions : g[n] = IF n = 0 THEN 0 ELSE g[n - 1] + queues[n - 1].num
    BY <1>5, Zenon
  <2> QED
    BY <2>1, <2>2, Zenon
<1> QED
  BY <1>6, <1>7, <1>8

Used(queues) == {f \in Function : queues[f].num > 0}

\* The channel c has as many queues as the functions, and begins with their first.
Covers(c, queues) ==
  /\ c.num = Sums(queues)[NFunctions]
  /\ \A f \in Used(queues) : c.base <= queues[f].base
  /\ \E f \in Used(queues) : c.base = queues[f].base

\* s is what a writer has that has added up the first s.next functions.
AddedUp(s, queues) ==
  /\ s.next \in 0 .. NFunctions
  /\ s.num = Sums(queues)[s.next]
  /\ \A f \in Used(queues) : f < s.next => s.base <= queues[f].base
  /\ IF s.num = 0 THEN s.base = Wrap - 1 /\ \A f \in Used(queues) : ~(f < s.next)
     ELSE \E f \in Used(queues) : f < s.next /\ s.base = queues[f].base

\* The queues of a host's functions, as the registers may have them.
Ranges == {queues \in [Function -> Queues] : \A f \in Function : queues[f].num <= TableSize}

LEMMA RangesOf == ASSUME TypeInv, NEW h \in Host PROVE range[h] \in Ranges
  BY DEF TypeInv, TypeOK, Small, Ranges

\* No sum of them wraps.
LEMMA SumsBound ==
  ASSUME NEW queues \in Ranges, NEW n \in 0 .. NFunctions
  PROVE  Sums(queues)[n] \in Nat /\ Sums(queues)[n] < Wrap
<1> DEFINE S == Sums(queues)
           T == {k \in 0 .. NFunctions : S[k] \in 0 .. k * TableSize}
<1>s. /\ S[0] = 0 /\ \A k \in 1 .. NFunctions : S[k] = S[k - 1] + queues[k - 1].num
  BY SumsSteps
<1>q. \A f \in Function : queues[f].num \in 0 .. TableSize
  <2>1. \A f \in Function : queues[f] \in Queues /\ queues[f].num <= TableSize
    BY DEF Ranges
  <2>2. \A f \in Function : queues[f].num \in Nat
    BY <2>1, Sizes DEF Queues, Number
  <2> QED
    BY <2>1, <2>2, Sizes
<1> HIDE DEF S
<1>1. 0 \in T
  <2>1. 0 * TableSize = 0
    BY Sizes
  <2> QED
    BY <1>s, <2>1, Sizes
<1>2. ASSUME NEW k \in 0 .. NFunctions - 1, k \in T PROVE k + 1 \in T
  <2>1. k + 1 \in 1 .. NFunctions /\ (k + 1) - 1 = k /\ k \in Function /\ k \in Nat
        /\ k + 1 \in 0 .. NFunctions
    BY Sizes DEF Function
  <2>2. S[k + 1] = S[k] + queues[k].num
    BY <1>s, <2>1
  <2>3. S[k] \in 0 .. k * TableSize /\ queues[k].num \in 0 .. TableSize
    BY <1>2, <1>q, <2>1
  <2>4. (k + 1) * TableSize = k * TableSize + TableSize /\ k * TableSize \in Nat
    BY <2>1, Sizes
  <2>5. S[k + 1] \in 0 .. (k + 1) * TableSize
    <3> DEFINE x == k * TableSize
               y == (k + 1) * TableSize
    <3>1. x \in Nat /\ y = x + TableSize /\ S[k] \in 0 .. x
      BY <2>3, <2>4
    <3> HIDE DEF x, y
    <3>2. S[k + 1] \in 0 .. y
      BY <2>2, <2>3, <3>1, Sizes
    <3> QED
      BY <3>2 DEF y
  <2> QED
    BY <2>1, <2>5
<1> HIDE DEF T
<1>3. \A k \in 0 .. NFunctions : k \in T
  BY <1>1, <1>2, Sizes, UpTo
<1>4. S[n] \in 0 .. n * TableSize
  BY <1>3 DEF T
<1>5. n * TableSize <= NFunctions * TableSize /\ n * TableSize \in Nat
  BY Sizes
<1>6. S[n] \in Nat /\ S[n] < Wrap
  <2> DEFINE x == n * TableSize
             y == NFunctions * TableSize
  <2>1. x \in Nat /\ x <= y /\ y < Wrap /\ y \in Nat /\ S[n] \in 0 .. x
    BY <1>4, <1>5, Sizes
  <2> HIDE DEF x, y
  <2> QED
    BY <2>1, Sizes
<1> QED
  BY <1>6 DEF S

\* Before the first function nothing is added up.
LEMMA NothingAdded == ASSUME NEW queues PROVE AddedUp(NoSum, queues)
<1>1. Sums(queues)[0] = 0
  BY SumsSteps
<1>2. \A f \in Used(queues) : ~(f < 0)
  BY Sizes DEF Used, Function
<1> QED
  BY <1>1, <1>2, Sizes DEF NoSum, AddedUp

LEMMA SmallRest == ASSUME NEW b \in Nat \ {0}, NEW x \in 0 .. b - 1 PROVE x % b = x
<1>1. b * 0 + x = x
  OBVIOUS
<1>2. (b * 0 + x) % b = x
  BY DivModOf
<1> QED
  BY <1>1, <1>2

\* One more function is added.
LEMMA OneAdded ==
  ASSUME NEW queues \in Ranges, NEW s, AddedUp(s, queues), s.next \in Function,
         s.base \in Number, NEW t,
         queues[s.next].num = 0 => t.next = s.next + 1 /\ t.base = s.base /\ t.num = s.num,
         queues[s.next].num # 0 =>
           /\ t.next = s.next + 1
           /\ t.base = IF queues[s.next].base < s.base THEN queues[s.next].base ELSE s.base
           /\ t.num = (s.num + queues[s.next].num) % Wrap
  PROVE  AddedUp(t, queues)
<1> DEFINE n == s.next
           q == queues[n]
<1>1. /\ n \in Nat /\ n < NFunctions /\ n + 1 \in 1 .. NFunctions /\ (n + 1) - 1 = n
      /\ n \in 0 .. NFunctions /\ n + 1 \in 0 .. NFunctions
  BY Sizes DEF Function
<1>2. Sums(queues)[n + 1] = s.num + q.num
  BY <1>1, SumsSteps DEF AddedUp
<1>3. q.num \in Nat /\ q.base \in Number /\ s.num \in Nat
  <2>1. q \in Queues
    BY DEF Ranges
  <2>2. s.num \in Nat
    BY <1>1, SumsBound DEF AddedUp
  <2> QED
    BY <2>1, <2>2, Sizes DEF Queues, Number
<1>4. (s.num + q.num) % Wrap = s.num + q.num
  <2>1. s.num + q.num \in Nat /\ s.num + q.num < Wrap
    BY <1>1, <1>2, SumsBound
  <2>2. s.num + q.num \in 0 .. Wrap - 1 /\ Wrap \in Nat \ {0}
    BY <2>1, Sizes
  <2> QED
    BY <2>2, SmallRest
<1>5. t.next = n + 1 /\ t.num = s.num + q.num
  BY <1>3, <1>4
<1>6. \A f \in Used(queues) : f < n + 1 => f < n \/ f = n
  BY <1>1, Sizes DEF Used, Function
<1>7. \A f \in Used(queues) : queues[f].base \in Int
  BY Sizes DEF Used, Ranges, Queues, Number
<1>8. \A f \in Used(queues) : f < n => s.base <= queues[f].base /\ f < n + 1
  BY <1>1, Sizes DEF AddedUp, Used, Function
<1>i. s.base \in Int /\ q.base \in Int /\ s.base <= Wrap - 1 /\ q.base <= Wrap - 1
  BY <1>3, Sizes DEF Number
<1>9. CASE q.num = 0
  <2>1. t.base = s.base /\ t.num = s.num /\ n \notin Used(queues)
    BY <1>3, <1>9 DEF Used
  <2>2. \A f \in Used(queues) : f < n + 1 => f < n
    BY <1>6, <2>1
  <2> QED
    BY <1>1, <1>2, <1>5, <1>8, <2>1, <2>2 DEF AddedUp
<1>10. CASE q.num # 0
  <2>1. n \in Used(queues) /\ t.num # 0
    BY <1>3, <1>5, <1>10 DEF Used
  <2>2. t.base = IF q.base < s.base THEN q.base ELSE s.base
    BY <1>10
  <2>3. t.base <= s.base /\ t.base <= q.base
    BY <1>i, <2>2
  <2>4. \A f \in Used(queues) : f < n + 1 => t.base <= queues[f].base
    <3>1. \A f \in Used(queues) : f < n => t.base <= queues[f].base
      BY <1>7, <1>8, <1>i, <2>2, <2>3
    <3> QED
      BY <1>6, <2>3, <3>1
  <2>5. \E f \in Used(queues) : f < n + 1 /\ t.base = queues[f].base
    <3>1. CASE q.base < s.base
      BY <1>1, <2>1, <2>2, <3>1
    <3>2. CASE ~(q.base < s.base) /\ s.num = 0
      <4>1. s.base = Wrap - 1
        BY <3>2 DEF AddedUp
      <4>2. q.base = s.base
        BY <1>i, <3>2, <4>1, Sizes
      <4> QED
        BY <1>1, <2>1, <2>2, <3>2, <4>2
    <3>3. CASE ~(q.base < s.base) /\ s.num # 0
      <4>1. PICK f \in Used(queues) : f < n /\ s.base = queues[f].base
        BY <3>3 DEF AddedUp
      <4> QED
        BY <1>8, <2>2, <3>3, <4>1
    <3> QED
      BY <3>1, <3>2, <3>3
  <2> QED
    BY <1>1, <1>2, <1>5, <2>1, <2>4, <2>5 DEF AddedUp
<1> QED
  BY <1>9, <1>10

\* All functions are added up.
LEMMA AllAdded ==
  ASSUME NEW queues \in Ranges, NEW s, AddedUp(s, queues), s.next = NFunctions
  PROVE  /\ s.num \in Nat
         /\ s.num > 0 => /\ Used(queues) # {}
                         /\ Covers([base |-> s.base, num |-> s.num], queues)
         /\ ~(s.num > 0) => Used(queues) = {}
<1>1. \A f \in Used(queues) : f < NFunctions
  BY Sizes DEF Used, Function
<1>2. s.num = Sums(queues)[NFunctions] /\ s.num \in Nat
  <2>1. NFunctions \in 0 .. NFunctions
    BY Sizes
  <2> QED
    BY <2>1, SumsBound DEF AddedUp
<1>3. CASE s.num = 0
  BY <1>1, <1>3 DEF AddedUp
<1>4. CASE s.num # 0
  BY <1>1, <1>2, <1>4 DEF AddedUp, Covers
<1> QED
  BY <1>2, <1>3, <1>4


-----------------------------------------------------------------------------
(* What the items of a request say of the registers *)

RangeAt(q, h, f) ==
  {n \in Granted(q) : q[n].op = "queues" /\ q[n].host = h /\ q[n].func = f}
ChannelAt(q, h)   == {n \in Granted(q) : q[n].op = "channel" /\ q[n].host = h}
ThresholdAt(q, h) == {n \in Granted(q) : q[n].op = "threshold" /\ q[n].host = h}
SumAt(q, h)       == {n \in Granted(q) : q[n].op = "sum" /\ q[n].host = h}
Summed(q, h, k)   == \E n \in SumAt(q, h) : n <= k

QueuesOf(q) == [n \in DOMAIN q |-> [base |-> q[n].base, num |-> q[n].num]]
ValueOf(q)  == [n \in DOMAIN q |-> q[n].value]

\* Item i, after the first k of q, says what it is about and leaves the rest.
OneMore(q, k, i) ==
  /\ \A h, f, old :
       Said(RangeAt(q, h, f), k + 1, QueuesOf(q), old) =
         IF i.op = "queues" /\ i.host = h /\ i.func = f
         THEN [base |-> i.base, num |-> i.num]
         ELSE Said(RangeAt(q, h, f), k, QueuesOf(q), old)
  /\ \A h, old :
       Said(ChannelAt(q, h), k + 1, QueuesOf(q), old) =
         IF i.op = "channel" /\ i.host = h
         THEN [base |-> i.base, num |-> i.num]
         ELSE Said(ChannelAt(q, h), k, QueuesOf(q), old)
  /\ \A h, old :
       Said(ThresholdAt(q, h), k + 1, ValueOf(q), old) =
         IF i.op = "threshold" /\ i.host = h THEN i.value
         ELSE Said(ThresholdAt(q, h), k, ValueOf(q), old)
  /\ \A h : Summed(q, h, k + 1) <=> Summed(q, h, k) \/ (i.op = "sum" /\ i.host = h)

LEMMA OneOn ==
  ASSUME NEW q, IsList(q), NEW k \in Nat, k + 1 \in Granted(q), NEW i, q[k + 1] = i
  PROVE  OneMore(q, k, i)
<1>1. Granted(q) \subseteq Int /\ k + 1 \in DOMAIN q /\ k \in Int
  <2>1. Granted(q) \subseteq 1 .. Len(q) /\ DOMAIN q = 1 .. Len(q)
    BY ListDomain
  <2> QED
    BY <2>1
<1>2. QueuesOf(q)[k + 1] = [base |-> i.base, num |-> i.num]
  BY <1>1 DEF QueuesOf
<1>3. ValueOf(q)[k + 1] = i.value
  BY <1>1 DEF ValueOf
<1>4. ASSUME NEW h, NEW f, NEW old
      PROVE  Said(RangeAt(q, h, f), k + 1, QueuesOf(q), old) =
               IF i.op = "queues" /\ i.host = h /\ i.func = f
               THEN [base |-> i.base, num |-> i.num]
               ELSE Said(RangeAt(q, h, f), k, QueuesOf(q), old)
  <2>1. RangeAt(q, h, f) \subseteq Int
    BY <1>1 DEF RangeAt
  <2>2. k + 1 \in RangeAt(q, h, f) <=> i.op = "queues" /\ i.host = h /\ i.func = f
    BY DEF RangeAt
  <2> QED
    BY <1>1, <1>2, <2>1, <2>2, SaidNext
<1>5. ASSUME NEW h, NEW old
      PROVE  Said(ChannelAt(q, h), k + 1, QueuesOf(q), old) =
               IF i.op = "channel" /\ i.host = h
               THEN [base |-> i.base, num |-> i.num]
               ELSE Said(ChannelAt(q, h), k, QueuesOf(q), old)
  <2>1. ChannelAt(q, h) \subseteq Int
    BY <1>1 DEF ChannelAt
  <2>2. k + 1 \in ChannelAt(q, h) <=> i.op = "channel" /\ i.host = h
    BY DEF ChannelAt
  <2> QED
    BY <1>1, <1>2, <2>1, <2>2, SaidNext
<1>6. ASSUME NEW h, NEW old
      PROVE  Said(ThresholdAt(q, h), k + 1, ValueOf(q), old) =
               IF i.op = "threshold" /\ i.host = h THEN i.value
               ELSE Said(ThresholdAt(q, h), k, ValueOf(q), old)
  <2>1. ThresholdAt(q, h) \subseteq Int
    BY <1>1 DEF ThresholdAt
  <2>2. k + 1 \in ThresholdAt(q, h) <=> i.op = "threshold" /\ i.host = h
    BY DEF ThresholdAt
  <2> QED
    BY <1>1, <1>3, <2>1, <2>2, SaidNext
<1>7. ASSUME NEW h
      PROVE  Summed(q, h, k + 1) <=> Summed(q, h, k) \/ (i.op = "sum" /\ i.host = h)
  <2>1. k + 1 \in SumAt(q, h) <=> i.op = "sum" /\ i.host = h
    BY DEF SumAt
  <2>2. \A n \in SumAt(q, h) : n \in Int
    BY <1>1 DEF SumAt
  <2>3. \A n \in SumAt(q, h) : n <= k + 1 <=> n <= k \/ n = k + 1
    BY <2>2
  <2>4. k + 1 <= k + 1
    OBVIOUS
  <2> QED
    BY <2>1, <2>3, <2>4, Zenon DEF Summed
<1> QED
  BY <1>4, <1>5, <1>6, <1>7 DEF OneMore

\* Items that are refused say nothing.
LEMMA NoneOn ==
  ASSUME NEW q, IsList(q), NEW k \in Nat, NEW n \in Nat,
         \A m \in (k + 1) .. (k + n) : m \notin Granted(q)
  PROVE  /\ \A h, f, old : Said(RangeAt(q, h, f), k + n, QueuesOf(q), old) =
                           Said(RangeAt(q, h, f), k, QueuesOf(q), old)
         /\ \A h, old : Said(ChannelAt(q, h), k + n, QueuesOf(q), old) =
                        Said(ChannelAt(q, h), k, QueuesOf(q), old)
         /\ \A h, old : Said(ThresholdAt(q, h), k + n, ValueOf(q), old) =
                        Said(ThresholdAt(q, h), k, ValueOf(q), old)
         /\ \A h : Summed(q, h, k + n) <=> Summed(q, h, k)
<1>1. \A h, f : RangeAt(q, h, f) \subseteq Granted(q)
  BY DEF RangeAt
<1>2. \A h : ChannelAt(q, h) \subseteq Granted(q)
  BY DEF ChannelAt
<1>3. \A h : ThresholdAt(q, h) \subseteq Granted(q)
  BY DEF ThresholdAt
<1>4. ASSUME NEW h PROVE Summed(q, h, k + n) <=> Summed(q, h, k)
  <2>1. Granted(q) \subseteq Int
    BY ListDomain
  <2>2. \A m \in SumAt(q, h) : m \in Int /\ m \in Granted(q)
    BY <2>1 DEF SumAt
  <2>3. \A m \in SumAt(q, h) : m <= k + n <=> m <= k
    BY <2>2
  <2> QED
    BY <2>3 DEF Summed
<1>5. \A h, f, old : Said(RangeAt(q, h, f), k + n, QueuesOf(q), old) =
                     Said(RangeAt(q, h, f), k, QueuesOf(q), old)
  BY <1>1, NotSaid
<1>6. \A h, old : Said(ChannelAt(q, h), k + n, QueuesOf(q), old) =
                  Said(ChannelAt(q, h), k, QueuesOf(q), old)
  BY <1>2, NotSaid
<1>7. \A h, old : Said(ThresholdAt(q, h), k + n, ValueOf(q), old) =
                  Said(ThresholdAt(q, h), k, ValueOf(q), old)
  BY <1>3, NotSaid
<1> QED
  BY <1>4, <1>5, <1>6, <1>7

\* Before a list says anything.
LEMMA NothingOn ==
  ASSUME NEW q, IsList(q)
  PROVE  /\ \A h, f, old : Said(RangeAt(q, h, f), 0, QueuesOf(q), old) = old
         /\ \A h, old : Said(ChannelAt(q, h), 0, QueuesOf(q), old) = old
         /\ \A h, old : Said(ThresholdAt(q, h), 0, ValueOf(q), old) = old
         /\ \A h : ~Summed(q, h, 0)
<1>1. Len(q) \in Nat /\ Granted(q) \subseteq 1 .. Len(q)
  BY ListDomain
<1>2. \A h, f : RangeAt(q, h, f) \subseteq 1 .. Len(q)
  BY <1>1 DEF RangeAt
<1>3. \A h : ChannelAt(q, h) \subseteq 1 .. Len(q)
  BY <1>1 DEF ChannelAt
<1>4. \A h : ThresholdAt(q, h) \subseteq 1 .. Len(q)
  BY <1>1 DEF ThresholdAt
<1>5. \A h : ~Summed(q, h, 0)
  <2>1. \A n \in Granted(q) : ~(n <= 0)
    BY <1>1
  <2> QED
    BY <2>1 DEF Summed, SumAt
<1> QED
  BY <1>2, <1>3, <1>4, <1>5, SaidNone

-----------------------------------------------------------------------------
(* The registers as the request of the writer at work has left them *)

Past(w)    == Len(Items(request[w])) - Len(todo[w])
InPlace(w) == Place(Items(request[w]), todo[w])

RangeInEffect(w) ==
  LET q == Items(request[w]) IN
  \A h \in Host, f \in Function :
    range[h][f] = Said(RangeAt(q, h, f), Past(w), QueuesOf(q), before[w][1][h][f])

ThresholdInEffect(w) ==
  LET q == Items(request[w]) IN
  \A h \in Host :
    threshold[h] = Said(ThresholdAt(q, h), Past(w), ValueOf(q), before[w][4][h])

\* A channel that was summed up covers its functions; any other is as it was said.
ChannelInEffect(w) ==
  LET q == Items(request[w]) IN
  \A h \in Host :
    IF Summed(q, h, Past(w)) /\ Used(range[h]) # {} THEN Covers(channel[h], range[h])
    ELSE channel[h] = Said(ChannelAt(q, h), Past(w), QueuesOf(q), before[w][3][h])

\* A writer that is at a sum has added up the first functions.
SumRight(w) ==
  IF NextIs(w, "sum") THEN AddedUp(sum[w], range[Item(w).host]) ELSE sum[w] = NoSum

EffectInv ==
  /\ TypeInv /\ TurnsTaken
  /\ \A w \in Writer :
       /\ Busy(w) => InPlace(w) /\ RangeInEffect(w) /\ ThresholdInEffect(w)
                     /\ ChannelInEffect(w)
       /\ SumRight(w)

\* The request that a writer serves.
LEMMA TheRequest ==
  ASSUME TypeInv, NEW w \in Writer, Busy(w)
  PROVE  request[w] \in Request /\ IsList(Items(request[w])) /\ Shape(Items(request[w]))
<1>1. request[w] \in Request
  BY DEF TypeInv, TypeOK, Busy
<1> QED
  BY <1>1, ItemsShape DEF Shape

\* The other writers are idle.
LEMMA EffectBy ==
  ASSUME EffectInv, TypeInv', TurnsTaken', NEW w \in Writer,
         \A o \in Writer : o # w => ~Busy(o) /\ ~Busy(o)' /\ sum'[o] = sum[o],
         Busy(w)' => InPlace(w)' /\ RangeInEffect(w)' /\ ThresholdInEffect(w)'
                     /\ ChannelInEffect(w)',
         SumRight(w)'
  PROVE  EffectInv'
<1>1. ASSUME NEW o \in Writer, o # w PROVE ~Busy(o)' /\ SumRight(o)'
  <2>1. sum[o] = NoSum
    BY <1>1 DEF EffectInv, SumRight, NextIs
  <2> QED
    BY <1>1, <2>1 DEF SumRight, NextIs
<1> QED
  BY <1>1 DEF EffectInv


\* An item is done that could not be refused.
LEMMA ItemDone ==
  ASSUME EffectInv, NEW w \in Writer, Busy(w), todo[w] # <<>>, ~Refusable(Item(w)),
         Done(w), request' = request, before' = before
  PROVE  /\ InPlace(w)' /\ Past(w)' = Past(w) + 1 /\ Past(w) \in Nat
         /\ Past(w) + 1 \in Granted(Items(request[w]))
         /\ Items(request[w])[Past(w) + 1] = Item(w)
<1>1. IsList(Items(request[w])) /\ Place(Items(request[w]), todo[w])
  BY TheRequest DEF EffectInv, InPlace
<1>2. todo'[w] = Tail(todo[w]) /\ request'[w] = request[w]
  BY DoneLeaves DEF EffectInv
<1>3. /\ Place(Items(request[w]), Tail(todo[w]))
      /\ Len(Items(request[w])) - Len(Tail(todo[w])) = Past(w) + 1
      /\ Past(w) \in Nat /\ Past(w) + 1 \in Granted(Items(request[w]))
      /\ Items(request[w])[Past(w) + 1] = Head(todo[w])
  BY <1>1, PlaceDone DEF Item, Past
<1> QED
  BY <1>2, <1>3 DEF InPlace, Past, Item

\* No sum came before an item that it would take into account.
LEMMA NotSummed ==
  ASSUME NEW q, SumLast(q), IsList(q), NEW k \in Nat, k + 1 \in Granted(q),
         q[k + 1].op \in OfSum
  PROVE  ~Summed(q, q[k + 1].host, k)
<1>1. Len(q) \in Nat /\ Granted(q) \subseteq 1 .. Len(q)
  BY ListDomain
<1>2. ASSUME NEW n \in SumAt(q, q[k + 1].host), n <= k PROVE FALSE
  <2>1. n \in 1 .. Len(q) /\ k + 1 \in 1 .. Len(q) /\ n < k + 1
    BY <1>1, <1>2 DEF SumAt
  <2>2. q[n].op = "sum" /\ q[n].host = q[k + 1].host
    BY DEF SumAt
  <2> QED
    BY <2>1, <2>2 DEF SumLast
<1> QED
  BY <1>2 DEF Summed

\* What the item that a writer is at says, once it is done.
LEMMA Says ==
  ASSUME EffectInv, NEW w \in Writer, Busy(w), todo[w] # <<>>, ~Refusable(Item(w)),
         Done(w), request' = request, before' = before
  PROVE  LET i == Item(w) IN
         /\ InPlace(w)'
         /\ (\A h \in Host, f \in Function :
               range'[h][f] = IF i.op = "queues" /\ i.host = h /\ i.func = f
                              THEN [base |-> i.base, num |-> i.num] ELSE range[h][f])
              => RangeInEffect(w)'
         /\ (\A h \in Host :
               threshold'[h] = IF i.op = "threshold" /\ i.host = h THEN i.value
                               ELSE threshold[h])
              => ThresholdInEffect(w)'
<1> DEFINE q == Items(request[w])
           k == Past(w)
           i == Item(w)
           old == before[w]
<1>1. /\ InPlace(w)' /\ Past(w)' = k + 1 /\ k \in Nat /\ k + 1 \in Granted(q) /\ q[k + 1] = i
      /\ Items(request[w])' = q /\ before'[w] = old
  BY ItemDone
<1>2. IsList(q)
  BY TheRequest DEF EffectInv
<1>3. /\ \A h \in Host, f \in Function :
           range[h][f] = Said(RangeAt(q, h, f), k, QueuesOf(q), old[1][h][f])
      /\ \A h \in Host : threshold[h] = Said(ThresholdAt(q, h), k, ValueOf(q), old[4][h])
  BY DEF EffectInv, RangeInEffect, ThresholdInEffect
<1>r. RangeInEffect(w)' <=>
        \A h \in Host, f \in Function :
          range'[h][f] = Said(RangeAt(q, h, f), k + 1, QueuesOf(q), old[1][h][f])
  BY <1>1 DEF RangeInEffect
<1>t. ThresholdInEffect(w)' <=>
        \A h \in Host :
          threshold'[h] = Said(ThresholdAt(q, h), k + 1, ValueOf(q), old[4][h])
  BY <1>1 DEF ThresholdInEffect
<1>i. InPlace(w)'
  BY <1>1
<1>k. k \in Nat /\ k + 1 \in Granted(q) /\ q[k + 1] = i
  BY <1>1
<1> HIDE DEF q, k, i, old
<1>o. OneMore(q, k, i)
  BY <1>2, <1>k, OneOn
<1>4. \A h, f, o :
        Said(RangeAt(q, h, f), k + 1, QueuesOf(q), o) =
          IF i.op = "queues" /\ i.host = h /\ i.func = f THEN [base |-> i.base, num |-> i.num]
          ELSE Said(RangeAt(q, h, f), k, QueuesOf(q), o)
  BY <1>o DEF OneMore
<1>5. \A h, o :
        Said(ThresholdAt(q, h), k + 1, ValueOf(q), o) =
          IF i.op = "threshold" /\ i.host = h THEN i.value
          ELSE Said(ThresholdAt(q, h), k, ValueOf(q), o)
  BY <1>o DEF OneMore
<1>6. ASSUME \A h \in Host, f \in Function :
               range'[h][f] = IF i.op = "queues" /\ i.host = h /\ i.func = f
                              THEN [base |-> i.base, num |-> i.num] ELSE range[h][f]
      PROVE  RangeInEffect(w)'
  BY <1>3, <1>4, <1>6, <1>r
<1>7. ASSUME \A h \in Host :
               threshold'[h] = IF i.op = "threshold" /\ i.host = h THEN i.value
                               ELSE threshold[h]
      PROVE  ThresholdInEffect(w)'
  BY <1>3, <1>5, <1>7, <1>t
<1> QED
  BY <1>i, <1>6, <1>7 DEF i

\* And what it says of the channels.
LEMMA SaysOfChannels ==
  ASSUME EffectInv, NEW w \in Writer, Busy(w), todo[w] # <<>>, ~Refusable(Item(w)),
         Done(w), request' = request, before' = before,
         \A h \in Host :
           IF Item(w).op \in OfSum /\ Item(w).host = h
           THEN IF Item(w).op = "sum" /\ Used(range[h])' # {} THEN Covers(channel[h], range[h])'
                ELSE channel'[h] = IF Item(w).op = "channel"
                                   THEN [base |-> Item(w).base, num |-> Item(w).num]
                                   ELSE channel[h]
           ELSE channel'[h] = channel[h] /\ range'[h] = range[h]
  PROVE  ChannelInEffect(w)'
<1> DEFINE q == Items(request[w])
           k == Past(w)
           i == Item(w)
           old == before[w]
<1>1. /\ Past(w)' = k + 1 /\ k \in Nat /\ k + 1 \in Granted(q) /\ q[k + 1] = i
      /\ Items(request[w])' = q /\ before'[w] = old
  BY ItemDone
<1>2. IsList(q) /\ SumLast(q)
  BY TheRequest DEF EffectInv, Shape
<1>3. \A h \in Host :
        IF Summed(q, h, k) /\ Used(range[h]) # {} THEN Covers(channel[h], range[h])
        ELSE channel[h] = Said(ChannelAt(q, h), k, QueuesOf(q), old[3][h])
  BY DEF EffectInv, ChannelInEffect
<1>c. ChannelInEffect(w)' <=>
        \A h \in Host :
          IF Summed(q, h, k + 1) /\ Used(range[h])' # {} THEN Covers(channel[h], range[h])'
          ELSE channel'[h] = Said(ChannelAt(q, h), k + 1, QueuesOf(q), old[3][h])
  BY <1>1 DEF ChannelInEffect
<1>k. k \in Nat /\ k + 1 \in Granted(q) /\ q[k + 1] = i
  BY <1>1
<1>s. i.op \in OfSum => ~Summed(q, i.host, k)
  BY <1>1, <1>2, NotSummed
<1>g. \A h \in Host :
           IF i.op \in OfSum /\ i.host = h
           THEN IF i.op = "sum" /\ Used(range[h])' # {} THEN Covers(channel[h], range[h])'
                ELSE channel'[h] = IF i.op = "channel"
                                   THEN [base |-> i.base, num |-> i.num] ELSE channel[h]
           ELSE channel'[h] = channel[h] /\ range'[h] = range[h]
  OBVIOUS
<1> HIDE DEF q, k, i, old
<1>o. OneMore(q, k, i)
  BY <1>2, <1>k, OneOn
<1>4. \A h, o :
        Said(ChannelAt(q, h), k + 1, QueuesOf(q), o) =
          IF i.op = "channel" /\ i.host = h THEN [base |-> i.base, num |-> i.num]
          ELSE Said(ChannelAt(q, h), k, QueuesOf(q), o)
  BY <1>o DEF OneMore
<1>5. \A h : Summed(q, h, k + 1) <=> Summed(q, h, k) \/ (i.op = "sum" /\ i.host = h)
  BY <1>o DEF OneMore
<1>6. ASSUME NEW h \in Host
      PROVE  IF Summed(q, h, k + 1) /\ Used(range[h])' # {} THEN Covers(channel[h], range[h])'
             ELSE channel'[h] = Said(ChannelAt(q, h), k + 1, QueuesOf(q), old[3][h])
  <2>1. CASE i.op \in OfSum /\ i.host = h
    <3>1. /\ IF i.op = "sum" /\ Used(range[h])' # {} THEN Covers(channel[h], range[h])'
             ELSE channel'[h] = IF i.op = "channel"
                                THEN [base |-> i.base, num |-> i.num] ELSE channel[h]
          /\ ~Summed(q, h, k)
      BY <1>g, <1>s, <2>1
    <3>2. channel[h] = Said(ChannelAt(q, h), k, QueuesOf(q), old[3][h])
      BY <1>3, <3>1
    <3>3. Summed(q, h, k + 1) <=> i.op = "sum"
      BY <1>5, <2>1, <3>1
    <3>4. Said(ChannelAt(q, h), k + 1, QueuesOf(q), old[3][h]) =
            IF i.op = "channel" THEN [base |-> i.base, num |-> i.num] ELSE channel[h]
      BY <1>4, <2>1, <3>2
    <3> QED
      BY <3>1, <3>3, <3>4
  <2>2. CASE ~(i.op \in OfSum /\ i.host = h)
    <3>1. channel'[h] = channel[h] /\ range'[h] = range[h]
      BY <1>g, <2>2
    <3>2. Said(ChannelAt(q, h), k + 1, QueuesOf(q), old[3][h]) =
            Said(ChannelAt(q, h), k, QueuesOf(q), old[3][h])
      BY <1>4, <2>2 DEF OfSum
    <3>3. Summed(q, h, k + 1) <=> Summed(q, h, k)
      BY <1>5, <2>2 DEF OfSum
    <3>4. Used(range[h])' = Used(range[h]) /\ (Covers(channel[h], range[h])' <=>
            Covers(channel[h], range[h]))
      BY <3>1
    <3> QED
      BY <1>3, <3>1, <3>2, <3>3, <3>4
  <2> QED
    BY <2>1, <2>2
<1> QED
  BY <1>6, <1>c


\* A writer that has added up nothing yet.
LEMMA FreshSum ==
  ASSUME NEW w \in Writer, sum'[w] = NoSum
  PROVE  SumRight(w)'
<1>1. \A queues : AddedUp(NoSum, queues)
  BY NothingAdded
<1>2. CASE NextIs(w, "sum")'
  <2>1. AddedUp(NoSum, range'[Item(w)'.host])
    BY <1>1
  <2> QED
    BY <1>2, <2>1 DEF SumRight
<1>3. CASE ~NextIs(w, "sum")'
  BY <1>3 DEF SumRight
<1> QED
  BY <1>2, <1>3

LEMMA OthersIdle ==
  ASSUME EffectInv, NEW w \in Writer, Busy(w), request' = request
  PROVE  \A o \in Writer : o # w => ~Busy(o) /\ ~Busy(o)'
  BY DEF EffectInv, TurnsTaken, Busy

\* A step that changes none of what the requests say.
LEMMA EffectKept ==
  ASSUME EffectInv, TypeInv', TurnsTaken',
         UNCHANGED <<range, channel, threshold, request, todo, sum, before>>
  PROVE  EffectInv'
<1>1. ASSUME NEW w \in Writer, Busy(w)'
      PROVE  InPlace(w)' /\ RangeInEffect(w)' /\ ThresholdInEffect(w)' /\ ChannelInEffect(w)'
  <2>1. Busy(w)
    BY <1>1 DEF Busy
  <2>2. InPlace(w) /\ RangeInEffect(w) /\ ThresholdInEffect(w) /\ ChannelInEffect(w)
    BY <2>1 DEF EffectInv
  <2>3. InPlace(w)' /\ Past(w)' = Past(w)
    BY <2>2 DEF InPlace, Past
  <2>4. RangeInEffect(w)' /\ ThresholdInEffect(w)'
    BY <2>2, <2>3 DEF RangeInEffect, ThresholdInEffect
  <2>5. ChannelInEffect(w)'
    BY <2>2, <2>3 DEF ChannelInEffect
  <2> QED
    BY <2>3, <2>4, <2>5
<1>2. ASSUME NEW w \in Writer PROVE SumRight(w)'
  BY DEF EffectInv, SumRight, NextIs, Busy, Item
<1> QED
  BY <1>1, <1>2 DEF EffectInv

\* Items that are refused: the queues of one may be half written.
LEMMA EffectRefused ==
  ASSUME EffectInv, TypeInv', TurnsTaken', NEW w \in Writer, Busy(w), todo[w] # <<>>,
         Refusable(Item(w)), Abort(w),
         UNCHANGED <<range, channel, threshold, request, sum, before>>
  PROVE  EffectInv'
<1> DEFINE q == Items(request[w])
           k == Past(w)
           rest == todo[w]
           old == before[w]
<1>1. PICK n \in 1 .. Len(rest) :
        /\ \A m \in 1 .. n : rest[m].unit = Head(rest).unit
        /\ n < Len(rest) => rest[n + 1].unit # Head(rest).unit
        /\ todo'[w] = SubSeq(rest, n + 1, Len(rest))
  BY AbortLeaves DEF EffectInv, Item
<1>2. IsList(q) /\ Grouped(q) /\ Place(q, rest) /\ Refusable(Head(rest)) /\ rest # <<>>
  BY TheRequest DEF EffectInv, Shape, InPlace, Item
<1>n. n \in Nat
  <2>1. Len(rest) \in Nat
    BY ItemFits DEF EffectInv
  <2> QED
    BY <2>1
<1>k. k = Len(q) - Len(rest)
  BY DEF Past
<1>3. /\ Place(q, todo'[w]) /\ k \in Nat /\ Len(q) - Len(todo'[w]) = k + n
      /\ \A m \in (k + 1) .. (k + n) : m \notin Granted(q)
  <2> HIDE DEF q, rest, k
  <2>a. \A m \in 1 .. n : rest[m].unit = Head(rest).unit
    BY <1>1
  <2>b. n < Len(rest) => rest[n + 1].unit # Head(rest).unit
    BY <1>1
  <2>1. Place(q, SubSeq(rest, n + 1, Len(rest)))
    BY <1>2, <2>a, <2>b, PlaceRefused
  <2>2. Len(q) - Len(rest) \in Nat
    BY <1>2, <2>a, <2>b, PlaceRefused
  <2>3. Len(q) - Len(SubSeq(rest, n + 1, Len(rest))) = Len(q) - Len(rest) + n
    <3>1. Len(SubSeq(rest, n + 1, Len(rest))) = Len(rest) - n
      BY <1>2, ListRest DEF Place
    <3>2. Len(q) \in Nat /\ Len(rest) \in Nat
      BY <1>2 DEF Place, IsList
    <3>3. \A x, y, z \in Nat : x - (y - z) = x - y + z
      OBVIOUS
    <3>4. Len(q) - (Len(rest) - n) = Len(q) - Len(rest) + n
      BY <1>n, <3>2, <3>3
    <3> QED
      BY <3>1, <3>4, Zenon
  <2>4. \A m \in (Len(q) - Len(rest) + 1) .. (Len(q) - Len(rest) + n) : m \notin Granted(q)
    BY <1>2, <2>a, <2>b, PlaceRefused
  <2> QED
    BY <1>1, <1>k, <2>1, <2>2, <2>3, <2>4
<1>4. InPlace(w)' /\ Past(w)' = k + n
  BY <1>3 DEF InPlace, Past
<1>5. /\ \A h \in Host, f \in Function :
           range[h][f] = Said(RangeAt(q, h, f), k, QueuesOf(q), old[1][h][f])
      /\ \A h \in Host : threshold[h] = Said(ThresholdAt(q, h), k, ValueOf(q), old[4][h])
      /\ \A h \in Host :
           IF Summed(q, h, k) /\ Used(range[h]) # {} THEN Covers(channel[h], range[h])
           ELSE channel[h] = Said(ChannelAt(q, h), k, QueuesOf(q), old[3][h])
  BY DEF EffectInv, RangeInEffect, ThresholdInEffect, ChannelInEffect
<1>r. RangeInEffect(w)' <=>
        \A h \in Host, f \in Function :
          range[h][f] = Said(RangeAt(q, h, f), k + n, QueuesOf(q), old[1][h][f])
  BY <1>4 DEF RangeInEffect
<1>t. ThresholdInEffect(w)' <=>
        \A h \in Host : threshold[h] = Said(ThresholdAt(q, h), k + n, ValueOf(q), old[4][h])
  BY <1>4 DEF ThresholdInEffect
<1>c. ChannelInEffect(w)' <=>
        \A h \in Host :
          IF Summed(q, h, k + n) /\ Used(range[h]) # {} THEN Covers(channel[h], range[h])
          ELSE channel[h] = Said(ChannelAt(q, h), k + n, QueuesOf(q), old[3][h])
  BY <1>4 DEF ChannelInEffect
<1>l. IsList(q)
  BY <1>2
<1>6. /\ \A h, f, o : Said(RangeAt(q, h, f), k + n, QueuesOf(q), o) =
                      Said(RangeAt(q, h, f), k, QueuesOf(q), o)
      /\ \A h, o : Said(ChannelAt(q, h), k + n, QueuesOf(q), o) =
                   Said(ChannelAt(q, h), k, QueuesOf(q), o)
      /\ \A h, o : Said(ThresholdAt(q, h), k + n, ValueOf(q), o) =
                   Said(ThresholdAt(q, h), k, ValueOf(q), o)
      /\ \A h : Summed(q, h, k + n) <=> Summed(q, h, k)
  <2> HIDE DEF q, k
  <2> QED
    BY <1>l, <1>n, <1>3, NoneOn
<1>7. RangeInEffect(w)' /\ ThresholdInEffect(w)' /\ ChannelInEffect(w)'
  <2> HIDE DEF q, k, old
  <2>1. RangeInEffect(w)'
    BY <1>5, <1>6, <1>r
  <2>2. ThresholdInEffect(w)'
    BY <1>5, <1>6, <1>t
  <2>3. ChannelInEffect(w)'
    <3>1. \A h \in Host :
            IF Summed(q, h, k) /\ Used(range[h]) # {} THEN Covers(channel[h], range[h])
            ELSE channel[h] = Said(ChannelAt(q, h), k, QueuesOf(q), old[3][h])
      BY <1>5
    <3>2. \A h, o : Said(ChannelAt(q, h), k + n, QueuesOf(q), o) =
                     Said(ChannelAt(q, h), k, QueuesOf(q), o)
      BY <1>6
    <3>3. \A h : Summed(q, h, k + n) <=> Summed(q, h, k)
      BY <1>6
    <3>4. ASSUME NEW h \in Host
          PROVE  IF Summed(q, h, k + n) /\ Used(range[h]) # {} THEN Covers(channel[h], range[h])
                 ELSE channel[h] = Said(ChannelAt(q, h), k + n, QueuesOf(q), old[3][h])
      BY <3>1, <3>2, <3>3
    <3> QED
      BY <3>4, <1>c
  <2> QED
    BY <2>1, <2>2, <2>3
<1>8. SumRight(w)'
  <2>1. ~NextIs(w, "sum")
    BY DEF Refusable, NextIs
  <2>2. sum'[w] = NoSum
    BY <2>1 DEF EffectInv, SumRight
  <2> QED
    BY <2>2, FreshSum
<1> QED
  BY <1>4, <1>7, <1>8, OthersIdle, EffectBy

\* The queues of a function are written.
LEMMA EffectRange ==
  ASSUME EffectInv, TypeInv', TurnsTaken', NEW w \in Writer, WriteRange(w)
  PROVE  EffectInv'
<1> DEFINE i == Item(w)
<1>1. /\ Busy(w) /\ todo[w] # <<>> /\ i.op = "queues" /\ place[w] = "range" /\ Done(w)
      /\ range' = [range EXCEPT ![i.host][i.func] = [base |-> i.base, num |-> i.num]]
      /\ UNCHANGED <<channel, threshold, request, sum, before>>
  BY DEF WriteRange, NextIs
<1>2. i.host \in Host /\ i.func \in Function /\ i.num \in Number /\ i.num <= TableSize
  BY <1>1, ItemFits DEF EffectInv, TypeInv, MidItem, WellFormed
<1>3. ~Refusable(i)
  <2>1. i.func # NoFunction /\ ~(i.num > TableSize)
    <3>1. \A x \in Function : x \in Nat
      BY Sizes DEF Function
    <3>2. i.func \in Nat /\ i.num \in Nat
      BY <1>2, <3>1, Sizes
    <3> HIDE DEF i
    <3> QED
      BY <1>2, <3>2, Sizes DEF NoFunction
  <2> QED
    BY <1>1, <2>1 DEF Refusable
<1>4. range \in [Host -> [Function -> Queues]]
  BY DEF EffectInv, TypeInv, TypeOK
<1>5. \A h \in Host, f \in Function :
        range'[h][f] = IF i.op = "queues" /\ i.host = h /\ i.func = f
                       THEN [base |-> i.base, num |-> i.num] ELSE range[h][f]
  <2> HIDE DEF i
  <2> QED
    BY <1>1, <1>2, <1>4
<1>6. \A h \in Host : i.host # h => range'[h] = range[h]
  <2> HIDE DEF i
  <2> QED
    BY <1>1, <1>2, <1>4
<1>7. InPlace(w)' /\ RangeInEffect(w)'
  BY <1>1, <1>3, <1>5, Says
<1>8. ThresholdInEffect(w)'
  BY <1>1, <1>3, Says
<1>9. ChannelInEffect(w)'
  BY <1>1, <1>3, <1>6, SaysOfChannels DEF OfSum
<1>10. SumRight(w)'
  <2>1. ~NextIs(w, "sum")
    BY <1>1 DEF NextIs
  <2>2. sum'[w] = NoSum
    BY <1>1, <2>1 DEF EffectInv, SumRight
  <2> QED
    BY <2>2, FreshSum
<1> QED
  BY <1>1, <1>7, <1>8, <1>9, <1>10, OthersIdle, EffectBy


\* A channel is written.
LEMMA EffectChannel ==
  ASSUME EffectInv, TypeInv', TurnsTaken', NEW w \in Writer, WriteChannel(w)
  PROVE  EffectInv'
<1> DEFINE i == Item(w)
<1>1. /\ Busy(w) /\ todo[w] # <<>> /\ i.op = "channel" /\ Done(w)
      /\ channel' = [channel EXCEPT ![i.host] = [base |-> i.base, num |-> i.num]]
      /\ UNCHANGED <<range, threshold, request, sum, before>>
  BY DEF WriteChannel, NextIs
<1>2. i.host \in Host
  BY <1>1, ItemFits DEF EffectInv, WellFormed
<1>3. ~Refusable(i)
  BY <1>1 DEF Refusable
<1>4. channel \in [Host -> Queues]
  BY DEF EffectInv, TypeInv, TypeOK
<1>5. \A h \in Host : channel'[h] = IF i.host = h THEN [base |-> i.base, num |-> i.num]
                                    ELSE channel[h]
  <2> HIDE DEF i
  <2> QED
    BY <1>1, <1>2, <1>4
<1>7. InPlace(w)' /\ RangeInEffect(w)' /\ ThresholdInEffect(w)'
  BY <1>1, <1>3, Says
<1>9. ChannelInEffect(w)'
  BY <1>1, <1>3, <1>5, SaysOfChannels DEF OfSum
<1>10. SumRight(w)'
  <2>1. ~NextIs(w, "sum")
    BY <1>1 DEF NextIs
  <2>2. sum'[w] = NoSum
    BY <1>1, <2>1 DEF EffectInv, SumRight
  <2> QED
    BY <2>2, FreshSum
<1> QED
  BY <1>1, <1>7, <1>9, <1>10, OthersIdle, EffectBy

\* A threshold is written.
LEMMA EffectThreshold ==
  ASSUME EffectInv, TypeInv', TurnsTaken', NEW w \in Writer, WriteThreshold(w)
  PROVE  EffectInv'
<1> DEFINE i == Item(w)
<1>1. /\ Busy(w) /\ todo[w] # <<>> /\ i.op = "threshold" /\ Done(w)
      /\ threshold' = [threshold EXCEPT ![i.host] = i.value]
      /\ UNCHANGED <<range, channel, request, sum, before>>
  BY DEF WriteThreshold, NextIs
<1>2. i.host \in Host
  BY <1>1, ItemFits DEF EffectInv, WellFormed
<1>3. ~Refusable(i)
  BY <1>1 DEF Refusable
<1>4. threshold \in [Host -> 0 .. Wrap - 1]
  BY DEF EffectInv, TypeInv, TypeOK
<1>5. \A h \in Host : threshold'[h] = IF i.op = "threshold" /\ i.host = h THEN i.value
                                      ELSE threshold[h]
  <2> HIDE DEF i
  <2> QED
    BY <1>1, <1>2, <1>4
<1>6. ThresholdInEffect(w)'
  BY <1>1, <1>3, <1>5, Says
<1>7. InPlace(w)' /\ RangeInEffect(w)'
  BY <1>1, <1>3, Says
<1>9. ChannelInEffect(w)'
  BY <1>1, <1>3, SaysOfChannels DEF OfSum
<1>10. SumRight(w)'
  <2>1. ~NextIs(w, "sum")
    BY <1>1 DEF NextIs
  <2>2. sum'[w] = NoSum
    BY <1>1, <2>1 DEF EffectInv, SumRight
  <2> QED
    BY <2>2, FreshSum
<1> QED
  BY <1>1, <1>6, <1>7, <1>9, <1>10, OthersIdle, EffectBy

\* One more function is added to a sum.
LEMMA EffectAdd ==
  ASSUME EffectInv, TypeInv', TurnsTaken', NEW w \in Writer, AddFunction(w)
  PROVE  EffectInv'
<1> DEFINE s == sum[w]
           f == sum[w].next
           queues == range[Item(w).host]
           q == queues[f]
<1>t. sum \in [Writer -> [next : 0 .. NFunctions, base : 0 .. Wrap - 1, num : 0 .. Wrap - 1]]
  BY DEF EffectInv, TypeInv, TypeOK
<1>1. /\ NextIs(w, "sum") /\ Busy(w) /\ todo[w] # <<>> /\ f \in Function
      /\ sum'[w] = IF q.num = 0 THEN [s EXCEPT !.next = f + 1]
                   ELSE [next |-> f + 1,
                         base |-> IF q.base < s.base THEN q.base ELSE s.base,
                         num  |-> (s.num + q.num) % Wrap]
      /\ \A o \in Writer : o # w => sum'[o] = sum[o]
      /\ UNCHANGED <<range, channel, threshold, request, todo, before>>
  BY <1>t DEF AddFunction, NextIs, registers
<1>2. Item(w).host \in Host
  BY <1>1, ItemFits DEF EffectInv, WellFormed, NextIs
<1>3. queues \in Ranges /\ AddedUp(s, queues) /\ s.base \in Number
  BY <1>1, <1>2, <1>t, RangesOf DEF EffectInv, SumRight, Number
<1>4. /\ q.num = 0 => sum'[w].next = f + 1 /\ sum'[w].base = s.base /\ sum'[w].num = s.num
      /\ q.num # 0 => /\ sum'[w].next = f + 1
                      /\ sum'[w].base = IF q.base < s.base THEN q.base ELSE s.base
                      /\ sum'[w].num = (s.num + q.num) % Wrap
  <2>1. s \in [next : 0 .. NFunctions, base : 0 .. Wrap - 1, num : 0 .. Wrap - 1]
    BY <1>t
  <2> HIDE DEF s, f, q
  <2> QED
    BY <1>1, <2>1
<1>5. AddedUp(sum'[w], queues)
  <2> HIDE DEF s, queues
  <2> QED
    BY <1>1, <1>3, <1>4, OneAdded DEF s
<1>6. SumRight(w)'
  <2>1. NextIs(w, "sum")' /\ Item(w)' = Item(w) /\ range' = range
    BY <1>1 DEF NextIs, Busy, Item
  <2> QED
    BY <1>5, <2>1 DEF SumRight
<1>7. InPlace(w) /\ RangeInEffect(w) /\ ThresholdInEffect(w) /\ ChannelInEffect(w)
  BY <1>1 DEF EffectInv
<1>8. InPlace(w)' /\ Past(w)' = Past(w)
  BY <1>1, <1>7 DEF InPlace, Past
<1>9. RangeInEffect(w)' /\ ThresholdInEffect(w)'
  BY <1>1, <1>7, <1>8 DEF RangeInEffect, ThresholdInEffect
<1>10. ChannelInEffect(w)'
  BY <1>1, <1>7, <1>8 DEF ChannelInEffect
<1>11. \A o \in Writer : o # w => ~Busy(o) /\ ~Busy(o)' /\ sum'[o] = sum[o]
  BY <1>1, OthersIdle
<1> QED
  BY <1>6, <1>8, <1>9, <1>10, <1>11, EffectBy

\* A sum is written.
LEMMA EffectSum ==
  ASSUME EffectInv, TypeInv', TurnsTaken', NEW w \in Writer, WriteSum(w)
  PROVE  EffectInv'
<1> DEFINE i == Item(w)
           s == sum[w]
           c == [base |-> s.base, num |-> s.num]
<1>t. /\ sum \in [Writer -> [next : 0 .. NFunctions, base : 0 .. Wrap - 1,
                             num : 0 .. Wrap - 1]]
      /\ channel \in [Host -> Queues]
  BY DEF EffectInv, TypeInv, TypeOK
<1>1. /\ NextIs(w, "sum") /\ Busy(w) /\ todo[w] # <<>> /\ i.op = "sum" /\ s.next = NFunctions
      /\ channel' = (IF s.num > 0 THEN [channel EXCEPT ![i.host] = c] ELSE channel)
      /\ sum' = [sum EXCEPT ![w] = NoSum] /\ Done(w)
      /\ UNCHANGED <<range, threshold, request, before>>
  BY DEF WriteSum, NextIs
<1>2. i.host \in Host
  BY <1>1, ItemFits DEF EffectInv, WellFormed
<1>3. range[i.host] \in Ranges /\ AddedUp(s, range[i.host])
  BY <1>1, <1>2, RangesOf DEF EffectInv, SumRight
<1>4. /\ s.num > 0 => Used(range[i.host]) # {} /\ Covers(c, range[i.host])
      /\ ~(s.num > 0) => Used(range[i.host]) = {}
  <2>1. s.next = NFunctions
    BY <1>1
  <2> HIDE DEF s, i
  <2> QED
    BY <1>3, <2>1, AllAdded
<1>5. ~Refusable(i)
  BY <1>1 DEF Refusable
<1>6. /\ \A h \in Host : i.host # h => channel'[h] = channel[h]
      /\ channel'[i.host] = IF s.num > 0 THEN c ELSE channel[i.host]
  <2> HIDE DEF i, s, c
  <2> QED
    BY <1>1, <1>2, <1>t
<1>7. IF Used(range[i.host]) # {} THEN Covers(channel'[i.host], range[i.host])
      ELSE channel'[i.host] = channel[i.host]
  <2> HIDE DEF i, s, c
  <2> QED
    BY <1>4, <1>6
<1>8. ASSUME NEW h \in Host
      PROVE  IF i.op \in OfSum /\ i.host = h
             THEN IF i.op = "sum" /\ Used(range[h])' # {}
                  THEN Covers(channel[h], range[h])'
                  ELSE channel'[h] = IF i.op = "channel"
                                     THEN [base |-> i.base, num |-> i.num]
                                     ELSE channel[h]
             ELSE channel'[h] = channel[h] /\ range'[h] = range[h]
  <2>1. CASE i.host = h
    <3>2. range' = range
      BY <1>1
    <3>3. IF Used(range[h])' # {} THEN Covers(channel[h], range[h])' ELSE channel'[h] = channel[h]
      BY <1>7, <2>1, <3>2
    <3> QED
      BY <1>1, <2>1, <3>3 DEF OfSum
  <2>2. CASE i.host # h
    BY <1>1, <1>6, <2>2
  <2> QED
    BY <2>1, <2>2
<1>9. ChannelInEffect(w)'
  BY <1>1, <1>5, <1>8, SaysOfChannels
<1>10. InPlace(w)' /\ RangeInEffect(w)' /\ ThresholdInEffect(w)'
  BY <1>1, <1>5, Says
<1>11. SumRight(w)'
  BY <1>1, <1>t, FreshSum
<1>12. \A o \in Writer : o # w => ~Busy(o) /\ ~Busy(o)' /\ sum'[o] = sum[o]
  BY <1>1, <1>t, OthersIdle
<1> QED
  BY <1>9, <1>10, <1>11, <1>12, EffectBy


\* A request begins: its items have said nothing yet.
LEMMA EffectBegin ==
  ASSUME Serialized, EffectInv, TypeInv', TurnsTaken', NEW w \in Writer, Begin(w)
  PROVE  EffectInv'
<1>1. PICK r \in Request : /\ request' = [request EXCEPT ![w] = r]
                           /\ todo' = [todo EXCEPT ![w] = Items(r)]
  BY DEF Begin
<1>2. /\ \A o \in Writer : ~Busy(o)
      /\ before' = [before EXCEPT ![w] = registers]
      /\ UNCHANGED <<range, hash, channel, threshold, place, sum, spoilt>>
  BY DEF Begin, registers
<1>t. /\ request \in [Writer -> Request \cup {Idle}] /\ DOMAIN todo = Writer
      /\ DOMAIN before = Writer
  BY DEF EffectInv, TypeInv, TypeOK
<1> DEFINE q == Items(r)
<1>3. request'[w] = r /\ todo'[w] = q /\ before'[w] = <<range, hash, channel, threshold>>
  BY <1>1, <1>2, <1>t DEF registers
<1>4. IsList(q)
  BY ItemsShape DEF Shape
<1>5. InPlace(w)' /\ Past(w)' = 0
  <2>1. Place(q, q) /\ Len(q) - Len(q) = 0
    BY <1>4, PlaceStart
  <2> QED
    BY <1>3, <2>1 DEF InPlace, Past
<1>6. /\ \A h, f, old : Said(RangeAt(q, h, f), 0, QueuesOf(q), old) = old
      /\ \A h, old : Said(ChannelAt(q, h), 0, QueuesOf(q), old) = old
      /\ \A h, old : Said(ThresholdAt(q, h), 0, ValueOf(q), old) = old
      /\ \A h : ~Summed(q, h, 0)
  BY <1>4, NothingOn
<1>7. Items(request[w])' = q
  BY <1>3
<1> HIDE DEF q
<1>8. RangeInEffect(w)'
  BY <1>2, <1>3, <1>5, <1>6, <1>7 DEF RangeInEffect
<1>9. ThresholdInEffect(w)'
  BY <1>2, <1>3, <1>5, <1>6, <1>7 DEF ThresholdInEffect
<1>10. ChannelInEffect(w)'
  BY <1>2, <1>3, <1>5, <1>6, <1>7 DEF ChannelInEffect
<1>11. SumRight(w)'
  <2>1. sum[w] = NoSum
    BY <1>2 DEF EffectInv, SumRight, NextIs
  <2> QED
    BY <1>2, <2>1, FreshSum
<1>12. \A o \in Writer : o # w => ~Busy(o) /\ ~Busy(o)' /\ sum'[o] = sum[o]
  BY <1>1, <1>2, <1>t DEF Busy
<1> QED
  BY <1>5, <1>8, <1>9, <1>10, <1>11, <1>12, EffectBy

\* A request ends.
LEMMA EffectRespond ==
  ASSUME EffectInv, TypeInv', TurnsTaken', NEW w \in Writer, Respond(w)
  PROVE  EffectInv'
<1>1. /\ Busy(w) /\ todo[w] = <<>> /\ request' = [request EXCEPT ![w] = Idle]
      /\ sum' = sum
  BY DEF Respond
<1>2. request \in [Writer -> Request \cup {Idle}]
  BY DEF EffectInv, TypeInv, TypeOK
<1>3. ~Busy(w)' /\ \A o \in Writer : o # w => ~Busy(o) /\ ~Busy(o)'
  BY <1>1, <1>2 DEF EffectInv, TurnsTaken, Busy
<1>4. SumRight(w)'
  <2>1. sum[w] = NoSum
    BY <1>1 DEF EffectInv, SumRight, NextIs
  <2> QED
    BY <1>1, <2>1, FreshSum
<1> QED
  BY <1>1, <1>3, <1>4, EffectBy

LEMMA EffectNext ==
  ASSUME Serialized, EffectInv, [Next]_vars
  PROVE  EffectInv'
<1>1. TypeInv' /\ TurnsTaken'
  BY TypeNext, TurnsNext DEF EffectInv
<1>2. ASSUME NEW w \in Writer, Refuse(w) PROVE EffectInv'
  <2>1. /\ Busy(w) /\ todo[w] # <<>> /\ Refusable(Item(w)) /\ Abort(w)
        /\ UNCHANGED <<range, channel, threshold, request, sum, before>>
    BY <1>2 DEF Refuse, Refusable, registers
  <2> QED
    BY <1>1, <2>1, EffectRefused
<1>3. ASSUME NEW w \in Writer, WriteBase(w) PROVE EffectInv'
  <2>1. /\ Busy(w) /\ todo[w] # <<>> /\ Item(w).op = "queues"
        /\ UNCHANGED <<range, channel, threshold, request, sum, before>>
    BY <1>3 DEF WriteBase, NextIs
  <2>2. CASE Item(w).num > TableSize /\ Abort(w)
    BY <1>1, <2>1, <2>2, EffectRefused DEF Refusable
  <2>3. CASE UNCHANGED todo
    BY <1>1, <2>1, <2>3, EffectKept
  <2> QED
    BY <1>3, <2>2, <2>3 DEF WriteBase
<1>4. ASSUME NEW w \in Writer, WriteTable(w) PROVE EffectInv'
  BY <1>1, <1>4, EffectKept DEF WriteTable
<1>5. ASSUME UNCHANGED vars PROVE EffectInv'
  BY <1>1, <1>5, EffectKept DEF vars, registers
<1> QED
  BY <1>1, <1>2, <1>3, <1>4, <1>5, EffectBegin, EffectRange, EffectChannel, EffectAdd,
     EffectSum, EffectThreshold, EffectRespond DEF Next, Serve

LEMMA EffectInit == Init => EffectInv
<1> SUFFICES ASSUME Init PROVE EffectInv
  OBVIOUS
<1>1. TypeInv
  BY TypeInit
<1>2. \A w \in Writer : ~Busy(w) /\ sum[w] = NoSum
  BY DEF Init, Busy
<1> QED
  BY <1>1, <1>2 DEF EffectInv, TurnsTaken, SumRight, NextIs

\* While Set requests take turns, the registers are at every step as they were with
\* what the request has done so far.
THEOREM RegistersFollowTheRequest == ASSUME Serialized PROVE Spec => []EffectInv
<1>1. EffectInv /\ [Next]_vars => EffectInv'
  BY EffectNext
<1> QED
  BY <1>1, EffectInit, PTL DEF Spec

-----------------------------------------------------------------------------
(* What a request leaves behind *)

\* The places of a whole list, and the last of them.
LEMMA LastSaid ==
  ASSUME NEW q, IsList(q), NEW S, S \subseteq Granted(q), NEW old
  PROVE  /\ Said(S, Len(q), QueuesOf(q), old) =
              IF S = {} THEN old ELSE [base |-> q[LastOf(S)].base, num |-> q[LastOf(S)].num]
         /\ Said(S, Len(q), ValueOf(q), old) = IF S = {} THEN old ELSE q[LastOf(S)].value
<1>1. Len(q) \in Nat /\ DOMAIN q = 1 .. Len(q) /\ S \subseteq 1 .. Len(q)
  BY ListDomain
<1>2. Upto(S, Len(q)) = S /\ (S # {} => LastOf(S) \in S)
  BY <1>1, SaidAll
<1>3. S # {} => LastOf(S) \in DOMAIN q
  BY <1>1, <1>2
<1> QED
  BY <1>2, <1>3 DEF Said, QueuesOf, ValueOf

\* A writer that ends its request responds.
LEMMA Ends ==
  ASSUME [Next]_vars, TypeOK, NEW w \in Writer, Busy(w), ~Busy(w)'
  PROVE  Respond(w)
<1>1. request' # request
  BY DEF Busy
<1>2. ASSUME NEW o \in Writer, Serve(o) PROVE Respond(w)
  <2>1. Begin(o) \/ Respond(o)
    BY <1>1, <1>2
       DEF Serve, Refuse, WriteBase, WriteTable, WriteRange, WriteChannel, AddFunction,
           WriteSum, WriteThreshold
  <2>2. CASE Begin(o)
    <3>1. PICK r \in Request : request' = [request EXCEPT ![o] = r]
      BY <2>2 DEF Begin
    <3>2. request'[w] = r \/ request'[w] = request[w]
      BY <3>1 DEF TypeOK
    <3> QED
      BY <3>2, Kinds DEF Busy
  <2>3. CASE Respond(o)
    <3>1. request' = [request EXCEPT ![o] = Idle]
      BY <2>3 DEF Respond
    <3>2. w # o => request'[w] = request[w]
      BY <3>1 DEF TypeOK
    <3> QED
      BY <2>3, <3>2 DEF Busy
  <2> QED
    BY <2>1, <2>2, <2>3
<1>3. ~UNCHANGED vars
  BY <1>1 DEF vars
<1> QED
  BY <1>2, <1>3 DEF Next

\* When all its items are done, the registers hold what a request says of them.
LEMMA RequestDone ==
  ASSUME EffectInv, NEW w \in Writer, Busy(w), todo[w] = <<>>, NEW h \in Host
  PROVE  LET old == before[w]
             q   == Items(request[w])
         IN  /\ \A f \in Function :
                  range[h][f] =
                    LastWord(q, LAMBDA i : i.op = "queues" /\ i.host = h /\ i.func = f,
                             old[1][h][f], LAMBDA i : [base |-> i.base, num |-> i.num])
             /\ threshold[h] =
                  LastWord(q, LAMBDA i : i.op = "threshold" /\ i.host = h,
                           old[4][h], LAMBDA i : i.value)
             /\ LET explicit ==
                      LastWord(q, LAMBDA i : i.op = "channel" /\ i.host = h,
                               old[3][h], LAMBDA i : [base |-> i.base, num |-> i.num])
                    summed == \E n \in Granted(q) : q[n].op = "sum" /\ q[n].host = h
                    used   == {f \in Function : range[h][f].num > 0}
                IN IF summed /\ used # {}
                   THEN /\ channel[h].num = Sums(range[h])[NFunctions]
                        /\ \A f \in used : channel[h].base <= range[h][f].base
                        /\ \E f \in used : channel[h].base = range[h][f].base
                   ELSE channel[h] = explicit
<1> DEFINE q == Items(request[w])
           old == before[w]
<1>1. IsList(q)
  BY TheRequest DEF EffectInv
<1>2. Past(w) = Len(q)
  <2>1. Len(q) \in Nat
    BY <1>1, ListDomain
  <2> QED
    BY <2>1, EmptyList DEF Past
<1>3. /\ \A f \in Function :
           range[h][f] = Said(RangeAt(q, h, f), Len(q), QueuesOf(q), old[1][h][f])
      /\ threshold[h] = Said(ThresholdAt(q, h), Len(q), ValueOf(q), old[4][h])
      /\ IF Summed(q, h, Len(q)) /\ Used(range[h]) # {} THEN Covers(channel[h], range[h])
         ELSE channel[h] = Said(ChannelAt(q, h), Len(q), QueuesOf(q), old[3][h])
  BY <1>2 DEF EffectInv, RangeInEffect, ThresholdInEffect, ChannelInEffect
<1> HIDE DEF q, old
<1>4. ASSUME NEW f \in Function
      PROVE  range[h][f] =
               LastWord(q, LAMBDA i : i.op = "queues" /\ i.host = h /\ i.func = f,
                        old[1][h][f], LAMBDA i : [base |-> i.base, num |-> i.num])
  <2> DEFINE S == RangeAt(q, h, f)
  <2>1. S \subseteq Granted(q)
    BY DEF RangeAt
  <2>2. range[h][f] = IF S = {} THEN old[1][h][f]
                      ELSE [base |-> q[LastOf(S)].base, num |-> q[LastOf(S)].num]
    BY <1>1, <1>3, <2>1, LastSaid
  <2> QED
    BY <2>2 DEF LastWord, LastOf, RangeAt
<1>5. threshold[h] = LastWord(q, LAMBDA i : i.op = "threshold" /\ i.host = h,
                              old[4][h], LAMBDA i : i.value)
  <2> DEFINE S == ThresholdAt(q, h)
  <2>1. S \subseteq Granted(q)
    BY DEF ThresholdAt
  <2>2. threshold[h] = IF S = {} THEN old[4][h] ELSE q[LastOf(S)].value
    BY <1>1, <1>3, <2>1, LastSaid
  <2> QED
    BY <2>2 DEF LastWord, LastOf, ThresholdAt
<1>6. Said(ChannelAt(q, h), Len(q), QueuesOf(q), old[3][h]) =
        LastWord(q, LAMBDA i : i.op = "channel" /\ i.host = h,
                 old[3][h], LAMBDA i : [base |-> i.base, num |-> i.num])
  <2> DEFINE S == ChannelAt(q, h)
  <2>1. S \subseteq Granted(q)
    BY DEF ChannelAt
  <2>2. Said(S, Len(q), QueuesOf(q), old[3][h]) =
          IF S = {} THEN old[3][h]
          ELSE [base |-> q[LastOf(S)].base, num |-> q[LastOf(S)].num]
    BY <1>1, <2>1, LastSaid
  <2> QED
    BY <2>2 DEF LastWord, LastOf, ChannelAt
<1>7. Summed(q, h, Len(q)) <=> \E n \in Granted(q) : q[n].op = "sum" /\ q[n].host = h
  <2>1. Len(q) \in Nat /\ Granted(q) \subseteq 1 .. Len(q)
    BY <1>1, ListDomain
  <2>2. \A n \in Granted(q) : n <= Len(q)
    BY <2>1
  <2> QED
    BY <2>2 DEF Summed, SumAt
<1> DEFINE explicit == LastWord(q, LAMBDA i : i.op = "channel" /\ i.host = h,
                                old[3][h], LAMBDA i : [base |-> i.base, num |-> i.num])
           summed == \E n \in Granted(q) : q[n].op = "sum" /\ q[n].host = h
           used   == {f \in Function : range[h][f].num > 0}
<1>8. used = Used(range[h])
  BY DEF Used
<1>9. IF summed /\ used # {} THEN Covers(channel[h], range[h]) ELSE channel[h] = explicit
  <2>1. summed <=> Summed(q, h, Len(q))
    BY <1>7
  <2>2. explicit = Said(ChannelAt(q, h), Len(q), QueuesOf(q), old[3][h])
    BY <1>6
  <2> HIDE DEF summed, used, explicit
  <2> QED
    BY <1>3, <1>8, <2>1, <2>2
<1>10. Covers(channel[h], range[h]) =>
         /\ channel[h].num = Sums(range[h])[NFunctions]
         /\ \A f \in used : channel[h].base <= range[h][f].base
         /\ \E f \in used : channel[h].base = range[h][f].base
  BY <1>8 DEF Covers
<1>11. IF summed /\ used # {}
       THEN /\ channel[h].num = Sums(range[h])[NFunctions]
            /\ \A f \in used : channel[h].base <= range[h][f].base
            /\ \E f \in used : channel[h].base = range[h][f].base
       ELSE channel[h] = explicit
  <2> HIDE DEF summed, used, explicit
  <2> QED
    BY <1>9, <1>10
<1> QED
  BY <1>4, <1>5, <1>11 DEF q, old

\* A Set request that takes turns with others leaves every range and threshold as
\* the last item granted for it says, or as it was, and a channel that it summed up
\* with as many queues as its functions, from their first.
THEOREM RequestsTakeEffect ==
  ASSUME Serialized PROVE Spec => RequestTakesEffect
<1> DEFINE Left(w) ==
       LET old == before[w]
           q   == Items(request[w])
       IN \A h \in Host :
            /\ \A f \in Function :
                 range[h][f] =
                   LastWord(q, LAMBDA i : i.op = "queues" /\ i.host = h /\ i.func = f,
                            old[1][h][f], LAMBDA i : [base |-> i.base, num |-> i.num])
            /\ threshold[h] =
                 LastWord(q, LAMBDA i : i.op = "threshold" /\ i.host = h,
                          old[4][h], LAMBDA i : i.value)
            /\ LET explicit ==
                     LastWord(q, LAMBDA i : i.op = "channel" /\ i.host = h,
                              old[3][h], LAMBDA i : [base |-> i.base, num |-> i.num])
                   summed == \E n \in Granted(q) : q[n].op = "sum" /\ q[n].host = h
                   used   == {f \in Function : range[h][f].num > 0}
               IN IF summed /\ used # {}
                  THEN /\ channel[h].num = Sums(range[h])[NFunctions]
                       /\ \A f \in used : channel[h].base <= range[h][f].base
                       /\ \E f \in used : channel[h].base = range[h][f].base
                  ELSE channel[h] = explicit
           Taken == \A w \in Writer : Busy(w) /\ ~Busy(w)' => Left(w)
<1>1. ASSUME EffectInv, [Next]_vars PROVE Taken
  <2> SUFFICES ASSUME NEW w \in Writer, Busy(w), ~Busy(w)' PROVE Left(w)
    OBVIOUS
  <2>1. todo[w] = <<>>
    BY <1>1, Ends DEF EffectInv, TypeInv, Respond
  <2> QED
    BY <1>1, <2>1, RequestDone
<1>2. EffectInv /\ [Next]_vars => [Taken]_vars
  BY <1>1
<1> QED
  BY <1>2, RegistersFollowTheRequest, PTL DEF Spec, RequestTakesEffect
=============================================================================
