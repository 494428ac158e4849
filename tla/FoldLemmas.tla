------------------------------ MODULE FoldLemmas ------------------------------
(***************************************************************************)
(* Induction over the natural numbers, and folds over sequences: what      *)
(* FoldLeft makes of a sequence follows from what it makes of the          *)
(* beginning.  An operator which is folded is given as a function.         *)
(***************************************************************************)
EXTENDS Integers, SequencesExt, WellFoundedInduction, TLAPS

\* A set of natural numbers which is not empty has a smallest.
LEMMA Smallest ==
    ASSUME NEW T, T \subseteq Nat, T # {}
    PROVE  \E x \in T : \A y \in T : x <= y
<1>1. IsWellFoundedOn(OpToRel(<, Nat), Nat)
  BY NatLessThanWellFounded
<1>2. PICK x \in T : \A y \in T : ~(<<y, x>> \in OpToRel(<, Nat))
  BY <1>1, WFMin
<1>3. \A y \in T : ~(y < x)
  BY <1>2 DEF OpToRel
<1> QED
  BY <1>3

\* A set of natural numbers which has 0, and the next of each, has all.
LEMMA Induction ==
    ASSUME NEW T, T \subseteq Nat, 0 \in T, \A n \in T : n + 1 \in T
    PROVE  T = Nat
<1> SUFFICES ASSUME Nat \ T # {}
             PROVE  FALSE
  OBVIOUS
<1>1. PICK x \in Nat \ T : \A y \in Nat \ T : x <= y
  BY Smallest
<1>2. x - 1 \in Nat /\ x - 1 \in T
  BY <1>1
<1> QED
  BY <1>1, <1>2

\* Max() of SequencesExt is the largest of a set.
LEMMA LargestIs ==
    ASSUME NEW S, S \subseteq Int, NEW m \in S, \A y \in S : y <= m
    PROVE  Max(S) = m
<1> DEFINE Largest(x) == x \in S /\ \A y \in S : x >= y
<1>1. Largest(m)
  OBVIOUS
<1>2. Largest(CHOOSE x : Largest(x))
  BY <1>1, Zenon
<1>3. Max(S) = CHOOSE x : Largest(x)
  BY DEF Max
<1>4. Largest(Max(S))
  BY <1>2, <1>3
<1>5. Max(S) \in Int /\ m \in Int
  BY <1>4
<1>6. Max(S) >= m /\ Max(S) <= m
  BY <1>4
<1> HIDE DEF Largest
<1> QED
  BY <1>5, <1>6

\* Max() is the largest of numbers up to n.
LEMMA LargestOf ==
    ASSUME NEW n \in Nat, NEW S \in SUBSET (1 .. n), S # {}
    PROVE  Max(S) \in S /\ \A y \in S : y <= Max(S)
<1> DEFINE T == {k \in Nat : \E y \in S : k = n - y}
<1>1. T # {} /\ T \subseteq Nat
  <2>1. PICK y \in S : TRUE
    OBVIOUS
  <2>2. n - y \in T
    BY <2>1
  <2> QED
    BY <2>2
<1>2. PICK k \in T : \A j \in T : k <= j
  BY <1>1, Smallest
<1>3. PICK m \in S : k = n - m
  BY <1>2
<1>4. \A y \in S : y <= m
  <2> TAKE y \in S
  <2>1. n - y \in T
    OBVIOUS
  <2> QED
    <3>1. k <= n - y /\ k = n - m
      BY <1>2, <1>3, <2>1
    <3>2. m \in Int /\ y \in Int /\ n \in Int
      OBVIOUS
    <3> QED
      BY <3>1, <3>2
<1>5. S \subseteq Int
  OBVIOUS
<1>6. Max(S) = m
  BY <1>3, <1>4, <1>5, LargestIs
<1> QED
  BY <1>3, <1>4, <1>6

\* The numbers up to n + 1 are those up to n, and n + 1, which is the largest.
LEMMA Beginnings ==
    ASSUME NEW n \in Nat
    PROVE  /\ 1 .. 0 = {}
           /\ (1 .. n + 1) \ {n + 1} = 1 .. n /\ n + 1 \in 1 .. n + 1
           /\ Max(1 .. n + 1) = n + 1
<1>1. n + 1 \in 1 .. n + 1 /\ 1 .. n + 1 \subseteq Int /\ \A y \in 1 .. n + 1 : y <= n + 1
  OBVIOUS
<1>2. Max(1 .. n + 1) = n + 1
  BY <1>1, LargestIs
<1>3. 1 .. 0 = {} /\ (1 .. n + 1) \ {n + 1} = 1 .. n
  OBVIOUS
<1> QED
  BY <1>1, <1>2, <1>3

\* Beginnings are among the subsets of a longer beginning.
LEMMA BeginningsOf ==
    ASSUME NEW m \in Nat, NEW n \in Nat, m <= n
    PROVE  1 .. m \in SUBSET (1 .. n)
OBVIOUS

----------------------------------------------------------------------------
(* A table has, for every set of places, what the fold makes of them; G    *)
(* takes in the element at a place.                                        *)

IsTable(t, n, b, G) ==
    \A S \in SUBSET (1 .. n) :
        t[S] = IF S = {} THEN b ELSE G[Max(S)][t[S \ {Max(S)}]]

\* One place more
Longer(u, m, G) ==
    [S \in SUBSET (1 .. m + 1) |->
        IF m + 1 \in S THEN G[m + 1][u[S \ {m + 1}]] ELSE u[S]]

\* A table of what is folded up to m gives one up to m + 1.
LEMMA TableGrows ==
    ASSUME NEW A, NEW b \in A, NEW n \in Nat, NEW G \in [1 .. n -> [A -> A]],
           NEW m \in Nat, m + 1 <= n, NEW u \in [SUBSET (1 .. m) -> A], IsTable(u, m, b, G)
    PROVE  Longer(u, m, G) \in [SUBSET (1 .. m + 1) -> A] /\ IsTable(Longer(u, m, G), m + 1, b, G)
<1> DEFINE t == Longer(u, m, G)
<1>1. ASSUME NEW S \in SUBSET (1 .. m + 1)
      PROVE  /\ t[S] \in A
             /\ t[S] = IF S = {} THEN b ELSE G[Max(S)][t[S \ {Max(S)}]]
  <2>1. S \ {m + 1} \in SUBSET (1 .. m)
    OBVIOUS
  <2>2. CASE m + 1 \in S
    <3>1. Max(S) = m + 1
      <4>1. S \subseteq Int /\ \A y \in S : y <= m + 1
        OBVIOUS
      <4> QED
        BY <2>2, <4>1, LargestIs
    <3>2. t[S] = G[m + 1][u[S \ {m + 1}]] /\ t[S \ {m + 1}] = u[S \ {m + 1}]
      BY <2>1, <2>2 DEF Longer
    <3>3. m + 1 \in 1 .. n /\ u[S \ {m + 1}] \in A
      BY <2>1
    <3>4. G[m + 1][u[S \ {m + 1}]] \in A
      BY <3>3
    <3> QED
      BY <2>2, <3>1, <3>2, <3>4
  <2>3. CASE m + 1 \notin S
    <3>1. S \in SUBSET (1 .. m)
      BY <2>1, <2>3
    <3>2. t[S] = u[S] /\ u[S] \in A
      BY <2>3, <3>1 DEF Longer
    <3>3. S \ {Max(S)} \in SUBSET (1 .. m + 1) /\ m + 1 \notin S \ {Max(S)}
      BY <2>3
    <3>4. t[S \ {Max(S)}] = u[S \ {Max(S)}]
      BY <3>3 DEF Longer
    <3>5. u[S] = IF S = {} THEN b ELSE G[Max(S)][u[S \ {Max(S)}]]
      BY <3>1 DEF IsTable
    <3> QED
      BY <3>2, <3>4, <3>5
  <2> QED
    BY <2>2, <2>3
<1>2. t \in [SUBSET (1 .. m + 1) -> A]
  BY <1>1 DEF Longer
<1> QED
  BY <1>1, <1>2 DEF IsTable

\* There is a table for every length.
LEMMA TableExists ==
    ASSUME NEW A, NEW b \in A, NEW n \in Nat, NEW G \in [1 .. n -> [A -> A]]
    PROVE  \E t \in [SUBSET (1 .. n) -> A] : IsTable(t, n, b, G)
<1> DEFINE P(m) == m <= n => \E t \in [SUBSET (1 .. m) -> A] : IsTable(t, m, b, G)
           T == {m \in Nat : P(m)}
<1>1. P(0)
  <2>1. SUBSET (1 .. 0) = {{}}
    BY Beginnings
  <2>2. IsTable([S \in SUBSET (1 .. 0) |-> b], 0, b, G)
    BY <2>1 DEF IsTable
  <2> QED
    BY <2>2
<1>2. ASSUME NEW m \in Nat, P(m)
      PROVE  P(m + 1)
  <2>1. ASSUME m + 1 <= n
        PROVE  \E t \in [SUBSET (1 .. m + 1) -> A] : IsTable(t, m + 1, b, G)
    <3>1. m <= n
      BY <2>1
    <3>2. PICK u \in [SUBSET (1 .. m) -> A] : IsTable(u, m, b, G)
      BY <1>2, <3>1
    <3> QED
      BY <2>1, <3>2, TableGrows
  <2> QED
    BY <2>1
<1>3. P(n)
  <2> HIDE DEF P
  <2>1. T \subseteq Nat /\ 0 \in T /\ \A m \in T : m + 1 \in T
    BY <1>1, <1>2
  <2>2. T = Nat
    BY <2>1, Induction
  <2> QED
    BY <2>2
<1>4. n <= n
  OBVIOUS
<1> QED
  BY <1>3, <1>4

\* The same rule, as long as the results stay in A
Follows(u, A, n, b, G) ==
    /\ u[{}] = b
    /\ \A S \in SUBSET (1 .. n) : S # {} /\ u[S \ {Max(S)}] \in A
           => u[S] = G[Max(S)][u[S \ {Max(S)}]]

IsTableIn(t, A, n, b, G) ==
    /\ b \in A /\ G \in [1 .. n -> [A -> A]]
    /\ t \in [SUBSET (1 .. n) -> A] /\ IsTable(t, n, b, G)

\* What follows the rule is the table on every beginning.
LEMMA TablesAgree ==
    ASSUME NEW A, NEW n \in Nat, NEW b, NEW G, NEW t, IsTableIn(t, A, n, b, G),
           NEW u, Follows(u, A, n, b, G)
    PROVE  \A m \in 0 .. n : u[1 .. m] = t[1 .. m]
<1> USE DEF IsTableIn
<1> DEFINE P(m) == m <= n => u[1 .. m] = t[1 .. m]
           T == {m \in Nat : P(m)}
<1>1. P(0)
  <2>1. {} \in SUBSET (1 .. n)
    OBVIOUS
  <2>2. t[{}] = b
    BY <2>1 DEF IsTable
  <2>3. u[{}] = b
    BY Zenon DEF Follows
  <2> QED
    BY <2>2, <2>3, Beginnings
<1>2. ASSUME NEW m \in Nat, P(m)
      PROVE  P(m + 1)
  <2>1. ASSUME m + 1 <= n
        PROVE  u[1 .. m + 1] = t[1 .. m + 1]
    <3> DEFINE S == 1 .. m + 1
    <3>1. m <= n /\ m + 1 \in Nat
      BY <2>1, SMT
    <3>2. Max(S) = m + 1 /\ S # {} /\ S \ {m + 1} = 1 .. m
      BY <3>1, Beginnings
    <3>3. S \in SUBSET (1 .. n) /\ 1 .. m \in SUBSET (1 .. n)
      BY <2>1, <3>1, BeginningsOf
    <3>4. u[1 .. m] = t[1 .. m] /\ t[1 .. m] \in A
      BY <1>2, <3>1, <3>3
    <3> HIDE DEF S
    <3>5. u[S] = G[m + 1][u[1 .. m]]
      <4>1. S \ {Max(S)} = 1 .. m
        BY <3>2
      <4>2. u[S \ {Max(S)}] \in A
        BY <3>4, <4>1
      <4>3. u[S] = G[Max(S)][u[S \ {Max(S)}]]
        BY <3>2, <3>3, <4>2, Zenon DEF Follows
      <4> QED
        BY <3>2, <4>1, <4>3
    <3>6. t[S] = G[m + 1][t[1 .. m]]
      BY <3>2, <3>3 DEF IsTable
    <3> QED
      BY <3>4, <3>5, <3>6 DEF S
  <2> QED
    BY <2>1
<1>3. \A m \in Nat : P(m)
  <2> HIDE DEF P
  <2>1. T \subseteq Nat /\ 0 \in T /\ \A m \in T : m + 1 \in T
    BY <1>1, <1>2
  <2>2. T = Nat
    BY <2>1, Induction
  <2> QED
    BY <2>2
<1>4. \A m \in 0 .. n : m \in Nat /\ m <= n
  OBVIOUS
<1> QED
  BY <1>3, <1>4

----------------------------------------------------------------------------
(* The result of folding a function K over a sequence.                     *)

Taking(K, s) == [i \in 1 .. Len(s) |-> K[s[i]]]

Table(K, A, b, s) ==
    CHOOSE t \in [SUBSET (1 .. Len(s)) -> A] : IsTable(t, Len(s), b, Taking(K, s))

Result(K, A, b, s) == Table(K, A, b, s)[1 .. Len(s)]

\* What each element does.
LEMMA TakingIs ==
    ASSUME NEW A, NEW B, NEW K \in [B -> [A -> A]], NEW s \in Seq(B)
    PROVE  /\ Taking(K, s) \in [1 .. Len(s) -> [A -> A]]
           /\ \A i \in 1 .. Len(s) : s[i] \in B /\ Taking(K, s)[i] = K[s[i]]
<1>1. \A i \in 1 .. Len(s) : s[i] \in B
  OBVIOUS
<1> QED
  BY <1>1 DEF Taking

\* The table of a fold is one.
LEMMA TableIs ==
    ASSUME NEW A, NEW B, NEW K \in [B -> [A -> A]], NEW b \in A, NEW s \in Seq(B)
    PROVE  IsTableIn(Table(K, A, b, s), A, Len(s), b, Taking(K, s))
<1>1. Len(s) \in Nat
  OBVIOUS
<1>2. \E t \in [SUBSET (1 .. Len(s)) -> A] : IsTable(t, Len(s), b, Taking(K, s))
  BY <1>1, TakingIs, TableExists
<1>3. /\ Table(K, A, b, s) \in [SUBSET (1 .. Len(s)) -> A]
      /\ IsTable(Table(K, A, b, s), Len(s), b, Taking(K, s))
  BY <1>2, Zenon DEF Table
<1> QED
  BY <1>3, TakingIs DEF IsTableIn

\* Whatever follows the elements agrees with the table at the end.
LEMMA AllTaken ==
    ASSUME NEW A, NEW n \in Nat, NEW b, NEW G, NEW t, IsTableIn(t, A, n, b, G),
           NEW u, Follows(u, A, n, b, G)
    PROVE  u[1 .. n] = t[1 .. n] /\ t[1 .. n] \in A
<1>1. \A m \in 0 .. n : u[1 .. m] = t[1 .. m]
  BY TablesAgree
<1>2. n \in 0 .. n
  OBVIOUS
<1>3. 1 .. n \in SUBSET (1 .. n)
  OBVIOUS
<1>4. t[1 .. n] \in A
  BY <1>3 DEF IsTableIn
<1> QED
  BY <1>1, <1>2, <1>4

\* Whatever follows the elements has the result of the fold.
LEMMA ResultIs ==
    ASSUME NEW A, NEW B, NEW K \in [B -> [A -> A]], NEW b \in A, NEW s \in Seq(B),
           NEW u, Follows(u, A, Len(s), b, Taking(K, s))
    PROVE  /\ u[1 .. Len(s)] = Result(K, A, b, s)
           /\ Result(K, A, b, s) \in A
<1>1. Len(s) \in Nat
  OBVIOUS
<1>2. IsTableIn(Table(K, A, b, s), A, Len(s), b, Taking(K, s))
  BY TableIs
<1> QED
  BY <1>1, <1>2, AllTaken DEF Result

\* A table follows the elements of the beginning.
LEMMA FollowsOf ==
    ASSUME NEW A, NEW n \in Nat, NEW b, NEW G, NEW t, IsTableIn(t, A, n + 1, b, G),
           NEW H, \A i \in 1 .. n : H[i] = G[i]
    PROVE  Follows(t, A, n, b, H)
<1>1. t[{}] = b
  <2>1. {} \in SUBSET (1 .. n + 1)
    OBVIOUS
  <2> QED
    BY <2>1 DEF IsTableIn, IsTable
<1>2. ASSUME NEW S \in SUBSET (1 .. n), S # {}, t[S \ {Max(S)}] \in A
      PROVE  t[S] = H[Max(S)][t[S \ {Max(S)}]]
  <2>1. Max(S) \in 1 .. n
    BY <1>2, LargestOf
  <2>2. S \in SUBSET (1 .. n + 1)
    OBVIOUS
  <2>3. t[S] = G[Max(S)][t[S \ {Max(S)}]]
    BY <1>2, <2>2 DEF IsTableIn, IsTable
  <2> QED
    BY <1>2, <2>1, <2>3
<1> QED
  BY <1>1, <1>2 DEF Follows

\* Nothing is folded of an empty sequence.
LEMMA ResultEmpty ==
    ASSUME NEW A, NEW B, NEW K \in [B -> [A -> A]], NEW b \in A
    PROVE  Result(K, A, b, <<>>) = b
<1>1. <<>> \in Seq(B) /\ Len(<<>>) = 0
  OBVIOUS
<1>2. IsTable(Table(K, A, b, <<>>), 0, b, Taking(K, <<>>))
  BY <1>1, TableIs DEF IsTableIn
<1>3. Table(K, A, b, <<>>)[{}] = b
  <2>1. {} \in SUBSET (1 .. 0)
    OBVIOUS
  <2> QED
    BY <1>2, <2>1 DEF IsTable
<1> QED
  BY <1>1, <1>3, Beginnings DEF Result

\* The last element is folded after all before it.
LEMMA ResultAppend ==
    ASSUME NEW A, NEW B, NEW K \in [B -> [A -> A]], NEW b \in A, NEW s \in Seq(B), NEW x \in B
    PROVE  Result(K, A, b, Append(s, x)) = K[x][Result(K, A, b, s)]
<1> DEFINE r == Append(s, x)
           n == Len(s)
           t == Table(K, A, b, r)
           G == Taking(K, r)
<1>1. n \in Nat /\ r \in Seq(B) /\ Len(r) = n + 1 /\ r[n + 1] = x
  OBVIOUS
<1>2. IsTableIn(t, A, n + 1, b, G)
  <2>1. IsTableIn(t, A, Len(r), b, G)
    BY <1>1, TableIs
  <2> QED
    BY <1>1, <2>1
<1>3. \A i \in 1 .. n : Taking(K, s)[i] = G[i]
  <2>1. \A i \in 1 .. n : i \in 1 .. n + 1 /\ r[i] = s[i]
    OBVIOUS
  <2>2. \A i \in 1 .. n : Taking(K, s)[i] = K[s[i]]
    BY DEF Taking
  <2>3. \A i \in 1 .. n + 1 : G[i] = K[r[i]]
    BY <1>1 DEF Taking
  <2> HIDE DEF r, n, G
  <2> QED
    BY <2>1, <2>2, <2>3
<1>4. Follows(t, A, n, b, Taking(K, s))
  <2> HIDE DEF t, G, n
  <2> QED
    BY <1>1, <1>2, <1>3, FollowsOf
<1>5. t[1 .. n] = Result(K, A, b, s) /\ Result(K, A, b, s) \in A
  <2> HIDE DEF t
  <2> QED
    BY <1>4, ResultIs
<1>6. t[1 .. n + 1] = G[n + 1][t[1 .. n]]
  <2>1. /\ 1 .. n + 1 \in SUBSET (1 .. n + 1)
        /\ 1 .. n + 1 # {} /\ Max(1 .. n + 1) = n + 1 /\ (1 .. n + 1) \ {n + 1} = 1 .. n
    BY <1>1, Beginnings
  <2> HIDE DEF t, G, n
  <2> QED
    BY <1>2, <2>1 DEF IsTableIn, IsTable
<1>7. G[n + 1][t[1 .. n]] = K[x][t[1 .. n]]
  <2>1. n + 1 \in 1 .. n + 1 /\ t[1 .. n] \in A
    BY <1>1, <1>5
  <2>2. \A i \in 1 .. n + 1 : G[i] = K[r[i]]
    BY <1>1 DEF Taking
  <2> HIDE DEF t, G, n, r
  <2> QED
    BY <1>1, <2>1, <2>2
<1>8. Result(K, A, b, r) = t[1 .. n + 1]
  BY <1>1 DEF Result
<1> HIDE DEF t, G, n
<1> QED
  BY <1>5, <1>6, <1>7, <1>8
=============================================================================
