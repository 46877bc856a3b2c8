-------------------------- MODULE FetchCacheProofs --------------------------
(***************************************************************************)
(* Proofs about FetchCache, for any callers, pages and requests.           *)
(***************************************************************************)
EXTENDS FetchCache, SequenceTheorems, FiniteSetTheorems, TLAPS

(* A set of numbers that is not empty has a least one.                     *)
LEMMA Least ==
  ASSUME NEW T \in SUBSET Nat, T # {}
  PROVE  \E i \in T : \A j \in T : i <= j
  <1> DEFINE R == {ss \in Nat \X Nat : ss[1] < ss[2]}
  <1>1. IsWellFoundedOn(R, Nat)
    BY NatLessThanWellFounded DEF OpToRel
  <1>2. \A i, j \in Nat : j < i => <<j, i>> \in R
    OBVIOUS
  <1> HIDE DEF R
  <1>3. \E i \in T : \A j \in T : <<j, i>> \notin R
    BY <1>1, WFMin
  <1>4. \E i \in T : \A j \in T : ~(j < i)
    BY <1>2, <1>3
  <1> QED
    BY <1>4

-----------------------------------------------------------------------------
(* A tree in document order: what is below a node is an interval.          *)

LEMMA Nodes ==
  ASSUME NEW tree, IsTree(tree)
  PROVE  /\ Len(tree) \in Nat /\ Len(tree) >= 1 /\ DOMAIN tree = 1..Len(tree)
         /\ tree \in Seq(Node)
         /\ \A n \in 1..Len(tree) :
              /\ tree[n] \in Node /\ tree[n].parent \in Nat /\ tree[n].parent < n
              /\ n > 1 => tree[n].parent \in 1..Len(tree)
              /\ tree[1].parent = 0
  <1>1. tree \in Seq(Node) /\ tree # <<>>
    BY DEF IsTree
  <1>2. Len(tree) \in Nat /\ Len(tree) >= 1 /\ DOMAIN tree = 1..Len(tree)
    BY <1>1, LenProperties, EmptySeq
  <1>3. \A n \in 1..Len(tree) : tree[n] \in Node
    BY <1>1, ElementOfSeq
  <1>4. \A node \in Node : node.parent \in Nat
    BY DEF Node
  <1>5. \A n \in 1..Len(tree) : tree[n].parent \in Nat /\ tree[n].parent < n
                                /\ (n > 1 => tree[n].parent > 0)
    BY <1>2, <1>3, <1>4 DEF IsTree
  <1> QED
    BY <1>1, <1>2, <1>3, <1>5

(* A recursion over the parents, which are smaller, defines a function.    *)
LEMMA PathStep ==
  ASSUME NEW tree, IsTree(tree), NEW n \in 1..Len(tree)
  PROVE  Path(tree, n) = {n} \cup (IF tree[n].parent = 0 THEN {}
                                   ELSE Path(tree, tree[n].parent))
  <1> DEFINE L == Len(tree)
             Is(f, k) == f = [m \in 1..k |-> {m} \cup (IF tree[m].parent = 0 THEN {}
                                                       ELSE f[tree[m].parent])]
             Up(f) == f = [m \in DOMAIN tree |-> {m} \cup (IF tree[m].parent = 0 THEN {}
                                                          ELSE f[tree[m].parent])]
  <1>1. /\ L \in Nat /\ L >= 1 /\ DOMAIN tree = 1..L
        /\ \A m \in 1..L : tree[m].parent \in Nat /\ tree[m].parent < m
    BY Nodes
  <1>2. \A k \in 0..L : \E f : Is(f, k)
    <2> DEFINE T == {k \in 0..L : ~\E f : Is(f, k)}
    <2> SUFFICES ASSUME T # {} PROVE FALSE
      OBVIOUS
    <2>1. PICK k \in T : \A j \in T : k <= j
      <3>1. T \in SUBSET Nat
        BY <1>1
      <3> HIDE DEF T
      <3> QED
        BY <3>1, Least
    <2>2. k # 0
      <3>1. Is([m \in 1..0 |-> {}], 0)
        OBVIOUS
      <3> QED
        BY <3>1
    <2>3. PICK f : Is(f, k - 1)
      <3>1. k - 1 \in 0..L /\ ~(k <= k - 1)
        BY <1>1, <2>2
      <3> QED
        BY <2>1, <3>1
    <2> DEFINE g == [m \in 1..k |-> {m} \cup (IF tree[m].parent = 0 THEN {}
                                              ELSE f[tree[m].parent])]
    <2>4. \A m \in 1..k - 1 : g[m] = f[m]
      <3>1. \A m \in 1..k - 1 : m \in 1..k
        BY <1>1
      <3> QED
        BY <2>3, <3>1
    <2>5. \A m \in 1..k : tree[m].parent # 0 => g[tree[m].parent] = f[tree[m].parent]
      <3>1. \A m \in 1..k : tree[m].parent # 0 => tree[m].parent \in 1..k - 1
        BY <1>1
      <3> QED
        BY <2>4, <3>1
    <2>6. Is(g, k)
      BY <2>5
    <2> QED
      BY <2>6
  <1>3. \E f : Up(f)
    <2>1. L \in 0..L
      BY <1>1
    <2> HIDE DEF L, Is
    <2>2. PICK f : Is(f, L)
      BY <1>2, <2>1
    <2> USE DEF L, Is
    <2> QED
      BY <1>1, <2>2
  <1> DEFINE up == CHOOSE f : Up(f)
  <1>4. Up(up)
    <2> HIDE DEF Up
    <2> QED
      BY <1>3
  <1>5. \A m : Path(tree, m) = up[m]
    BY Zenon DEF Path
  <1> HIDE DEF up
  <1>6. up[n] = {n} \cup (IF tree[n].parent = 0 THEN {} ELSE up[tree[n].parent])
    BY <1>1, <1>4
  <1> QED
    BY <1>5, <1>6

(* The path of a node leads from it to the document, and is the part of    *)
(* every path it is on.                                                    *)
LEMMA PathFacts ==
  ASSUME NEW tree, IsTree(tree)
  PROVE  \A m \in 1..Len(tree) :
           /\ m \in Path(tree, m) /\ 1 \in Path(tree, m)
           /\ \A a \in Path(tree, m) : a \in 1..m
           /\ \A a \in Path(tree, m) : a # m => a \in Path(tree, tree[m].parent)
           /\ \A b \in Path(tree, m) : \A a \in Path(tree, b) : a \in Path(tree, m)
           /\ \A a, b \in Path(tree, m) : a <= b => a \in Path(tree, b)
  <1> DEFINE Good(m) ==
               /\ m \in Path(tree, m) /\ 1 \in Path(tree, m)
               /\ \A a \in Path(tree, m) : a \in 1..m
               /\ \A a \in Path(tree, m) : a # m => a \in Path(tree, tree[m].parent)
               /\ \A b \in Path(tree, m) : \A a \in Path(tree, b) : a \in Path(tree, m)
               /\ \A a, b \in Path(tree, m) : a <= b => a \in Path(tree, b)
             T == {m \in 1..Len(tree) : ~Good(m)}
  <1> SUFFICES ASSUME T # {} PROVE FALSE
    OBVIOUS
  <1>1. PICK m \in T : \A j \in T : m <= j
    <2>1. T \in SUBSET Nat
      OBVIOUS
    <2> HIDE DEF T
    <2> QED
      BY <2>1, Least
  <1> DEFINE p == tree[m].parent
  <1>2. m \in 1..Len(tree) /\ p \in Nat /\ p < m /\ (m > 1 => p \in 1..Len(tree) /\ p # 0)
    BY Nodes
  <1>3. Path(tree, m) = {m} \cup (IF p = 0 THEN {} ELSE Path(tree, p))
    BY PathStep
  <1>4. CASE p = 0
    <2>1. m = 1 /\ Path(tree, m) = {m}
      BY <1>2, <1>3, <1>4
    <2>2. Good(m)
      BY <2>1
    <2> QED
      BY <1>1, <2>2
  <1>5. CASE p # 0
    <2>1. Good(p) /\ m > 1
      <3>1. p \in 1..Len(tree) /\ ~(m <= p)
        BY <1>2, <1>5, Nodes
      <3> HIDE DEF Good, p
      <3> QED
        BY <1>1, <1>2, <3>1
    <2>2. Path(tree, m) = {m} \cup Path(tree, p)
      BY <1>3, <1>5
    <2>3. \A a \in Path(tree, m) : a = m \/ (a \in Path(tree, p) /\ a \in 1..p)
      BY <2>1, <2>2
    <2>4. m \in Path(tree, m) /\ 1 \in Path(tree, m)
      BY <2>1, <2>2
    <2>5. \A a \in Path(tree, m) : a \in 1..m
      BY <1>2, <2>3
    <2>6. \A a \in Path(tree, m) : a # m => a \in Path(tree, p)
      BY <2>3
    <2>7. \A b \in Path(tree, m) : \A a \in Path(tree, b) : a \in Path(tree, m)
      BY <2>1, <2>2, <2>3
    <2>8. ASSUME NEW a \in Path(tree, m), NEW b \in Path(tree, m), a <= b
          PROVE  a \in Path(tree, b)
      <3>1. CASE b = m
        BY <3>1
      <3>2. CASE b # m
        <4>1. b \in Path(tree, p) /\ a # m
          BY <1>2, <2>3, <2>8, <3>2
        <4>2. a \in Path(tree, p)
          BY <2>3, <4>1
        <4> QED
          BY <2>1, <2>8, <4>1, <4>2
      <3> QED
        BY <3>1, <3>2
    <2>9. Good(m)
      BY <2>4, <2>5, <2>6, <2>7, <2>8
    <2> QED
      BY <1>1, <2>9
  <1> QED
    BY <1>4, <1>5

(* What is on the path of a node is on the path of all between the two: in *)
(* document order, what is below a node is an interval.                    *)
LEMMA Contiguous ==
  ASSUME NEW tree, IsPage(tree), NEW m \in 1..Len(tree), NEW a \in Path(tree, m)
  PROVE  \A q \in a..m : a \in Path(tree, q)
  <1>1. IsTree(tree) /\ Len(tree) \in Nat /\ a \in 1..m
    BY Nodes, PathFacts DEF IsPage
  <1> DEFINE T == {j \in 0..m - a : a \notin Path(tree, m - j)}
  <1>2. T = {}
    <2> SUFFICES ASSUME T # {} PROVE FALSE
      OBVIOUS
    <2>1. PICK j \in T : \A i \in T : j <= i
      <3>1. T \in SUBSET Nat
        BY <1>1
      <3> HIDE DEF T
      <3> QED
        BY <3>1, Least
    <2>2. j \in 1..m - a /\ j - 1 \in 0..m - a /\ m - (j - 1) = (m - j) + 1
      BY <1>1
    <2>3. a \in Path(tree, (m - j) + 1)
      <3>1. j - 1 \notin T
        BY <2>1, <2>2
      <3> QED
        BY <2>2, <3>1
    <2> DEFINE q == (m - j) + 1
    <2>4. q \in 1..Len(tree) /\ q # 1 /\ q # a /\ q - 1 = m - j /\ q - 1 \in 1..Len(tree)
      BY <1>1, <2>2
    <2>5. DOMAIN tree = 1..Len(tree)
      BY <1>1, Nodes
    <2>6. tree[q].parent \in Path(tree, q - 1)
      BY <2>4, <2>5 DEF IsPage
    <2>7. a \in Path(tree, tree[q].parent)
      BY <1>1, <2>3, <2>4, PathFacts
    <2>8. a \in Path(tree, q - 1)
      <3> HIDE DEF q
      <3> QED
        BY <1>1, <2>4, <2>6, <2>7, PathFacts
    <2> QED
      BY <2>1, <2>4, <2>8
  <1>3. ASSUME NEW q \in a..m PROVE a \in Path(tree, q)
    <2>1. m - q \in 0..m - a /\ m - (m - q) = q
      BY <1>1
    <2> QED
      BY <1>2, <2>1
  <1> QED
    BY <1>3

(* What is below a node comes before what is below its next siblings.      *)
LEMMA Siblings ==
  ASSUME NEW tree, IsPage(tree), NEW k \in 1..Len(tree), NEW l \in 1..Len(tree), k < l,
         tree[k].parent = tree[l].parent,
         NEW m \in 1..Len(tree), k \in Path(tree, m),
         NEW n \in 1..Len(tree), l \in Path(tree, n)
  PROVE  m < n
  <1>1. IsTree(tree) /\ Len(tree) \in Nat
    BY Nodes DEF IsPage
  <1>2. SUFFICES ASSUME n <= m PROVE FALSE
    OBVIOUS
  <1>3. k \in 1..m /\ l \in 1..n
    BY <1>1, PathFacts
  <1>4. n \in k..m
    BY <1>2, <1>3
  <1>5. k \in Path(tree, n)
    BY <1>4, Contiguous
  <1>6. k \in Path(tree, l)
    BY <1>1, <1>5, PathFacts
  <1>7. k \in Path(tree, tree[k].parent)
    BY <1>1, <1>6, PathFacts
  <1>8. tree[l].parent \in 1..Len(tree) /\ tree[k].parent < k
    BY <1>1, Nodes
  <1> QED
    BY <1>1, <1>7, <1>8, PathFacts

(* A node below another one is below a child of that one, and between the  *)
(* two there is nothing else on its path.                                  *)
LEMMA ChildOnPath ==
  ASSUME NEW tree, IsTree(tree), NEW m \in 1..Len(tree), NEW a \in Path(tree, m), a # m
  PROVE  \E k \in Path(tree, m) :
           /\ tree[k].parent = a
           /\ \A q \in Path(tree, m) : q > a => q >= k
  <1> DEFINE T == {k \in Path(tree, m) : k > a}
  <1>1. Len(tree) \in Nat /\ a \in 1..m /\ m \in Path(tree, m)
        /\ \A k \in Path(tree, m) : k \in 1..m
    BY Nodes, PathFacts
  <1>2. T \in SUBSET Nat /\ m \in T
    <2>1. m > a
      BY <1>1
    <2>2. \A k \in Path(tree, m) : k \in Nat
      BY <1>1
    <2> QED
      BY <1>1, <2>1, <2>2
  <1>3. PICK k \in T : \A q \in T : k <= q
    <2> HIDE DEF T
    <2> QED
      BY <1>2, Least
  <1> DEFINE p == tree[k].parent
  <1>4. k \in 1..Len(tree) /\ k > 1 /\ k # a /\ a < k
    BY <1>1
  <1>10. p \in 1..Len(tree) /\ p < k
    BY <1>4, Nodes
  <1>5. a \in Path(tree, k)
    BY <1>1, <1>4, PathFacts
  <1>6. a \in Path(tree, p)
    BY <1>4, <1>5, PathFacts
  <1>7. p \in Path(tree, m)
    <2>1. p \in Path(tree, k)
      <3>1. Path(tree, k) = {k} \cup (IF p = 0 THEN {} ELSE Path(tree, p))
        BY <1>4, PathStep
      <3>2. p \in Path(tree, p)
        BY <1>10, PathFacts
      <3> QED
        BY <1>10, <3>1, <3>2
    <2> QED
      BY <2>1, PathFacts
  <1>8. a <= p
    <2>1. a \in 1..p
      BY <1>6, <1>10, PathFacts
    <2> QED
      BY <2>1
  <1>9. p = a
    <2> SUFFICES ASSUME p > a PROVE FALSE
      BY <1>1, <1>8, <1>10
    <2>1. p \in T
      BY <1>7
    <2> HIDE DEF T, p
    <2> QED
      BY <1>3, <1>4, <1>10, <2>1
  <1> QED
    BY <1>1, <1>3, <1>9

-----------------------------------------------------------------------------
(* Sequences of numbers that ascend.                                       *)

(* The elements of T, from the least one on.                               *)
Asc(s, T) ==
  /\ s \in Seq(Nat)
  /\ \A i, j \in 1..Len(s) : i < j => s[i] < s[j]
  /\ \A x : x \in T <=> \E i \in 1..Len(s) : s[i] = x

LEMMA AscSmall == Asc(<<>>, {}) /\ \A n \in Nat : Asc(<<n>>, {n})
  <1>1. Asc(<<>>, {})
    BY EmptySeq DEF Asc
  <1>2. ASSUME NEW n \in Nat PROVE Asc(<<n>>, {n})
    <2>1. <<n>> \in Seq(Nat) /\ Len(<<n>>) = 1 /\ <<n>>[1] = n
      OBVIOUS
    <2>2. 1..Len(<<n>>) = {1}
      BY <2>1
    <2> QED
      BY <2>1, <2>2 DEF Asc
  <1> QED
    BY <1>1, <1>2

LEMMA AscConcat ==
  ASSUME NEW s, NEW S, NEW t, NEW T, Asc(s, S), Asc(t, T), \A x \in S, y \in T : x < y
  PROVE  Asc(s \o t, S \cup T)
  <1> DEFINE u == s \o t
             k == Len(s)
             l == Len(t)
  <1>1. s \in Seq(Nat) /\ t \in Seq(Nat)
    BY DEF Asc
  <1>2. k \in Nat /\ l \in Nat
    BY <1>1, LenProperties
  <1>3. /\ u \in Seq(Nat) /\ Len(u) = k + l
        /\ \A i \in 1..k + l : u[i] = IF i <= k THEN s[i] ELSE t[i - k]
    BY <1>1, ConcatProperties
  <1>4. /\ \A i, j \in 1..k : i < j => s[i] < s[j]
        /\ \A x : x \in S <=> \E i \in 1..k : s[i] = x
    BY DEF Asc
  <1>5. /\ \A i, j \in 1..l : i < j => t[i] < t[j]
        /\ \A x : x \in T <=> \E i \in 1..l : t[i] = x
    BY DEF Asc
  <1> HIDE DEF u, k, l
  <1>6. ASSUME NEW i \in 1..k + l, NEW j \in 1..k + l, i < j PROVE u[i] < u[j]
    <2>1. CASE j <= k
      <3>1. i \in 1..k /\ j \in 1..k /\ u[i] = s[i] /\ u[j] = s[j]
        BY <1>2, <1>3, <1>6, <2>1
      <3> QED
        BY <1>4, <1>6, <3>1
    <2>2. CASE i > k
      <3>1. /\ i - k \in 1..l /\ j - k \in 1..l /\ i - k < j - k
            /\ u[i] = t[i - k] /\ u[j] = t[j - k]
        BY <1>2, <1>3, <1>6, <2>2
      <3> QED
        BY <1>5, <3>1
    <2>3. CASE i <= k /\ j > k
      <3>1. i \in 1..k /\ j - k \in 1..l /\ u[i] = s[i] /\ u[j] = t[j - k]
        BY <1>2, <1>3, <2>3
      <3>2. u[i] \in S /\ u[j] \in T
        BY <1>4, <1>5, <3>1
      <3> QED
        BY <3>2
    <2> QED
      BY <1>2, <2>1, <2>2, <2>3
  <1>7. ASSUME NEW i \in 1..k + l PROVE u[i] \in S \cup T
    <2>1. \/ i \in 1..k /\ u[i] = s[i]
          \/ i - k \in 1..l /\ u[i] = t[i - k]
      BY <1>2, <1>3
    <2> QED
      BY <1>4, <1>5, <2>1
  <1>8. ASSUME NEW x \in S PROVE \E i \in 1..k + l : u[i] = x
    <2>1. PICK i \in 1..k : s[i] = x
      BY <1>4
    <2>2. i \in 1..k + l /\ u[i] = s[i]
      BY <1>2, <1>3
    <2> QED
      BY <2>1, <2>2
  <1>9. ASSUME NEW x \in T PROVE \E i \in 1..k + l : u[i] = x
    <2>1. PICK i \in 1..l : t[i] = x
      BY <1>5
    <2>2. i + k \in 1..k + l /\ (i + k) - k = i /\ ~(i + k <= k)
      BY <1>2
    <2>3. u[i + k] = t[i]
      BY <1>3, <2>2
    <2> QED
      BY <2>1, <2>2, <2>3
  <1>10. Asc(u, S \cup T)
    BY <1>3, <1>6, <1>7, <1>8, <1>9 DEF Asc
  <1> QED
    BY <1>10 DEF u

(* There is one such sequence.                                             *)
LEMMA AscInOrder ==
  ASSUME NEW s, NEW T, Asc(s, T)
  PROVE  s = InOrder(T)
  <1> DEFINE n == Len(s)
             Upto(x) == {m \in T : m <= x}
  <1>1. s \in Seq(Nat) /\ n \in Nat /\ DOMAIN s = 1..n /\ \A i \in 1..n : s[i] \in Nat
    BY LenProperties, ElementOfSeq DEF Asc
  <1>2. /\ \A i, j \in 1..n : i < j => s[i] < s[j]
        /\ \A x : x \in T <=> \E i \in 1..n : s[i] = x
    BY DEF Asc
  <1> HIDE DEF n
  <1>3. \A i, j \in 1..n : (s[j] <= s[i] <=> j <= i) /\ (s[i] = s[j] => i = j)
    BY <1>1, <1>2
  <1>4. ASSUME NEW i \in 1..n PROVE Cardinality(Upto(s[i])) = i
    <2> DEFINE f == [j \in 1..i |-> s[j]]
    <2>1. \A j \in 1..i : j \in 1..n /\ j <= i
      BY <1>1
    <2>2. \A j \in 1..i : f[j] \in Upto(s[i])
      BY <1>2, <1>3, <2>1
    <2>3. \A j, k \in 1..i : f[j] = f[k] => j = k
      BY <1>3, <2>1
    <2>4. \A x \in Upto(s[i]) : \E j \in 1..i : f[j] = x
      <3> SUFFICES ASSUME NEW x \in T, x <= s[i] PROVE \E j \in 1..i : f[j] = x
        OBVIOUS
      <3>1. PICK j \in 1..n : s[j] = x
        BY <1>2
      <3>2. j <= i
        BY <1>3, <3>1
      <3>3. j \in 1..i
        BY <1>1, <3>2
      <3> QED
        BY <3>1, <3>3
    <2> HIDE DEF Upto
    <2>5. f \in Bijection(1..i, Upto(s[i]))
      BY <2>2, <2>3, <2>4 DEF Bijection, Injection, Surjection, IsInjective
    <2>6. IsFiniteSet(1..i) /\ Cardinality(1..i) = i
      <3>1. i \in Int /\ 1 \in Int /\ ~(1 > i) /\ i - 1 + 1 = i
        BY <1>1
      <3> QED
        BY <3>1, FS_Interval
    <2> QED
      BY <2>5, <2>6, FS_Bijection DEF ExistsBijection
  <1>5. Cardinality(T) = n
    <2>1. CASE n = 0
      <3>1. T = {}
        BY <1>2, <2>1
      <3> QED
        BY <2>1, <3>1, FS_EmptySet
    <2>2. CASE n # 0
      <3>1. n \in 1..n /\ \A j \in 1..n : j <= n
        BY <1>1, <2>2
      <3>2. \A x \in T : x <= s[n]
        BY <1>2, <1>3, <3>1
      <3>3. Upto(s[n]) = T
        BY <3>2
      <3> QED
        BY <1>4, <3>1, <3>3
    <2> QED
      BY <2>1, <2>2
  <1>6. ASSUME NEW i \in 1..n PROVE (CHOOSE x \in T : Cardinality(Upto(x)) = i) = s[i]
    <2>1. s[i] \in T /\ Cardinality(Upto(s[i])) = i
      BY <1>2, <1>4
    <2>2. ASSUME NEW x \in T, Cardinality(Upto(x)) = i PROVE x = s[i]
      <3>1. PICK j \in 1..n : s[j] = x
        BY <1>2
      <3>2. j = i
        BY <1>4, <2>2, <3>1
      <3> QED
        BY <3>1, <3>2
    <2> HIDE DEF Upto
    <2> QED
      BY <2>1, <2>2
  <1>7. s = [i \in 1..n |-> s[i]]
    BY <1>1
  <1>8. InOrder(T) = [i \in 1..n |-> CHOOSE x \in T : Cardinality(Upto(x)) = i]
    BY <1>5 DEF InOrder
  <1> HIDE DEF Upto
  <1> QED
    BY <1>6, <1>7, <1>8

-----------------------------------------------------------------------------
(* The recursion over first children and next siblings.                    *)

LEMMA FirstFacts ==
  ASSUME NEW tree, IsTree(tree), NEW T \in SUBSET (1..Len(tree)), T # {}
  PROVE  First(tree, T) \in T /\ \A m \in T : First(tree, T) <= m
  <1>1. \E n \in T : \A m \in T : n <= m
    <2>1. T \in SUBSET Nat
      BY Nodes
    <2> QED
      BY <2>1, Least
  <1> QED
    BY <1>1, Zenon DEF First

LEMMA Later ==
  ASSUME NEW tree, IsTree(tree), NEW n \in 1..Len(tree)
  PROVE  /\ FirstChild(tree, n) \in n + 1..Nil(tree)
         /\ NextSibling(tree, n) \in n + 1..Nil(tree)
  <1> DEFINE C == {m \in DOMAIN tree : tree[m].parent = n}
             S == {m \in DOMAIN tree : m > n /\ tree[m].parent = tree[n].parent}
  <1>1. Len(tree) \in Nat /\ DOMAIN tree = 1..Len(tree) /\ Nil(tree) = Len(tree) + 1
    BY Nodes DEF Nil
  <1>2. \A m \in C : m \in n + 1..Nil(tree)
    BY <1>1, Nodes
  <1>3. \A m \in S : m \in n + 1..Nil(tree)
    BY <1>1
  <1>4. Nil(tree) \in n + 1..Nil(tree)
    BY <1>1
  <1>5. C \in SUBSET (1..Len(tree)) /\ S \in SUBSET (1..Len(tree))
    BY <1>1
  <1>6. FirstChild(tree, n) = First(tree, C) /\ NextSibling(tree, n) = First(tree, S)
    BY DEF FirstChild, NextSibling
  <1>7. First(tree, {}) = Nil(tree)
    BY DEF First
  <1> HIDE DEF C, S
  <1> QED
    BY <1>2, <1>3, <1>4, <1>5, <1>6, <1>7, FirstFacts

LEMMA SiblingsStep ==
  ASSUME NEW tree, IsTree(tree), NEW taken, NEW left
  PROVE  LET siblings == CollectSiblings(tree, taken, left)
         IN  /\ siblings[Nil(tree)] = <<>>
             /\ \A n \in 1..Len(tree) :
                  siblings[n] = CollectNode(tree, n, taken, left, siblings)
                                  \o siblings[NextSibling(tree, n)]
  <1> DEFINE N == Nil(tree)
             At(n, f) == IF n = N THEN <<>>
                         ELSE CollectNode(tree, n, taken, left, f) \o f[NextSibling(tree, n)]
             Is(f, k) == f = [n \in k..N |-> At(n, f)]
  <1>1. N \in Nat /\ N >= 2 /\ Len(tree) = N - 1 /\ N \in 1..N
    BY Nodes DEF Nil
  <1>2. \A n \in 1..N : n # N => /\ FirstChild(tree, n) \in n + 1..N
                                 /\ NextSibling(tree, n) \in n + 1..N
    <2>1. \A n \in 1..N : n # N => n \in 1..Len(tree)
      BY <1>1
    <2> QED
      BY <2>1, Later
  <1> HIDE DEF N
  <1>3. \A n, f, g : /\ f[FirstChild(tree, n)] = g[FirstChild(tree, n)]
                     /\ f[NextSibling(tree, n)] = g[NextSibling(tree, n)]
                     => At(n, f) = At(n, g)
    BY DEF CollectNode
  <1> HIDE DEF At
  <1>4. \A k \in 0..N - 1 : \E f : Is(f, N - k)
    <2> DEFINE T == {k \in 0..N - 1 : ~\E f : Is(f, N - k)}
    <2> SUFFICES ASSUME T # {} PROVE FALSE
      OBVIOUS
    <2>1. PICK k \in T : \A j \in T : k <= j
      <3>1. T \in SUBSET Nat
        BY <1>1
      <3> HIDE DEF T
      <3> QED
        BY <3>1, Least
    <2> DEFINE l == N - k
    <2>2. l \in 1..N
      BY <1>1
    <2>3. PICK f : l < N => Is(f, l + 1)
      <3>1. CASE k = 0
        BY <1>1, <3>1
      <3>2. CASE k # 0
        <4>1. k - 1 \in 0..N - 1 /\ ~(k <= k - 1) /\ N - (k - 1) = l + 1
          BY <1>1, <3>2
        <4>2. \E f : Is(f, N - (k - 1))
          BY <2>1, <4>1
        <4> QED
          BY <4>1, <4>2
      <3> QED
        BY <3>1, <3>2
    <2> DEFINE g == [n \in l..N |-> IF n = l THEN At(n, f) ELSE f[n]]
    <2> HIDE DEF l
    <2>4. \A n \in l + 1..N : n \in l..N /\ n # l /\ l < N /\ g[n] = f[n]
      BY <1>1, <2>2
    <2>5. \A n \in l..N : n # N => At(n, g) = At(n, f)
      <3>1. ASSUME NEW n \in l..N, n # N
            PROVE  FirstChild(tree, n) \in l + 1..N /\ NextSibling(tree, n) \in l + 1..N
        <4>1. n \in 1..N /\ l \in Nat /\ l <= n
          BY <1>1, <2>2, <3>1
        <4>2. FirstChild(tree, n) \in n + 1..N /\ NextSibling(tree, n) \in n + 1..N
          BY <1>2, <3>1, <4>1
        <4> QED
          BY <1>1, <4>1, <4>2
      <3> HIDE DEF g
      <3> QED
        BY <1>3, <2>4, <3>1
    <2>6. At(N, g) = At(N, f)
      BY DEF At
    <2>7. ASSUME NEW n \in l..N PROVE g[n] = At(n, g)
      <3>1. CASE n = l
        BY <2>5, <2>6, <3>1
      <3>2. CASE n # l
        <4>1. n \in l + 1..N
          BY <1>1, <2>2, <3>2
        <4>2. Is(f, l + 1)
          BY <2>3, <2>4, <4>1
        <4>3. f[n] = At(n, f)
          BY <4>1, <4>2
        <4> HIDE DEF g
        <4> QED
          BY <2>4, <2>5, <2>6, <4>1, <4>3
      <3> QED
        BY <3>1, <3>2
    <2>8. Is(g, l)
      <3>1. g = [n \in l..N |-> g[n]]
        OBVIOUS
      <3> HIDE DEF g
      <3> QED
        BY <2>7, <3>1
    <2> QED
      BY <2>1, <2>8 DEF l
  <1>5. \E f : Is(f, 1)
    <2>1. N - 1 \in 0..N - 1 /\ N - (N - 1) = 1
      BY <1>1
    <2> HIDE DEF Is
    <2>2. \E f : Is(f, N - (N - 1))
      BY <1>4, <2>1
    <2> QED
      BY <2>1, <2>2
  <1> DEFINE siblings == CHOOSE f : Is(f, 1)
  <1>6. Is(siblings, 1)
    <2> HIDE DEF Is
    <2> QED
      BY <1>5
  <1>7. CollectSiblings(tree, taken, left) = siblings
    BY Zenon DEF CollectSiblings, At, N
  <1> HIDE DEF siblings
  <1>8. siblings[N] = At(N, siblings)
    BY <1>1, <1>6
  <1>9. \A n \in 1..Len(tree) : n # N /\ siblings[n] = At(n, siblings)
    <2>1. \A n \in 1..Len(tree) : n # N /\ n \in 1..N
      BY <1>1
    <2> QED
      BY <1>6, <2>1
  <1>10. At(N, siblings) = <<>>
    BY DEF At
  <1> QED
    BY <1>7, <1>8, <1>9, <1>10 DEF At, N

(* What is to be collected at a node and below it, and there and at its    *)
(* next siblings.                                                          *)
Under(tree, n, taken, left) ==
  {m \in taken : n \in Path(tree, m) /\ \A q \in Path(tree, m) : q >= n => q \notin left}

FromOn(tree, n, taken, left) ==
  {m \in taken : \E k \in n..Len(tree) :
     tree[k].parent = tree[n].parent /\ m \in Under(tree, k, taken, left)}

LEMMA UnderSplit ==
  ASSUME NEW tree, IsTree(tree), NEW taken \in SUBSET (1..Len(tree)), NEW left,
         NEW n \in 1..Len(tree), n \notin left
  PROVE  Under(tree, n, taken, left)
           = (taken \cap {n}) \cup FromOn(tree, FirstChild(tree, n), taken, left)
  <1> DEFINE C == {m \in DOMAIN tree : tree[m].parent = n}
             c == FirstChild(tree, n)
             U(k) == Under(tree, k, taken, left)
             F == FromOn(tree, c, taken, left)
  <1>1. Len(tree) \in Nat /\ DOMAIN tree = 1..Len(tree) /\ Nil(tree) = Len(tree) + 1
    BY Nodes DEF Nil
  <1>2. C = {} => c = Nil(tree)
    BY DEF FirstChild, First
  <1>3. C # {} => c \in C /\ \A m \in C : c <= m
    <2>1. c = First(tree, C)
      BY DEF FirstChild
    <2>2. C \in SUBSET (1..Len(tree))
      BY <1>1
    <2> HIDE DEF C, c
    <2> QED
      BY <2>1, <2>2, FirstFacts
  <1>4. \A m : m \in F <=> m \in taken /\ \E k \in C : m \in U(k)
    <2>1. CASE C = {}
      <3>1. c..Len(tree) = {}
        BY <1>1, <1>2, <2>1
      <3> QED
        BY <2>1, <3>1 DEF FromOn
    <2>2. CASE C # {}
      <3>1. c \in 1..Len(tree) /\ tree[c].parent = n
        BY <1>1, <1>3, <2>2
      <3>2. \A k : k \in C <=> k \in c..Len(tree) /\ tree[k].parent = tree[c].parent
        BY <1>1, <1>3, <2>2, <3>1
      <3> HIDE DEF C, c
      <3> QED
        BY <3>2 DEF FromOn
    <2> QED
      BY <2>1, <2>2
  <1>5. \A k \in C : k \in 1..Len(tree) /\ tree[k].parent = n /\ n < k
    BY <1>1, Nodes
  <1>6. ASSUME NEW m \in U(n) PROVE m \in (taken \cap {n}) \cup F
    <2>1. m \in taken /\ m \in 1..Len(tree) /\ n \in Path(tree, m)
          /\ \A q \in Path(tree, m) : q >= n => q \notin left
      BY DEF Under
    <2>2. CASE m # n
      <3>1. PICK k \in Path(tree, m) : tree[k].parent = n
        BY <2>1, <2>2, ChildOnPath
      <3>2. k \in 1..m
        BY <2>1, PathFacts
      <3>3. k \in C /\ n < k
        BY <1>1, <2>1, <3>1, <3>2, Nodes
      <3>4. \A q \in Path(tree, m) : q \in Nat /\ (q >= k => q >= n)
        <4>1. \A q \in Path(tree, m) : q \in 1..m
          BY <2>1, PathFacts
        <4>2. k \in Nat /\ n \in Nat /\ n < k
          BY <3>2, <3>3
        <4> HIDE DEF C
        <4> QED
          BY <4>1, <4>2
      <3>5. m \in U(k)
        BY <2>1, <3>4 DEF Under
      <3> QED
        BY <1>4, <2>1, <3>3, <3>5
    <2> QED
      BY <2>1, <2>2
  <1>7. ASSUME NEW m \in taken, NEW k \in C, m \in U(k) PROVE m \in U(n)
    <2>1. m \in 1..Len(tree) /\ k \in Path(tree, m)
          /\ \A q \in Path(tree, m) : q >= k => q \notin left
      BY <1>7 DEF Under
    <2>2. k \in 1..Len(tree) /\ tree[k].parent = n /\ n < k
      BY <1>5
    <2>3. Path(tree, k) = {k} \cup Path(tree, n)
      BY <2>2, PathStep
    <2>4. n \in Path(tree, k) /\ n \in Path(tree, m)
      BY <2>1, <2>3, PathFacts
    <2>5. ASSUME NEW q \in Path(tree, m), q >= n PROVE q \notin left
      <3>1. q \in 1..m
        BY <2>1, PathFacts
      <3>2. CASE q >= k
        BY <2>1, <3>2
      <3>3. CASE q < k
        <4>1. q \in Path(tree, k) /\ q # k
          BY <2>1, <2>2, <3>1, <3>3, PathFacts
        <4>2. q \in Path(tree, n)
          BY <2>3, <4>1
        <4>3. q \in 1..n
          BY <4>2, PathFacts
        <4>4. q = n
          BY <2>5, <4>3
        <4> QED
          BY <4>4
      <3> QED
        BY <2>2, <3>1, <3>2, <3>3
    <2> QED
      BY <2>4, <2>5 DEF Under
  <1>8. ASSUME n \in taken PROVE n \in U(n)
    <2>1. n \in Path(tree, n) /\ \A q \in Path(tree, n) : q \in 1..n
      BY PathFacts
    <2>2. \A q \in Path(tree, n) : q >= n => q = n
      BY <2>1
    <2> QED
      BY <1>8, <2>1, <2>2 DEF Under
  <1> HIDE DEF U, C, F
  <1>9. U(n) = (taken \cap {n}) \cup F
    BY <1>4, <1>6, <1>7, <1>8
  <1> QED
    BY <1>9 DEF U, F

LEMMA FromOnSplit ==
  ASSUME NEW tree, IsTree(tree), NEW taken \in SUBSET (1..Len(tree)), NEW left,
         NEW n \in 1..Len(tree)
  PROVE  FromOn(tree, n, taken, left)
           = Under(tree, n, taken, left) \cup FromOn(tree, NextSibling(tree, n), taken, left)
  <1> DEFINE S == {m \in DOMAIN tree : m > n /\ tree[m].parent = tree[n].parent}
             s == NextSibling(tree, n)
             U(k) == Under(tree, k, taken, left)
             F == FromOn(tree, s, taken, left)
  <1>1. Len(tree) \in Nat /\ DOMAIN tree = 1..Len(tree) /\ Nil(tree) = Len(tree) + 1
    BY Nodes DEF Nil
  <1>2. S = {} => s = Nil(tree)
    BY DEF NextSibling, First
  <1>3. S # {} => s \in S /\ \A m \in S : s <= m
    <2>1. s = First(tree, S)
      BY DEF NextSibling
    <2>2. S \in SUBSET (1..Len(tree))
      BY <1>1
    <2> HIDE DEF S, s
    <2> QED
      BY <2>1, <2>2, FirstFacts
  <1>4. \A m : m \in F <=> m \in taken /\ \E k \in S : m \in U(k)
    <2>1. CASE S = {}
      <3>1. s..Len(tree) = {}
        BY <1>1, <1>2, <2>1
      <3> QED
        BY <2>1, <3>1 DEF FromOn
    <2>2. CASE S # {}
      <3>1. s \in 1..Len(tree) /\ s > n /\ tree[s].parent = tree[n].parent
        BY <1>1, <1>3, <2>2
      <3>2. \A k : k \in S <=> k \in s..Len(tree) /\ tree[k].parent = tree[s].parent
        BY <1>1, <1>3, <2>2, <3>1
      <3> HIDE DEF S, s
      <3> QED
        BY <3>2 DEF FromOn
    <2> QED
      BY <2>1, <2>2
  <1>5. \A k : k \in n..Len(tree) /\ tree[k].parent = tree[n].parent <=> k = n \/ k \in S
    BY <1>1
  <1>6. \A m \in U(n) : m \in taken
    BY DEF Under
  <1>7. \A m : m \in FromOn(tree, n, taken, left)
                 <=> m \in taken /\ \E k : (k = n \/ k \in S) /\ m \in U(k)
    <2> HIDE DEF S
    <2> QED
      BY <1>5 DEF FromOn
  <1> HIDE DEF S, U, F, s
  <1>8. FromOn(tree, n, taken, left) = U(n) \cup F
    BY <1>4, <1>6, <1>7
  <1> QED
    BY <1>8 DEF U, F, s

(* Everything is collected that is to be, once, and in document order.     *)
LEMMA Collected ==
  ASSUME NEW tree, IsPage(tree), NEW taken \in SUBSET (1..Len(tree)), NEW left
  PROVE  \A n \in 1..Len(tree) :
           Asc(Collect(tree, n, taken, left), Under(tree, n, taken, left))
  <1> DEFINE N == Nil(tree)
             siblings == CollectSiblings(tree, taken, left)
             At(n) == CollectNode(tree, n, taken, left, siblings)
             U(n) == Under(tree, n, taken, left)
             F(n) == FromOn(tree, n, taken, left)
             Good(n) == Asc(siblings[n], F(n)) /\ (n # N => Asc(At(n), U(n)))
             T == {k \in 0..N - 1 : ~Good(N - k)}
  <1>1. IsTree(tree) /\ Len(tree) \in Nat /\ N = Len(tree) + 1
    BY Nodes DEF IsPage, Nil
  <1>2. Good(N)
    <2>1. N..Len(tree) = {}
      BY <1>1
    <2>2. F(N) = {}
      BY <2>1 DEF FromOn
    <2>3. siblings[N] = <<>>
      BY <1>1, SiblingsStep
    <2> QED
      BY <2>2, <2>3, AscSmall
  <1>3. ASSUME NEW n \in 1..Len(tree), \A k \in n + 1..N : Asc(siblings[k], F(k)) PROVE Good(n)
    <2> DEFINE c == FirstChild(tree, n)
               s == NextSibling(tree, n)
               Own == IF n \in taken THEN <<n>> ELSE <<>>
    <2>1. c \in n + 1..N /\ s \in n + 1..N
      BY <1>1, Later
    <2>2. Asc(At(n), U(n))
      <3>1. CASE n \in left
        <4>1. At(n) = <<>>
          BY <3>1 DEF CollectNode
        <4>2. U(n) = {}
          <5>1. n \in Nat /\ n >= n
            OBVIOUS
          <5> QED
            BY <3>1, <5>1 DEF Under
        <4> QED
          BY <4>1, <4>2, AscSmall
      <3>2. CASE n \notin left
        <4>1. At(n) = Own \o siblings[c]
          BY <3>2 DEF CollectNode
        <4>2. U(n) = (taken \cap {n}) \cup F(c)
          BY <1>1, <3>2, UnderSplit
        <4>3. Asc(Own, taken \cap {n})
          <5>1. CASE n \in taken
            <6>1. taken \cap {n} = {n} /\ Own = <<n>> /\ n \in Nat
              BY <5>1
            <6> QED
              BY <6>1, AscSmall
          <5>2. CASE n \notin taken
            <6>1. taken \cap {n} = {} /\ Own = <<>>
              BY <5>2
            <6> QED
              BY <6>1, AscSmall
          <5> QED
            BY <5>1, <5>2
        <4>4. Asc(siblings[c], F(c))
          BY <1>3, <2>1
        <4>5. \A x \in taken \cap {n}, y \in F(c) : x < y
          <5> SUFFICES ASSUME NEW y \in F(c) PROVE n < y
            OBVIOUS
          <5>1. PICK k \in c..Len(tree) : y \in U(k)
            BY DEF FromOn
          <5>2. y \in 1..Len(tree) /\ k \in Path(tree, y)
            BY <5>1 DEF Under
          <5>3. k \in 1..y
            BY <1>1, <5>2, PathFacts
          <5> QED
            BY <2>1, <5>2, <5>3
        <4> HIDE DEF siblings, At, U, F, c, Own
        <4> QED
          BY <4>1, <4>2, <4>3, <4>4, <4>5, AscConcat
      <3> QED
        BY <3>1, <3>2
    <2>3. Asc(siblings[n], F(n))
      <3>1. siblings[n] = At(n) \o siblings[s]
        BY <1>1, SiblingsStep
      <3>2. F(n) = U(n) \cup F(s)
        BY <1>1, FromOnSplit
      <3>3. \A x \in U(n), y \in F(s) : x < y
        <4> SUFFICES ASSUME NEW x \in U(n), NEW y \in F(s) PROVE x < y
          OBVIOUS
        <4>1. PICK l \in s..Len(tree) : tree[l].parent = tree[s].parent /\ y \in U(l)
          BY DEF FromOn
        <4>2. l \in 1..Len(tree) /\ n < l /\ s \in 1..Len(tree)
          BY <1>1, <2>1
        <4>3. tree[s].parent = tree[n].parent
          <5> DEFINE S == {m \in DOMAIN tree : m > n /\ tree[m].parent = tree[n].parent}
          <5>1. S # {}
            BY <1>1, <4>2 DEF NextSibling, First
          <5>2. S \in SUBSET (1..Len(tree)) /\ s = First(tree, S)
            BY <1>1, Nodes DEF NextSibling
          <5>3. s \in S
            <6> HIDE DEF S, s
            <6> QED
              BY <1>1, <5>1, <5>2, FirstFacts
          <5> QED
            BY <5>3
        <4>4. /\ x \in 1..Len(tree) /\ n \in Path(tree, x)
              /\ y \in 1..Len(tree) /\ l \in Path(tree, y)
          BY <4>1 DEF Under
        <4> QED
          BY <4>1, <4>2, <4>3, <4>4, Siblings
      <3>4. Asc(siblings[s], F(s))
        BY <1>3, <2>1
      <3> HIDE DEF siblings, At, U, F, s
      <3> QED
        BY <2>2, <3>1, <3>2, <3>3, <3>4, AscConcat
    <2> HIDE DEF siblings, At, U, F
    <2> QED
      BY <2>2, <2>3
  <1>4. T = {}
    <2> SUFFICES ASSUME T # {} PROVE FALSE
      OBVIOUS
    <2>1. PICK k \in T : \A j \in T : k <= j
      <3>1. T \in SUBSET Nat
        BY <1>1
      <3> HIDE DEF T
      <3> QED
        BY <3>1, Least
    <2> HIDE DEF Good
    <2>2. k # 0
      BY <1>1, <1>2
    <2> DEFINE n == N - k
    <2>3. n \in 1..Len(tree)
      BY <1>1, <2>2
    <2>4. ASSUME NEW l \in n + 1..N PROVE Good(l)
      <3>1. N - l \in 0..N - 1 /\ ~(k <= N - l) /\ N - (N - l) = l
        BY <1>1, <2>3
      <3> QED
        BY <2>1, <3>1
    <2>5. Good(n)
      <3> HIDE DEF n
      <3>1. \A l \in n + 1..N : Asc(siblings[l], F(l))
        BY <2>4 DEF Good
      <3> HIDE DEF siblings, F
      <3> QED
        BY <1>3, <2>3, <3>1
    <2> QED
      BY <2>1, <2>5
  <1>5. ASSUME NEW n \in 1..Len(tree) PROVE Asc(At(n), U(n))
    <2>1. N - n \in 0..N - 1 /\ N - (N - n) = n /\ n # N
      BY <1>1
    <2> HIDE DEF Good
    <2>2. Good(N - (N - n))
      BY <1>4, <2>1
    <2> QED
      BY <2>1, <2>2 DEF Good
  <1> QED
    BY <1>5 DEF Collect

-----------------------------------------------------------------------------
(* What is extracted of a page is what is visible.                         *)

(* The lines of the elements of T, in document order.                      *)
Lines(tree, T) == [i \in DOMAIN InOrder(T) |-> tree[InOrder(T)[i]].words]

Matched(tree, selector) == {n \in DOMAIN tree : Matches(tree[n], selector)}

Visible(tree, root, exclude) == {n \in DOMAIN tree : VisibleFrom(tree, root, exclude, n)}

LEMMA Included ==
  ASSUME NEW tree, IsPage(tree), NEW selector
  PROVE  Asc(IncludedNodes(tree, selector), Matched(tree, selector))
  <1> DEFINE M == Matched(tree, selector)
  <1>1. IsTree(tree) /\ DOMAIN tree = 1..Len(tree) /\ 1 \in 1..Len(tree)
    BY Nodes DEF IsPage
  <1>2. M \in SUBSET (1..Len(tree))
    BY <1>1 DEF Matched
  <1>3. IncludedNodes(tree, selector) = Collect(tree, 1, M, {})
    BY DEF IncludedNodes, Matched
  <1>4. \A m \in M : 1 \in Path(tree, m)
    BY <1>1, <1>2, PathFacts
  <1>5. Under(tree, 1, M, {}) = M
    BY <1>4 DEF Under
  <1> HIDE DEF M
  <1>6. Asc(Collect(tree, 1, M, {}), M)
    BY <1>1, <1>2, <1>5, Collected
  <1> QED
    BY <1>3, <1>6 DEF M

LEMMA NodeTextVisible ==
  ASSUME NEW tree, IsPage(tree), NEW root \in 1..Len(tree), NEW exclude
  PROVE  /\ NodeText(tree, root, exclude) = Lines(tree, Visible(tree, root, exclude))
         /\ NodeText(tree, root, exclude) \in Seq(SUBSET STRING)
  <1> DEFINE W == {n \in DOMAIN tree : tree[n].words # {}}
             X == {n \in DOMAIN tree : Matches(tree[n], exclude) \/ Hidden(tree[n])}
             V == Visible(tree, root, exclude)
             nodes == Collect(tree, root, W, X)
  <1>1. IsTree(tree) /\ DOMAIN tree = 1..Len(tree)
    BY Nodes DEF IsPage
  <1>2. \A n \in 1..Len(tree) : \A q \in Path(tree, n) : q \in DOMAIN tree
    <2> SUFFICES ASSUME NEW n \in 1..Len(tree), NEW q \in Path(tree, n)
                 PROVE  q \in 1..Len(tree)
      BY <1>1
    <2>1. q \in 1..n /\ Len(tree) \in Nat
      BY <1>1, PathFacts, Nodes
    <2> QED
      BY <2>1
  <1>3. Under(tree, root, W, X) = V
    BY <1>1, <1>2 DEF Under, Visible, VisibleFrom
  <1>4. W \in SUBSET (1..Len(tree))
    BY <1>1
  <1>5. NodeText(tree, root, exclude) = [i \in DOMAIN nodes |-> tree[nodes[i]].words]
    BY DEF NodeText
  <1> HIDE DEF W, X
  <1>6. Asc(nodes, V)
    BY <1>1, <1>3, <1>4, Collected
  <1> HIDE DEF nodes, V
  <1>7. nodes = InOrder(V)
    BY <1>6, AscInOrder
  <1>8. /\ Len(nodes) \in Nat /\ DOMAIN nodes = 1..Len(nodes)
        /\ \A i \in 1..Len(nodes) : nodes[i] \in V
    BY <1>6, LenProperties DEF Asc
  <1>9. \A n \in V : tree[n].words \in SUBSET STRING
    <2>1. \A n \in V : tree[n] \in Node
      BY <1>1, Nodes DEF V, Visible
    <2> QED
      BY <2>1 DEF Node
  <1>10. [i \in DOMAIN nodes |-> tree[nodes[i]].words] \in Seq(SUBSET STRING)
    <2>1. \A i \in 1..Len(nodes) : tree[nodes[i]].words \in SUBSET STRING
      BY <1>8, <1>9
    <2> QED
      BY <1>8, <2>1, IsASeq
  <1> QED
    BY <1>5, <1>7, <1>10 DEF Lines, V

(* A recursion along a sequence defines a function.                        *)
Runs(N, S, x, step) ==
  \E f \in [0..N -> S] : f[0] = x /\ \A i \in 1..N : f[i] = step[i][f[i - 1]]

LEMMA Along ==
  ASSUME NEW N \in Nat, NEW S, NEW x \in S, NEW step \in [1..N -> [S -> S]]
  PROVE  Runs(N, S, x, step)
  <1> DEFINE Is(f, k) == /\ f \in [0..k -> S] /\ f[0] = x
                         /\ \A i \in 1..k : f[i] = step[i][f[i - 1]]
             T == {k \in 0..N : ~\E f : Is(f, k)}
  <1>1. T = {}
    <2> SUFFICES ASSUME T # {} PROVE FALSE
      OBVIOUS
    <2>1. PICK k \in T : \A j \in T : k <= j
      <3>1. T \in SUBSET Nat
        OBVIOUS
      <3> HIDE DEF T
      <3> QED
        BY <3>1, Least
    <2>2. CASE k = 0
      <3>1. Is([i \in 0..0 |-> x], 0)
        OBVIOUS
      <3> QED
        BY <2>1, <2>2, <3>1
    <2>3. CASE k # 0
      <3>1. k - 1 \in 0..N /\ ~(k <= k - 1) /\ k \in 1..N
        BY <2>3
      <3>2. PICK f : Is(f, k - 1)
        <4> HIDE DEF Is
        <4> QED
          BY <2>1, <3>1
      <3> DEFINE g == [i \in 0..k |-> IF i = k THEN step[k][f[k - 1]] ELSE f[i]]
      <3>3. k - 1 \in 0..k - 1 /\ f[k - 1] \in S /\ step[k][f[k - 1]] \in S
        BY <3>1, <3>2
      <3>4. \A i \in 0..k : i # k => i \in 0..k - 1 /\ g[i] = f[i]
        BY <3>1
      <3>5. g[k] = step[k][f[k - 1]] /\ g[k - 1] = f[k - 1] /\ g[0] = f[0]
        BY <3>1
      <3>6. \A i \in 0..k : g[i] \in S
        BY <3>2, <3>3
      <3>7. g \in [0..k -> S]
        BY <3>6
      <3>8. \A i \in 1..k : g[i] = step[i][g[i - 1]]
        <4> SUFFICES ASSUME NEW i \in 1..k PROVE g[i] = step[i][g[i - 1]]
          OBVIOUS
        <4>1. CASE i = k
          BY <3>5, <4>1
        <4>2. CASE i # k
          <5>1. i \in 1..k - 1 /\ i \in 0..k /\ i - 1 \in 0..k /\ i - 1 # k
            BY <3>1, <4>2
          <5> HIDE DEF g
          <5> QED
            BY <3>2, <3>4, <4>2, <5>1
        <4> QED
          BY <4>1, <4>2
      <3>9. Is(g, k)
        <4> HIDE DEF g
        <4> QED
          BY <3>2, <3>5, <3>7, <3>8
      <3> QED
        BY <2>1, <3>9
    <2> QED
      BY <2>2, <2>3
  <1>2. N \in 0..N
    OBVIOUS
  <1> HIDE DEF Is
  <1>3. \E f : Is(f, N)
    BY <1>1, <1>2
  <1> QED
    BY <1>3 DEF Is, Runs

LEMMA JoinType ==
  ASSUME NEW S, NEW seqs \in Seq(Seq(S))
  PROVE  Join(seqs) \in Seq(S)
  <1> DEFINE N == Len(seqs)
             Is(f) == f = [i \in 0..N |-> IF i = 0 THEN <<>> ELSE f[i - 1] \o seqs[i]]
             step == [i \in 1..N |-> [s \in Seq(S) |-> s \o seqs[i]]]
  <1>1. N \in Nat /\ \A i \in 1..N : seqs[i] \in Seq(S)
    BY LenProperties, ElementOfSeq
  <1> HIDE DEF N
  <1>2. \A i \in 1..N : \A s \in Seq(S) : s \o seqs[i] \in Seq(S)
    BY <1>1, ConcatProperties
  <1>3. step \in [1..N -> [Seq(S) -> Seq(S)]]
    BY <1>2
  <1>4. \E f : Is(f)
    <2>1. <<>> \in Seq(S)
      BY EmptySeq
    <2>2. PICK f \in [0..N -> Seq(S)] :
            f[0] = <<>> /\ \A i \in 1..N : f[i] = step[i][f[i - 1]]
      <3>1. Runs(N, Seq(S), <<>>, step)
        <4> HIDE DEF step
        <4> QED
          BY <1>1, <1>3, <2>1, Along
      <3> HIDE DEF step
      <3> QED
        BY <3>1 DEF Runs
    <2>3. \A i \in 1..N : i - 1 \in 0..N /\ i \in 0..N
      BY <1>1
    <2>4. \A i \in 1..N : f[i] = f[i - 1] \o seqs[i]
      BY <2>2, <2>3
    <2>5. \A i \in 0..N : i # 0 => i \in 1..N
      BY <1>1
    <2>6. \A i \in 0..N : f[i] = IF i = 0 THEN <<>> ELSE f[i - 1] \o seqs[i]
      BY <2>2, <2>4, <2>5
    <2>7. f = [i \in 0..N |-> f[i]]
      BY <2>2
    <2>8. Is(f)
      BY <2>6, <2>7
    <2> QED
      BY <2>8
  <1> DEFINE out == CHOOSE f : Is(f)
  <1>5. Is(out)
    <2> HIDE DEF Is
    <2> QED
      BY <1>4
  <1>6. Join(seqs) = out[N]
    BY Zenon DEF Join, N
  <1> HIDE DEF out
  <1>7. out[0] = <<>> /\ \A i \in 1..N : out[i] = out[i - 1] \o seqs[i]
    <2>1. 0 \in 0..N /\ \A i \in 1..N : i \in 0..N /\ i # 0
      BY <1>1
    <2> QED
      BY <1>5, <2>1
  <1> DEFINE T == {i \in 0..N : out[i] \notin Seq(S)}
  <1>8. T = {}
    <2> SUFFICES ASSUME T # {} PROVE FALSE
      OBVIOUS
    <2>1. PICK k \in T : \A j \in T : k <= j
      <3>1. T \in SUBSET Nat
        BY <1>1
      <3> HIDE DEF T
      <3> QED
        BY <3>1, Least
    <2>2. k # 0
      BY <1>7, EmptySeq
    <2>3. k - 1 \in 0..N /\ ~(k <= k - 1) /\ k \in 1..N
      BY <1>1, <2>2
    <2>4. out[k - 1] \in Seq(S)
      BY <2>1, <2>3
    <2> QED
      BY <1>2, <1>7, <2>3, <2>4
  <1>9. N \in 0..N
    BY <1>1
  <1> QED
    BY <1>6, <1>8, <1>9

LEMMA Extracted ==
  ASSUME NEW tree, IsPage(tree), NEW type, NEW include, NEW exclude
  PROVE  /\ ExtractText(tree, type, include, exclude) \in Seq(SUBSET STRING)
         /\ type # "text/plain" => ExtractText(tree, type, include, exclude)
                                     = VisibleLines(tree, include, exclude)
         /\ type = "text/plain" =>
              LET words == UNION {tree[n].words : n \in DOMAIN tree}
              IN  ExtractText(tree, type, include, exclude)
                    = IF words = {} THEN <<>> ELSE <<words>>
  <1> DEFINE roots == IncludedNodes(tree, include)
             text(r) == NodeText(tree, r, exclude)
             lines(r) == Lines(tree, Visible(tree, r, exclude))
             words == UNION {tree[n].words : n \in DOMAIN tree}
             all == [i \in DOMAIN roots |-> text(roots[i])]
  <1>1. IsTree(tree) /\ DOMAIN tree = 1..Len(tree) /\ 1 \in 1..Len(tree)
    BY Nodes DEF IsPage
  <1>2. roots = InOrder({n \in DOMAIN tree : Matches(tree[n], include)})
    BY Included, AscInOrder DEF Matched
  <1>3. /\ Len(roots) \in Nat /\ DOMAIN roots = 1..Len(roots)
        /\ \A i \in 1..Len(roots) : roots[i] \in 1..Len(tree)
    <2>1. Asc(roots, Matched(tree, include))
      BY Included
    <2> HIDE DEF roots
    <2>2. roots \in Seq(Nat) /\ \A i \in 1..Len(roots) : roots[i] \in Matched(tree, include)
      BY <2>1 DEF Asc
    <2> QED
      BY <1>1, <2>2, LenProperties DEF Matched
  <1>4. \A r \in 1..Len(tree) : text(r) = lines(r) /\ text(r) \in Seq(SUBSET STRING)
    BY NodeTextVisible
  <1>5. all \in Seq(Seq(SUBSET STRING))
    <2> HIDE DEF roots, text
    <2>1. \A i \in 1..Len(roots) : text(roots[i]) \in Seq(SUBSET STRING)
      BY <1>3, <1>4
    <2> QED
      BY <1>3, <2>1, IsASeq
  <1>6. CASE type = "text/plain"
    <2>1. ExtractText(tree, type, include, exclude) = IF words = {} THEN <<>> ELSE <<words>>
      BY <1>6 DEF ExtractText
    <2>2. words \in SUBSET STRING
      <3>1. \A n \in DOMAIN tree : tree[n].words \in SUBSET STRING
        BY <1>1, Nodes DEF Node
      <3> QED
        BY <3>1
    <2>3. (IF words = {} THEN <<>> ELSE <<words>>) \in Seq(SUBSET STRING)
      <3>1. \A V : words \in V => <<words>> \in Seq(V)
        <4> HIDE DEF words
        <4> QED
          OBVIOUS
      <3> HIDE DEF words
      <3> QED
        BY <2>2, <3>1, EmptySeq
    <2> QED
      BY <1>6, <2>1, <2>3
  <1>7. CASE type # "text/plain"
    <2>1. ExtractText(tree, type, include, exclude)
            = IF roots = <<>> THEN text(1) ELSE Join(all)
      BY <1>7 DEF ExtractText
    <2>2. VisibleLines(tree, include, exclude)
            = IF roots = <<>> THEN lines(1) ELSE Join([i \in DOMAIN roots |-> lines(roots[i])])
      BY <1>2, Zenon DEF VisibleLines, Lines, Visible
    <2> HIDE DEF roots, text, lines
    <2>3. all = [i \in DOMAIN roots |-> lines(roots[i])]
      BY <1>3, <1>4
    <2> HIDE DEF all
    <2>4. Join(all) \in Seq(SUBSET STRING)
      BY <1>5, JoinType
    <2> QED
      BY <1>1, <1>4, <1>7, <2>1, <2>2, <2>3, <2>4
  <1> QED
    BY <1>6, <1>7

LEMMA Filtered ==
  ASSUME NEW text \in Seq(SUBSET STRING), NEW query
  PROVE  /\ FilterByQuery(text, query) = Matching(text, query)
         /\ FilterByQuery(text, query) \in Seq(SUBSET STRING)
  <1> DEFINE V == SUBSET STRING
             N == Len(text)
             Kept(i, s) == IF query \in text[i] THEN Append(s, text[i]) ELSE s
             Is(f) == f = [i \in 0..N |-> IF i = 0 THEN <<>>
                                          ELSE IF query \in text[i] THEN Append(f[i - 1], text[i])
                                          ELSE f[i - 1]]
             step == [i \in 1..N |-> [s \in Seq(V) |-> Kept(i, s)]]
             K(i) == {j \in 1..i : query \in text[j]}
  <1>1. N \in Nat /\ DOMAIN text = 1..N /\ \A i \in 1..N : text[i] \in V
    BY LenProperties, ElementOfSeq
  <1>2. \A i \in 1..N : \A s \in Seq(V) : Kept(i, s) \in Seq(V)
    BY <1>1, AppendProperties
  <1> HIDE DEF N, V
  <1>3. \E f : Is(f)
    <2>1. <<>> \in Seq(V)
      BY EmptySeq
    <2>2. PICK f \in [0..N -> Seq(V)] :
            f[0] = <<>> /\ \A i \in 1..N : f[i] = step[i][f[i - 1]]
      <3> HIDE DEF Kept
      <3>1. step \in [1..N -> [Seq(V) -> Seq(V)]]
        BY <1>2
      <3>2. Runs(N, Seq(V), <<>>, step)
        <4> HIDE DEF step
        <4> QED
          BY <1>1, <2>1, <3>1, Along
      <3> HIDE DEF step
      <3> QED
        BY <3>2 DEF Runs
    <2>3. \A i \in 1..N : i - 1 \in 0..N /\ i \in 0..N
      BY <1>1
    <2>4. \A i \in 1..N : f[i] = Kept(i, f[i - 1])
      <3> HIDE DEF Kept
      <3> QED
        BY <2>2, <2>3
    <2>5. \A i \in 0..N : i # 0 => i \in 1..N
      BY <1>1
    <2>6. f = [i \in 0..N |-> f[i]]
      BY <2>2
    <2>7. Is(f)
      BY <2>2, <2>4, <2>5, <2>6
    <2> QED
      BY <2>7
  <1> DEFINE out == CHOOSE f : Is(f)
  <1>4. Is(out)
    <2> HIDE DEF Is
    <2> QED
      BY <1>3
  <1>5. FilterByQuery(text, query) = out[N]
    BY Zenon DEF FilterByQuery, N
  <1> HIDE DEF out
  <1>6. out[0] = <<>> /\ \A i \in 1..N : out[i] = Kept(i, out[i - 1])
    <2>1. 0 \in 0..N /\ \A i \in 1..N : i \in 0..N /\ i # 0
      BY <1>1
    <2> QED
      BY <1>4, <2>1
  <1> DEFINE Of(i, s) == /\ Asc(s, K(i)) /\ out[i] \in Seq(V) /\ Len(out[i]) = Len(s)
                         /\ \A j \in 1..Len(s) : out[i][j] = text[s[j]]
             T == {i \in 0..N : ~\E s : Of(i, s)}
  <1> HIDE DEF Is
  <1>7. T = {}
    <2> SUFFICES ASSUME T # {} PROVE FALSE
      OBVIOUS
    <2>1. PICK k \in T : \A j \in T : k <= j
      <3>1. T \in SUBSET Nat
        BY <1>1
      <3> HIDE DEF T
      <3> QED
        BY <3>1, Least
    <2>2. k # 0
      <3>1. K(0) = {}
        OBVIOUS
      <3>2. Of(0, <<>>)
        BY <1>6, <3>1, AscSmall, EmptySeq
      <3> HIDE DEF Of
      <3> QED
        BY <2>1, <3>2
    <2>3. k - 1 \in 0..N /\ ~(k <= k - 1) /\ k \in 1..N /\ k \in Nat
      BY <1>1, <2>2
    <2>4. PICK s : Of(k - 1, s)
      <3> HIDE DEF Of
      <3> QED
        BY <2>1, <2>3
    <2>5. CASE query \in text[k]
      <3> DEFINE t == s \o <<k>>
      <3>1. K(k) = K(k - 1) \cup {k}
        BY <2>3, <2>5
      <3>2. Asc(t, K(k))
        <4>1. \A x \in K(k - 1), y \in {k} : x < y
          BY <2>3
        <4>2. Asc(<<k>>, {k})
          BY <2>3, AscSmall
        <4> HIDE DEF K
        <4> QED
          BY <2>4, <3>1, <4>1, <4>2, AscConcat
      <3>3. out[k] = Append(out[k - 1], text[k])
        BY <1>6, <2>3, <2>5
      <3>4. /\ out[k] \in Seq(V) /\ Len(out[k]) = Len(s) + 1
            /\ \A j \in 1..Len(s) : out[k][j] = text[s[j]]
            /\ out[k][Len(s) + 1] = text[k]
        BY <1>1, <2>3, <2>4, <3>3, AppendProperties
      <3>5. /\ Len(s) \in Nat /\ Len(t) = Len(s) + 1
            /\ \A j \in 1..Len(s) : t[j] = s[j]
            /\ t[Len(s) + 1] = k
        <4>1. s \in Seq(Nat)
          BY <2>4 DEF Asc
        <4>2. t = Append(s, k)
          BY <2>3, <4>1, AppendIsConcat
        <4> QED
          BY <2>3, <4>1, <4>2, AppendProperties, LenProperties
      <3>6. \A j \in 1..Len(t) : j \in 1..Len(s) \/ j = Len(s) + 1
        BY <3>5
      <3>7. Of(k, t)
        <4> HIDE DEF t
        <4> QED
          BY <3>2, <3>4, <3>5, <3>6
      <3> HIDE DEF Of
      <3> QED
        BY <2>1, <3>7
    <2>6. CASE query \notin text[k]
      <3>1. K(k) = K(k - 1)
        BY <2>3, <2>6
      <3>2. out[k] = out[k - 1]
        BY <1>6, <2>3, <2>6
      <3>3. Of(k, s)
        BY <2>4, <3>1, <3>2
      <3> HIDE DEF Of
      <3> QED
        BY <2>1, <3>3
    <2> QED
      BY <2>5, <2>6
  <1>8. PICK s : Of(N, s)
    <2>1. N \in 0..N
      BY <1>1
    <2> HIDE DEF Of
    <2> QED
      BY <1>7, <2>1
  <1>9. s = InOrder({i \in DOMAIN text : query \in text[i]})
    BY <1>1, <1>8, AscInOrder
  <1>10. Matching(text, query) = [i \in DOMAIN s |-> text[s[i]]]
    BY <1>9 DEF Matching
  <1>11. DOMAIN s = 1..Len(s) /\ out[N] = [i \in 1..Len(s) |-> out[N][i]]
    <2>1. s \in Seq(Nat)
      BY <1>8 DEF Asc
    <2> QED
      BY <1>8, <2>1, LenProperties
  <1> HIDE DEF K
  <1> QED
    BY <1>5, <1>8, <1>10, <1>11 DEF V

LEMMA CutFacts ==
  ASSUME NEW S, NEW seq \in Seq(S), NEW n \in Nat
  PROVE  /\ Cut(seq, n) \in Seq(S)
         /\ Len(Cut(seq, n)) = IF Len(seq) < n THEN Len(seq) ELSE n
         /\ \A i \in 1..Len(Cut(seq, n)) : Cut(seq, n)[i] = seq[i]
         /\ Cut(seq, n) = SubSeq(seq, 1, IF n < Len(seq) THEN n ELSE Len(seq))
  <1>1. Len(seq) \in Nat /\ \A i \in 1..Len(seq) : seq[i] \in S
    BY LenProperties, ElementOfSeq
  <1>2. CASE Len(seq) > n
    <2>1. Cut(seq, n) = SubSeq(seq, 1, n)
      BY <1>2 DEF Cut
    <2>2. \A i \in 1..n : seq[i] \in S
      BY <1>1, <1>2
    <2>3. /\ SubSeq(seq, 1, n) \in Seq(S)
          /\ Len(SubSeq(seq, 1, n)) = n
          /\ \A i \in 1..n : SubSeq(seq, 1, n)[i] = seq[i]
      BY <1>1, <2>2, SubSeqProperties
    <2> QED
      BY <1>1, <1>2, <2>1, <2>3
  <1>3. CASE ~(Len(seq) > n)
    <2>1. Cut(seq, n) = seq
      BY <1>3 DEF Cut
    <2>2. seq = SubSeq(seq, 1, Len(seq))
      BY SubSeqFull
    <2>3. (IF n < Len(seq) THEN n ELSE Len(seq)) = Len(seq)
          /\ (IF Len(seq) < n THEN Len(seq) ELSE n) = Len(seq)
      BY <1>1, <1>3
    <2> QED
      BY <2>1, <2>2, <2>3
  <1> QED
    BY <1>2, <1>3

(* What is read of a page is a page: every path in it stays as it is.      *)
LEMMA CutPage ==
  ASSUME NEW tree, IsPage(tree), NEW n \in Nat \ {0}
  PROVE  IsPage(Cut(tree, n))
  <1> DEFINE cut == Cut(tree, n)
  <1>1. IsTree(tree) /\ tree \in Seq(Node) /\ Len(tree) \in Nat \ {0} /\ DOMAIN tree = 1..Len(tree)
    BY Nodes DEF IsPage
  <1>2. /\ cut \in Seq(Node) /\ Len(cut) \in 1..Len(tree)
        /\ \A i \in 1..Len(cut) : cut[i] = tree[i]
    BY <1>1, CutFacts
  <1>3. DOMAIN cut = 1..Len(cut) /\ \A i \in 1..Len(cut) : i \in 1..Len(tree)
    BY <1>1, <1>2, LenProperties
  <1>4. cut # <<>> /\ 1 \in 1..Len(cut)
    BY <1>2, EmptySeq
  <1> HIDE DEF cut
  <1>5. IsTree(cut)
    BY <1>1, <1>2, <1>3, <1>4 DEF IsTree
  <1> DEFINE T == {i \in 1..Len(cut) : Path(cut, i) # Path(tree, i)}
  <1>6. T = {}
    <2> SUFFICES ASSUME T # {} PROVE FALSE
      OBVIOUS
    <2>1. PICK i \in T : \A j \in T : i <= j
      <3>1. T \in SUBSET Nat
        OBVIOUS
      <3> HIDE DEF T
      <3> QED
        BY <3>1, Least
    <2> DEFINE p == tree[i].parent
    <2>2. p \in Nat /\ (p # 0 => p \in 1..Len(cut) /\ ~(i <= p))
      BY <1>1, <1>2, <1>3, Nodes
    <2>3. Path(tree, i) = {i} \cup (IF p = 0 THEN {} ELSE Path(tree, p))
      BY <1>1, <1>3, PathStep
    <2>4. Path(cut, i) = {i} \cup (IF p = 0 THEN {} ELSE Path(cut, p))
      <3>1. cut[i].parent = p
        BY <1>2
      <3> HIDE DEF p
      <3>2. i \in 1..Len(cut)
        OBVIOUS
      <3> QED
        BY <1>5, <3>1, <3>2, PathStep
    <2>5. p # 0 => Path(cut, p) = Path(tree, p)
      BY <2>1, <2>2
    <2> QED
      BY <2>1, <2>3, <2>4, <2>5
  <1>7. ASSUME NEW i \in 2..Len(cut) PROVE cut[i].parent \in Path(cut, i - 1)
    <2>1. i \in 1..Len(cut) /\ i - 1 \in 1..Len(cut) /\ i \in DOMAIN tree \ {1}
      BY <1>1, <1>2
    <2>2. tree[i].parent \in Path(tree, i - 1)
      BY <2>1 DEF IsPage
    <2>3. Path(cut, i - 1) = Path(tree, i - 1)
      BY <1>6, <2>1
    <2> QED
      BY <1>2, <2>1, <2>2, <2>3
  <1>8. \A i \in DOMAIN cut \ {1} : i \in 2..Len(cut)
    BY <1>2, <1>3
  <1>9. IsPage(cut)
    BY <1>5, <1>7, <1>8 DEF IsPage
  <1> QED
    BY <1>9 DEF cut

(* The text that the handler makes of any page is what an answer promises. *)
THEOREM TextCorrect ==
  ASSUME NEW tree, IsPage(tree), NEW type, NEW k,
         k.maxBytes \in Nat \ {0}, k.maxChars \in Nat
  PROVE  IsTextOf(Text(tree, type, k), tree, type, k)
  <1> DEFINE read == SubSeq(tree, 1, IF k.maxBytes < Len(tree) THEN k.maxBytes ELSE Len(tree))
             words == UNION {read[n].words : n \in DOMAIN read}
             lines == IF type # "text/plain" THEN VisibleLines(read, k.include, k.exclude)
                      ELSE IF words = {} THEN <<>> ELSE <<words>>
             wanted == IF k.query = None THEN lines ELSE Matching(lines, k.query)
             all == ExtractText(read, type, k.include, k.exclude)
  <1>1. tree \in Seq(Node) /\ Len(tree) \in Nat
    BY Nodes DEF IsPage
  <1>2. read = Cut(tree, k.maxBytes)
    BY <1>1, CutFacts
  <1>3. IsPage(read)
    <2> HIDE DEF read
    <2> QED
      BY <1>2, CutPage
  <1> HIDE DEF read
  <1>4. all \in Seq(SUBSET STRING) /\ all = lines
    BY <1>3, Extracted
  <1> HIDE DEF lines, all
  <1>5. wanted \in Seq(SUBSET STRING)
        /\ wanted = IF k.query = None THEN all ELSE FilterByQuery(all, k.query)
    BY <1>4, Filtered
  <1>6. Text(tree, type, k) = Cut(wanted, k.maxChars)
    BY <1>2, <1>5 DEF Text, all
  <1> DEFINE body == Cut(wanted, k.maxChars)
  <1> HIDE DEF wanted
  <1>7. /\ Len(body) = IF Len(wanted) < k.maxChars THEN Len(wanted) ELSE k.maxChars
        /\ \A i \in 1..Len(body) : body[i] = wanted[i]
    BY <1>5, CutFacts
  <1> HIDE DEF body
  <1>8. IsTextOf(body, tree, type, k)
    BY <1>7, Zenon DEF IsTextOf, wanted, lines, read
  <1> QED
    BY <1>6, <1>8 DEF body

-----------------------------------------------------------------------------
(* The cache.                                                              *)

LEMMA OptionsBounded ==
  ASSUME NEW k \in Requests
  PROVE  IsRequest(Options(k)) /\ Options(k).maxChars \in Nat
  <1>1. k \in RequestType
    BY FetchAssumption
  <1>2. /\ Options(k).maxChars = IF k.maxChars <= 0 THEN DefaultMaxChars ELSE k.maxChars
        /\ Options(k).maxBytes = IF k.maxBytes <= 0 \/ k.maxBytes > MaxAllowedReadBytes
                                 THEN DefaultMaxBytes ELSE k.maxBytes
        /\ Options(k).types = IF k.types = {} THEN Types ELSE k.types
    BY <1>1 DEF Options, AllowedTypes, RequestType
  <1> QED
    BY <1>1, <1>2, FetchAssumption DEF IsRequest, RequestType

(* What a call whose entry no other call has replaced knows of the cache   *)
(* and of the web server; it has no answer yet.                            *)
Known(c) ==
  /\ pc[c] # "idle" /\ ~raced[c] => match[c] = entry.tag
  /\ pc[c] # "idle" => answer[c] = NoAnswer
  /\ pc[c] = "sent" => page \in shown[c]
  /\ resp[c].status = "full" => resp[c].of \in shown[c]
  /\ resp[c].status = "notModified" =>
       match[c] # None /\ \E v \in shown[c] : Tag[v] = match[c]

IInv == TypeOK /\ \A c \in Callers : Known(c)

LEMMA InvInit == Init => IInv
  <1> SUFFICES ASSUME Init PROVE IInv
    OBVIOUS
  <1>1. \A c \in Callers : IsRequest(req[c])
    BY OptionsBounded DEF Init
  <1> QED
    BY <1>1 DEF Init, IInv, TypeOK, Known, NoEntry, NoResponse, NoAnswer

LEMMA PublishInv ==
  ASSUME IInv, NEW v \in Versions, Publish(v)
  PROVE  IInv'
  BY DEF IInv, TypeOK, Known, Publish, NotModified, Full, NoResponse

LEMMA RequestInv ==
  ASSUME IInv, NEW c \in Callers, NEW k \in Requests, Request(c, k)
  PROVE  IInv'
  <1>1. IsRequest(Options(k))
    BY OptionsBounded
  <1>2. TypeOK'
    BY <1>1 DEF IInv, TypeOK, Request, NotModified, Full, NoResponse, NoAnswer
  <1>3. ASSUME NEW d \in Callers PROVE Known(d)'
    <2>1. CASE d = c
      <3>1. /\ pc[c] = "idle" /\ resp'[c] = NoResponse
            /\ match'[c] = entry.tag /\ entry' = entry /\ page' = page
        BY DEF IInv, TypeOK, Request
      <3>2. pc'[c] = "sent" /\ answer'[c] = NoAnswer /\ page' \in shown'[c]
        BY DEF IInv, TypeOK, Request
      <3> QED
        BY <2>1, <3>1, <3>2 DEF Known, NoResponse
    <2>2. CASE d # c
      <3>1. /\ pc'[d] = pc[d] /\ raced'[d] = raced[d] /\ match'[d] = match[d]
            /\ answer'[d] = answer[d] /\ shown'[d] = shown[d] /\ resp'[d] = resp[d]
            /\ UNCHANGED <<page, entry>>
        BY <2>2 DEF IInv, TypeOK, Request
      <3> QED
        BY <3>1 DEF IInv, Known
    <2> QED
      BY <2>1, <2>2
  <1> QED
    BY <1>2, <1>3 DEF IInv

LEMMA ServeInv ==
  ASSUME IInv, NEW c \in Callers, Serve(c)
  PROVE  IInv'
  <1>1. PICK r \in {Full(page)} \cup
                   {n \in {NotModified} : match[c] # None /\ match[c] = Tag[page]} :
          resp' = [resp EXCEPT ![c] = r]
    BY DEF Serve
  <1>2. page \in Versions /\ page \in shown[c]
    BY DEF IInv, TypeOK, Known, Serve
  <1>3. TypeOK'
    BY <1>1, <1>2 DEF IInv, TypeOK, Serve
  <1>4. ASSUME NEW d \in Callers PROVE Known(d)'
    BY <1>1, <1>2 DEF IInv, TypeOK, Known, Serve, NotModified, Full
  <1> QED
    BY <1>3, <1>4 DEF IInv

(* Every way to return leaves the caller idle, without a response.         *)
LEMMA ReturnInv ==
  ASSUME IInv, NEW c \in Callers, NEW from \in {"sent", "served"}, NEW a,
         Return(c, from, a), a.result \in {"error", "page"}, a.of \in Versions \cup {None},
         UNCHANGED <<page, req>>, raced' \in [Callers -> BOOLEAN],
         stored' \in {stored, stored \cup {req[c]}},
         \/ UNCHANGED entry /\ raced' = [raced EXCEPT ![c] = FALSE]
         \/ /\ entry'.of \in Versions /\ entry'.tag = Tag[entry'.of]
            /\ \A d \in Callers \ {c} : pc[d] # "idle" => raced'[d]
  PROVE  IInv'
  <1>1. TypeOK'
    <2> USE DEF IInv, TypeOK
    <2>1. /\ entry'.of \in Versions \cup {None}
          /\ entry'.tag = IF entry'.of = None THEN None ELSE Tag[entry'.of]
      BY FetchAssumption
    <2>2. /\ pc' \in [Callers -> {"idle", "sent", "served"}]
          /\ {DOMAIN req', DOMAIN match', DOMAIN resp', DOMAIN answer'} = {Callers}
          /\ shown' \in [Callers -> SUBSET Versions]
      BY DEF Return
    <2>4. \A k \in stored' : IsRequest(k)
      OBVIOUS
    <2>3. ASSUME NEW d \in Callers
          PROVE  /\ resp'[d] \in IF pc'[d] = "served"
                                 THEN {NotModified} \cup {Full(v) : v \in Versions}
                                 ELSE {NoResponse}
                 /\ answer'[d].result \in {"none", "error", "page"}
                 /\ answer'[d].of \in Versions \cup {None}
      <3>1. CASE d = c
        BY <3>1 DEF Return
      <3>2. CASE d # c
        <4>1. pc'[d] = pc[d] /\ resp'[d] = resp[d] /\ answer'[d] = answer[d]
          BY <3>2 DEF Return
        <4> QED
          BY <4>1
      <3> QED
        BY <3>1, <3>2
    <2> QED
      BY <2>1, <2>2, <2>3, <2>4
  <1>2. ASSUME NEW d \in Callers PROVE Known(d)'
    <2>1. CASE d = c
      <3>1. pc'[c] = "idle" /\ resp'[c] = NoResponse
        BY DEF IInv, TypeOK, Return
      <3> QED
        BY <2>1, <3>1 DEF Known, NoResponse
    <2>2. CASE d # c
      <3>1. /\ pc'[d] = pc[d] /\ match'[d] = match[d] /\ answer'[d] = answer[d]
            /\ shown'[d] = shown[d] /\ resp'[d] = resp[d] /\ page' = page
        BY <2>2 DEF IInv, TypeOK, Return
      <3>2. \/ pc[d] = "idle" \/ raced'[d]
            \/ entry' = entry /\ raced'[d] = raced[d]
        BY <2>2 DEF IInv, TypeOK
      <3> QED
        BY <3>1, <3>2 DEF IInv, Known
    <2> QED
      BY <2>1, <2>2
  <1> QED
    BY <1>1, <1>2 DEF IInv

LEMMA FailureInv ==
  ASSUME IInv, NEW c \in Callers, DoFails(c) \/ RefuseType(c) \/ ReadFails(c)
  PROVE  IInv'
  <1>1. Error.result = "error" /\ Error.of = None
    BY DEF Error, NoAnswer
  <1>2. /\ UNCHANGED <<page, entry, req, stored>> /\ raced' = [raced EXCEPT ![c] = FALSE]
        /\ Return(c, "sent", Error) \/ Return(c, "served", Error)
    BY DEF DoFails, RefuseType, ReadFails
  <1>3. raced' \in [Callers -> BOOLEAN]
    BY <1>2 DEF IInv, TypeOK
  <1> QED
    BY <1>1, <1>2, <1>3, ReturnInv

LEMMA AnswerCachedInv ==
  ASSUME IInv, NEW c \in Callers, AnswerCached(c)
  PROVE  IInv'
  <1> DEFINE a == Body(entry.of, TRUE, entry.text)
  <1>1. a.result = "page" /\ a.of \in Versions \cup {None}
    BY DEF Body, IInv, TypeOK
  <1>2. /\ UNCHANGED <<page, entry, req, stored>> /\ raced' = [raced EXCEPT ![c] = FALSE]
        /\ Return(c, "served", a)
    BY DEF AnswerCached
  <1>3. raced' \in [Callers -> BOOLEAN]
    BY <1>2 DEF IInv, TypeOK
  <1> HIDE DEF a
  <1> QED
    BY <1>1, <1>2, <1>3, ReturnInv

(* Only a full response is stored: a 304 has no content type.              *)
LEMMA StoresFull ==
  ASSUME IInv, NEW c \in Callers, pc[c] = "served", resp[c].type \in req[c].types
  PROVE  resp[c].status = "full" /\ resp[c].of \in Versions
  <1>1. IsRequest(req[c])
    BY DEF IInv, TypeOK
  <1>2. resp[c] \in {NotModified} \cup {Full(v) : v \in Versions}
    BY DEF IInv, TypeOK
  <1> QED
    BY <1>1, <1>2 DEF IsRequest, NotModified, Full

LEMMA StoreInv ==
  ASSUME IInv, NEW c \in Callers, Store(c)
  PROVE  IInv'
  <1> DEFINE v == resp[c].of
             text == TextFor(v, req[c])
             a == Body(v, FALSE, text)
  <1>1. v \in Versions
    BY StoresFull DEF Store, Return, Allowed
  <1>2. Return(c, "served", a) /\ UNCHANGED <<page, req>>
    BY DEF Store
  <1>3. a.result = "page" /\ a.of \in Versions
    BY <1>1 DEF Body
  <1>4. entry'.of = v /\ entry'.tag = Tag[v]
    BY DEF Store
  <1>5. raced' = [d \in Callers |-> d # c /\ pc[d] # "idle"]
    BY DEF Store
  <1>6. raced' \in [Callers -> BOOLEAN] /\ stored' = stored \cup {req[c]}
    BY <1>5 DEF Store
  <1> HIDE DEF a, v
  <1> QED
    BY <1>1, <1>2, <1>3, <1>4, <1>5, <1>6, ReturnInv

LEMMA InvStep == IInv /\ [Next]_vars => IInv'
  <1> SUFFICES ASSUME IInv, [Next]_vars PROVE IInv'
    OBVIOUS
  <1>1. ASSUME NEW v \in Versions, Publish(v) PROVE IInv'
    BY <1>1, PublishInv
  <1>2. ASSUME NEW c \in Callers, NEW k \in Requests, Request(c, k) PROVE IInv'
    BY <1>2, RequestInv
  <1>3. ASSUME NEW c \in Callers, Serve(c) PROVE IInv'
    BY <1>3, ServeInv
  <1>4. ASSUME NEW c \in Callers, Handle(c) \/ Timeout(c) PROVE IInv'
    BY <1>4, AnswerCachedInv, FailureInv DEF Handle, Timeout
  <1>5. ASSUME NEW c \in Callers, Store(c) PROVE IInv'
    BY <1>5, StoreInv
  <1>6. CASE UNCHANGED vars
    BY <1>6 DEF vars, IInv, TypeOK, Known
  <1> QED
    BY <1>1, <1>2, <1>3, <1>4, <1>5, <1>6 DEF Next

THEOREM Inductive == Spec => []IInv
  BY InvInit, InvStep, PTL DEF Spec

(* Every variable keeps its type, and options their bounds.                *)
THEOREM TypeCorrect == Spec => []TypeOK
  BY Inductive, PTL DEF IInv

-----------------------------------------------------------------------------
(* A 304 says that the web server showed the version of the ETag that was  *)
(* sent; unless another call has replaced the entry, that is the version   *)
(* of the cached text, as an ETag names one version only.                  *)
LEMMA CachedShown ==
  ASSUME IInv, NEW c \in Callers, pc[c] = "served", IsCached(c), ~raced[c]
  PROVE  entry.of \in shown[c]
  <1>1. match[c] = entry.tag /\ match[c] # None
    BY DEF IInv, Known, IsCached
  <1>2. PICK v \in shown[c] : Tag[v] = match[c]
    BY DEF IInv, Known, IsCached
  <1>3. entry.of \in Versions /\ entry.tag = Tag[entry.of]
    BY <1>1 DEF IInv, TypeOK
  <1>4. v \in Versions
    BY DEF IInv, TypeOK
  <1> QED
    BY <1>1, <1>2, <1>3, <1>4, FetchAssumption

(* However fetches overlap and the page changes, an answer shows a version *)
(* that the web server showed during the call.                             *)
THEOREM FreshCorrect == Spec => AnswersFresh
  <1> DEFINE Fresh(c) ==
        (pc[c] = "served" /\ answer'[c].result = "page" /\ (answer'[c].cached => ~raced[c]))
          => answer'[c].of \in shown[c]
  <1>1. IInv /\ [Next]_vars => [\A c \in Callers : Fresh(c)]_vars
    <2> SUFFICES ASSUME IInv, Next, NEW c \in Callers, pc[c] = "served",
                        answer'[c].result = "page", answer'[c].cached => ~raced[c]
                 PROVE  answer'[c].of \in shown[c]
      BY DEF vars
    <2>1. CASE AnswerCached(c)
      <3>1. answer'[c] = Body(entry.of, TRUE, entry.text) /\ IsCached(c)
        BY <2>1 DEF AnswerCached, Return, IInv, TypeOK
      <3>2. answer'[c].of = entry.of /\ answer'[c].cached
        BY <3>1 DEF Body
      <3> QED
        BY <3>1, <3>2, CachedShown
    <2>2. CASE Store(c)
      <3>1. /\ answer'[c] = Body(resp[c].of, FALSE, TextFor(resp[c].of, req[c]))
            /\ resp[c].type \in req[c].types
        BY <2>2 DEF Store, Return, Allowed, IInv, TypeOK
      <3>2. answer'[c].of = resp[c].of
        BY <3>1 DEF Body
      <3>3. resp[c].status = "full"
        BY <3>1, StoresFull
      <3> QED
        BY <3>2, <3>3 DEF IInv, Known
    <2>3. CASE DoFails(c) \/ RefuseType(c) \/ ReadFails(c)
      <3>1. PICK from \in {"sent", "served"} : Return(c, from, Error)
        BY <2>3 DEF DoFails, RefuseType, ReadFails
      <3>2. DOMAIN answer = Callers
        BY DEF IInv, TypeOK
      <3>3. answer'[c] = Error
        BY <3>1, <3>2 DEF Return
      <3>4. Error.result = "error"
        BY DEF Error, NoAnswer
      <3> QED
        BY <3>3, <3>4
    <2>4. answer'[c] # answer[c]
      BY DEF IInv, Known, NoAnswer
    <2>5. ASSUME NEW v \in Versions, Publish(v) PROVE FALSE
      BY <2>4, <2>5 DEF Publish
    <2>6. ASSUME NEW d \in Callers, NEW k \in Requests, Request(d, k) PROVE FALSE
      BY <2>4, <2>6 DEF Request
    <2>7. ASSUME NEW d \in Callers, Serve(d) PROVE FALSE
      BY <2>4, <2>7 DEF Serve
    <2>8. ASSUME NEW d \in Callers \ {c}, NEW from, NEW e, Return(d, from, e) PROVE FALSE
      BY <2>4, <2>8 DEF Return
    <2>9. ASSUME NEW d \in Callers \ {c}, Handle(d) \/ Timeout(d) \/ Store(d) PROVE FALSE
      BY <2>8, <2>9 DEF Handle, Timeout, AnswerCached, RefuseType, DoFails, ReadFails, Store
    <2> QED
      BY <2>1, <2>2, <2>3, <2>5, <2>6, <2>7, <2>9 DEF Next, Handle, Timeout
  <1> QED
    BY <1>1, Inductive, PTL DEF Spec, AnswersFresh

-----------------------------------------------------------------------------
(* What is kept was made of one version of the page for the options of a   *)
(* call whose text was stored; what is answered, for those of such a call  *)
(* if it is cached, or else for the caller's own.                          *)
Asked == {Options(k) : k \in Requests}

EntryMade ==
  entry # NoEntry => entry.of \in Versions /\ \E k \in stored : entry.text = TextFor(entry.of, k)

AnswerMade(c) ==
  answer[c].result = "page" =>
    /\ answer[c].of \in Versions
    /\ \E k \in IF answer[c].cached THEN stored ELSE {req[c]} :
         answer[c].body = TextFor(answer[c].of, k)

BodyInv ==
  /\ EntryMade /\ stored \subseteq Asked
  /\ \A c \in Callers : req[c] \in Asked /\ AnswerMade(c)

LEMMA AskedConstant == Asked' = Asked
  BY DEF Asked, Options

LEMMA BodyInit == Init => BodyInv
  <1> SUFFICES ASSUME Init PROVE BodyInv
    OBVIOUS
  <1>1. EntryMade
    BY DEF Init, EntryMade
  <1>2. ASSUME NEW c \in Callers PROVE req[c] \in Asked /\ AnswerMade(c)
    <2>1. req[c] \in Asked /\ answer[c] = NoAnswer
      BY DEF Init, Asked
    <2> QED
      BY <2>1 DEF AnswerMade, NoAnswer
  <1>3. stored = {}
    BY DEF Init
  <1> QED
    BY <1>1, <1>2, <1>3 DEF BodyInv

(* What leaves a caller's answer and options alone.                        *)
LEMMA AnswerKept ==
  ASSUME BodyInv, NEW c \in Callers, answer'[c] = answer[c], req'[c] = req[c],
         stored \subseteq stored'
  PROVE  req'[c] \in Asked /\ AnswerMade(c)'
  <1>1. req[c] \in Asked /\ AnswerMade(c)
    BY DEF BodyInv
  <1>2. \A v, k : TextFor(v, k)' = TextFor(v, k)
    BY DEF TextFor
  <1> QED
    BY <1>1, <1>2, AskedConstant DEF AnswerMade

(* A caller returns with an answer that was made so.                       *)
LEMMA ReturnMade ==
  ASSUME IInv, BodyInv, NEW c \in Callers, NEW from, NEW a, Return(c, from, a), req' = req,
         EntryMade', stored' \in {stored, stored \cup {req[c]}},
         a.result = "page" =>
           /\ a.of \in Versions
           /\ \E k \in IF a.cached THEN stored ELSE {req[c]} : a.body = TextFor(a.of, k)
  PROVE  BodyInv'
  <1>1. answer' = [answer EXCEPT ![c] = a] /\ DOMAIN answer = Callers
    BY DEF Return, IInv, TypeOK
  <1>2. ASSUME NEW d \in Callers PROVE req'[d] \in Asked /\ AnswerMade(d)'
    <2>1. CASE d # c
      <3>1. answer'[d] = answer[d] /\ req'[d] = req[d]
        BY <1>1, <2>1
      <3> QED
        BY <3>1, AnswerKept
    <2>2. CASE d = c
      <3>1. answer'[c] = a
        BY <1>1
      <3>2. req'[c] \in Asked /\ stored \subseteq stored'
        BY DEF BodyInv
      <3> QED
        BY <2>2, <3>1, <3>2 DEF AnswerMade
    <2> QED
      BY <2>1, <2>2
  <1>3. stored' \subseteq Asked
    BY DEF BodyInv
  <1> QED
    BY <1>2, <1>3, AskedConstant DEF BodyInv

LEMMA BodyStep == IInv /\ BodyInv /\ [Next]_vars => BodyInv'
  <1> SUFFICES ASSUME IInv, BodyInv, [Next]_vars PROVE BodyInv'
    OBVIOUS
  <1>1. entry' = entry /\ stored' = stored => EntryMade'
    BY DEF BodyInv, EntryMade
  <1>2. UNCHANGED <<entry, answer, req, stored>> => BodyInv'
    BY <1>1, AnswerKept, AskedConstant DEF BodyInv
  <1>3. ASSUME NEW v \in Versions, Publish(v) PROVE BodyInv'
    BY <1>2, <1>3 DEF Publish
  <1>4. ASSUME NEW c \in Callers, NEW k \in Requests, Request(c, k) PROVE BodyInv'
    <2>1. /\ entry' = entry /\ stored' = stored
          /\ DOMAIN answer = Callers /\ DOMAIN req = Callers
          /\ answer' = [answer EXCEPT ![c] = NoAnswer]
          /\ req' = [req EXCEPT ![c] = Options(k)]
      BY <1>4 DEF Request, IInv, TypeOK
    <2>2. ASSUME NEW d \in Callers PROVE req'[d] \in Asked /\ AnswerMade(d)'
      <3>1. CASE d # c
        <4>1. answer'[d] = answer[d] /\ req'[d] = req[d] /\ stored \subseteq stored'
          BY <2>1, <3>1
        <4> QED
          BY <4>1, AnswerKept
      <3>2. CASE d = c
        <4>1. answer'[c] = NoAnswer /\ req'[c] = Options(k)
          BY <2>1
        <4> QED
          BY <3>2, <4>1 DEF AnswerMade, NoAnswer, Asked
      <3> QED
        BY <3>1, <3>2
    <2> QED
      BY <1>1, <2>1, <2>2, AskedConstant DEF BodyInv
  <1>5. ASSUME NEW c \in Callers, Serve(c) PROVE BodyInv'
    BY <1>2, <1>5 DEF Serve
  <1>6. ASSUME NEW c \in Callers, AnswerCached(c) PROVE BodyInv'
    <2> DEFINE a == Body(entry.of, TRUE, entry.text)
    <2>1. /\ Return(c, "served", a) /\ UNCHANGED <<entry, req, stored>>
          /\ entry # NoEntry
      BY <1>6 DEF AnswerCached, IsCached
    <2>2. a.of = entry.of /\ a.cached /\ a.body = entry.text
      BY DEF Body
    <2>3. a.of \in Versions /\ \E k \in stored : a.body = TextFor(a.of, k)
      BY <2>1, <2>2 DEF BodyInv, EntryMade
    <2> HIDE DEF a
    <2> QED
      BY <1>1, <2>1, <2>2, <2>3, ReturnMade
  <1>7. ASSUME NEW c \in Callers, DoFails(c) \/ RefuseType(c) \/ ReadFails(c) PROVE BodyInv'
    <2>1. PICK from \in {"sent", "served"} : Return(c, from, Error)
      BY <1>7 DEF DoFails, RefuseType, ReadFails
    <2>2. UNCHANGED <<entry, req, stored>>
      BY <1>7 DEF DoFails, RefuseType, ReadFails
    <2>3. Error.result # "page"
      BY DEF Error, NoAnswer
    <2> QED
      BY <1>1, <2>1, <2>2, <2>3, ReturnMade
  <1>8. ASSUME NEW c \in Callers, Store(c) PROVE BodyInv'
    <2> DEFINE v == resp[c].of
               text == TextFor(v, req[c])
               a == Body(v, FALSE, text)
    <2>1. /\ Return(c, "served", a) /\ req' = req /\ stored' = stored \cup {req[c]}
          /\ entry' = [tag |-> Tag[v], text |-> text, of |-> v]
      BY <1>8 DEF Store
    <2>2. v \in Versions
      BY <1>8, StoresFull DEF Store, Return, Allowed
    <2>3. a.of = v /\ ~a.cached /\ a.body = text
      BY DEF Body
    <2>4. EntryMade'
      <3>1. entry'.of = v /\ entry'.text = text
        BY <2>1
      <3>2. req[c] \in stored'
        BY <2>1
      <3>3. entry'.text = TextFor(entry'.of, req[c])
        BY <3>1
      <3> HIDE DEF v, text
      <3> QED
        BY <2>2, <3>1, <3>2, <3>3 DEF EntryMade
    <2>5. a.body = TextFor(a.of, req[c])
      BY <2>3
    <2> HIDE DEF v, text, a
    <2> QED
      BY <2>1, <2>2, <2>3, <2>4, <2>5, ReturnMade
  <1>9. CASE UNCHANGED vars
    BY <1>2, <1>9 DEF vars
  <1> QED
    BY <1>3, <1>4, <1>5, <1>6, <1>7, <1>8, <1>9 DEF Next, Handle, Timeout

(* However fetches overlap, the body of an answer is the visible text of   *)
(* one version of the page, filtered and cut as its own call asked, or, if *)
(* it is cached, as one call whose text was stored before.                 *)
THEOREM BodyCorrect == Spec => []BodyExact
  <1>1. BodyInv => BodyExact
    <2> SUFFICES ASSUME BodyInv, NEW c \in Callers, answer[c].result = "page"
                 PROVE  \E k \in IF answer[c].cached THEN stored ELSE {req[c]} :
                          IsTextOf(answer[c].body, Page[answer[c].of], Type[answer[c].of], k)
      BY DEF BodyExact
    <2> DEFINE v == answer[c].of
    <2>1. v \in Versions /\ req[c] \in Asked /\ stored \subseteq Asked
      BY DEF BodyInv, AnswerMade
    <2>2. PICK k \in IF answer[c].cached THEN stored ELSE {req[c]} :
            answer[c].body = TextFor(v, k)
      BY DEF BodyInv, AnswerMade
    <2>3. k \in Asked
      BY <2>1, <2>2
    <2>4. k.maxBytes \in Nat \ {0} /\ k.maxChars \in Nat
      BY <2>3, OptionsBounded, FetchAssumption DEF Asked, IsRequest
    <2>5. IsPage(Page[v])
      BY <2>1, FetchAssumption
    <2>6. IsTextOf(TextFor(v, k), Page[v], Type[v], k)
      BY <2>4, <2>5, TextCorrect DEF TextFor
    <2> QED
      BY <2>2, <2>6
  <1> QED
    BY <1>1, Inductive, BodyInit, BodyStep, PTL DEF Spec
=============================================================================
