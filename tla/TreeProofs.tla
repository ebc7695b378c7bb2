----------------------------- MODULE TreeProofs -----------------------------
(***************************************************************************)
(* Proofs about the trees of an issuance, for any depths, rosters and      *)
(* keys: what a tree's root opens to, which keys a linked list excludes,   *)
(* and that together they admit exactly the clean users.                   *)
(***************************************************************************)
EXTENDS IssuerTrees, FiniteSetTheorems, SequenceTheorems, WellFoundedInduction, TLAPS

-----------------------------------------------------------------------------
(* Numbers.                                                                *)

LEMMA Smallest ==
  ASSUME NEW T, T \subseteq Nat, T # {}
  PROVE  \E n \in T : \A k \in T : n <= k
<1> DEFINE R == {ss \in Nat \X Nat : ss[1] < ss[2]}
<1>1. IsWellFoundedOn(R, Nat)
  BY NatLessThanWellFounded DEF OpToRel
<1>2. PICK n \in T : \A k \in T : <<k, n>> \notin R
  <2> HIDE DEF R
  <2> QED BY <1>1, WFMin
<1>3. \A k \in T : ~ (k < n)
  BY <1>2
<1> QED BY <1>3

(* Induction over a set of numbers.                                        *)
LEMMA AllNumbers ==
  ASSUME NEW S, 0 \in S, \A n \in Nat : n \in S => n + 1 \in S
  PROVE  Nat \subseteq S
<1> SUFFICES ASSUME Nat \ S # {}  PROVE FALSE
  OBVIOUS
<1>1. PICK n \in Nat \ S : \A k \in Nat \ S : n <= k
  <2>1. Nat \ S \subseteq Nat
    OBVIOUS
  <2> QED BY <2>1, Smallest
<1>2. n # 0
  BY <1>1
<1>3. n - 1 \in Nat /\ (n - 1) + 1 = n /\ ~ (n <= n - 1)
  BY <1>2
<1>4. n - 1 \in S
  BY <1>1, <1>3
<1> QED BY <1>1, <1>3, <1>4

LEMMA Halves ==
  ASSUME NEW n \in Nat
  PROVE  /\ n \div 2 \in Nat /\ n % 2 \in {0, 1}
         /\ n % 2 = 0 => n = 2 * (n \div 2)
         /\ n % 2 = 1 => n = 2 * (n \div 2) + 1
OBVIOUS

-----------------------------------------------------------------------------
(* What is defined by recursion over heights exists: each height goes on   *)
(* from the one below.                                                     *)

IsCount(n, f) == f = [d \in 0..n |-> IF d = 0 THEN 1 ELSE 2 * f[d - 1]]

IsPath(index, depth, f) ==
  f = [l \in 0..depth |-> IF l = 0 THEN index ELSE f[l - 1] \div 2]

\* The level above a level, and the node above a node.
Above(level) ==
  [pos \in 1..(Len(level) + 1) \div 2 |->
     Node(NodeAt(level, 2 * pos - 1), NodeAt(level, 2 * pos))]

AreLevels(base, depth, f) == f = [l \in 0..depth |-> IF l = 0 THEN base ELSE Above(f[l - 1])]

Parent(pos, sibling, node) ==
  IF pos % 2 = 1 THEN Hash(sibling, node) ELSE Hash(node, sibling)

IsBranch(leaf, pos, siblings, depth, f) ==
  f = [l \in 0..depth |-> IF l = 0 THEN leaf ELSE Parent(pos[l - 1], siblings[l], f[l - 1])]

LEMMA CountsExist == ASSUME NEW n \in Nat PROVE \E f : IsCount(n, f)
<1> DEFINE S == {m \in Nat : \E f : IsCount(m, f)}
<1>1. 0 \in S
  <2>1. IsCount(0, [d \in 0..0 |-> 1])
    BY DEF IsCount
  <2> QED BY <2>1
<1>2. ASSUME NEW m \in Nat, m \in S  PROVE m + 1 \in S
  <2>1. PICK f : IsCount(m, f)
    BY <1>2
  <2> DEFINE g == [d \in 0..(m + 1) |-> IF d = m + 1 THEN 2 * f[m] ELSE f[d]]
  <2>2. ASSUME NEW d \in 0..(m + 1)
        PROVE  g[d] = IF d = 0 THEN 1 ELSE 2 * g[d - 1]
    <3>1. CASE d = m + 1
      <4>1. m \in 0..(m + 1) /\ m # m + 1 /\ d # 0 /\ d - 1 = m
        BY <3>1
      <4> QED BY <3>1, <4>1
    <3>2. CASE d # m + 1
      <4>1. d \in 0..m /\ (d # 0 => d - 1 \in 0..(m + 1) /\ d - 1 # m + 1)
        BY <3>2
      <4>2. f[d] = IF d = 0 THEN 1 ELSE 2 * f[d - 1]
        BY <2>1, <4>1 DEF IsCount
      <4> QED BY <3>2, <4>1, <4>2
    <3> QED BY <3>1, <3>2
  <2>3. IsCount(m + 1, g)
    BY <2>2 DEF IsCount
  <2> QED BY <2>3
<1> HIDE DEF S
<1>3. Nat \subseteq S
  BY <1>1, <1>2, AllNumbers
<1> QED BY <1>3 DEF S

LEMMA PathsExist ==
  ASSUME NEW index, NEW n \in Nat
  PROVE  \E f : IsPath(index, n, f)
<1> DEFINE S == {m \in Nat : \E f : IsPath(index, m, f)}
<1>1. 0 \in S
  <2>1. IsPath(index, 0, [d \in 0..0 |-> index])
    BY DEF IsPath
  <2> QED BY <2>1
<1>2. ASSUME NEW m \in Nat, m \in S  PROVE m + 1 \in S
  <2>1. PICK f : IsPath(index, m, f)
    BY <1>2
  <2> DEFINE g == [d \in 0..(m + 1) |-> IF d = m + 1 THEN f[m] \div 2 ELSE f[d]]
  <2>2. ASSUME NEW d \in 0..(m + 1)
        PROVE  g[d] = IF d = 0 THEN index ELSE g[d - 1] \div 2
    <3>1. CASE d = m + 1
      <4>1. m \in 0..(m + 1) /\ m # m + 1 /\ d # 0 /\ d - 1 = m
        BY <3>1
      <4> QED BY <3>1, <4>1
    <3>2. CASE d # m + 1
      <4>1. d \in 0..m /\ (d # 0 => d - 1 \in 0..(m + 1) /\ d - 1 # m + 1)
        BY <3>2
      <4>2. f[d] = IF d = 0 THEN index ELSE f[d - 1] \div 2
        BY <2>1, <4>1 DEF IsPath
      <4> QED BY <3>2, <4>1, <4>2
    <3> QED BY <3>1, <3>2
  <2>3. IsPath(index, m + 1, g)
    BY <2>2 DEF IsPath
  <2> QED BY <2>3
<1> HIDE DEF S
<1>3. Nat \subseteq S
  BY <1>1, <1>2, AllNumbers
<1> QED BY <1>3 DEF S

LEMMA LevelsExist ==
  ASSUME NEW base, NEW n \in Nat
  PROVE  \E f : AreLevels(base, n, f)
<1> DEFINE S == {m \in Nat : \E f : AreLevels(base, m, f)}
<1>1. 0 \in S
  <2>1. AreLevels(base, 0, [d \in 0..0 |-> base])
    BY DEF AreLevels
  <2> QED BY <2>1
<1>2. ASSUME NEW m \in Nat, m \in S  PROVE m + 1 \in S
  <2>1. PICK f : AreLevels(base, m, f)
    BY <1>2
  <2> DEFINE g == [d \in 0..(m + 1) |-> IF d = m + 1 THEN Above(f[m]) ELSE f[d]]
  <2>2. ASSUME NEW d \in 0..(m + 1)
        PROVE  g[d] = IF d = 0 THEN base ELSE Above(g[d - 1])
    <3>1. CASE d = m + 1
      <4>1. m \in 0..(m + 1) /\ m # m + 1 /\ d # 0 /\ d - 1 = m
        BY <3>1
      <4> QED BY <3>1, <4>1
    <3>2. CASE d # m + 1
      <4>1. d \in 0..m /\ (d # 0 => d - 1 \in 0..(m + 1) /\ d - 1 # m + 1)
        BY <3>2
      <4>2. f[d] = IF d = 0 THEN base ELSE Above(f[d - 1])
        BY <2>1, <4>1 DEF AreLevels
      <4> QED BY <3>2, <4>1, <4>2
    <3> QED BY <3>1, <3>2
  <2>3. AreLevels(base, m + 1, g)
    BY <2>2 DEF AreLevels
  <2> QED BY <2>3
<1> HIDE DEF S
<1>3. Nat \subseteq S
  BY <1>1, <1>2, AllNumbers
<1> QED BY <1>3 DEF S

LEMMA BranchesExist ==
  ASSUME NEW leaf, NEW pos, NEW siblings, NEW n \in Nat
  PROVE  \E f : IsBranch(leaf, pos, siblings, n, f)
<1> DEFINE S == {m \in Nat : \E f : IsBranch(leaf, pos, siblings, m, f)}
<1>1. 0 \in S
  <2>1. IsBranch(leaf, pos, siblings, 0, [d \in 0..0 |-> leaf])
    BY DEF IsBranch
  <2> QED BY <2>1
<1>2. ASSUME NEW m \in Nat, m \in S  PROVE m + 1 \in S
  <2>1. PICK f : IsBranch(leaf, pos, siblings, m, f)
    BY <1>2
  <2> DEFINE g == [d \in 0..(m + 1) |->
                     IF d = m + 1 THEN Parent(pos[m], siblings[m + 1], f[m]) ELSE f[d]]
  <2>2. ASSUME NEW d \in 0..(m + 1)
        PROVE  g[d] = IF d = 0 THEN leaf ELSE Parent(pos[d - 1], siblings[d], g[d - 1])
    <3>1. CASE d = m + 1
      <4>1. m \in 0..(m + 1) /\ m # m + 1 /\ d # 0 /\ d - 1 = m
        BY <3>1
      <4> QED BY <3>1, <4>1
    <3>2. CASE d # m + 1
      <4>1. d \in 0..m /\ (d # 0 => d - 1 \in 0..(m + 1) /\ d - 1 # m + 1)
        BY <3>2
      <4>2. f[d] = IF d = 0 THEN leaf ELSE Parent(pos[d - 1], siblings[d], f[d - 1])
        BY <2>1, <4>1 DEF IsBranch
      <4> QED BY <3>2, <4>1, <4>2
    <3> QED BY <3>1, <3>2
  <2>3. IsBranch(leaf, pos, siblings, m + 1, g)
    BY <2>2 DEF IsBranch
  <2> QED BY <2>3
<1> HIDE DEF S
<1>3. Nat \subseteq S
  BY <1>1, <1>2, AllNumbers
<1> QED BY <1>3 DEF S

(* ... and is what the definition says.                                    *)
LEMMA CountsAgree ==
  ASSUME NEW n \in Nat, NEW m \in Nat, n <= m, NEW f, NEW g, IsCount(n, f), IsCount(m, g)
  PROVE  \A k \in 0..n : f[k] = g[k]
<1> DEFINE S == {k \in Nat : k <= n => f[k] = g[k]}
<1>1. 0 \in S
  BY DEF IsCount
<1>2. ASSUME NEW k \in Nat, k \in S  PROVE k + 1 \in S
  <2>1. CASE k + 1 <= n
    <3>1. /\ k + 1 \in 0..n /\ k + 1 \in 0..m /\ k + 1 # 0 /\ (k + 1) - 1 = k /\ k <= n
      BY <2>1
    <3>2. f[k + 1] = 2 * f[k] /\ g[k + 1] = 2 * g[k]
      BY <3>1 DEF IsCount
    <3> QED BY <1>2, <3>1, <3>2
  <2>2. CASE ~ (k + 1 <= n)
    BY <2>2
  <2> QED BY <2>1, <2>2
<1> HIDE DEF S
<1>3. Nat \subseteq S
  BY <1>1, <1>2, AllNumbers
<1>4. \A k \in 0..n : k \in S /\ k <= n
  BY <1>3
<1> QED BY <1>4 DEF S

LEMMA LeafCounts ==
  /\ LeafCount[0] = 1
  /\ \A d \in Nat : LeafCount[d] \in Nat /\ LeafCount[d] >= 1 /\ LeafCount[d + 1] = 2 * LeafCount[d]
<1> DEFINE upto(n) == CHOOSE f : IsCount(n, f)
           h == [d \in Nat |-> upto(d)[d]]
           IsAll(f) == f = [d \in Nat |-> IF d = 0 THEN 1 ELSE 2 * f[d - 1]]
<1>1. \A n \in Nat : IsCount(n, upto(n))
  BY CountsExist
<1> HIDE DEF upto
<1>2. h[0] = 1
  <2>1. upto(0)[0] = 1
    BY <1>1 DEF IsCount
  <2> QED BY <2>1
<1>3. ASSUME NEW d \in Nat  PROVE h[d + 1] = 2 * h[d]
  <2>1. d + 1 \in Nat /\ d \in 0..d /\ d + 1 \in 0..(d + 1) /\ d + 1 # 0 /\ (d + 1) - 1 = d /\ d <= d + 1
    OBVIOUS
  <2>2. upto(d + 1)[d + 1] = 2 * upto(d + 1)[d]
    <3>1. IsCount(d + 1, upto(d + 1))
      BY <1>1, <2>1
    <3> QED BY <2>1, <3>1 DEF IsCount
  <2>3. upto(d)[d] = upto(d + 1)[d]
    <3>1. IsCount(d, upto(d)) /\ IsCount(d + 1, upto(d + 1))
      BY <1>1, <2>1
    <3> QED BY <2>1, <3>1, CountsAgree
  <2> QED BY <2>1, <2>2, <2>3
<1>4. IsAll(h)
  <2>1. ASSUME NEW d \in Nat  PROVE h[d] = IF d = 0 THEN 1 ELSE 2 * h[d - 1]
    <3>1. CASE d # 0
      <4>1. d - 1 \in Nat /\ (d - 1) + 1 = d
        BY <3>1
      <4> HIDE DEF h
      <4>2. h[(d - 1) + 1] = 2 * h[d - 1]
        BY <1>3, <4>1
      <4> QED BY <3>1, <4>1, <4>2
    <3> HIDE DEF h
    <3> QED BY <1>2, <3>1
  <2>2. h = [d \in Nat |-> h[d]]
    OBVIOUS
  <2> HIDE DEF h
  <2> QED BY <2>1, <2>2
<1>5. LeafCount = CHOOSE f : IsAll(f)
  BY DEF LeafCount
<1>6. IsAll(LeafCount)
  <2> HIDE DEF h, IsAll
  <2> QED BY <1>4, <1>5
<1>7. LeafCount[0] = 1
  BY <1>6
<1>8. ASSUME NEW d \in Nat  PROVE LeafCount[d + 1] = 2 * LeafCount[d]
  <2>1. d + 1 \in Nat /\ d + 1 # 0 /\ (d + 1) - 1 = d
    OBVIOUS
  <2>2. LeafCount[d + 1] = IF d + 1 = 0 THEN 1 ELSE 2 * LeafCount[(d + 1) - 1]
    BY <1>6, <2>1
  <2> QED BY <2>1, <2>2
<1> DEFINE S == {d \in Nat : LeafCount[d] \in Nat /\ LeafCount[d] >= 1}
<1>9. 0 \in S
  BY <1>7
<1>10. ASSUME NEW d \in Nat, d \in S  PROVE d + 1 \in S
  BY <1>8, <1>10
<1> HIDE DEF S
<1>11. Nat \subseteq S
  BY <1>9, <1>10, AllNumbers
<1> QED BY <1>7, <1>8, <1>11 DEF S

LEMMA PathIs ==
  ASSUME NEW index \in Nat, NEW depth \in Nat
  PROVE  /\ \A l \in 0..depth : Ancestors(index, depth)[l] \in Nat
         /\ Ancestors(index, depth)[0] = index
         /\ \A l \in 1..depth :
              Ancestors(index, depth)[l] = Ancestors(index, depth)[l - 1] \div 2
<1> DEFINE f == CHOOSE g : IsPath(index, depth, g)
<1>1. IsPath(index, depth, f)
  BY PathsExist
<1>2. f = Ancestors(index, depth)
  BY DEF IsPath, Ancestors
<1> HIDE DEF f
<1>3. f[0] = index
  BY <1>1 DEF IsPath
<1>4. ASSUME NEW l \in 1..depth  PROVE f[l] = f[l - 1] \div 2
  <2>1. l \in 0..depth /\ l # 0
    OBVIOUS
  <2> QED BY <1>1, <2>1 DEF IsPath
<1> DEFINE S == {l \in Nat : l <= depth => f[l] \in Nat}
<1>5. 0 \in S
  BY <1>3
<1>6. ASSUME NEW l \in Nat, l \in S  PROVE l + 1 \in S
  <2>1. CASE l + 1 <= depth
    <3>1. l + 1 \in 1..depth /\ (l + 1) - 1 = l /\ l <= depth
      BY <2>1
    <3>2. f[l + 1] = f[l] \div 2 /\ f[l] \in Nat
      BY <1>4, <1>6, <3>1
    <3>3. f[l] \div 2 \in Nat
      BY <3>2, Halves
    <3> QED BY <3>2, <3>3
  <2> QED BY <2>1
<1> HIDE DEF S
<1>7. Nat \subseteq S
  BY <1>5, <1>6, AllNumbers
<1>8. \A l \in 0..depth : l \in S /\ l <= depth
  BY <1>7
<1>9. \A l \in 0..depth : f[l] \in Nat
  BY <1>8 DEF S
<1> QED BY <1>2, <1>3, <1>4, <1>9

\* The leaves as the lowest level.
Base(leaves) == IF leaves = << >> THEN <<Empty>> ELSE leaves

LEMMA LevelsAre ==
  ASSUME NEW leaves, NEW depth \in Nat
  PROVE  /\ Levels(leaves, depth)[0] = Base(leaves)
         /\ \A l \in 1..depth : Levels(leaves, depth)[l] = Above(Levels(leaves, depth)[l - 1])
<1> DEFINE base == Base(leaves)
           f == CHOOSE g : AreLevels(base, depth, g)
<1>1. AreLevels(base, depth, f)
  <2> HIDE DEF base
  <2> QED BY LevelsExist
<1>2. f = Levels(leaves, depth)
  BY DEF AreLevels, Levels, Above, Base
<1> HIDE DEF f, base
<1>3. f[0] = base
  BY <1>1 DEF AreLevels
<1>4. ASSUME NEW l \in 1..depth  PROVE f[l] = Above(f[l - 1])
  <2>1. l \in 0..depth /\ l # 0
    OBVIOUS
  <2> QED BY <1>1, <2>1 DEF AreLevels
<1> QED BY <1>2, <1>3, <1>4 DEF base

\* The nodes from a leaf to its root, with the siblings on the way.
Branch(leaf, pos, siblings) ==
  CHOOSE f : IsBranch(leaf, pos, siblings, Len(siblings), f)

LEMMA BranchIs ==
  ASSUME NEW leaf, NEW index, NEW siblings, Len(siblings) \in Nat
  PROVE  LET pos == Ancestors(index, Len(siblings))
             f   == Branch(leaf, pos, siblings)
         IN /\ MerkleRoot(leaf, index, siblings) = f[Len(siblings)]
            /\ f[0] = leaf
            /\ \A l \in 1..Len(siblings) : f[l] = Parent(pos[l - 1], siblings[l], f[l - 1])
<1> DEFINE n == Len(siblings)
           pos == Ancestors(index, n)
           f == Branch(leaf, pos, siblings)
<1>1. MerkleRoot(leaf, index, siblings) = f[n]
  BY DEF MerkleRoot, Branch, IsBranch, Parent
<1>2. IsBranch(leaf, pos, siblings, n, f)
  <2> HIDE DEF pos
  <2> QED BY BranchesExist DEF Branch
<1> HIDE DEF f, pos
<1>3. f[0] = leaf
  BY <1>2 DEF IsBranch
<1>4. ASSUME NEW l \in 1..n  PROVE f[l] = Parent(pos[l - 1], siblings[l], f[l - 1])
  <2>1. l \in 0..n /\ l # 0
    OBVIOUS
  <2> QED BY <1>2, <2>1 DEF IsBranch
<1> QED BY <1>1, <1>3, <1>4 DEF f, pos

-----------------------------------------------------------------------------
(* What a root opens to.                                                   *)

LEMMA LenDomain ==
  ASSUME NEW s, NEW n \in Nat, DOMAIN s = 1..n, s = [i \in DOMAIN s |-> s[i]]
  PROVE  Len(s) = n
<1>1. s \in [1..n -> {s[i] : i \in DOMAIN s}]
  OBVIOUS
<1>2. s \in Seq({s[i] : i \in DOMAIN s})
  BY <1>1
<1>3. Len(s) \in Nat /\ DOMAIN s = 1..Len(s)
  BY <1>2, LenProperties
<1> QED BY <1>3

LEMMA HashIs ==
  ASSUME NEW a, NEW b, NEW c, NEW d
  PROVE  Hash(a, b) # Empty /\ (Hash(a, b) = Hash(c, d) => a = c /\ b = d)
BY DEF Hash, Empty

HasLength(level) == Len(level) \in Nat /\ Len(level) >= 1 /\ DOMAIN level = 1..Len(level)

(* A level above has a node for every two, and what it has not is empty.   *)
LEMMA AboveIs ==
  ASSUME NEW level, HasLength(level)
  PROVE  /\ HasLength(Above(level))
         /\ \A p \in Nat : NodeAt(Above(level), p + 1) =
                           Node(NodeAt(level, 2 * p + 1), NodeAt(level, 2 * p + 2))
<1> DEFINE n == Len(level)
           m == (n + 1) \div 2
           up == Above(level)
<1>1. /\ n \in Nat /\ m \in Nat /\ m >= 1 /\ n <= 2 * m /\ 2 * m <= n + 1
  BY DEF HasLength
<1>2. DOMAIN up = 1..m /\ Len(up) = m
  <2> HIDE DEF n
  <2>1. up = [pos \in 1..m |-> Node(NodeAt(level, 2 * pos - 1), NodeAt(level, 2 * pos))]
    BY DEF Above, n
  <2> HIDE DEF m, up
  <2>2. DOMAIN up = 1..m
    BY <2>1
  <2> QED BY <1>1, <2>2, LenDomain
<1>3. ASSUME NEW p \in Nat
      PROVE  NodeAt(up, p + 1) = Node(NodeAt(level, 2 * p + 1), NodeAt(level, 2 * p + 2))
  <2>1. CASE p + 1 <= m
    <3>1. p + 1 \in 1..m /\ 2 * (p + 1) - 1 = 2 * p + 1 /\ 2 * (p + 1) = 2 * p + 2
      BY <1>1, <2>1
    <3>2. up[p + 1] = Node(NodeAt(level, 2 * (p + 1) - 1), NodeAt(level, 2 * (p + 1)))
      BY <3>1 DEF Above
    <3> HIDE DEF up, m
    <3>3. NodeAt(up, p + 1) = up[p + 1]
      BY <1>2, <3>1 DEF NodeAt
    <3> QED BY <3>1, <3>2, <3>3
  <2>2. CASE ~ (p + 1 <= m)
    <3>1. p + 1 \notin 1..m /\ 2 * p + 1 \notin 1..n /\ 2 * p + 2 \notin 1..n
      BY <1>1, <2>2
    <3> HIDE DEF up, m
    <3>2. NodeAt(up, p + 1) = Empty /\ NodeAt(level, 2 * p + 1) = Empty
          /\ NodeAt(level, 2 * p + 2) = Empty
      BY <1>2, <3>1 DEF NodeAt, HasLength
    <3> QED BY <3>2 DEF Node
  <2> QED BY <2>1, <2>2
<1> HIDE DEF m, up
<1>4. HasLength(up)
  BY <1>1, <1>2 DEF HasLength
<1> QED BY <1>3, <1>4 DEF up

LEMMA LevelsHaveLength ==
  ASSUME NEW V, NEW leaves \in Seq(V), NEW depth \in Nat
  PROVE  \A l \in 0..depth : HasLength(Levels(leaves, depth)[l])
<1> DEFINE L == Levels(leaves, depth)
           S == {l \in Nat : l <= depth => HasLength(L[l])}
<1> HIDE DEF L
<1>1. 0 \in S
  <2>1. HasLength(Base(leaves))
    <3>1. CASE leaves = << >>
      BY <3>1 DEF HasLength, Base
    <3>2. CASE leaves # << >>
      <4>1. Len(leaves) \in Nat /\ DOMAIN leaves = 1..Len(leaves) /\ Len(leaves) # 0
        BY <3>2, EmptySeq, LenProperties
      <4> QED BY <3>2, <4>1 DEF HasLength, Base
    <3> QED BY <3>1, <3>2
  <2> QED BY <2>1, LevelsAre DEF L
<1>2. ASSUME NEW l \in Nat, l \in S  PROVE l + 1 \in S
  <2>1. CASE l + 1 <= depth
    <3>1. l + 1 \in 1..depth /\ (l + 1) - 1 = l /\ l <= depth
      BY <2>1
    <3>2. L[l + 1] = Above(L[l]) /\ HasLength(L[l])
      <4>1. L[l + 1] = Above(L[(l + 1) - 1])
        BY <3>1, LevelsAre DEF L
      <4> QED BY <1>2, <3>1, <4>1
    <3> QED BY <3>2, AboveIs
  <2> QED BY <2>1
<1> HIDE DEF S
<1>3. Nat \subseteq S
  BY <1>1, <1>2, AllNumbers
<1>4. \A l \in 0..depth : l \in S /\ l <= depth
  BY <1>3
<1> QED BY <1>4 DEF S, L

SiblingAt(level, p) == NodeAt(level, IF p % 2 = 0 THEN p + 2 ELSE p)

(* A node with its sibling hashes to the node above exactly when it is the *)
(* one that the tree has there.                                            *)
LEMMA OneHeight ==
  ASSUME NEW level, HasLength(level), NEW p \in Nat, NEW s, NEW x, x # Empty,
         s = SiblingAt(level, p)
  PROVE  /\ Parent(p, s, x) # Empty
         /\ Parent(p, s, x) = NodeAt(Above(level), p \div 2 + 1) <=> x = NodeAt(level, p + 1)
<1> DEFINE q == p \div 2
<1>1. q \in Nat /\ p % 2 \in {0, 1} /\ (p % 2 = 0 => p = 2 * q) /\ (p % 2 = 1 => p = 2 * q + 1)
  OBVIOUS
<1> HIDE DEF q
<1>2. NodeAt(Above(level), q + 1) = Node(NodeAt(level, 2 * q + 1), NodeAt(level, 2 * q + 2))
  BY <1>1, AboveIs
<1>3. CASE p % 2 = 0
  <2>1. p % 2 # 1 /\ 2 * q + 1 = p + 1 /\ 2 * q + 2 = p + 2
    BY <1>1, <1>3
  <2>2. Parent(p, s, x) = Hash(x, s) /\ s = NodeAt(level, p + 2)
    BY <1>3, <2>1 DEF Parent, SiblingAt
  <2>3. NodeAt(Above(level), q + 1) = Node(NodeAt(level, p + 1), s)
    BY <1>2, <2>1, <2>2
  <2> QED BY <2>2, <2>3, HashIs DEF Node, q
<1>4. CASE p % 2 = 1
  <2>1. p % 2 # 0 /\ 2 * q + 1 = p /\ 2 * q + 2 = p + 1
    BY <1>1, <1>4
  <2>2. Parent(p, s, x) = Hash(s, x) /\ s = NodeAt(level, p)
    BY <1>4, <2>1 DEF Parent, SiblingAt
  <2>3. NodeAt(Above(level), q + 1) = Node(s, NodeAt(level, p + 1))
    BY <1>2, <2>1, <2>2
  <2> QED BY <2>2, <2>3, HashIs DEF Node, q
<1> QED BY <1>1, <1>3, <1>4

\* At the top there is one node.
LEMMA PathEnds ==
  ASSUME NEW depth \in Nat, NEW index \in 0..(LeafCount[depth] - 1)
  PROVE  Ancestors(index, depth)[depth] = 0
<1> DEFINE pos == Ancestors(index, depth)
           S == {l \in Nat : l <= depth => pos[l] < LeafCount[depth - l]}
<1>1. index \in Nat /\ index < LeafCount[depth] /\ depth - 0 = depth
  BY LeafCounts
<1>2. /\ \A l \in 0..depth : pos[l] \in Nat
      /\ pos[0] = index /\ \A l \in 1..depth : pos[l] = pos[l - 1] \div 2
  BY <1>1, PathIs
<1> HIDE DEF pos
<1>3. 0 \in S
  BY <1>1, <1>2
<1>4. ASSUME NEW l \in Nat, l \in S  PROVE l + 1 \in S
  <2>1. CASE l + 1 <= depth
    <3>1. l + 1 \in 1..depth /\ (l + 1) - 1 = l /\ l \in 0..depth /\ l <= depth
          /\ depth - (l + 1) \in Nat /\ (depth - (l + 1)) + 1 = depth - l
      BY <2>1
    <3>2. pos[l + 1] = pos[l] \div 2 /\ pos[l] \in Nat
      BY <1>2, <3>1
    <3>3. pos[l] < LeafCount[depth - l]
      BY <1>4, <3>1
    <3>4. LeafCount[depth - (l + 1)] \in Nat
          /\ LeafCount[depth - l] = 2 * LeafCount[depth - (l + 1)]
      BY <3>1, LeafCounts
    <3>5. pos[l] \div 2 < LeafCount[depth - (l + 1)]
      BY <3>2, <3>3, <3>4
    <3> QED BY <3>2, <3>5
  <2> QED BY <2>1
<1> HIDE DEF S
<1>5. Nat \subseteq S
  BY <1>3, <1>4, AllNumbers
<1>6. depth \in S /\ depth <= depth /\ depth - depth = 0 /\ depth \in 0..depth
  BY <1>5
<1>7. pos[depth] < LeafCount[0] /\ pos[depth] \in Nat
  BY <1>2, <1>6 DEF S
<1>8. pos[depth] = 0
  BY <1>7, LeafCounts
<1> QED BY <1>8 DEF pos

(* The root opens to a leaf at an index exactly when the tree was built    *)
(* with it there.                                                          *)
LEMMA RootOpens ==
  ASSUME NEW V, NEW leaves \in Seq(V), NEW depth \in Nat,
         NEW index \in 0..(LeafCount[depth] - 1), NEW leaf, leaf # Empty
  PROVE  MerkleRoot(leaf, index, Siblings(BuildTree(leaves, depth), index))
             = BuildTree(leaves, depth).root
           <=> index + 1 \in DOMAIN leaves /\ leaves[index + 1] = leaf
<1> DEFINE tree == BuildTree(leaves, depth)
           L == Levels(leaves, depth)
           pos == Ancestors(index, depth)
           sib == Siblings(tree, index)
           f == Branch(leaf, pos, sib)
<1>1. tree.root = L[depth][1] /\ tree.levels = L /\ tree.depth = depth
  BY DEF BuildTree
<1>2. sib = [l \in 1..depth |-> NodeAt(L[l - 1], IF pos[l - 1] % 2 = 0 THEN pos[l - 1] + 2
                                                                      ELSE pos[l - 1])]
  <2> HIDE DEF tree
  <2> QED BY <1>1 DEF Siblings
<1> HIDE DEF tree, sib
<1>3. Len(sib) = depth
  <2> HIDE DEF L, pos
  <2> QED BY <1>2, LenDomain
<1>4. /\ index \in Nat
      /\ \A l \in 0..depth : pos[l] \in Nat
      /\ pos[0] = index
      /\ \A l \in 1..depth : pos[l] = pos[l - 1] \div 2
      /\ pos[depth] = 0
  <2>1. index \in Nat
    BY LeafCounts
  <2> QED BY <2>1, PathIs, PathEnds
<1>5. /\ L[0] = Base(leaves)
      /\ \A l \in 1..depth : L[l] = Above(L[l - 1])
      /\ \A l \in 0..depth : HasLength(L[l])
  BY LevelsAre, LevelsHaveLength
<1>6. /\ MerkleRoot(leaf, index, sib) = f[depth]
      /\ f[0] = leaf
      /\ \A l \in 1..depth : f[l] = Parent(pos[l - 1], sib[l], f[l - 1])
  BY <1>3, BranchIs
<1> HIDE DEF L, pos, f
<1> DEFINE S == {l \in Nat : l <= depth =>
                   /\ f[l] # Empty
                   /\ f[l] = NodeAt(L[l], pos[l] + 1) <=> leaf = NodeAt(L[0], index + 1)}
<1>7. 0 \in S
  BY <1>4, <1>6
<1>8. ASSUME NEW l \in Nat, l \in S  PROVE l + 1 \in S
  <2>1. CASE l + 1 <= depth
    <3>1. l + 1 \in 1..depth /\ (l + 1) - 1 = l /\ l \in 0..depth /\ l <= depth
      BY <2>1
    <3>2. /\ f[l + 1] = Parent(pos[l], sib[l + 1], f[l])
          /\ sib[l + 1] = NodeAt(L[l], IF pos[l] % 2 = 0 THEN pos[l] + 2 ELSE pos[l])
      <4>1. f[l + 1] = Parent(pos[(l + 1) - 1], sib[l + 1], f[(l + 1) - 1])
        BY <1>6, <3>1
      <4>2. sib[l + 1] = NodeAt(L[(l + 1) - 1], IF pos[(l + 1) - 1] % 2 = 0
                                               THEN pos[(l + 1) - 1] + 2 ELSE pos[(l + 1) - 1])
        BY <1>2, <3>1
      <4> QED BY <3>1, <4>1, <4>2
    <3>3. L[l + 1] = Above(L[l]) /\ pos[l + 1] = pos[l] \div 2
      <4>1. L[l + 1] = Above(L[(l + 1) - 1]) /\ pos[l + 1] = pos[(l + 1) - 1] \div 2
        BY <1>4, <1>5, <3>1
      <4> QED BY <3>1, <4>1
    <3>4. HasLength(L[l]) /\ pos[l] \in Nat
      BY <1>4, <1>5, <3>1
    <3>5. f[l] # Empty /\ (f[l] = NodeAt(L[l], pos[l] + 1) <=> leaf = NodeAt(L[0], index + 1))
      BY <1>8, <3>1
    <3>6. /\ f[l + 1] # Empty
          /\ f[l + 1] = NodeAt(Above(L[l]), pos[l] \div 2 + 1) <=> f[l] = NodeAt(L[l], pos[l] + 1)
      <4> DEFINE s == sib[l + 1]
                 x == f[l]
                 p == pos[l]
                 level == L[l]
      <4>1. /\ HasLength(level) /\ p \in Nat /\ x # Empty
            /\ s = SiblingAt(level, p)
        BY <3>2, <3>4, <3>5 DEF SiblingAt
      <4> HIDE DEF s, x, p, level
      <4>2. /\ Parent(p, s, x) # Empty
            /\ Parent(p, s, x) = NodeAt(Above(level), p \div 2 + 1) <=> x = NodeAt(level, p + 1)
        BY ONLY <4>1, OneHeight
      <4>3. f[l + 1] = Parent(p, s, x)
        BY <3>2 DEF s, x, p
      <4>4. /\ f[l + 1] # Empty
            /\ f[l + 1] = NodeAt(Above(level), p \div 2 + 1) <=> x = NodeAt(level, p + 1)
        BY ONLY <4>2, <4>3
      <4> QED BY ONLY <4>4 DEF x, p, level
    <3> QED BY <3>3, <3>5, <3>6
  <2> QED BY <2>1
<1> HIDE DEF S
<1>9. Nat \subseteq S
  BY <1>7, <1>8, AllNumbers
<1>10. f[depth] = NodeAt(L[depth], 1) <=> leaf = NodeAt(L[0], index + 1)
  <2>1. depth \in S /\ depth <= depth /\ pos[depth] + 1 = 1
    BY <1>4, <1>9
  <2> QED BY <2>1 DEF S
<1>11. NodeAt(L[depth], 1) = L[depth][1]
  <2>1. HasLength(L[depth]) /\ 1 \in 1..Len(L[depth])
    BY <1>5 DEF HasLength
  <2> QED BY <2>1 DEF NodeAt, HasLength
<1>12. leaf = NodeAt(L[0], index + 1) <=> index + 1 \in DOMAIN leaves /\ leaves[index + 1] = leaf
  <2>1. CASE leaves = << >>
    <3>1. NodeAt(<<Empty>>, index + 1) = Empty
      BY <1>4 DEF NodeAt
    <3>2. L[0] = <<Empty>> /\ DOMAIN leaves = {}
      BY <1>5, <2>1 DEF Base
    <3> QED BY <3>1, <3>2
  <2>2. CASE leaves # << >>
    BY <1>5, <2>2 DEF Base, NodeAt
  <2> QED BY <2>1, <2>2
<1>13. MerkleRoot(leaf, index, sib) = tree.root
         <=> index + 1 \in DOMAIN leaves /\ leaves[index + 1] = leaf
  BY <1>1, <1>6, <1>10, <1>11, <1>12
<1> QED BY <1>13 DEF sib, tree

-----------------------------------------------------------------------------
(* The listed values, in order.                                            *)

Ascending(s) == \A i, j \in DOMAIN s : i < j => s[i] < s[j]

\* A finite set can be listed: its least value first, then the rest.
LEMMA ListExists ==
  ASSUME NEW S, S \subseteq Nat, IsFiniteSet(S)
  PROVE  \E s \in [1..Cardinality(S) -> S] : Ascending(s)
<1> DEFINE N == {n \in Nat : \A T \in SUBSET Nat : IsFiniteSet(T) /\ Cardinality(T) = n =>
                               \E s \in [1..n -> T] : Ascending(s)}
<1>1. 0 \in N
  <2>1. ASSUME NEW T \in SUBSET Nat, IsFiniteSet(T), Cardinality(T) = 0
        PROVE  \E s \in [1..0 -> T] : Ascending(s)
    <3>1. 1..0 = {}
      OBVIOUS
    <3>2. [i \in {} |-> i] \in [1..0 -> T] /\ Ascending([i \in {} |-> i])
      BY <3>1 DEF Ascending
    <3> QED BY <3>2
  <2> QED BY <2>1
<1>2. ASSUME NEW n \in Nat, n \in N  PROVE n + 1 \in N
  <2>1. ASSUME NEW T \in SUBSET Nat, IsFiniteSet(T), Cardinality(T) = n + 1
        PROVE  \E s \in [1..(n + 1) -> T] : Ascending(s)
    <3>1. T # {}
      BY <2>1, FS_EmptySet
    <3>2. PICK least \in T : \A v \in T : least <= v
      BY <2>1, <3>1, Smallest
    <3>3. /\ T \ {least} \in SUBSET Nat /\ IsFiniteSet(T \ {least})
          /\ Cardinality(T \ {least}) = n
      <4>1. IsFiniteSet(T \ {least}) /\ Cardinality(T \ {least}) = Cardinality(T) - 1
        BY ONLY <2>1, <3>2, FS_RemoveElement
      <4>2. (n + 1) - 1 = n
        OBVIOUS
      <4> QED BY <2>1, <4>1, <4>2
    <3>4. PICK s \in [1..n -> T \ {least}] : Ascending(s)
      BY <1>2, <3>3
    <3> DEFINE t == [i \in 1..(n + 1) |-> IF i = 1 THEN least ELSE s[i - 1]]
    <3>5. ASSUME NEW i \in 1..(n + 1)
          PROVE  /\ t[i] \in T /\ (i = 1 => t[i] = least)
                 /\ i # 1 => i - 1 \in 1..n /\ t[i] = s[i - 1] /\ t[i] \in T \ {least}
      BY <3>4
    <3>6. t \in [1..(n + 1) -> T]
      BY <3>5
    <3>7. ASSUME NEW i \in 1..(n + 1), NEW j \in 1..(n + 1), i < j  PROVE t[i] < t[j]
      <4>1. j # 1 /\ j - 1 \in 1..n /\ t[j] = s[j - 1] /\ t[j] \in T \ {least}
        BY <3>5, <3>7
      <4>2. CASE i = 1
        <5>1. t[i] = least /\ t[j] # least /\ t[j] \in T
          BY <3>5, <4>1, <4>2
        <5> HIDE DEF t
        <5>2. least <= t[j] /\ least \in Nat /\ t[j] \in Nat
          BY <3>2, <5>1
        <5> QED BY <5>1, <5>2
      <4>3. CASE i # 1
        <5>1. i - 1 \in 1..n /\ t[i] = s[i - 1] /\ i - 1 < j - 1
          BY <3>5, <3>7, <4>3
        <5>2. s[i - 1] < s[j - 1]
          BY <3>4, <4>1, <5>1 DEF Ascending
        <5> QED BY <4>1, <5>1, <5>2
      <4> QED BY <4>2, <4>3
    <3> HIDE DEF t
    <3>8. Ascending(t)
      BY <3>6, <3>7 DEF Ascending
    <3> QED BY <3>6, <3>8
  <2> QED BY <2>1
<1> HIDE DEF N
<1>3. Nat \subseteq N
  BY <1>1, <1>2, AllNumbers
<1>4. Cardinality(S) \in Nat
  BY FS_CardinalityType
<1> QED BY <1>3, <1>4 DEF N

(* ... and a list in order has all of it.                                  *)
LEMMA ListIs ==
  ASSUME NEW S, S \subseteq Nat, IsFiniteSet(S)
  PROVE  LET s == ListedInOrder(S) IN
         /\ Cardinality(S) \in Nat
         /\ s \in [1..Cardinality(S) -> S]
         /\ \A i, j \in 1..Cardinality(S) : i < j => s[i] < s[j]
         /\ \A v \in S : \E i \in 1..Cardinality(S) : s[i] = v
<1> DEFINE n == Cardinality(S)
           s == ListedInOrder(S)
<1>1. n \in Nat /\ IsFiniteSet(1..n) /\ Cardinality(1..n) = n
  BY FS_CardinalityType, FS_Interval
<1>2. s \in [1..n -> S] /\ Ascending(s)
  BY ListExists DEF ListedInOrder, Ascending
<1> HIDE DEF n, s
<1>3. \A i, j \in 1..n : i < j => s[i] < s[j]
  BY <1>2 DEF Ascending
<1>4. ASSUME NEW i \in 1..n, NEW j \in 1..n, s[i] = s[j]  PROVE i = j
  <2>1. i < j \/ j < i \/ i = j
    BY <1>1
  <2>2. s[i] \in Nat /\ s[j] \in Nat
    BY <1>2
  <2> QED BY <1>3, <1>4, <2>1, <2>2
<1>5. s \in Injection(1..n, S)
  BY <1>2, <1>4 DEF Injection, IsInjective
<1>6. s \in Surjection(1..n, S)
  BY <1>1, <1>5, FS_Injection DEF n
<1>7. \A v \in S : \E i \in 1..n : s[i] = v
  BY <1>6 DEF Surjection
<1> QED BY <1>1, <1>2, <1>3, <1>7 DEF n, s

\* A key in the exclusion list: the links go from 0 over the values.
LEMMA NodesAre ==
  ASSUME NEW S, S \subseteq Keys, IsFiniteSet(S)
  PROVE  LET nodes == LinkedNodes(S)
             n     == Cardinality(S) + 1
         IN /\ n \in Nat /\ n >= 1
            /\ DOMAIN nodes = 1..n /\ Len(nodes) = n
            /\ \A i \in 1..n : /\ nodes[i] = [value |-> nodes[i].value, next |-> nodes[i].next]
                               /\ nodes[i].value \in IF i = 1 THEN {0} ELSE S
                               /\ nodes[i].next = IF i < n THEN nodes[i + 1].value ELSE 0
            /\ \A i, j \in 1..n : i < j => nodes[i].value < nodes[j].value
            /\ \A v \in S : \E i \in 2..n : nodes[i].value = v
<1> DEFINE c == Cardinality(S)
           n == c + 1
           s == ListedInOrder(S)
           all == <<0>> \o s
           nodes == LinkedNodes(S)
<1>1. S \subseteq Nat /\ \A v \in S : v \in Nat /\ v >= 1
  BY TreesAssumption DEF Keys
<1>2. /\ c \in Nat /\ s \in [1..c -> S]
      /\ \A i, j \in 1..c : i < j => s[i] < s[j]
      /\ \A v \in S : \E i \in 1..c : s[i] = v
  BY <1>1, ListIs
<1>3. nodes = [i \in DOMAIN all |-> [value |-> all[i],
                                     next |-> IF i < Len(all) THEN all[i + 1] ELSE 0]]
  BY DEF LinkedNodes
<1> HIDE DEF c, s, nodes
<1>4. n \in Nat /\ n >= 1
  BY <1>2
<1>5. s \in Seq(Nat) /\ Len(s) = c
  <2>1. s \in [1..c -> Nat]
    BY <1>1, <1>2
  <2>2. s \in Seq(Nat)
    BY ONLY <1>2, <2>1
  <2>3. DOMAIN s = 1..c /\ s = [i \in DOMAIN s |-> s[i]]
    BY <2>1
  <2> QED BY <1>2, <2>2, <2>3, LenDomain
<1>6. /\ Len(all) = n /\ DOMAIN all = 1..n /\ all[1] = 0
      /\ \A i \in 2..n : i - 1 \in 1..c /\ all[i] = s[i - 1]
  BY <1>2, <1>5
<1> HIDE DEF all
<1> HIDE DEF n
<1>7. ASSUME NEW i \in 1..n
      PROVE  /\ nodes[i] = [value |-> nodes[i].value, next |-> nodes[i].next]
             /\ nodes[i].value = all[i]
             /\ nodes[i].next = IF i < n THEN all[i + 1] ELSE 0
  BY <1>3, <1>6
<1>8. DOMAIN nodes = 1..n /\ Len(nodes) = n
  <2>1. DOMAIN nodes = 1..n
    BY <1>3, <1>6
  <2> QED BY <1>3, <1>4, <2>1, LenDomain
<1>9. ASSUME NEW i \in 1..n  PROVE all[i] \in IF i = 1 THEN {0} ELSE S
  <2>1. CASE i # 1
    <3>1. i \in 2..n
      BY <1>4, <2>1
    <3> QED BY <1>2, <1>6, <2>1, <3>1
  <2> QED BY <1>6, <2>1
<1>10. ASSUME NEW i \in 1..n, NEW j \in 1..n, i < j  PROVE all[i] < all[j]
  <2>1. j \in 2..n /\ j # 1
    BY <1>4, <1>10
  <2>2. CASE i = 1
    <3>1. all[j] \in S
      BY <1>9, <2>1
    <3>2. all[j] \in Nat /\ all[j] >= 1 /\ all[i] = 0
      BY <1>1, <1>6, <2>2, <3>1
    <3> QED BY <3>2
  <2>3. CASE i # 1
    <3>1. i \in 2..n
      BY <1>4, <2>3
    <3>2. i - 1 \in 1..c /\ j - 1 \in 1..c /\ all[i] = s[i - 1] /\ all[j] = s[j - 1]
      BY <1>6, <2>1, <3>1
    <3>3. i - 1 < j - 1
      BY <1>10
    <3> QED BY <1>2, <3>2, <3>3
  <2> QED BY <2>2, <2>3
<1>11. ASSUME NEW v \in S  PROVE \E i \in 2..n : all[i] = v
  <2>1. PICK i \in 1..c : s[i] = v
    BY <1>2
  <2>2. i + 1 \in 2..n /\ (i + 1) - 1 = i
    BY <1>2 DEF n
  <2>3. all[i + 1] = s[(i + 1) - 1]
    BY <1>6, <2>2
  <2> QED BY <2>1, <2>2, <2>3
<1>12. \A i \in 1..n : i < n => i + 1 \in 1..n
  BY <1>4
<1>13. 2..n \subseteq 1..n
  BY <1>4
<1>14. \A i \in 1..n : nodes[i].next = IF i < n THEN nodes[i + 1].value ELSE 0
  BY <1>7, <1>12
<1>15. \A i \in 1..n : nodes[i].value \in IF i = 1 THEN {0} ELSE S
  BY <1>7, <1>9
<1>16. \A i, j \in 1..n : i < j => nodes[i].value < nodes[j].value
  BY <1>7, <1>10
<1>17. \A v \in S : \E i \in 2..n : nodes[i].value = v
  BY <1>7, <1>11, <1>13
<1>18. \A i \in 1..n : nodes[i] = [value |-> nodes[i].value, next |-> nodes[i].next]
  BY <1>7
<1> QED BY <1>4, <1>8, <1>14, <1>15, <1>16, <1>17, <1>18 DEF n, c, nodes

(* A key is bracketed by a node exactly when it is not listed.             *)
LEMMA BracketedIffAbsent ==
  ASSUME NEW S, S \subseteq Keys, IsFiniteSet(S), NEW key \in Keys
  PROVE  LET nodes == LinkedNodes(S) IN
         key \notin S <=> \E j \in DOMAIN nodes : Brackets(nodes[j], key)
<1> DEFINE nodes == LinkedNodes(S)
           n == Cardinality(S) + 1
           val(i) == nodes[i].value
<1>1. /\ n \in Nat /\ n >= 1 /\ DOMAIN nodes = 1..n
      /\ \A i \in 1..n : /\ val(i) \in IF i = 1 THEN {0} ELSE S
                         /\ nodes[i].next = IF i < n THEN val(i + 1) ELSE 0
      /\ \A i, j \in 1..n : i < j => val(i) < val(j)
      /\ \A v \in S : \E i \in 2..n : val(i) = v
  BY NodesAre
<1>2. key \in Nat /\ key >= 1 /\ \A v \in S : v \in Nat /\ v >= 1
  BY TreesAssumption DEF Keys
<1> HIDE DEF nodes, n
<1>3. ASSUME NEW i \in 1..n
      PROVE  val(i) \in Nat /\ (i = 1 => val(i) = 0) /\ (i # 1 => val(i) \in S /\ val(i) >= 1)
  <2> HIDE DEF val
  <2>1. val(i) \in IF i = 1 THEN {0} ELSE S
    BY <1>1
  <2>2. CASE i = 1
    BY <2>1, <2>2
  <2>3. CASE i # 1
    <3>1. val(i) \in S
      BY <2>1, <2>3
    <3> QED BY <1>2, <2>3, <3>1
  <2> QED BY <2>2, <2>3
<1> HIDE DEF val
<1>4. ASSUME key \notin S  PROVE \E j \in DOMAIN nodes : Brackets(nodes[j], key)
  <2> DEFINE T == {j \in 1..n : j = n \/ key < val(j + 1)}
  <2>1. T \subseteq Nat /\ T # {}
    BY <1>1
  <2>2. PICK j \in T : \A k \in T : j <= k
    BY <2>1, Smallest
  <2>3. j \in 1..n
    BY <2>2
  <2>4. val(j) < key
    <3>1. CASE j = 1
      BY <1>2, <1>3, <2>3, <3>1
    <3>2. CASE j # 1
      <4>1. j - 1 \in 1..n /\ j - 1 # n /\ (j - 1) + 1 = j /\ ~ (j <= j - 1)
        BY <1>1, <2>3, <3>2
      <4>2. ~ (key < val(j))
        BY <2>2, <4>1
      <4>3. val(j) \in Nat /\ val(j) # key
        BY <1>3, <1>4, <2>3, <3>2
      <4> QED BY <1>2, <4>2, <4>3
    <3> QED BY <3>1, <3>2
  <2>5. key < nodes[j].next \/ nodes[j].next = 0
    <3>1. CASE j = n
      <4>1. ~ (j < n)
        BY <1>1, <3>1
      <4> QED BY <1>1, <2>3, <4>1
    <3>2. CASE j # n
      <4>1. j < n
        BY <1>1, <2>3, <3>2
      <4> QED BY <1>1, <2>2, <2>3, <3>2, <4>1
    <3> QED BY <3>1, <3>2
  <2> QED BY <1>1, <2>3, <2>4, <2>5 DEF Brackets, val
<1>5. ASSUME key \in S, NEW j \in 1..n, Brackets(nodes[j], key)  PROVE FALSE
  <2>1. PICK m \in 2..n : val(m) = key
    BY <1>1, <1>5
  <2>2. m \in 1..n
    BY <1>1, <2>1
  <2>3. val(j) < key
    BY <1>5 DEF Brackets, val
  <2>4. j < m
    <3>1. ~ (m < j)
      <4>1. m < j => val(m) < val(j)
        BY <1>1, <2>2
      <4> QED BY <1>2, <1>3, <2>1, <2>3, <4>1
    <3>2. j # m
      BY <1>2, <2>1, <2>3
    <3> QED BY <1>1, <2>2, <3>1, <3>2
  <2>5. j < n /\ j + 1 \in 1..n /\ j + 1 # 1
    BY <1>1, <2>2, <2>4
  <2>6. nodes[j].next = val(j + 1) /\ val(j + 1) # 0 /\ val(j + 1) \in Nat
    BY <1>1, <1>3, <2>5
  <2>7. key < val(j + 1)
    BY <1>5, <2>6 DEF Brackets
  <2>8. m < j + 1
    <3>1. j + 1 < m => val(j + 1) < val(m)
      BY <1>1, <2>2, <2>5
    <3>2. ~ (j + 1 < m)
      BY <1>2, <2>1, <2>6, <2>7, <3>1
    <3>3. j + 1 # m
      BY <1>2, <2>1, <2>7
    <3> QED BY <2>2, <3>2, <3>3
  <2> QED BY <2>2, <2>4, <2>8
<1>6. key \notin S <=> \E j \in DOMAIN nodes : Brackets(nodes[j], key)
  BY <1>1, <1>4, <1>5
<1> QED BY <1>6 DEF nodes

LEMMA LeafCountsGrow ==
  ASSUME NEW a \in Nat, NEW b \in Nat, a < b
  PROVE  LeafCount[a] + 1 <= LeafCount[b]
<1> DEFINE S == {d \in Nat : a < d => LeafCount[a] + 1 <= LeafCount[d]}
<1>1. 0 \in S
  OBVIOUS
<1>2. ASSUME NEW d \in Nat, d \in S  PROVE d + 1 \in S
  <2>1. /\ LeafCount[d] \in Nat /\ LeafCount[d] >= 1
        /\ LeafCount[d + 1] = 2 * LeafCount[d] /\ LeafCount[a] \in Nat
    BY LeafCounts
  <2>2. CASE a < d
    <3>1. LeafCount[a] + 1 <= LeafCount[d]
      BY <1>2, <2>2
    <3>2. LeafCount[a] + 1 <= LeafCount[d + 1]
      BY <2>1, <3>1
    <3> QED BY <3>2
  <2>3. CASE a = d
    <3>1. LeafCount[a] + 1 <= LeafCount[d + 1]
      BY <2>1, <2>3
    <3> QED BY <3>1
  <2>4. CASE ~ (a < d + 1)
    BY <2>4
  <2>5. a < d \/ a = d \/ ~ (a < d + 1)
    OBVIOUS
  <2> QED BY <2>2, <2>3, <2>4, <2>5
<1> HIDE DEF S
<1>3. Nat \subseteq S
  BY <1>1, <1>2, AllNumbers
<1> QED BY <1>3 DEF S

(* What an exclusion tree decides of a key, and the witness that shows it. *)
LEMMA ExclusionDecides ==
  ASSUME NEW S, S \subseteq Keys, IsFiniteSet(S),
         Cardinality(S) + 1 <= LeafCount[ExclusionDepth],
         NEW key \in Keys
  PROVE  LET ex == BuildExclusionTree(S) IN
         /\ key \notin S <=> \E w \in Openings(ex) : ExclusionProof(key, w, ex.tree.root)
         /\ key \notin S => ExclusionProof(key, WitnessFor(ex, key), ex.tree.root)
<1> DEFINE nodes == LinkedNodes(S)
           n == Cardinality(S) + 1
           leaves == [i \in DOMAIN nodes |-> Hash(nodes[i].value, nodes[i].next)]
           tree == BuildTree(leaves, ExclusionDepth)
           ex == BuildExclusionTree(S)
           places == 0..(LeafCount[ExclusionDepth] - 1)
<1>1. /\ n \in Nat /\ DOMAIN nodes = 1..n
      /\ \A i \in 1..n : /\ nodes[i] = [value |-> nodes[i].value, next |-> nodes[i].next]
                         /\ nodes[i].value \in 0..KeyMax
                         /\ nodes[i].next \in 0..KeyMax
  <2>1. /\ n \in Nat /\ DOMAIN nodes = 1..n
        /\ \A i \in 1..n : /\ nodes[i] = [value |-> nodes[i].value, next |-> nodes[i].next]
                           /\ nodes[i].value \in IF i = 1 THEN {0} ELSE S
                           /\ nodes[i].next = IF i < n THEN nodes[i + 1].value ELSE 0
    BY NodesAre
  <2>2. 0 \in 0..KeyMax /\ \A v \in S : v \in 0..KeyMax
    BY TreesAssumption DEF Keys
  <2> HIDE DEF nodes, n
  <2>3. \A i \in 1..n : nodes[i].value \in 0..KeyMax
    <3> TAKE i \in 1..n
    <3>1. nodes[i].value \in IF i = 1 THEN {0} ELSE S
      BY <2>1
    <3>2. nodes[i].value = 0 \/ nodes[i].value \in S
      BY <3>1
    <3> QED BY <2>2, <3>2
  <2>4. \A i \in 1..n : i < n => i + 1 \in 1..n
    BY <2>1
  <2>5. \A i \in 1..n : nodes[i].next \in 0..KeyMax
    <3> TAKE i \in 1..n
    <3>1. nodes[i].next = 0 \/ (i + 1 \in 1..n /\ nodes[i].next = nodes[i + 1].value)
      BY <2>1, <2>4
    <3> QED BY <2>2, <2>3, <3>1
  <2> QED BY <2>1, <2>3, <2>5
<1>2. ex = [nodes |-> nodes, tree |-> tree] /\ ex.nodes = nodes /\ ex.tree = tree
  BY DEF BuildExclusionTree
<1>3. key \notin S <=> \E j \in DOMAIN nodes : Brackets(nodes[j], key)
  BY BracketedIffAbsent
<1>4. ExclusionDepth \in Nat /\ LeafCount[ExclusionDepth] \in Nat
  BY TreesAssumption, LeafCounts
<1>5. \A i \in DOMAIN nodes : i \in Nat /\ i >= 1 /\ i - 1 \in places /\ (i - 1) + 1 = i
  BY <1>1, <1>4
<1>6. n <= LeafCount[ExclusionDepth]
  OBVIOUS
<1> HIDE DEF nodes, n, ex
<1>7. leaves \in Seq({leaves[i] : i \in 1..n})
  BY <1>1
<1>8. DOMAIN leaves = DOMAIN nodes
      /\ \A i \in DOMAIN nodes : leaves[i] = Hash(nodes[i].value, nodes[i].next)
  OBVIOUS
<1> HIDE DEF leaves
<1>9. ASSUME NEW i \in places, NEW v, NEW m
      PROVE  MerkleRoot(Hash(v, m), i, Siblings(tree, i)) = tree.root
               <=> i + 1 \in DOMAIN nodes /\ nodes[i + 1].value = v /\ nodes[i + 1].next = m
  <2>1. Hash(v, m) # Empty
    BY HashIs
  <2>2. MerkleRoot(Hash(v, m), i, Siblings(tree, i)) = tree.root
          <=> i + 1 \in DOMAIN leaves /\ leaves[i + 1] = Hash(v, m)
    BY <1>4, <1>7, <2>1, RootOpens
  <2> HIDE DEF tree
  <2>3. i + 1 \in DOMAIN nodes =>
          (leaves[i + 1] = Hash(v, m) <=> nodes[i + 1].value = v /\ nodes[i + 1].next = m)
    BY <1>8, HashIs
  <2> QED BY <1>8, <2>2, <2>3
<1> HIDE DEF tree
<1>10. ASSUME NEW i \in DOMAIN nodes, Brackets(nodes[i], key)
       PROVE  LET w == [low |-> nodes[i], index |-> i - 1, siblings |-> Siblings(tree, i - 1)]
              IN  w \in Openings(ex) /\ ExclusionProof(key, w, tree.root)
  <2> DEFINE w == [low |-> nodes[i], index |-> i - 1, siblings |-> Siblings(tree, i - 1)]
  <2>1. i - 1 \in places /\ (i - 1) + 1 = i /\ i \in 1..n
    BY <1>1, <1>5
  <2>2. w.low = nodes[i] /\ w.index = i - 1 /\ w.siblings = Siblings(tree, i - 1)
    OBVIOUS
  <2>3. w \in Openings(ex)
    <3>1. nodes[i].value \in 0..KeyMax /\ nodes[i].next \in 0..KeyMax
          /\ nodes[i] = [value |-> nodes[i].value, next |-> nodes[i].next]
      BY <1>1, <2>1
    <3>2. w = [low |-> [value |-> nodes[i].value, next |-> nodes[i].next], index |-> i - 1,
               siblings |-> Siblings(ex.tree, i - 1)]
      BY <1>2, <3>1
    <3> HIDE DEF w
    <3> QED BY <2>1, <3>1, <3>2 DEF Openings
  <2>4. MerkleRoot(Hash(w.low.value, w.low.next), w.index, w.siblings) = tree.root
    <3>1. MerkleRoot(Hash(nodes[i].value, nodes[i].next), i - 1, Siblings(tree, i - 1))
            = tree.root
      BY <1>9, <2>1
    <3> QED BY <2>2, <3>1
  <2>5. w.low.value < key /\ (key < w.low.next \/ w.low.next = 0)
    BY <1>10, <2>2 DEF Brackets
  <2> QED BY <2>3, <2>4, <2>5 DEF ExclusionProof
<1>11. ASSUME NEW w \in Openings(ex), ExclusionProof(key, w, tree.root)
       PROVE  key \notin S
  <2>1. PICK v \in 0..KeyMax, m \in 0..KeyMax, i \in places :
          w = [low |-> [value |-> v, next |-> m], index |-> i, siblings |-> Siblings(tree, i)]
    BY <1>2 DEF Openings
  <2>2. w.low.value = v /\ w.low.next = m /\ w.index = i /\ w.siblings = Siblings(tree, i)
    BY <2>1
  <2>3. MerkleRoot(Hash(v, m), i, Siblings(tree, i)) = tree.root
        /\ v < key /\ (key < m \/ m = 0)
    BY <1>11, <2>2 DEF ExclusionProof
  <2>4. i + 1 \in DOMAIN nodes /\ nodes[i + 1].value = v /\ nodes[i + 1].next = m
    BY <1>9, <2>3
  <2> QED BY <1>3, <2>3, <2>4 DEF Brackets
<1>12. ASSUME key \notin S
       PROVE  ExclusionProof(key, WitnessFor(ex, key), tree.root)
  <2> DEFINE T == {j \in DOMAIN nodes : Brackets(nodes[j], key)}
             first(j) == Brackets(nodes[j], key) /\ \A k \in 1..j - 1 : ~Brackets(nodes[k], key)
             i == CHOOSE j \in DOMAIN nodes : first(j)
  <2>1. T \subseteq Nat /\ T # {}
    BY <1>3, <1>5, <1>12
  <2>2. PICK j \in T : \A k \in T : j <= k
    BY <2>1, Smallest
  <2>3. ASSUME NEW k \in 1..j - 1  PROVE ~Brackets(nodes[k], key)
    <3>1. k \in DOMAIN nodes /\ ~ (j <= k)
      BY <1>1, <1>5, <2>2
    <3> QED BY <2>2, <3>1
  <2>4. \E h \in DOMAIN nodes : first(h)
    BY <2>2, <2>3
  <2>5. i \in DOMAIN nodes /\ Brackets(nodes[i], key)
    BY <2>4
  <2>6. WitnessFor(ex, key)
          = [low |-> nodes[i], index |-> i - 1, siblings |-> Siblings(tree, i - 1)]
    BY <1>2 DEF WitnessFor
  <2> HIDE DEF i
  <2> QED BY <1>10, <2>5, <2>6
<1>13. key \notin S <=> \E w \in Openings(ex) : ExclusionProof(key, w, tree.root)
  BY <1>3, <1>10, <1>11
<1> QED BY <1>2, <1>12, <1>13 DEF ex

-----------------------------------------------------------------------------
(* An issuance.                                                            *)

(* The keys of the marked users on a roster: no more than the roster has   *)
(* users, and the key of no other user.                                    *)
LEMMA KeysAre ==
  ASSUME NEW input, input.users \in Seq(Members), NEW marked, NEW key \in [Members -> Keys],
         \A u, v \in Members : u # v => key[u] # key[v]
  PROVE  /\ KeysOf(input, marked, key) \subseteq Keys
         /\ IsFiniteSet(KeysOf(input, marked, key))
         /\ Cardinality(KeysOf(input, marked, key)) \in Nat
         /\ Cardinality(KeysOf(input, marked, key)) <= Len(input.users)
         /\ \A u \in Members : key[u] \in KeysOf(input, marked, key)
                                 <=> u \in Range(input.users) /\ u \in marked
<1> DEFINE users == input.users
           places == 1..Len(users)
           them == Range(users) \cap marked
           some == KeysOf(input, marked, key)
<1>1. /\ Len(users) \in Nat /\ DOMAIN users = places
      /\ \A i \in places : users[i] \in Members
  BY LenProperties
<1>2. Range(users) = {users[i] : i \in places}
  <2> HIDE DEF users, places
  <2> QED BY <1>1 DEF Range
<1>3. some = {key[u] : u \in them}
  BY DEF KeysOf
<1> HIDE DEF users, some
<1>4. them \subseteq Members
  BY <1>1, <1>2
<1>5. some \subseteq Keys
  BY <1>3, <1>4
<1>6. IsFiniteSet(places) /\ Cardinality(places) = Len(users)
  <2>1. /\ IsFiniteSet(places)
        /\ Cardinality(places) = IF 1 > Len(users) THEN 0 ELSE Len(users) - 1 + 1
    <3>1. 1 \in Int /\ Len(users) \in Int
      BY <1>1
    <3> QED BY ONLY <3>1, FS_Interval
  <2> HIDE DEF places
  <2> QED BY <1>1, <2>1
<1> DEFINE P == {i \in places : users[i] \in marked}
           f == [i \in P |-> key[users[i]]]
<1>7. IsFiniteSet(P) /\ Cardinality(P) <= Len(users) /\ Cardinality(P) \in Nat
  <2>1. P \in SUBSET places
    OBVIOUS
  <2> HIDE DEF P, places
  <2> QED BY <1>6, <2>1, FS_Subset, FS_CardinalityType
<1>8. f \in Surjection(P, some)
  <2>1. f \in [P -> some]
    BY <1>2, <1>3
  <2>2. ASSUME NEW k \in some  PROVE \E i \in P : f[i] = k
    <3>1. PICK u \in them : k = key[u]
      BY <1>3
    <3>2. PICK i \in places : users[i] = u
      BY <1>2, <3>1
    <3> QED BY <3>1, <3>2
  <2> HIDE DEF f, P
  <2> QED BY <2>1, <2>2 DEF Surjection
<1>9. IsFiniteSet(some) /\ Cardinality(some) <= Cardinality(P) /\ Cardinality(some) \in Nat
  <2> HIDE DEF f, P
  <2>1. IsFiniteSet(some) /\ Cardinality(some) <= Cardinality(P)
    BY <1>7, <1>8, FS_Surjection
  <2> QED BY <2>1, FS_CardinalityType
<1>10. Cardinality(some) <= Len(users)
  BY <1>1, <1>7, <1>9
<1>11. ASSUME NEW u \in Members
       PROVE  key[u] \in some <=> u \in Range(users) /\ u \in marked
  BY <1>3, <1>4
<1> QED BY <1>5, <1>9, <1>10, <1>11 DEF some, users

LEMMA IssuanceDecides ==
  ASSUME NEW input \in Input, RosterFits(input.users), issued = BuildIssuance(input)
  PROVE  TreesDecide
<1> DEFINE users == input.users
           credentials == BuildTree(users, CredentialDepth)
           matched == KeysOf(input, input.matched, SanctionsKey)
           revoked == KeysOf(input, input.revoked, RevocationKey)
           sanctions == BuildExclusionTree(matched)
           revocations == BuildExclusionTree(revoked)
           blocked == input.matched \cup input.revoked
           places == 0..(LeafCount[CredentialDepth] - 1)
           roots == [credential |-> credentials.root, sanctions |-> sanctions.tree.root,
                     revocation |-> revocations.tree.root]
           clean == {i \in DOMAIN users : users[i] \notin blocked}
           handed(i) == [index      |-> i - 1,
                         siblings   |-> Siblings(credentials, i - 1),
                         sanctions  |-> WitnessFor(sanctions, SanctionsKey[users[i]]),
                         revocation |-> WitnessFor(revocations, RevocationKey[users[i]])]
<1>1. issued = [input |-> input, credentials |-> credentials, sanctions |-> sanctions,
                revocations |-> revocations, roots |-> roots,
                proofInputs |-> [i \in clean |-> handed(i)]]
  BY DEF BuildIssuance
<1>2. /\ users \in Seq(Members) /\ Len(users) \in Nat /\ DOMAIN users = 1..Len(users)
      /\ Len(users) <= LeafCount[CredentialDepth]
      /\ \A i \in DOMAIN users : users[i] \in Members
  <2>1. users \in Seq(Members)
    BY DEF Input
  <2> QED BY <2>1, LenProperties DEF RosterFits
<1>3. /\ CredentialDepth \in Nat /\ ExclusionDepth \in Nat
      /\ LeafCount[CredentialDepth] \in Nat /\ LeafCount[ExclusionDepth] \in Nat
      /\ LeafCount[CredentialDepth] + 1 <= LeafCount[ExclusionDepth]
  BY TreesAssumption, LeafCounts, LeafCountsGrow
<1>4. /\ matched \subseteq Keys /\ IsFiniteSet(matched) /\ Cardinality(matched) \in Nat
      /\ Cardinality(matched) <= Len(users)
      /\ \A u \in Members : SanctionsKey[u] \in matched
                              <=> u \in Range(users) /\ u \in input.matched
  BY <1>2, KeysAre, TreesAssumption
<1>5. /\ revoked \subseteq Keys /\ IsFiniteSet(revoked) /\ Cardinality(revoked) \in Nat
      /\ Cardinality(revoked) <= Len(users)
      /\ \A u \in Members : RevocationKey[u] \in revoked
                              <=> u \in Range(users) /\ u \in input.revoked
  BY <1>2, KeysAre, TreesAssumption
<1> HIDE DEF users, matched, revoked
<1>6. Cardinality(matched) + 1 <= LeafCount[ExclusionDepth]
      /\ Cardinality(revoked) + 1 <= LeafCount[ExclusionDepth]
  BY <1>2, <1>3, <1>4, <1>5
<1>7. \A u \in Members : SanctionsKey[u] \in Keys /\ RevocationKey[u] \in Keys /\ u # Empty
  BY TreesAssumption
<1>8. ASSUME NEW u \in Members
      PROVE  LET k == SanctionsKey[u] IN
             /\ k \notin matched
                  <=> \E w \in Openings(sanctions) : ExclusionProof(k, w, sanctions.tree.root)
             /\ k \notin matched => ExclusionProof(k, WitnessFor(sanctions, k), sanctions.tree.root)
  BY <1>4, <1>6, <1>7, ExclusionDecides
<1>9. ASSUME NEW u \in Members
      PROVE  LET k == RevocationKey[u] IN
             /\ k \notin revoked
                  <=> \E w \in Openings(revocations) : ExclusionProof(k, w, revocations.tree.root)
             /\ k \notin revoked => ExclusionProof(k, WitnessFor(revocations, k), revocations.tree.root)
  BY <1>5, <1>6, <1>7, ExclusionDecides
<1> HIDE DEF sanctions, revocations
<1>10. ASSUME NEW u \in Members, NEW i \in places
       PROVE  MerkleRoot(u, i, Siblings(credentials, i)) = credentials.root
                <=> i + 1 \in DOMAIN users /\ users[i + 1] = u
  BY <1>2, <1>3, <1>7, RootOpens
<1> HIDE DEF credentials
<1>11. Range(users) = {users[i] : i \in DOMAIN users}
  BY DEF Range
<1>12. \A i \in DOMAIN users : i - 1 \in places /\ (i - 1) + 1 = i
  BY <1>2, <1>3
<1>13. ASSUME NEW u \in Members
       PROVE  (\E i \in places : MerkleRoot(u, i, Siblings(credentials, i)) = credentials.root)
                <=> u \in Range(users)
  <2>1. ASSUME NEW i \in places, MerkleRoot(u, i, Siblings(credentials, i)) = credentials.root
        PROVE  u \in Range(users)
    BY <1>10, <1>11, <2>1
  <2>2. ASSUME NEW j \in DOMAIN users, users[j] = u
        PROVE  \E i \in places : MerkleRoot(u, i, Siblings(credentials, i)) = credentials.root
    BY <1>10, <1>12, <2>2
  <2> HIDE DEF places
  <2> QED BY <1>11, <2>1, <2>2
<1> HIDE DEF places, roots
<1>14. /\ issued.input = input /\ issued.credentials = credentials
       /\ issued.sanctions = sanctions /\ issued.revocations = revocations
       /\ issued.roots = roots /\ issued.proofInputs = [i \in clean |-> handed(i)]
  <2> HIDE DEF clean, handed
  <2> QED BY <1>1
<1>15. roots.credential = credentials.root /\ roots.sanctions = sanctions.tree.root
       /\ roots.revocation = revocations.tree.root
  BY DEF roots
<1>16. ProvableIffClean
  <2>1. ASSUME NEW u \in Members
        PROVE  (/\ \E i \in places : MerkleRoot(u, i, Siblings(credentials, i)) = roots.credential
                /\ \E w \in Openings(sanctions) : ExclusionProof(SanctionsKey[u], w, roots.sanctions)
                /\ \E w \in Openings(revocations) :
                     ExclusionProof(RevocationKey[u], w, roots.revocation))
               <=> u \in Range(users) \ blocked
    <3>1. (\E i \in places : MerkleRoot(u, i, Siblings(credentials, i)) = roots.credential)
            <=> u \in Range(users)
      BY <1>13, <1>15
    <3>2. (\E w \in Openings(sanctions) : ExclusionProof(SanctionsKey[u], w, roots.sanctions))
            <=> ~ (u \in Range(users) /\ u \in input.matched)
      BY <1>4, <1>8, <1>15
    <3>3. (\E w \in Openings(revocations) : ExclusionProof(RevocationKey[u], w, roots.revocation))
            <=> ~ (u \in Range(users) /\ u \in input.revoked)
      BY <1>5, <1>9, <1>15
    <3> QED BY <3>1, <3>2, <3>3
  <2> HIDE DEF blocked, clean, handed
  <2> QED BY <1>14, <2>1 DEF ProvableIffClean, blocked, places, users
<1>17. ASSUME NEW i \in clean  PROVE CircuitAccepts(users[i], handed(i), roots)
  <2> DEFINE u == users[i]
  <2>1. i \in DOMAIN users /\ u \in Members /\ u \notin input.matched /\ u \notin input.revoked
    BY <1>2
  <2>2. i - 1 \in places /\ (i - 1) + 1 = i
    BY <1>12, <2>1
  <2>3. MerkleRoot(u, i - 1, Siblings(credentials, i - 1)) = roots.credential
    BY <1>10, <1>15, <2>1, <2>2
  <2>4. SanctionsKey[u] \notin matched /\ RevocationKey[u] \notin revoked
    BY <1>4, <1>5, <2>1
  <2>5. ExclusionProof(SanctionsKey[u], WitnessFor(sanctions, SanctionsKey[u]), roots.sanctions)
    BY <1>8, <1>15, <2>1, <2>4
  <2>6. ExclusionProof(RevocationKey[u], WitnessFor(revocations, RevocationKey[u]), roots.revocation)
    BY <1>9, <1>15, <2>1, <2>4
  <2> QED BY <2>3, <2>5, <2>6 DEF CircuitAccepts
<1>18. ProofInputsVerify
  <2>1. \A i \in DOMAIN users : i \notin clean => users[i] \in blocked
    OBVIOUS
  <2> HIDE DEF blocked, clean, handed
  <2>2. /\ DOMAIN issued.proofInputs = clean
        /\ \A i \in clean : issued.proofInputs[i] = handed(i)
    BY <1>14
  <2> QED BY <1>14, <1>17, <2>1, <2>2 DEF ProofInputsVerify, users, blocked
<1> QED BY <1>16, <1>18 DEF TreesDecide

\* What is issued was built from a roster that fits.
IssuedIsBuilt ==
  issued # NoIssuance =>
    \E input \in TreeInputs : RosterFits(input.users) /\ issued = BuildIssuance(input)

(* For every depth, roster, list and key order: under the roots of an      *)
(* issuance the circuit can be satisfied for a user exactly when the user  *)
(* is on the roster and neither matched nor revoked, and what buildIssuance *)
(* hands to such a user satisfies it.                                      *)
THEOREM TreesAlwaysDecide == TreesSpec => []TreesDecide
<1>1. TreesInit => IssuedIsBuilt
  BY DEF TreesInit, IssuedIsBuilt
<1>2. IssuedIsBuilt /\ [TreesNext]_issued => IssuedIsBuilt'
  <2> SUFFICES ASSUME IssuedIsBuilt, [TreesNext]_issued  PROVE IssuedIsBuilt'
    OBVIOUS
  <2>1. ASSUME NEW input \in TreeInputs, RotateRoots(input)  PROVE IssuedIsBuilt'
    BY <2>1 DEF RotateRoots, IssuedIsBuilt
  <2>2. CASE UNCHANGED issued
    BY <2>2 DEF IssuedIsBuilt
  <2> QED BY <2>1, <2>2 DEF TreesNext
<1>3. IssuedIsBuilt => TreesDecide
  <2>1. CASE issued = NoIssuance
    BY <2>1 DEF TreesDecide, ProvableIffClean, ProofInputsVerify
  <2>2. ASSUME issued # NoIssuance, IssuedIsBuilt  PROVE TreesDecide
    <3>1. PICK input \in TreeInputs : RosterFits(input.users) /\ issued = BuildIssuance(input)
      BY <2>2 DEF IssuedIsBuilt
    <3>2. input \in Input
      BY <3>1, TreesAssumption
    <3> QED BY <3>1, <3>2, IssuanceDecides
  <2> QED BY <2>1, <2>2
<1> QED BY <1>1, <1>2, <1>3, PTL DEF TreesSpec

=============================================================================
