-------------------------- MODULE VerifiersProofs ---------------------------
(***************************************************************************)
(* What the verifiers' verdicts and the tree establish, whatever they are  *)
(* given: a root determines its leaves, a proof that folds to it is of one *)
(* of them, and its totals are theirs added up.                            *)
(***************************************************************************)
EXTENDS Verifiers, Basics

-----------------------------------------------------------------------------
\* A verifier that accepts has made all its checks, and each has held.

LEMMA InOrderOk ==
  ASSUME NEW checks, DOMAIN checks \subseteq Nat, InOrder(checks) = "Ok"
  PROVE  \A i \in DOMAIN checks : checks[i] = "Ok"
<1> DEFINE failed == {i \in DOMAIN checks : checks[i] # "Ok"}
<1> SUFFICES ASSUME failed # {}
             PROVE  FALSE
  OBVIOUS
<1>1. InOrder(checks) = checks[CHOOSE i \in failed : \A j \in failed : i <= j]
  BY DEF InOrder
<1>2. \E i \in failed : \A j \in failed : i <= j
  <2>1. failed \in SUBSET Nat
    OBVIOUS
  <2> HIDE DEF failed
  <2> QED
    BY <2>1, LeastNatural
<1>3. (CHOOSE i \in failed : \A j \in failed : i <= j) \in failed
  <2> HIDE DEF failed
  <2> QED
    BY <1>2
<1> QED
  BY <1>1, <1>3

LEMMA AllTwoHold ==
  ASSUME NEW a, NEW b,
         InOrder(<<a, b>>) = "Ok"
  PROVE  /\ a = "Ok" /\ b = "Ok"
<1>1. \A n \in DOMAIN <<a, b>> : <<a, b>>[n] = "Ok"
  BY InOrderOk
<1> QED
  BY <1>1

LEMMA AllHold ==
  ASSUME NEW a, NEW b, NEW c,
         InOrder(<<a, b, c>>) = "Ok"
  PROVE  /\ a = "Ok" /\ b = "Ok" /\ c = "Ok"
<1>1. \A n \in DOMAIN <<a, b, c>> : <<a, b, c>>[n] = "Ok"
  BY InOrderOk
<1> QED
  BY <1>1

LEMMA AllFourHold ==
  ASSUME NEW a, NEW b, NEW c, NEW d,
         InOrder(<<a, b, c, d>>) = "Ok"
  PROVE  /\ a = "Ok" /\ b = "Ok" /\ c = "Ok" /\ d = "Ok"
<1>1. \A n \in DOMAIN <<a, b, c, d>> : <<a, b, c, d>>[n] = "Ok"
  BY InOrderOk
<1> QED
  BY <1>1

LEMMA AllFiveHold ==
  ASSUME NEW a, NEW b, NEW c, NEW d, NEW e,
         InOrder(<<a, b, c, d, e>>) = "Ok"
  PROVE  /\ a = "Ok" /\ b = "Ok" /\ c = "Ok" /\ d = "Ok" /\ e = "Ok"
<1>1. \A n \in DOMAIN <<a, b, c, d, e>> : <<a, b, c, d, e>>[n] = "Ok"
  BY InOrderOk
<1> QED
  BY <1>1

LEMMA AllSixHold ==
  ASSUME NEW a, NEW b, NEW c, NEW d, NEW e, NEW f,
         InOrder(<<a, b, c, d, e, f>>) = "Ok"
  PROVE  /\ a = "Ok" /\ b = "Ok" /\ c = "Ok" /\ d = "Ok" /\ e = "Ok"
         /\ f = "Ok"
<1>1. \A n \in DOMAIN <<a, b, c, d, e, f>> : <<a, b, c, d, e, f>>[n] = "Ok"
  BY InOrderOk
<1> QED
  BY <1>1

LEMMA AllSevenHold ==
  ASSUME NEW a, NEW b, NEW c, NEW d, NEW e, NEW f, NEW g,
         InOrder(<<a, b, c, d, e, f, g>>) = "Ok"
  PROVE  /\ a = "Ok" /\ b = "Ok" /\ c = "Ok" /\ d = "Ok" /\ e = "Ok"
         /\ f = "Ok" /\ g = "Ok"
<1>1. \A n \in DOMAIN <<a, b, c, d, e, f, g>> : <<a, b, c, d, e, f, g>>[n] = "Ok"
  BY InOrderOk
<1> QED
  BY <1>1

LEMMA AllNineHold ==
  ASSUME NEW a, NEW b, NEW c, NEW d, NEW e, NEW f, NEW g, NEW h, NEW i,
         InOrder(<<a, b, c, d, e, f, g, h, i>>) = "Ok"
  PROVE  /\ a = "Ok" /\ b = "Ok" /\ c = "Ok" /\ d = "Ok" /\ e = "Ok"
         /\ f = "Ok" /\ g = "Ok" /\ h = "Ok" /\ i = "Ok"
<1>1. \A n \in DOMAIN <<a, b, c, d, e, f, g, h, i>> : <<a, b, c, d, e, f, g, h, i>>[n] = "Ok"
  BY InOrderOk
<1> QED
  BY <1>1

-----------------------------------------------------------------------------
\* The tree: its levels, from the leaves at height 0 to the one node at the top.

LEMMA HeightIs ==
  ASSUME NEW n \in Nat, n >= 1
  PROVE  \E width \in [0 .. n -> Nat] :
           /\ Height(n) \in 0 .. n
           /\ width[0] = n
           /\ \A h \in 1 .. n : width[h] = (width[h - 1] + 1) \div 2
           /\ width[Height(n)] = 1
<1> DEFINE IsWidth(k, w) ==
             w = [h \in 0 .. k |-> IF h = 0 THEN n ELSE (w[h - 1] + 1) \div 2]
           Given == {k \in Nat : \E w \in [0 .. k -> Nat] : IsWidth(k, w)}
<1>1. 0 \in Given
  <2>1. IsWidth(0, [h \in 0 .. 0 |-> n]) /\ [h \in 0 .. 0 |-> n] \in [0 .. 0 -> Nat]
    OBVIOUS
  <2> QED
    BY <2>1
<1>2. ASSUME NEW k \in Nat, k \in Given
      PROVE  k + 1 \in Given
  <2>1. PICK w \in [0 .. k -> Nat] : IsWidth(k, w)
    BY <1>2
  <2> DEFINE v == [h \in 0 .. (k + 1) |-> IF h <= k THEN w[h] ELSE (w[k] + 1) \div 2]
  <2>2. v \in [0 .. (k + 1) -> Nat]
    OBVIOUS
  <2>3. \A h \in 0 .. (k + 1) : v[h] = IF h = 0 THEN n ELSE (v[h - 1] + 1) \div 2
    BY <2>1
  <2>4. IsWidth(k + 1, v)
    <3> HIDE DEF v
    <3> QED
      BY <2>2, <2>3
  <2> HIDE DEF v, IsWidth
  <2>5. k + 1 \in Nat /\ \E u \in [0 .. (k + 1) -> Nat] : IsWidth(k + 1, u)
    BY <2>2, <2>4
  <2> QED
    BY <2>5
<1>3. n \in Given
  <2> HIDE DEF Given
  <2> QED
    BY <1>1, <1>2, AllNaturals
<1> DEFINE width == CHOOSE w : IsWidth(n, w)
<1>4. IsWidth(n, width)
  <2>1. \E w : IsWidth(n, w)
    BY <1>3
  <2> HIDE DEF IsWidth
  <2> QED
    BY <2>1
<1>5. /\ DOMAIN width = 0 .. n /\ width[0] = n
      /\ \A h \in 1 .. n : width[h] = (width[h - 1] + 1) \div 2
  <2> HIDE DEF width
  <2> QED
    BY <1>4
<1> DEFINE Narrowing == {h \in Nat : h \in 0 .. n =>
                          /\ width[h] \in Nat /\ width[h] >= 1
                          /\ width[h] = 1 \/ width[h] <= n - h}
<1>6. \A h \in Nat : h \in Narrowing
  <2>1. 0 \in Narrowing
    <3> HIDE DEF width
    <3> QED
      BY <1>5
  <2>2. ASSUME NEW h \in Nat, h \in Narrowing
        PROVE  h + 1 \in Narrowing
    <3> HIDE DEF width
    <3> SUFFICES ASSUME h + 1 \in 0 .. n
                 PROVE  /\ width[h + 1] \in Nat /\ width[h + 1] >= 1
                        /\ width[h + 1] = 1 \/ width[h + 1] <= n - (h + 1)
      OBVIOUS
    <3>1. width[h + 1] = (width[h] + 1) \div 2
      BY <1>5
    <3>2. /\ width[h] \in Nat /\ width[h] >= 1
          /\ width[h] = 1 \/ width[h] <= n - h
      BY <2>2
    <3> QED
      BY <3>1, <3>2
  <2> HIDE DEF Narrowing
  <2> QED
    BY <2>1, <2>2, AllNaturals
<1> DEFINE Ones == {h \in 0 .. n : width[h] = 1}
<1>7. \E h \in 0 .. n : width[h] = 1 /\ \A k \in 0 .. (h - 1) : width[k] # 1
  <2>1. Ones \in SUBSET Nat /\ Ones # {}
    <3>1. n \in Narrowing
      BY <1>6
    <3> HIDE DEF width
    <3> QED
      BY <3>1
  <2>2. PICK h \in Ones : \A k \in Ones : h <= k
    <3> HIDE DEF Ones
    <3> QED
      BY <2>1, LeastNatural
  <2> HIDE DEF width
  <2> QED
    BY <2>2
<1>8. Height(n) = CHOOSE h \in 0 .. n : width[h] = 1 /\ \A k \in 0 .. (h - 1) : width[k] # 1
  BY DEF Height
<1>9. Height(n) \in 0 .. n /\ width[Height(n)] = 1
  <2> HIDE DEF width
  <2> QED
    BY <1>7, <1>8
<1>10. width \in [0 .. n -> Nat]
  <2>1. \A h \in 0 .. n : width[h] \in Nat
    BY <1>6
  <2>2. width = [h \in 0 .. n |-> width[h]]
    <3> HIDE DEF width
    <3> QED
      BY <1>4
  <2> HIDE DEF width
  <2> QED
    BY <2>1, <2>2
<1> HIDE DEF width
<1> QED
  BY <1>5, <1>9, <1>10

LEMMA LevelAboveIs ==
  ASSUME NEW level, IsSeq(level), Len(level) >= 1
  PROVE  /\ IsSeq(LevelAbove(level))
         /\ Len(LevelAbove(level)) = (Len(level) + 1) \div 2
         /\ Len(LevelAbove(level)) >= 1
         /\ \A i \in 1 .. Len(LevelAbove(level)) :
              /\ 2 * i - 1 \in 1 .. Len(level)
              /\ 2 * i <= Len(level) =>
                   LevelAbove(level)[i] = combine(level[2 * i - 1], level[2 * i])
              /\ 2 * i > Len(level) =>
                   LevelAbove(level)[i] = level[2 * i - 1] /\ 2 * i - 1 = Len(level)
<1> DEFINE m == (Len(level) + 1) \div 2
           up == LevelAbove(level)
<1>1. Len(level) \in Nat /\ m \in Nat /\ m >= 1
  BY DEF IsSeq
<1>2. up = [i \in 1 .. m |-> IF 2 * i <= Len(level) THEN combine(level[2 * i - 1], level[2 * i])
                             ELSE level[2 * i - 1]]
  BY DEF LevelAbove
<1> HIDE DEF up
<1>3. up = [i \in 1 .. m |-> up[i]]
  BY <1>2
<1> HIDE DEF m
<1>4. IsSeq(up) /\ Len(up) = m
  BY <1>1, <1>3, FunctionIsSeq
<1>5. \A i \in 1 .. m : 2 * i - 1 \in 1 .. Len(level) /\ (2 * i > Len(level) => 2 * i - 1 = Len(level))
  BY <1>1 DEF m
<1> QED
  BY <1>1, <1>2, <1>4, <1>5 DEF up, m

\* The levels of the tree over these nodes, by height.
IsTree(nodes, level, top) ==
  /\ top \in Nat
  /\ level = [h \in 0 .. top |-> level[h]]
  /\ level[0] = nodes
  /\ \A h \in 1 .. top : level[h] = LevelAbove(level[h - 1])
  /\ \A h \in 0 .. top : IsSeq(level[h]) /\ Len(level[h]) >= 1
  /\ Len(level[top]) = 1

LEMMA TreeIs ==
  ASSUME NEW nodes, IsSeq(nodes), Len(nodes) >= 1
  PROVE  \E level :
           LET top == Height(Len(nodes)) IN
           /\ IsTree(nodes, level, top)
           /\ IsSeq(Levels(nodes)) /\ Len(Levels(nodes)) = top + 1
           /\ \A n \in 1 .. (top + 1) : Levels(nodes)[n] = level[n - 1]
           /\ Root(nodes) = level[top][1]
<1> DEFINE top == Height(Len(nodes))
           IsLevels(k, l) ==
             l = [h \in 0 .. k |-> IF h = 0 THEN nodes ELSE LevelAbove(l[h - 1])]
           Given == {k \in Nat : \E l : IsLevels(k, l)}
<1>1. PICK width \in [0 .. Len(nodes) -> Nat] :
        /\ top \in 0 .. Len(nodes)
        /\ width[0] = Len(nodes)
        /\ \A h \in 1 .. Len(nodes) : width[h] = (width[h - 1] + 1) \div 2
        /\ width[top] = 1
  BY HeightIs DEF IsSeq
<1>2. 0 \in Given
  <2>1. IsLevels(0, [h \in 0 .. 0 |-> nodes])
    OBVIOUS
  <2> QED
    BY <2>1
<1>3. ASSUME NEW k \in Nat, k \in Given
      PROVE  k + 1 \in Given
  <2>1. PICK l : IsLevels(k, l)
    BY <1>3
  <2> DEFINE v == [h \in 0 .. (k + 1) |-> IF h <= k THEN l[h] ELSE LevelAbove(l[k])]
  <2>2. v = [h \in 0 .. (k + 1) |-> v[h]]
    OBVIOUS
  <2>3. \A h \in 0 .. (k + 1) : v[h] = IF h = 0 THEN nodes ELSE LevelAbove(v[h - 1])
    BY <2>1
  <2>4. IsLevels(k + 1, v)
    <3> HIDE DEF v
    <3> QED
      BY <2>2, <2>3
  <2> HIDE DEF v, IsLevels
  <2> QED
    BY <2>4
<1>4. top \in Nat /\ top <= Len(nodes) /\ Len(nodes) \in Nat /\ width[top] = 1
  BY <1>1 DEF IsSeq
<1>5. top \in Given
  <2> HIDE DEF Given
  <2> QED
    BY <1>2, <1>3, <1>4, AllNaturals
<1> DEFINE level == CHOOSE l : IsLevels(top, l)
<1>6. IsLevels(top, level)
  <2>1. \E l : IsLevels(top, l)
    BY <1>5
  <2> HIDE DEF IsLevels
  <2> QED
    BY <2>1
<1>7. Levels(nodes) = [n \in 1 .. (top + 1) |-> level[n - 1]]
  BY DEF Levels
<1> HIDE DEF level
<1>8. /\ level = [h \in 0 .. top |-> level[h]]
      /\ level[0] = nodes
      /\ \A h \in 1 .. top : level[h] = LevelAbove(level[h - 1])
  BY <1>4, <1>6
<1> DEFINE Wide == {h \in Nat : h \in 0 .. top =>
                     IsSeq(level[h]) /\ Len(level[h]) >= 1 /\ Len(level[h]) = width[h]}
<1>9. \A h \in Nat : h \in Wide
  <2>1. 0 \in Wide
    BY <1>1, <1>8
  <2>2. ASSUME NEW h \in Nat, h \in Wide
        PROVE  h + 1 \in Wide
    <3> SUFFICES ASSUME h + 1 \in 0 .. top
                 PROVE  /\ IsSeq(level[h + 1]) /\ Len(level[h + 1]) >= 1
                        /\ Len(level[h + 1]) = width[h + 1]
      OBVIOUS
    <3>1. /\ h \in 0 .. top /\ h + 1 \in 1 .. top /\ h + 1 \in 1 .. Len(nodes)
          /\ (h + 1) - 1 = h
      BY <1>4
    <3>2. IsSeq(level[h]) /\ Len(level[h]) >= 1 /\ Len(level[h]) = width[h]
      BY <2>2, <3>1
    <3>3. level[h + 1] = LevelAbove(level[h])
      BY <1>8, <3>1
    <3>4. width[h + 1] = (width[h] + 1) \div 2
      BY <1>1, <3>1
    <3> QED
      BY <3>2, <3>3, <3>4, LevelAboveIs
  <2> HIDE DEF Wide
  <2> QED
    BY <2>1, <2>2, AllNaturals
<1>10. IsTree(nodes, level, top)
  <2>1. \A h \in 0 .. top : IsSeq(level[h]) /\ Len(level[h]) >= 1 /\ Len(level[h]) = width[h]
    BY <1>9
  <2>2. top \in 0 .. top
    BY <1>4
  <2>3. \A h \in 0 .. top : IsSeq(level[h]) /\ Len(level[h]) >= 1
    BY <2>1
  <2>4. top \in Nat /\ Len(level[top]) = 1
    BY <1>4, <2>1, <2>2
  <2> QED
    BY <1>8, <2>3, <2>4, Zenon DEF IsTree
<1>11. IsSeq(Levels(nodes)) /\ Len(Levels(nodes)) = top + 1
  <2>1. Levels(nodes) = [n \in 1 .. (top + 1) |-> Levels(nodes)[n]] /\ top + 1 \in Nat
    BY <1>4, <1>7
  <2> QED
    BY <2>1, FunctionIsSeq
<1>12. \A n \in 1 .. (top + 1) : Levels(nodes)[n] = level[n - 1]
  BY <1>7
<1>13. Root(nodes) = level[top][1]
  <2>1. Levels(nodes)[top + 1] = level[top]
    BY <1>4, <1>12
  <2> QED
    BY <1>11, <2>1 DEF Root, Last
<1> QED
  BY <1>10, <1>11, <1>12, <1>13

LEMMA TreeOver ==
  ASSUME NEW nodes, IsSeq(nodes), Len(nodes) >= 1
  PROVE  \E top \in Nat : \E level : IsTree(nodes, level, top) /\ Root(nodes) = level[top][1]
<1>1. PICK level : IsTree(nodes, level, Height(Len(nodes)))
                   /\ Root(nodes) = level[Height(Len(nodes))][1]
  BY TreeIs
<1>2. Height(Len(nodes)) \in Nat
  BY <1>1 DEF IsTree
<1> QED
  BY <1>1, <1>2

-----------------------------------------------------------------------------
\* Hashes are terms: a hash tells leaves from inner nodes and pins what was
\* hashed.

Leafy(x) == \E leaf : x = leaf_node(leaf) \/ x = leaf_node_v2(leaf) \/ x = entity_leaf_node(leaf)

LEMMA LeafNode ==
  ASSUME NEW a
  PROVE  /\ leaf_node(a).hash[1] = "leaf-v1" /\ leaf_node(a).hash[2] = a.salt
         /\ leaf_node(a).hash[3] = a.subject /\ leaf_node(a).hash[4] = a.balances
         /\ leaf_node(a).sums = Flattened("", a.balances)
         /\ leaf_node(a) = [hash |-> leaf_node(a).hash, sums |-> leaf_node(a).sums]
BY DEF leaf_node

LEMMA LeafNodeV2 ==
  ASSUME NEW a
  PROVE  /\ leaf_node_v2(a).hash[1] = "leaf-v2" /\ leaf_node_v2(a).hash[2] = a.salt
         /\ leaf_node_v2(a).hash[3] = a.subject /\ leaf_node_v2(a).hash[4] = a.maps
         /\ leaf_node_v2(a) = [hash |-> leaf_node_v2(a).hash, sums |-> leaf_node_v2(a).sums]
         /\ \A b : a.maps = b.maps => leaf_node_v2(a).sums = leaf_node_v2(b).sums
BY DEF leaf_node_v2

LEMMA EntityNode ==
  ASSUME NEW a
  PROVE  /\ entity_leaf_node(a).hash[1] = "entity" /\ entity_leaf_node(a).hash[2] = a.id
         /\ entity_leaf_node(a).hash[3] = a.root_hash
         /\ entity_leaf_node(a).hash[4] = a.root_sums
         /\ entity_leaf_node(a).sums = a.root_sums
         /\ entity_leaf_node(a) =
              [hash |-> entity_leaf_node(a).hash, sums |-> entity_leaf_node(a).sums]
BY DEF entity_leaf_node

LEMMA LeafyTag == ASSUME NEW x, Leafy(x) PROVE x.hash[1] # "node"
BY LeafNode, LeafNodeV2, EntityNode DEF Leafy

LEMMA LeafyPins ==
  ASSUME NEW x, NEW y, Leafy(x), Leafy(y), x.hash = y.hash
  PROVE  x = y
<1>1. PICK a : x = leaf_node(a) \/ x = leaf_node_v2(a) \/ x = entity_leaf_node(a)
  BY DEF Leafy
<1>2. PICK b : y = leaf_node(b) \/ y = leaf_node_v2(b) \/ y = entity_leaf_node(b)
  BY DEF Leafy
<1>3. CASE x = leaf_node(a)
  <2>1. y = leaf_node(b)
    BY <1>2, <1>3, LeafNode, LeafNodeV2, EntityNode
  <2>2. a.balances = b.balances
    BY <1>3, <2>1, LeafNode
  <2>3. x.sums = y.sums
    BY <1>3, <2>1, <2>2, LeafNode
  <2> QED
    BY <1>3, <2>1, <2>3, LeafNode
<1>4. CASE x = leaf_node_v2(a)
  <2>1. y = leaf_node_v2(b)
    BY <1>2, <1>4, LeafNode, LeafNodeV2, EntityNode
  <2>2. a.maps = b.maps
    BY <1>4, <2>1, LeafNodeV2
  <2>3. x.sums = y.sums
    BY <1>4, <2>1, <2>2, LeafNodeV2
  <2> QED
    BY <1>4, <2>1, <2>3, LeafNodeV2
<1>5. CASE x = entity_leaf_node(a)
  <2>1. y = entity_leaf_node(b)
    BY <1>2, <1>5, LeafNode, LeafNodeV2, EntityNode
  <2>2. a.root_sums = b.root_sums
    BY <1>5, <2>1, EntityNode
  <2>3. x.sums = y.sums
    BY <1>5, <2>1, <2>2, EntityNode
  <2> QED
    BY <1>5, <2>1, <2>3, EntityNode
<1> QED
  BY <1>1, <1>3, <1>4, <1>5

LEMMA CombinePins ==
  ASSUME NEW l, NEW r
  PROVE  /\ combine(l, r).hash = <<"node", l.hash, r.hash, combine(l, r).sums>>
         /\ combine(l, r).hash[1] = "node" /\ combine(l, r).hash[2] = l.hash
         /\ combine(l, r).hash[3] = r.hash /\ combine(l, r).hash[4] = combine(l, r).sums
         /\ combine(l, r) = [hash |-> combine(l, r).hash, sums |-> combine(l, r).sums]
BY DEF combine

\* What a hash in a tree may be of.
Hashed(x) == Leafy(x) \/ \E l, r : x = combine(l, r)

LEMMA HashPins ==
  ASSUME NEW x, NEW y, Hashed(x), Hashed(y), x.hash = y.hash
  PROVE  x = y
<1>1. CASE Leafy(x) /\ Leafy(y)
  BY <1>1, LeafyPins
<1>2. CASE ~Leafy(x) /\ ~Leafy(y)
  <2>1. PICK l, r : x = combine(l, r)
    BY <1>2 DEF Hashed
  <2>2. PICK m, s : y = combine(m, s)
    BY <1>2 DEF Hashed
  <2>3. x.sums = y.sums
    BY <2>1, <2>2, CombinePins
  <2> QED
    BY <2>1, <2>2, <2>3, CombinePins
<1>3. ASSUME NEW z, Hashed(z), ~Leafy(z)
      PROVE  z.hash[1] = "node"
  <2>1. PICK l, r : z = combine(l, r)
    BY <1>3 DEF Hashed
  <2>2. z.hash = <<"node", l.hash, r.hash, z.sums>>
    BY <2>1, CombinePins
  <2> QED
    BY <2>2
<1> QED
  BY <1>1, <1>2, <1>3, LeafyTag

-----------------------------------------------------------------------------
\* What a root determines.

\* A node above the leaves is two nodes combined or the last one promoted.
Combined(level, h, i) ==
  /\ 2 * i \in 1 .. Len(level[h - 1])
  /\ level[h][i] = combine(level[h - 1][2 * i - 1], level[h - 1][2 * i])

Promoted(level, h, i) ==
  /\ 2 * i - 1 = Len(level[h - 1])
  /\ level[h][i] = level[h - 1][2 * i - 1]

LEMMA Below ==
  ASSUME NEW nodes, NEW level, NEW top \in Nat, IsTree(nodes, level, top),
         NEW h \in 1 .. top, NEW i \in 1 .. Len(level[h])
  PROVE  /\ h - 1 \in 0 .. top
         /\ Len(level[h - 1]) \in Nat
         /\ Len(level[h]) = (Len(level[h - 1]) + 1) \div 2
         /\ 2 * i - 1 \in 1 .. Len(level[h - 1])
         /\ Combined(level, h, i) \/ Promoted(level, h, i)
<1>1. h - 1 \in 0 .. top
  OBVIOUS
<1>2. level[h] = LevelAbove(level[h - 1]) /\ IsSeq(level[h - 1]) /\ Len(level[h - 1]) >= 1
  BY <1>1 DEF IsTree
<1>3. Len(level[h - 1]) \in Nat
  BY <1>2 DEF IsSeq
<1>4. /\ Len(level[h]) = (Len(level[h - 1]) + 1) \div 2
      /\ 2 * i - 1 \in 1 .. Len(level[h - 1])
      /\ 2 * i <= Len(level[h - 1]) =>
           level[h][i] = combine(level[h - 1][2 * i - 1], level[h - 1][2 * i])
      /\ 2 * i > Len(level[h - 1]) =>
           level[h][i] = level[h - 1][2 * i - 1] /\ 2 * i - 1 = Len(level[h - 1])
  BY <1>2, LevelAboveIs
<1>5. i \in Nat /\ i >= 1
  BY <1>3, <1>4
<1>6. Combined(level, h, i) \/ Promoted(level, h, i)
  <2>1. CASE 2 * i <= Len(level[h - 1])
    BY <1>3, <1>4, <1>5, <2>1 DEF Combined
  <2>2. CASE 2 * i > Len(level[h - 1])
    BY <1>4, <2>2 DEF Promoted
  <2> QED
    BY <1>3, <1>5, <2>1, <2>2
<1> QED
  BY <1>1, <1>3, <1>4, <1>6

\* A leaf and the steps that reach the root's hash: every hash on the way is of
\* a node of the tree.
LEMMA FoldIs ==
  ASSUME NEW leaf, NEW steps, Len(steps) \in Nat
  PROVE  \E node :
           /\ node[0] = leaf
           /\ \A n \in 1 .. Len(steps) : node[n] =
                IF steps[n].on_left THEN combine(steps[n].sibling, node[n - 1])
                                    ELSE combine(node[n - 1], steps[n].sibling)
           /\ fold(leaf, steps) = node[Len(steps)]
<1> DEFINE Step(n, below) == IF steps[n].on_left THEN combine(steps[n].sibling, below)
                                                 ELSE combine(below, steps[n].sibling)
           IsFold(k, f) == f = [n \in 0 .. k |-> IF n = 0 THEN leaf ELSE Step(n, f[n - 1])]
           Given == {k \in Nat : \E f : IsFold(k, f)}
<1> HIDE DEF Step
<1>1. 0 \in Given
  <2>1. IsFold(0, [n \in 0 .. 0 |-> leaf])
    OBVIOUS
  <2> QED
    BY <2>1
<1>2. ASSUME NEW k \in Nat, k \in Given
      PROVE  k + 1 \in Given
  <2>1. PICK f : IsFold(k, f)
    BY <1>2
  <2> DEFINE v == [n \in 0 .. (k + 1) |-> IF n <= k THEN f[n] ELSE Step(k + 1, f[k])]
  <2>2. v = [n \in 0 .. (k + 1) |-> v[n]]
    OBVIOUS
  <2>3. \A n \in 0 .. (k + 1) : v[n] = IF n = 0 THEN leaf ELSE Step(n, v[n - 1])
    BY <2>1
  <2>4. IsFold(k + 1, v)
    <3> HIDE DEF v
    <3> QED
      BY <2>2, <2>3
  <2> HIDE DEF v, IsFold
  <2> QED
    BY <2>4
<1>3. Len(steps) \in Given
  <2> HIDE DEF Given
  <2> QED
    BY <1>1, <1>2, AllNaturals
<1> DEFINE node == CHOOSE f : IsFold(Len(steps), f)
<1>4. IsFold(Len(steps), node)
  <2>1. \E f : IsFold(Len(steps), f)
    BY <1>3
  <2> HIDE DEF IsFold
  <2> QED
    BY <2>1
<1>5. fold(leaf, steps) = node[Len(steps)]
  BY DEF fold, Step
<1> HIDE DEF node
<1>6. node[0] = leaf /\ \A n \in 1 .. Len(steps) : node[n] = Step(n, node[n - 1])
  BY <1>4
<1> QED
  BY <1>5, <1>6 DEF Step

\* Whatever siblings a proof gives, if it folds a leaf to the root of a book then
\* the leaf is in the book, and the totals it arrives at are the root's
\* (verify.rs fold).
THEOREM FoldReaches ==
  ASSUME NEW nodes, IsSeq(nodes), Len(nodes) >= 1, \A i \in 1 .. Len(nodes) : Leafy(nodes[i]),
         NEW leaf, Leafy(leaf), NEW steps, Len(steps) \in Nat,
         fold(leaf, steps).hash = Root(nodes).hash
  PROVE  /\ \E i \in 1 .. Len(nodes) : nodes[i] = leaf
         /\ fold(leaf, steps).sums = Root(nodes).sums
<1>1. PICK top \in Nat : \E level : IsTree(nodes, level, top) /\ Root(nodes) = level[top][1]
  BY TreeOver
<1>0. PICK level : IsTree(nodes, level, top) /\ Root(nodes) = level[top][1]
  BY <1>1
<1>2. PICK node :
        /\ node[0] = leaf
        /\ \A n \in 1 .. Len(steps) : node[n] =
             IF steps[n].on_left THEN combine(steps[n].sibling, node[n - 1])
                                 ELSE combine(node[n - 1], steps[n].sibling)
        /\ fold(leaf, steps) = node[Len(steps)]
  BY FoldIs
<1>3. /\ top \in Nat /\ level[0] = nodes
      /\ \A h \in 0 .. top : Len(level[h]) \in Nat
  BY <1>0 DEF IsTree, IsSeq
\* The lowest node of a hash is a leaf or combined.
<1> DEFINE In(x) == \E h \in 0 .. top : \E i \in 1 .. Len(level[h]) : level[h][i].hash = x.hash
<1>4. ASSUME NEW x, In(x)
      PROVE  \/ \E i \in 1 .. Len(nodes) : nodes[i].hash = x.hash
             \/ \E l, r : In(l) /\ In(r) /\ x.hash = combine(l, r).hash
  <2> DEFINE Heights == {h \in 0 .. top : \E i \in 1 .. Len(level[h]) : level[h][i].hash = x.hash}
  <2>1. PICK h \in Heights : \A k \in Heights : h <= k
    <3>1. Heights \in SUBSET Nat /\ Heights # {}
      BY <1>3, <1>4
    <3> HIDE DEF Heights
    <3> QED
      BY <3>1, LeastNatural
  <2>2. PICK i \in 1 .. Len(level[h]) : level[h][i].hash = x.hash
    BY <2>1
  <2>3. CASE h = 0
    BY <1>3, <2>2, <2>3
  <2>4. CASE h # 0
    <3>1. h \in 1 .. top /\ h - 1 \in 0 .. top
      BY <1>3, <2>1, <2>4
    <3>3. /\ 2 * i - 1 \in 1 .. Len(level[h - 1])
          /\ Combined(level, h, i) \/ Promoted(level, h, i)
      BY <1>0, <3>1, Below
    <3> DEFINE l == level[h - 1][2 * i - 1]
               r == level[h - 1][2 * i]
    <3>2. h - 1 \notin Heights
      BY <1>3, <2>1, <3>1
    <3>4. ~Promoted(level, h, i)
      BY <2>2, <3>1, <3>2, <3>3 DEF Promoted
    <3>5. 2 * i \in 1 .. Len(level[h - 1]) /\ level[h][i] = combine(l, r)
      BY <3>3, <3>4 DEF Combined
    <3>6. In(l) /\ In(r)
      BY <3>1, <3>3, <3>5
    <3> QED
      BY <2>2, <3>5, <3>6
  <2> QED
    BY <2>3, <2>4
<1>5. In(Root(nodes)) /\ Hashed(Root(nodes))
  <2>1. top \in 0 .. top /\ 1 \in 1 .. Len(level[top])
    BY <1>0, <1>3 DEF IsTree
  <2>2. In(Root(nodes))
    BY <1>0, <2>1
  <2> DEFINE Up == {h \in Nat : h \in 0 .. top => \A i \in 1 .. Len(level[h]) : Hashed(level[h][i])}
  <2>3. 0 \in Up
    BY <1>3 DEF Hashed
  <2>4. ASSUME NEW h \in Nat, h \in Up
        PROVE  h + 1 \in Up
    <3> SUFFICES ASSUME h + 1 \in 0 .. top, NEW i \in 1 .. Len(level[h + 1])
                 PROVE  Hashed(level[h + 1][i])
      OBVIOUS
    <3>1. h + 1 \in 1 .. top /\ h \in 0 .. top /\ (h + 1) - 1 = h
      BY <1>3
    <3>2. /\ 2 * i - 1 \in 1 .. Len(level[(h + 1) - 1])
          /\ Combined(level, h + 1, i) \/ Promoted(level, h + 1, i)
      BY <1>0, <3>1, Below
    <3>3. CASE Combined(level, h + 1, i)
      BY <3>3 DEF Hashed, Combined
    <3>4. CASE Promoted(level, h + 1, i)
      BY <2>4, <3>1, <3>2, <3>4 DEF Promoted
    <3> QED
      BY <3>2, <3>3, <3>4
  <2>5. top \in Up
    <3> HIDE DEF Up
    <3> QED
      BY <1>3, <2>3, <2>4, AllNaturals
  <2> QED
    BY <1>0, <2>1, <2>2, <2>5
<1> HIDE DEF In
\* Downwards from the root.
<1> DEFINE Down == {d \in Nat : d <= Len(steps) => In(node[Len(steps) - d])}
<1>6. 0 \in Down
  <2>1. node[Len(steps)].hash = Root(nodes).hash
    BY <1>2
  <2>2. In(node[Len(steps)])
    BY <1>5, <2>1 DEF In
  <2>3. Len(steps) - 0 = Len(steps)
    OBVIOUS
  <2> QED
    BY <2>2, <2>3
<1>7. ASSUME NEW d \in Nat, d \in Down
      PROVE  d + 1 \in Down
  <2> SUFFICES ASSUME d + 1 <= Len(steps)
               PROVE  In(node[Len(steps) - (d + 1)])
    OBVIOUS
  <2> DEFINE n == Len(steps) - d
  <2>1. n \in 1 .. Len(steps) /\ Len(steps) - (d + 1) = n - 1
    OBVIOUS
  <2>2. In(node[n])
    BY <1>7
  <2> HIDE DEF n
  <2>3. PICK below, sibling :
          /\ below = node[n - 1]
          /\ node[n] = combine(sibling, below) \/ node[n] = combine(below, sibling)
    BY <1>2, <2>1
  <2>4. node[n].hash[1] = "node"
    BY <2>3, CombinePins
  <2>5. PICK l, r : In(l) /\ In(r) /\ node[n].hash = combine(l, r).hash
    BY <1>4, <2>2, <2>4, LeafyTag
  <2>6. below.hash = l.hash \/ below.hash = r.hash
    <3>1. node[n].hash[2] = l.hash /\ node[n].hash[3] = r.hash
      BY <2>5, CombinePins
    <3> QED
      BY <2>3, <3>1, CombinePins
  <2>7. In(below)
    BY <2>5, <2>6 DEF In
  <2> QED
    BY <2>1, <2>3, <2>7
<1>8. In(leaf)
  <2>1. Len(steps) \in Down
    <3> HIDE DEF Down
    <3> QED
      BY <1>6, <1>7, AllNaturals
  <2>2. Len(steps) - Len(steps) = 0
    OBVIOUS
  <2> QED
    BY <1>2, <2>1, <2>2
<1>9. \E i \in 1 .. Len(nodes) : nodes[i] = leaf
  <2>1. ~ \E l, r : leaf.hash = combine(l, r).hash
    BY LeafyTag, CombinePins
  <2>2. PICK i \in 1 .. Len(nodes) : nodes[i].hash = leaf.hash
    BY <1>4, <1>8, <2>1
  <2> QED
    BY <2>2, LeafyPins
<1>00. fold(leaf, steps).sums = Root(nodes).sums
  <2>1. Hashed(fold(leaf, steps))
    <3>1. CASE Len(steps) = 0
      BY <1>2, <3>1 DEF Hashed
    <3>2. CASE Len(steps) # 0
      <4>1. Len(steps) \in 1 .. Len(steps)
        BY <3>2
      <4> QED
        BY <1>2, <4>1 DEF Hashed
    <3> QED
      BY <3>1, <3>2
  <2> QED
    BY <1>5, <2>1, HashPins
<1> QED
  BY <1>9, <1>00

\* Totals add up on the way up: t is the running total of a key over the leaves.
Running(level, key, t) ==
  /\ t \in [0 .. Len(level) -> Nat]
  /\ t[0] = 0
  /\ \A n \in 1 .. Len(level) : /\ Of(level[n].sums, key) \in Nat
                                /\ t[n] = t[n - 1] + Of(level[n].sums, key)

Totalled(level, key, total) == \E t : Running(level, key, t) /\ t[Len(level)] = total

LEMMA CombineTotals ==
  ASSUME NEW l, NEW r, NEW key, Of(l.sums, key) \in Nat, Of(r.sums, key) \in Nat
  PROVE  Of(combine(l, r).sums, key) = Of(l.sums, key) + Of(r.sums, key)
<1> DEFINE keys == DOMAIN l.sums \cup DOMAIN r.sums
<1>1. combine(l, r).sums = [k \in keys |-> Of(l.sums, k) + Of(r.sums, k)]
  BY DEF combine
<1>2. CASE key \in keys
  BY <1>1, <1>2 DEF Of
<1>3. CASE key \notin keys
  <2>1. key \notin DOMAIN combine(l, r).sums
    BY <1>1, <1>3
  <2> QED
    BY <1>3, <2>1 DEF Of
<1> QED
  BY <1>2, <1>3

LEMMA CombineKeys ==
  ASSUME NEW l, NEW r
  PROVE  DOMAIN combine(l, r).sums = DOMAIN l.sums \cup DOMAIN r.sums
BY DEF combine

LEMMA BelowWidth ==
  ASSUME NEW nodes, NEW level, NEW top \in Nat, IsTree(nodes, level, top), NEW h \in 1 .. top
  PROVE  /\ Len(level[h - 1]) \in Nat /\ Len(level[h - 1]) >= 1
         /\ Len(level[h]) \in Nat /\ Len(level[h]) >= 1
         /\ Len(level[h]) = (Len(level[h - 1]) + 1) \div 2
<1>1. h - 1 \in 0 .. top /\ h \in 0 .. top
  OBVIOUS
<1>2. /\ level[h] = LevelAbove(level[h - 1])
      /\ IsSeq(level[h - 1]) /\ Len(level[h - 1]) >= 1
      /\ IsSeq(level[h]) /\ Len(level[h]) >= 1
  BY <1>1 DEF IsTree
<1> QED
  BY <1>2, LevelAboveIs DEF IsSeq

LEMMA RunningUp ==
  ASSUME NEW nodes, NEW level, NEW top \in Nat, IsTree(nodes, level, top), NEW key,
         NEW h \in 1 .. top, NEW total, Totalled(level[h - 1], key, total)
  PROVE  Totalled(level[h], key, total)
<1>2. PICK t : Running(level[h - 1], key, t) /\ t[Len(level[h - 1])] = total
  BY DEF Totalled
<1> DEFINE n == Len(level[h - 1])
           m == Len(level[h])
           Low(j) == IF 2 * j <= n THEN 2 * j ELSE n
           u == [j \in 0 .. m |-> t[Low(j)]]
<1>1. m \in Nat /\ m >= 1
  BY BelowWidth
<1>3. n \in Nat /\ n >= 1 /\ m = (n + 1) \div 2
  BY BelowWidth
<1>4. ASSUME NEW j \in 1 .. m
      PROVE  /\ Of(level[h][j].sums, key) \in Nat
             /\ u[j] = u[j - 1] + Of(level[h][j].sums, key)
  <2>1. 2 * j - 1 \in 1 .. n /\ (Combined(level, h, j) \/ Promoted(level, h, j))
    BY Below
  <2>2. j \in Nat /\ j >= 1 /\ 2 * j - 1 \in Nat /\ 2 * j - 1 <= n
    BY <1>1, <1>3, <2>1
  <2>3. /\ u[j - 1] = t[2 * j - 2]
        /\ u[j] = t[Low(j)]
    <3>1. j - 1 \in 0 .. m /\ j \in 0 .. m
      BY <1>1, <2>2
    <3>2. Low(j - 1) = 2 * j - 2
      <4>1. 2 * (j - 1) = 2 * j - 2 /\ 2 * j - 2 <= n
        BY <1>3, <2>2
      <4> QED
        BY <4>1
    <3> HIDE DEF Low
    <3> QED
      BY <3>1, <3>2
  <2>4. /\ Of(level[h - 1][2 * j - 1].sums, key) \in Nat
        /\ t[2 * j - 1] = t[2 * j - 2] + Of(level[h - 1][2 * j - 1].sums, key)
    <3>1. (2 * j - 1) - 1 = 2 * j - 2
      BY <2>2
    <3> QED
      BY <1>2, <2>1, <3>1 DEF Running
  <2>5. t[2 * j - 2] \in Nat
    <3>1. 2 * j - 2 \in 0 .. n
      BY <1>3, <2>2
    <3> QED
      BY <1>2, <3>1 DEF Running
  <2>6. CASE Combined(level, h, j)
    <3>1. 2 * j \in 1 .. n /\ Low(j) = 2 * j
      BY <1>3, <2>6 DEF Combined
    <3>2. /\ Of(level[h - 1][2 * j].sums, key) \in Nat
          /\ t[2 * j] = t[2 * j - 1] + Of(level[h - 1][2 * j].sums, key)
      BY <1>2, <3>1 DEF Running
    <3>3. Of(level[h][j].sums, key) =
            Of(level[h - 1][2 * j - 1].sums, key) + Of(level[h - 1][2 * j].sums, key)
      <4>1. level[h][j] = combine(level[h - 1][2 * j - 1], level[h - 1][2 * j])
        BY <2>6 DEF Combined
      <4> DEFINE l == level[h - 1][2 * j - 1]
                 r == level[h - 1][2 * j]
      <4>2. Of(l.sums, key) \in Nat /\ Of(r.sums, key) \in Nat
        BY <2>4, <3>2
      <4> HIDE DEF l, r
      <4>3. Of(combine(l, r).sums, key) = Of(l.sums, key) + Of(r.sums, key)
        BY <4>2, CombineTotals
      <4> QED
        BY <4>1, <4>3 DEF l, r
    <3> HIDE DEF u, Low
    <3> QED
      BY <2>3, <2>4, <2>5, <3>1, <3>2, <3>3
  <2>7. CASE Promoted(level, h, j)
    <3>1. n = 2 * j - 1 /\ level[h][j] = level[h - 1][2 * j - 1]
      BY <2>7 DEF Promoted
    <3>2. Low(j) = 2 * j - 1
      BY <2>2, <3>1
    <3> HIDE DEF u, Low, n, m
    <3> QED
      BY <2>3, <2>4, <2>5, <3>1, <3>2
  <2> HIDE DEF u
  <2> QED
    BY <2>1, <2>6, <2>7
<1>5. u[0] = 0 /\ u[m] = t[n]
  <2>1. 0 \in 0 .. m /\ m \in 0 .. m
    BY <1>1
  <2>3. Low(0) = 0 /\ Low(m) = n
    <3>1. \A a, b \in Nat : a = (b + 1) \div 2 => 2 * a = b \/ 2 * a = b + 1
      OBVIOUS
    <3>2. 2 * m = n \/ 2 * m = n + 1
      <4> HIDE DEF m, n
      <4> QED
        BY <1>1, <1>3, <3>1
    <3>3. 2 * 0 = 0
      OBVIOUS
    <3> HIDE DEF m, n
    <3> QED
      BY <1>1, <1>3, <3>2, <3>3
  <2>2. t[0] = 0
    BY <1>2 DEF Running
  <2> HIDE DEF Low
  <2> QED
    BY <2>1, <2>2, <2>3
<1>6. u \in [0 .. m -> Nat]
  <2>1. \A j \in 0 .. m : Low(j) \in 0 .. n
    BY <1>1, <1>3
  <2>2. t \in [0 .. n -> Nat]
    BY <1>2 DEF Running
  <2> HIDE DEF Low
  <2> QED
    BY <2>1, <2>2
<1> HIDE DEF u
<1> QED
  BY <1>2, <1>4, <1>5, <1>6 DEF Running, Totalled

\* What the root says of a key is what the leaves hold of it, added up, through
\* any promotions (SumTree::build).
THEOREM RootTotals ==
  ASSUME NEW nodes, IsSeq(nodes), Len(nodes) >= 1, NEW key,
         NEW total, Totalled(nodes, key, total)
  PROVE  Of(Root(nodes).sums, key) = total
<1>1. PICK top \in Nat : \E level : IsTree(nodes, level, top) /\ Root(nodes) = level[top][1]
  BY TreeOver
<1>0. PICK level : IsTree(nodes, level, top) /\ Root(nodes) = level[top][1]
  BY <1>1
<1> DEFINE Up == {h \in Nat : h \in 0 .. top =>
                   Totalled(level[h], key, total)}
<1>2. 0 \in Up
  BY <1>0 DEF IsTree
<1>3. ASSUME NEW h \in Nat, h \in Up
      PROVE  h + 1 \in Up
  <2> SUFFICES ASSUME h + 1 \in 0 .. top
               PROVE  Totalled(level[h + 1], key, total)
    OBVIOUS
  <2>1. h + 1 \in 1 .. top /\ h \in 0 .. top /\ (h + 1) - 1 = h
    BY <1>0
  <2>2. Totalled(level[(h + 1) - 1], key, total)
    BY <1>3, <2>1
  <2> QED
    BY <1>0, <2>1, <2>2, RunningUp
<1>4. top \in Up
  <2> HIDE DEF Up
  <2> QED
    BY <1>0, <1>2, <1>3, AllNaturals
<1>5. Len(level[top]) = 1 /\ top \in 0 .. top
  BY <1>0 DEF IsTree
<1>6. PICK u : Running(level[top], key, u) /\ u[1] = total
  BY <1>4, <1>5 DEF Totalled
<1>7. 1 \in 1 .. Len(level[top]) /\ 1 - 1 = 0
  BY <1>5
<1>8. u[0] = 0 /\ u[1] = u[0] + Of(level[top][1].sums, key) /\ Of(level[top][1].sums, key) \in Nat
  BY <1>6, <1>7 DEF Running
<1> QED
  BY <1>0, <1>6, <1>8

\* What any leaf has a total of, the root has.
LEMMA KeyUp ==
  ASSUME NEW level, IsSeq(level), Len(level) >= 1, NEW key,
         \E i \in 1 .. Len(level) : key \in DOMAIN level[i].sums
  PROVE  \E i \in 1 .. Len(LevelAbove(level)) : key \in DOMAIN LevelAbove(level)[i].sums
<1>1. PICK i \in 1 .. Len(level) : key \in DOMAIN level[i].sums
  OBVIOUS
<1> DEFINE up == (i + 1) \div 2
<1>2. /\ Len(level) \in Nat /\ up \in 1 .. ((Len(level) + 1) \div 2)
      /\ i = 2 * up - 1 \/ (i = 2 * up /\ 2 * up <= Len(level))
      /\ 2 * up > Len(level) => i = 2 * up - 1
  BY DEF IsSeq
<1> HIDE DEF up
<1>3. /\ up \in 1 .. Len(LevelAbove(level))
      /\ 2 * up <= Len(level) => LevelAbove(level)[up] = combine(level[2 * up - 1], level[2 * up])
      /\ 2 * up > Len(level) => LevelAbove(level)[up] = level[2 * up - 1]
  BY <1>2, LevelAboveIs
<1>4. CASE 2 * up <= Len(level)
  <2>1. key \in DOMAIN combine(level[2 * up - 1], level[2 * up]).sums
    BY <1>1, <1>2, CombineKeys
  <2> QED
    BY <1>3, <1>4, <2>1
<1>5. CASE 2 * up > Len(level)
  BY <1>1, <1>2, <1>3, <1>5
<1> QED
  BY <1>2, <1>4, <1>5

LEMMA RootAnyKey ==
  ASSUME NEW nodes, IsSeq(nodes), Len(nodes) >= 1, NEW key,
         NEW i \in 1 .. Len(nodes), key \in DOMAIN nodes[i].sums
  PROVE  key \in DOMAIN Root(nodes).sums
<1>1. PICK top \in Nat : \E level : IsTree(nodes, level, top) /\ Root(nodes) = level[top][1]
  BY TreeOver
<1>2. PICK level : IsTree(nodes, level, top) /\ Root(nodes) = level[top][1]
  BY <1>1
<1>3. /\ level[0] = nodes /\ Len(level[top]) = 1
      /\ \A h \in 1 .. top : level[h] = LevelAbove(level[h - 1])
      /\ \A h \in 0 .. top : IsSeq(level[h]) /\ Len(level[h]) >= 1
  BY <1>2 DEF IsTree
<1> DEFINE Up == {h \in Nat : h \in 0 .. top =>
                   \E n \in 1 .. Len(level[h]) : key \in DOMAIN level[h][n].sums}
<1>4. 0 \in Up
  BY <1>3
<1>5. ASSUME NEW h \in Nat, h \in Up
      PROVE  h + 1 \in Up
  <2> SUFFICES ASSUME h + 1 \in 0 .. top
               PROVE  \E n \in 1 .. Len(level[h + 1]) : key \in DOMAIN level[h + 1][n].sums
    OBVIOUS
  <2>1. h + 1 \in 1 .. top /\ h \in 0 .. top /\ (h + 1) - 1 = h
    BY <1>1
  <2>2. /\ \E n \in 1 .. Len(level[h]) : key \in DOMAIN level[h][n].sums
        /\ level[h + 1] = LevelAbove(level[h]) /\ IsSeq(level[h]) /\ Len(level[h]) >= 1
    BY <1>3, <1>5, <2>1
  <2> QED
    BY <2>2, KeyUp
<1>6. top \in Up
  <2> HIDE DEF Up
  <2> QED
    BY <1>1, <1>4, <1>5, AllNaturals
<1> QED
  BY <1>1, <1>2, <1>3, <1>6

LEMMA RootKeys ==
  ASSUME NEW nodes, IsSeq(nodes), Len(nodes) >= 1, NEW key,
         \A i \in 1 .. Len(nodes) : key \in DOMAIN nodes[i].sums
  PROVE  key \in DOMAIN Root(nodes).sums
<1>1. 1 \in 1 .. Len(nodes)
  BY DEF IsSeq
<1> QED
  BY <1>1, RootAnyKey

\* The leaves under a node are those after the end of the node before it, up to
\* its own end.
IsEnds(level, top, end) ==
  /\ \A i \in 0 .. Len(level[0]) : end[0][i] = i
  /\ \A h \in 1 .. top : \A i \in 0 .. Len(level[h]) :
       end[h][i] = end[h - 1][IF 2 * i <= Len(level[h - 1]) THEN 2 * i ELSE Len(level[h - 1])]

LEMMA EndsExist ==
  ASSUME NEW level, NEW top \in Nat
  PROVE  \E end : IsEnds(level, top, end)
<1> DEFINE First == [i \in 0 .. Len(level[0]) |-> i]
           Next1(h, below) ==
             [i \in 0 .. Len(level[h]) |->
                below[IF 2 * i <= Len(level[h - 1]) THEN 2 * i ELSE Len(level[h - 1])]]
           Are(k, e) == e = [h \in 0 .. k |-> IF h = 0 THEN First ELSE Next1(h, e[h - 1])]
           Given == {k \in Nat : \E e : Are(k, e)}
<1> HIDE DEF First, Next1
<1>1. 0 \in Given
  <2>1. Are(0, [h \in 0 .. 0 |-> First])
    OBVIOUS
  <2> QED
    BY <2>1
<1>2. ASSUME NEW k \in Nat, k \in Given
      PROVE  k + 1 \in Given
  <2>1. PICK e : Are(k, e)
    BY <1>2
  <2> DEFINE v == [h \in 0 .. (k + 1) |-> IF h <= k THEN e[h] ELSE Next1(k + 1, e[k])]
  <2>2. v = [h \in 0 .. (k + 1) |-> v[h]]
    OBVIOUS
  <2>3. \A h \in 0 .. (k + 1) : v[h] = IF h = 0 THEN First ELSE Next1(h, v[h - 1])
    BY <2>1
  <2>4. Are(k + 1, v)
    <3> HIDE DEF v
    <3> QED
      BY <2>2, <2>3
  <2> HIDE DEF v, Are
  <2> QED
    BY <2>4
<1>3. PICK e : Are(top, e)
  <2>1. top \in Given
    <3> HIDE DEF Given
    <3> QED
      BY <1>1, <1>2, AllNaturals
  <2> QED
    BY <2>1
<1>4. e[0] = First /\ \A h \in 1 .. top : e[h] = Next1(h, e[h - 1])
  BY <1>3
<1>5. \A i \in 0 .. Len(level[0]) : e[0][i] = i
  BY <1>4 DEF First
<1>6. ASSUME NEW h \in 1 .. top, NEW i \in 0 .. Len(level[h])
      PROVE  e[h][i] =
               e[h - 1][IF 2 * i <= Len(level[h - 1]) THEN 2 * i ELSE Len(level[h - 1])]
  BY <1>4 DEF Next1
<1> QED
  BY <1>5, <1>6 DEF IsEnds

LEMMA EndsAre ==
  ASSUME NEW nodes, NEW level, NEW top \in Nat, IsTree(nodes, level, top),
         NEW end, IsEnds(level, top, end), NEW h \in 0 .. top
  PROVE  /\ \A i \in 0 .. Len(level[h]) : end[h][i] \in Nat
         /\ end[h][0] = 0
         /\ end[h][Len(level[h])] = Len(nodes)
<1> DEFINE Good(k) == /\ \A i \in 0 .. Len(level[k]) : end[k][i] \in Nat
                      /\ end[k][0] = 0
                      /\ end[k][Len(level[k])] = Len(nodes)
           Up == {k \in Nat : k \in 0 .. top => Good(k)}
<1>1. 0 \in Up
  <2>1. level[0] = nodes /\ IsSeq(nodes) /\ 0 \in 0 .. top
    BY DEF IsTree
  <2>2. Len(level[0]) \in Nat /\ \A i \in 0 .. Len(level[0]) : end[0][i] = i
    BY <2>1 DEF IsEnds, IsSeq
  <2>3. 0 \in 0 .. Len(level[0]) /\ Len(level[0]) \in 0 .. Len(level[0])
    BY <2>2
  <2> QED
    BY <2>1, <2>2, <2>3
<1>2. ASSUME NEW k \in Nat, k \in Up
      PROVE  k + 1 \in Up
  <2> SUFFICES ASSUME k + 1 \in 0 .. top
               PROVE  Good(k + 1)
    OBVIOUS
  <2>1. k + 1 \in 1 .. top /\ k \in 0 .. top /\ (k + 1) - 1 = k
    OBVIOUS
  <2> DEFINE n == Len(level[k])
             m == Len(level[k + 1])
  <2>2. Good(k)
    BY <1>2, <2>1
  <2>3. /\ Len(level[(k + 1) - 1]) \in Nat /\ Len(level[(k + 1) - 1]) >= 1
        /\ m \in Nat /\ m >= 1
        /\ m = (Len(level[(k + 1) - 1]) + 1) \div 2
    BY <2>1, BelowWidth
  <2>4. n \in Nat /\ m \in Nat /\ m = (n + 1) \div 2
    BY <2>1, <2>3
  <2>5. \A i \in 0 .. m : end[k + 1][i] =
          end[(k + 1) - 1][IF 2 * i <= Len(level[(k + 1) - 1]) THEN 2 * i
                                                             ELSE Len(level[(k + 1) - 1])]
    BY <2>1 DEF IsEnds
  <2>6. \A i \in 0 .. m : end[k + 1][i] = end[k][IF 2 * i <= n THEN 2 * i ELSE n]
    BY <2>1, <2>5
  <2> HIDE DEF n, m
  <2>7. ASSUME NEW i \in 0 .. m
        PROVE  end[k + 1][i] \in Nat
    <3>1. i \in Nat /\ (2 * i <= n => 2 * i \in 0 .. n) /\ n \in 0 .. n
      BY <2>4
    <3>2. \A j \in 0 .. n : end[k][j] \in Nat
      BY <2>2 DEF n
    <3> HIDE DEF Good
    <3> QED
      BY <2>6, <3>1, <3>2
  <2>8. end[k + 1][0] = 0
    <3>1. 0 \in 0 .. m /\ 2 * 0 = 0 /\ 0 <= n
      BY <2>4
    <3>2. end[k][0] = 0
      BY <2>2
    <3> HIDE DEF Good
    <3> QED
      BY <2>6, <3>1, <3>2
  <2>9. end[k + 1][m] = Len(nodes)
    <3>1. \A a, b \in Nat : a = (b + 1) \div 2 => 2 * a = b \/ 2 * a = b + 1
      OBVIOUS
    <3>2. m \in 0 .. m /\ (2 * m = n \/ 2 * m = n + 1)
      BY <2>4, <3>1
    <3>3. end[k][n] = Len(nodes)
      BY <2>2 DEF n
    <3> HIDE DEF Good
    <3> QED
      BY <2>4, <2>6, <3>2, <3>3
  <2> QED
    BY <2>7, <2>8, <2>9 DEF m
<1>3. h \in Up
  <2> HIDE DEF Up
  <2> QED
    BY <1>1, <1>2, AllNaturals
<1> QED
  BY <1>3

LEMMA EndsBelow ==
  ASSUME NEW nodes, NEW level, NEW top \in Nat, IsTree(nodes, level, top),
         NEW end, IsEnds(level, top, end), NEW h \in 1 .. top, NEW i \in 1 .. Len(level[h])
  PROVE  /\ end[h][i - 1] = end[h - 1][(2 * i - 1) - 1]
         /\ Combined(level, h, i) => end[h][i] = end[h - 1][2 * i]
         /\ Promoted(level, h, i) => end[h][i] = end[h - 1][2 * i - 1]
<1> DEFINE n == Len(level[h - 1])
           m == Len(level[h])
<1>1. n \in Nat /\ m \in Nat /\ m = (n + 1) \div 2
  BY BelowWidth
<1>2. \A j \in 0 .. m : end[h][j] = end[h - 1][IF 2 * j <= n THEN 2 * j ELSE n]
  BY DEF IsEnds
<1>3. Combined(level, h, i) => 2 * i <= n
  BY <1>1 DEF Combined
<1>4. Promoted(level, h, i) => 2 * i - 1 = n
  BY DEF Promoted
<1>5. i \in 1 .. m
  OBVIOUS
<1> HIDE DEF n, m
<1>6. i \in Nat /\ i >= 1 /\ i \in 0 .. m /\ i - 1 \in 0 .. m
  BY <1>1, <1>5
<1>7. 2 * (i - 1) = (2 * i - 1) - 1 /\ 2 * (i - 1) <= n
  BY <1>1, <1>5, <1>6
<1> QED
  BY <1>1, <1>2, <1>3, <1>4, <1>6, <1>7

\* The nodes of A after a up to b are those of B after c up to d.
Same(A, B, a, b, c, d) == b - a = d - c /\ \A k \in 1 .. (b - a) : A[a + k].hash = B[c + k].hash

LEMMA SameJoin ==
  ASSUME NEW A, NEW B, NEW a \in Int, NEW b \in Int, NEW c \in Int, NEW d \in Int,
         NEW e \in Int, NEW f \in Int, Same(A, B, a, b, c, d), Same(A, B, b, e, d, f)
  PROVE  Same(A, B, a, e, c, f)
<1>1. b - a = d - c /\ e - b = f - d /\ e - a = f - c
  BY DEF Same
<1>2. ASSUME NEW k \in 1 .. (e - a)
      PROVE  A[a + k].hash = B[c + k].hash
  <2>1. CASE k <= b - a
    BY <2>1 DEF Same
  <2>2. CASE ~(k <= b - a)
    <3> DEFINE j == k - (b - a)
    <3>1. j \in 1 .. (e - b) /\ b + j = a + k /\ d + j = c + k
      BY <1>1, <2>2
    <3>2. A[b + j].hash = B[d + j].hash
      BY <3>1 DEF Same
    <3> QED
      BY <3>1, <3>2
  <2> QED
    BY <2>1, <2>2
<1> QED
  BY <1>1, <1>2 DEF Same

\* Nodes of two trees with one hash are over the same leaves, at whatever heights
\* the nodes are.
Agree(A, B, la, lb, ea, eb, h, g) ==
  \A i \in 1 .. Len(la[h]), j \in 1 .. Len(lb[g]) :
    la[h][i].hash = lb[g][j].hash =>
      Same(A, B, ea[h][i - 1], ea[h][i], eb[g][j - 1], eb[g][j])

\* A combined node pins the two below it, and covers what they do.
PairAt(level, end, h, i) ==
  /\ level[h][i].hash[1] = "node"
  /\ level[h][i].hash[2] = level[h - 1][2 * i - 1].hash
  /\ level[h][i].hash[3] = level[h - 1][2 * i].hash
  /\ 2 * i - 1 \in 1 .. Len(level[h - 1]) /\ 2 * i \in 1 .. Len(level[h - 1])
  /\ end[h - 1][(2 * i - 1) - 1] \in Int /\ end[h - 1][2 * i - 1] \in Int
  /\ end[h - 1][2 * i] \in Int
  /\ end[h][i - 1] = end[h - 1][(2 * i - 1) - 1] /\ end[h][i] = end[h - 1][2 * i]

LEMMA CombinedNode ==
  ASSUME NEW nodes, NEW level, NEW top \in Nat, IsTree(nodes, level, top),
         NEW end, IsEnds(level, top, end),
         NEW h \in 1 .. top, NEW i \in 1 .. Len(level[h]), Combined(level, h, i)
  PROVE  PairAt(level, end, h, i)
<1> DEFINE l == level[h - 1][2 * i - 1]
           r == level[h - 1][2 * i]
<1>1. level[h][i] = combine(l, r) /\ 2 * i \in 1 .. Len(level[h - 1])
  BY DEF Combined
<1>2. level[h][i].hash[1] = "node" /\ level[h][i].hash[2] = l.hash /\ level[h][i].hash[3] = r.hash
  <2> HIDE DEF l, r
  <2> QED
    BY <1>1, CombinePins
<1>3. 2 * i - 1 \in 1 .. Len(level[h - 1]) /\ Len(level[h - 1]) \in Nat
  BY Below
<1>4. h - 1 \in 0 .. top
  OBVIOUS
<1>5. \A k \in 0 .. Len(level[h - 1]) : end[h - 1][k] \in Nat
  BY <1>4, EndsAre
<1>6. /\ (2 * i - 1) - 1 \in 0 .. Len(level[h - 1]) /\ 2 * i - 1 \in 0 .. Len(level[h - 1])
      /\ 2 * i \in 0 .. Len(level[h - 1])
  BY <1>1, <1>3
<1>7. /\ end[h - 1][(2 * i - 1) - 1] \in Int /\ end[h - 1][2 * i - 1] \in Int
      /\ end[h - 1][2 * i] \in Int
  BY <1>5, <1>6
<1>8. end[h][i - 1] = end[h - 1][(2 * i - 1) - 1] /\ end[h][i] = end[h - 1][2 * i]
  BY EndsBelow
<1> QED
  BY <1>1, <1>2, <1>3, <1>7, <1>8 DEF PairAt

\* A node agrees with another if the one promoted into it does.
LEMMA AgreePromoted ==
  ASSUME NEW A, NEW la, NEW ta \in Nat, IsTree(A, la, ta), NEW ea, IsEnds(la, ta, ea),
         NEW B, NEW lb, NEW eb, NEW h \in 1 .. ta, NEW g \in Nat,
         NEW i \in 1 .. Len(la[h]), NEW j \in 1 .. Len(lb[g]),
         la[h][i].hash = lb[g][j].hash, Promoted(la, h, i),
         Agree(A, B, la, lb, ea, eb, h - 1, g)
  PROVE  Same(A, B, ea[h][i - 1], ea[h][i], eb[g][j - 1], eb[g][j])
<1>1. 2 * i - 1 \in 1 .. Len(la[h - 1])
  BY Below
<1>2. la[h - 1][2 * i - 1].hash = lb[g][j].hash
  BY DEF Promoted
<1>3. Same(A, B, ea[h - 1][(2 * i - 1) - 1], ea[h - 1][2 * i - 1], eb[g][j - 1], eb[g][j])
  BY <1>1, <1>2 DEF Agree
<1>4. ea[h][i - 1] = ea[h - 1][(2 * i - 1) - 1] /\ ea[h][i] = ea[h - 1][2 * i - 1]
  BY EndsBelow
<1> QED
  BY <1>3, <1>4

LEMMA AgreePromotedOther ==
  ASSUME NEW A, NEW la, NEW ea,
         NEW B, NEW lb, NEW tb \in Nat, IsTree(B, lb, tb), NEW eb, IsEnds(lb, tb, eb),
         NEW h \in Nat, NEW g \in 1 .. tb,
         NEW i \in 1 .. Len(la[h]), NEW j \in 1 .. Len(lb[g]),
         la[h][i].hash = lb[g][j].hash, Promoted(lb, g, j),
         Agree(A, B, la, lb, ea, eb, h, g - 1)
  PROVE  Same(A, B, ea[h][i - 1], ea[h][i], eb[g][j - 1], eb[g][j])
<1>1. 2 * j - 1 \in 1 .. Len(lb[g - 1])
  BY Below
<1>2. la[h][i].hash = lb[g - 1][2 * j - 1].hash
  BY DEF Promoted
<1>3. Same(A, B, ea[h][i - 1], ea[h][i], eb[g - 1][(2 * j - 1) - 1], eb[g - 1][2 * j - 1])
  BY <1>1, <1>2 DEF Agree
<1>4. eb[g][j - 1] = eb[g - 1][(2 * j - 1) - 1] /\ eb[g][j] = eb[g - 1][2 * j - 1]
  BY EndsBelow
<1> QED
  BY <1>3, <1>4

\* Two combined nodes agree if the pairs below them do.
LEMMA AgreeCombined ==
  ASSUME NEW A, NEW la, NEW ta \in Nat, IsTree(A, la, ta), NEW ea, IsEnds(la, ta, ea),
         NEW B, NEW lb, NEW tb \in Nat, IsTree(B, lb, tb), NEW eb, IsEnds(lb, tb, eb),
         NEW h \in 1 .. ta, NEW g \in 1 .. tb,
         NEW i \in 1 .. Len(la[h]), NEW j \in 1 .. Len(lb[g]),
         la[h][i].hash = lb[g][j].hash, Combined(la, h, i), Combined(lb, g, j),
         Agree(A, B, la, lb, ea, eb, h - 1, g - 1)
  PROVE  Same(A, B, ea[h][i - 1], ea[h][i], eb[g][j - 1], eb[g][j])
<1>1. PairAt(la, ea, h, i)
  BY CombinedNode
<1>2. PairAt(lb, eb, g, j)
  BY CombinedNode
<1>3. la[h - 1][2 * i - 1].hash = lb[g - 1][2 * j - 1].hash
  BY <1>1, <1>2 DEF PairAt
<1>4. la[h - 1][2 * i].hash = lb[g - 1][2 * j].hash
  BY <1>1, <1>2 DEF PairAt
<1>5. Same(A, B, ea[h - 1][(2 * i - 1) - 1], ea[h - 1][2 * i - 1],
                 eb[g - 1][(2 * j - 1) - 1], eb[g - 1][2 * j - 1])
  BY <1>1, <1>2, <1>3 DEF Agree, PairAt
<1>6. Same(A, B, ea[h - 1][2 * i - 1], ea[h - 1][2 * i],
                 eb[g - 1][2 * j - 1], eb[g - 1][2 * j])
  BY <1>1, <1>2, <1>4 DEF Agree, PairAt
<1>7. Same(A, B, ea[h - 1][(2 * i - 1) - 1], ea[h - 1][2 * i],
                 eb[g - 1][(2 * j - 1) - 1], eb[g - 1][2 * j])
  <2>1. PICK a \in Int, b \in Int, e \in Int :
          a = ea[h - 1][(2 * i - 1) - 1] /\ b = ea[h - 1][2 * i - 1] /\ e = ea[h - 1][2 * i]
    BY <1>1 DEF PairAt
  <2>2. PICK c \in Int, d \in Int, f \in Int :
          c = eb[g - 1][(2 * j - 1) - 1] /\ d = eb[g - 1][2 * j - 1] /\ f = eb[g - 1][2 * j]
    BY <1>2 DEF PairAt
  <2>3. Same(A, B, a, b, c, d) /\ Same(A, B, b, e, d, f)
    BY <1>5, <1>6, <2>1, <2>2
  <2>4. Same(A, B, a, e, c, f)
    BY <2>3, SameJoin
  <2> QED
    BY <2>1, <2>2, <2>4
<1> QED
  BY <1>1, <1>2, <1>7 DEF PairAt

\* Two leaves agree.
LEMMA AgreeLeaves ==
  ASSUME NEW A, NEW la, NEW ta \in Nat, IsTree(A, la, ta), NEW ea, IsEnds(la, ta, ea),
         NEW B, NEW lb, NEW tb \in Nat, IsTree(B, lb, tb), NEW eb, IsEnds(lb, tb, eb)
  PROVE  Agree(A, B, la, lb, ea, eb, 0, 0)
<1>1. la[0] = A /\ lb[0] = B
  BY DEF IsTree
<1> SUFFICES ASSUME NEW i \in 1 .. Len(la[0]), NEW j \in 1 .. Len(lb[0]),
                    la[0][i].hash = lb[0][j].hash
             PROVE  Same(A, B, ea[0][i - 1], ea[0][i], eb[0][j - 1], eb[0][j])
  BY DEF Agree
<1>2. Len(la[0]) \in Nat /\ Len(lb[0]) \in Nat
  <2>1. 0 \in 0 .. ta /\ 0 \in 0 .. tb
    OBVIOUS
  <2>2. IsSeq(la[0]) /\ IsSeq(lb[0])
    BY <2>1 DEF IsTree
  <2> QED
    BY <2>2 DEF IsSeq
<1>3. /\ i \in 0 .. Len(la[0]) /\ i - 1 \in 0 .. Len(la[0])
      /\ j \in 0 .. Len(lb[0]) /\ j - 1 \in 0 .. Len(lb[0])
  BY <1>2
<1>4. ea[0][i - 1] = i - 1 /\ ea[0][i] = i /\ eb[0][j - 1] = j - 1 /\ eb[0][j] = j
  BY <1>3 DEF IsEnds
<1>5. i - (i - 1) = 1 /\ j - (j - 1) = 1 /\ (i - 1) + 1 = i /\ (j - 1) + 1 = j
  BY <1>2
<1>6. \A k \in 1 .. 1 : A[(i - 1) + k].hash = B[(j - 1) + k].hash
  BY <1>1, <1>5
<1> QED
  BY <1>4, <1>5, <1>6 DEF Same

LEMMA NodesAgree ==
  ASSUME NEW A, NEW la, NEW ta \in Nat, IsTree(A, la, ta), NEW ea, IsEnds(la, ta, ea),
         NEW B, NEW lb, NEW tb \in Nat, IsTree(B, lb, tb), NEW eb, IsEnds(lb, tb, eb),
         \A i \in 1 .. Len(A) : Leafy(A[i]), \A i \in 1 .. Len(B) : Leafy(B[i])
  PROVE  \A h \in 0 .. ta, g \in 0 .. tb : Agree(A, B, la, lb, ea, eb, h, g)
<1> DEFINE Ag(h, g) == Agree(A, B, la, lb, ea, eb, h, g)
           Up == {n \in Nat : \A h \in 0 .. ta, g \in 0 .. tb : h + g <= n => Ag(h, g)}
<1>1. la[0] = A /\ lb[0] = B
  BY DEF IsTree
<1>2. Ag(0, 0)
  BY AgreeLeaves
<1>3. ASSUME NEW n \in Nat, n \in Up, NEW h \in 0 .. ta, NEW g \in 0 .. tb, h + g <= n + 1
      PROVE  Ag(h, g)
  <2>0. /\ h > 0 => h \in 1 .. ta /\ h - 1 \in 0 .. ta /\ (h - 1) + g <= n
        /\ g > 0 => g \in 1 .. tb /\ g - 1 \in 0 .. tb /\ h + (g - 1) <= n
        /\ h > 0 /\ g > 0 => (h - 1) + (g - 1) <= n
        /\ h \in Nat /\ g \in Nat
    BY <1>3
  <2>a. \A x \in 0 .. ta, y \in 0 .. tb : x + y <= n => Ag(x, y)
    BY <1>3
  <2> SUFFICES ASSUME NEW i \in 1 .. Len(la[h]), NEW j \in 1 .. Len(lb[g]),
                      la[h][i].hash = lb[g][j].hash
               PROVE  Same(A, B, ea[h][i - 1], ea[h][i], eb[g][j - 1], eb[g][j])
    BY DEF Agree
  <2>1. CASE h > 0 /\ Promoted(la, h, i)
    <3>1. Agree(A, B, la, lb, ea, eb, h - 1, g)
      BY <2>0, <2>1, <2>a
    <3> QED
      BY <2>0, <2>1, <3>1, AgreePromoted
  <2>2. CASE g > 0 /\ Promoted(lb, g, j)
    <3>1. Agree(A, B, la, lb, ea, eb, h, g - 1)
      BY <2>0, <2>2, <2>a
    <3> QED
      BY <2>0, <2>2, <3>1, AgreePromotedOther
  <2>3. CASE h > 0 /\ g > 0 /\ Combined(la, h, i) /\ Combined(lb, g, j)
    <3>1. Agree(A, B, la, lb, ea, eb, h - 1, g - 1)
      BY <2>0, <2>3, <2>a
    <3> QED
      BY <2>0, <2>3, <3>1, AgreeCombined
  <2>4. CASE h > 0 /\ Combined(la, h, i) /\ g = 0
    <3>1. la[h][i].hash[1] = "node"
      <4>1. PairAt(la, ea, h, i)
        BY <2>0, <2>4, CombinedNode
      <4> QED
        BY <4>1 DEF PairAt
    <3>2. Leafy(lb[0][j])
      BY <1>1, <2>4
    <3>3. lb[0][j].hash[1] # "node"
      BY <3>2, LeafyTag
    <3> QED
      BY <2>4, <3>1, <3>3
  <2>5. CASE g > 0 /\ Combined(lb, g, j) /\ h = 0
    <3>1. lb[g][j].hash[1] = "node"
      <4>1. PairAt(lb, eb, g, j)
        BY <2>0, <2>5, CombinedNode
      <4> QED
        BY <4>1 DEF PairAt
    <3>2. Leafy(la[0][i])
      BY <1>1, <2>5
    <3>3. la[0][i].hash[1] # "node"
      BY <3>2, LeafyTag
    <3> QED
      BY <2>5, <3>1, <3>3
  <2>6. h > 0 => Combined(la, h, i) \/ Promoted(la, h, i)
    BY <2>0, Below
  <2>7. g > 0 => Combined(lb, g, j) \/ Promoted(lb, g, j)
    BY <2>0, Below
  <2>8. CASE h = 0 /\ g = 0
    BY <1>2, <2>8 DEF Agree
  <2>9. (h > 0 \/ h = 0) /\ (g > 0 \/ g = 0)
    BY <2>0
  <2> QED
    BY <2>1, <2>2, <2>3, <2>4, <2>5, <2>6, <2>7, <2>8, <2>9
<1>4. 0 \in Up
  <2>1. \A h \in 0 .. ta, g \in 0 .. tb : h + g <= 0 => h = 0 /\ g = 0
    OBVIOUS
  <2> HIDE DEF Ag
  <2> QED
    BY <1>2, <2>1
<1>5. \A n \in Nat : n \in Up => n + 1 \in Up
  <2> SUFFICES ASSUME NEW n \in Nat, n \in Up
               PROVE  n + 1 \in Up
    OBVIOUS
  <2>1. \A h \in 0 .. ta, g \in 0 .. tb : h + g <= n + 1 => Ag(h, g)
    BY <1>3
  <2> HIDE DEF Ag
  <2> QED
    BY <2>1
<1>6. ta + tb \in Up
  <2>1. ta + tb \in Nat
    OBVIOUS
  <2> HIDE DEF Up
  <2> QED
    BY <1>4, <1>5, <2>1, AllNaturals
<1>7. \A h \in 0 .. ta, g \in 0 .. tb : h + g <= ta + tb
  OBVIOUS
<1> QED
  <2> HIDE DEF Ag
  <2>1. \A h \in 0 .. ta, g \in 0 .. tb : Ag(h, g)
    BY <1>6, <1>7
  <2> QED
    BY <2>1 DEF Ag

\* A root determines the leaves, how many they are and their order, whatever was
\* promoted on the way (SumTree::build, leaf_hash).
THEOREM RootPins ==
  ASSUME NEW A, IsSeq(A), Len(A) >= 1, \A i \in 1 .. Len(A) : Leafy(A[i]),
         NEW B, IsSeq(B), Len(B) >= 1, \A i \in 1 .. Len(B) : Leafy(B[i]),
         Root(A).hash = Root(B).hash
  PROVE  A = B
<1>1. PICK ta \in Nat : \E la : IsTree(A, la, ta) /\ Root(A) = la[ta][1]
  BY TreeOver
<1>2. PICK la : IsTree(A, la, ta) /\ Root(A) = la[ta][1]
  BY <1>1
<1>3. PICK tb \in Nat : \E lb : IsTree(B, lb, tb) /\ Root(B) = lb[tb][1]
  BY TreeOver
<1>4. PICK lb : IsTree(B, lb, tb) /\ Root(B) = lb[tb][1]
  BY <1>3
<1>5. PICK ea : IsEnds(la, ta, ea)
  BY EndsExist
<1>6. PICK eb : IsEnds(lb, tb, eb)
  BY EndsExist
<1>7. /\ Len(la[ta]) = 1 /\ Len(lb[tb]) = 1 /\ ta \in 0 .. ta /\ tb \in 0 .. tb
      /\ 1 \in 1 .. 1 /\ 1 - 1 = 0
  BY <1>2, <1>4 DEF IsTree
<1>8. Agree(A, B, la, lb, ea, eb, ta, tb)
  BY <1>2, <1>4, <1>5, <1>6, <1>7, NodesAgree
<1>9. Same(A, B, ea[ta][0], ea[ta][1], eb[tb][0], eb[tb][1])
  BY <1>2, <1>4, <1>7, <1>8 DEF Agree
<1>10. /\ ea[ta][0] = 0 /\ ea[ta][1] = Len(A) /\ eb[tb][0] = 0 /\ eb[tb][1] = Len(B)
  <2>1. ea[ta][0] = 0 /\ ea[ta][Len(la[ta])] = Len(A)
    <3>1. IsTree(A, la, ta) /\ IsEnds(la, ta, ea) /\ ta \in 0 .. ta
      BY <1>2, <1>5, <1>7
    <3> QED
      BY <3>1, EndsAre
  <2>2. eb[tb][0] = 0 /\ eb[tb][Len(lb[tb])] = Len(B)
    <3>1. IsTree(B, lb, tb) /\ IsEnds(lb, tb, eb) /\ tb \in 0 .. tb
      BY <1>4, <1>6, <1>7
    <3> QED
      BY <3>1, EndsAre
  <2> QED
    BY <1>7, <2>1, <2>2
<1>11. Same(A, B, 0, Len(A), 0, Len(B))
  BY <1>7, <1>9, <1>10
<1>12. Len(A) \in Nat /\ Len(B) \in Nat
  BY DEF IsSeq
<1>13. Len(A) = Len(B) /\ \A k \in 1 .. Len(A) : A[k].hash = B[k].hash
  BY <1>11, <1>12 DEF Same
<1>14. \A k \in 1 .. Len(A) : A[k] = B[k]
  BY <1>13, LeafyPins
<1> QED
  BY <1>13, <1>14 DEF IsSeq

-----------------------------------------------------------------------------
\* What it is that a digest and a signature are of.

\* A report as publish makes it, whatever its fields have become.
IsReport(r) ==
  r = [format_version |-> r.format_version, profile |-> r.profile, publisher |-> r.publisher,
       snapshot_time |-> r.snapshot_time, ledger_offset |-> r.ledger_offset,
       root_hash |-> r.root_hash, leaf_count |-> r.leaf_count, root_sums |-> r.root_sums,
       mark_prices |-> r.mark_prices, bad_debt |-> r.bad_debt,
       house_accounts |-> r.house_accounts, house_totals |-> r.house_totals,
       manifest |-> r.manifest]

\* Reports of one digest are one report, up to what v1 leaves out.
LEMMA DigestPins ==
  ASSUME NEW r, NEW s, IsReport(r), IsReport(s), report_digest(r) = report_digest(s),
         r.format_version # "report-v2" => r.manifest = s.manifest
  PROVE  r = s
<1> DEFINE Bare(x) == [x EXCEPT !.manifest = <<>>]
<1>1. CASE r.format_version = "report-v2"
  <2>1. report_digest(r)[1] = "report-v2" /\ report_digest(r)[2] = r
    BY <1>1 DEF report_digest
  <2>2. s.format_version = "report-v2" \/ report_digest(s)[1] = "report-v1"
    BY DEF report_digest
  <2>3. s.format_version = "report-v2"
    BY <2>1, <2>2
  <2>4. report_digest(s)[2] = s
    BY <2>3 DEF report_digest
  <2> QED
    BY <2>1, <2>4
<1>2. CASE r.format_version # "report-v2"
  <2>1. report_digest(r)[1] = "report-v1" /\ report_digest(r)[2] = Bare(r)
    BY <1>2 DEF report_digest
  <2>2. s.format_version # "report-v2" \/ report_digest(s)[1] = "report-v2"
    BY DEF report_digest
  <2>3. s.format_version # "report-v2"
    BY <2>1, <2>2
  <2>4. report_digest(s)[2] = Bare(s)
    BY <2>3 DEF report_digest
  <2>5. Bare(r) = Bare(s) /\ r.manifest = s.manifest
    BY <1>2, <2>1, <2>4
  <2>6. /\ Bare(r).format_version = r.format_version /\ Bare(r).profile = r.profile
        /\ Bare(r).publisher = r.publisher /\ Bare(r).snapshot_time = r.snapshot_time
        /\ Bare(r).ledger_offset = r.ledger_offset /\ Bare(r).root_hash = r.root_hash
        /\ Bare(r).leaf_count = r.leaf_count /\ Bare(r).root_sums = r.root_sums
        /\ Bare(r).mark_prices = r.mark_prices /\ Bare(r).bad_debt = r.bad_debt
        /\ Bare(r).house_accounts = r.house_accounts /\ Bare(r).house_totals = r.house_totals
    BY DEF IsReport
  <2>7. /\ Bare(s).format_version = s.format_version /\ Bare(s).profile = s.profile
        /\ Bare(s).publisher = s.publisher /\ Bare(s).snapshot_time = s.snapshot_time
        /\ Bare(s).ledger_offset = s.ledger_offset /\ Bare(s).root_hash = s.root_hash
        /\ Bare(s).leaf_count = s.leaf_count /\ Bare(s).root_sums = s.root_sums
        /\ Bare(s).mark_prices = s.mark_prices /\ Bare(s).bad_debt = s.bad_debt
        /\ Bare(s).house_accounts = s.house_accounts /\ Bare(s).house_totals = s.house_totals
    BY DEF IsReport
  <2> HIDE DEF Bare
  <2> QED
    BY <2>5, <2>6, <2>7 DEF IsReport
<1> QED
  BY <1>1, <1>2

LEMMA SignatureHolds ==
  ASSUME NEW digest, NEW signature, NEW trusted,
         check_signature(digest, signature, trusted) = "Ok"
  PROVE  signature.public_key = trusted /\ signature.value = <<trusted, digest>>
<1> DEFINE known == Expect(signature.public_key = trusted, "UnknownSigner")
           genuine == verify_signature(trusted, digest, signature.value)
<1>1. known = "Ok" /\ genuine = "Ok"
  <2>1. InOrder(<<known, genuine>>) = "Ok"
    BY DEF check_signature
  <2> HIDE DEF known, genuine
  <2> QED
    BY <2>1, AllTwoHold
<1>2. Expect(signature.value = sign_digest(trusted, digest), "BadSignature") = "Ok"
  BY <1>1, AllHold DEF verify_signature
<1> QED
  BY <1>1, <1>2 DEF Expect, sign_digest

\* A proof that verifies names the report, which the trusted key signed, and
\* folds to its root, whose totals the report's are.
Proves(signed, leaf, steps, expected, trusted) ==
  /\ report_digest(signed.report) = expected
  /\ signed.signature.public_key = trusted
  /\ signed.signature.value = <<trusted, report_digest(signed.report)>>
  /\ fold(leaf, steps).hash = signed.report.root_hash
  /\ SameTotals(fold(leaf, steps).sums, signed.report.root_sums)

LEMMA AgainstReport ==
  ASSUME NEW signed, NEW leaf, NEW steps, NEW expected, NEW trusted,
         verify_against_report(signed, leaf, steps, expected, trusted) = "Ok"
  PROVE  Proves(signed, leaf, steps, expected, trusted)
<1> DEFINE folded == fold(leaf, steps)
           digest == report_digest(signed.report)
           bound == Expect(digest = expected, "DigestMismatch")
           genuine == check_signature(digest, signed.signature, trusted)
           hex == Expect(\A i \in DOMAIN steps : steps[i].sibling.hash # <<>>, "Malformed")
           root == hash32(signed.report.root_hash)
           fits == Expect(~Overflows(folded), "Malformed")
           reached == Expect(folded.hash = signed.report.root_hash, "RootHashMismatch")
           total == Expect(SameTotals(folded.sums, signed.report.root_sums), "RootSumsMismatch")
<1>1. bound = "Ok" /\ genuine = "Ok" /\ reached = "Ok" /\ total = "Ok"
  <2>1. InOrder(<<bound, genuine, hex, root, fits, reached, total>>) = "Ok"
    BY DEF verify_against_report
  <2> HIDE DEF bound, genuine, hex, root, fits, reached, total
  <2> QED
    BY <2>1, AllSevenHold
<1>2. signed.signature.public_key = trusted /\ signed.signature.value = <<trusted, digest>>
  <2>1. genuine = "Ok"
    BY <1>1
  <2> HIDE DEF digest
  <2> QED
    BY <2>1, SignatureHolds
<1>3. digest = expected /\ folded.hash = signed.report.root_hash
      /\ SameTotals(folded.sums, signed.report.root_sums)
  <2> HIDE DEF digest, folded
  <2> QED
    BY <1>1 DEF Expect
<1> QED
  BY <1>2, <1>3 DEF Proves

\* What verify has seen when it accepts (verify.rs verify).
LEMMA VerifyHolds ==
  ASSUME NEW signed, NEW shown, NEW trusted, verify(signed, shown, trusted) = "Ok"
  PROVE  /\ check_report_version_and_manifest(signed.report) = "Ok"
         /\ shown.format_version = "proof-v1"
         /\ Proves(signed, leaf_node(shown.leaf), shown.steps, shown.report_digest, trusted)
<1> DEFINE version == check_report_version_and_manifest(signed.report)
           kind == expect_leaf_kind(signed.report, "Customer")
           format == expect_version(shown.format_version, "proof-v1")
           algorithm == expect_version(signed.signature.algorithm, "ed25519")
           salt == hash32(shown.leaf.salt)
           against == verify_against_report(signed, leaf_node(shown.leaf), shown.steps,
                                            shown.report_digest, trusted)
<1>1. version = "Ok" /\ format = "Ok" /\ against = "Ok"
  <2>1. InOrder(<<version, kind, format, algorithm, salt, against>>) = "Ok"
    BY DEF verify
  <2> HIDE DEF version, kind, format, algorithm, salt, against
  <2> QED
    BY <2>1, AllSixHold
<1>2. shown.format_version = "proof-v1"
  BY <1>1 DEF expect_version, Expect
<1>3. Proves(signed, leaf_node(shown.leaf), shown.steps, shown.report_digest, trusted)
  BY <1>1, AgainstReport
<1> QED
  BY <1>1, <1>2, <1>3

\* What verify_v2 has seen when it accepts (verify.rs verify_v2).
LEMMA VerifyV2Holds ==
  ASSUME NEW signed, NEW shown, NEW trusted, verify_v2(signed, shown, trusted) = "Ok"
  PROVE  /\ check_report_version_and_manifest(signed.report) = "Ok"
         /\ shown.format_version = "proof-v2"
         /\ Proves(signed, leaf_node_v2(shown.leaf), shown.steps, shown.report_digest, trusted)
<1> DEFINE version == check_report_version_and_manifest(signed.report)
           kind == expect_leaf_v2(signed.report)
           format == expect_version(shown.format_version, "proof-v2")
           algorithm == expect_version(signed.signature.algorithm, "ed25519")
           carries == Expect(/\ signed.report.profile \in DOMAIN REGISTRY
                             /\ \A map \in REGISTRY[signed.report.profile].required_leaf_maps :
                                  LeafCarries(shown.leaf, map), "Profile")
           salt == hash32(shown.leaf.salt)
           against == verify_against_report(signed, leaf_node_v2(shown.leaf), shown.steps,
                                            shown.report_digest, trusted)
<1>1. version = "Ok" /\ format = "Ok" /\ against = "Ok"
  <2>1. InOrder(<<version, kind, format, algorithm, carries, salt, against>>) = "Ok"
    BY DEF verify_v2
  <2> HIDE DEF version, kind, format, algorithm, carries, salt, against
  <2> QED
    BY <2>1, AllSevenHold
<1>2. shown.format_version = "proof-v2"
  BY <1>1 DEF expect_version, Expect
<1>3. Proves(signed, leaf_node_v2(shown.leaf), shown.steps, shown.report_digest, trusted)
  BY <1>1, AgainstReport
<1> QED
  BY <1>1, <1>2, <1>3

\* What verify_membership has seen when it accepts (group.rs verify_membership).
LEMMA MembershipHolds ==
  ASSUME NEW signed, NEW shown, NEW trusted, verify_membership(signed, shown, trusted) = "Ok"
  PROVE  Proves(signed, entity_leaf_node(shown.entity), shown.steps,
                shown.group_report_digest, trusted)
<1> DEFINE format == expect_version(shown.format_version, "membership-v1")
           kind == expect_leaf_kind(signed.report, "Entity")
           hex == hash32(shown.entity.root_hash)
           against == verify_against_report(signed, entity_leaf_node(shown.entity), shown.steps,
                                            shown.group_report_digest, trusted)
<1>1. against = "Ok"
  <2>1. InOrder(<<format, kind, hex, against>>) = "Ok"
    BY DEF verify_membership
  <2> HIDE DEF format, kind, hex, against
  <2> QED
    BY <2>1, AllFourHold
<1> QED
  BY <1>1, AgainstReport

\* What verify_chain has seen when it accepts (group.rs verify_chain).
LEMMA ChainHolds ==
  ASSUME NEW signed, NEW shown, NEW book, NEW shown2, NEW trusted, NEW trusted2,
         verify_chain(signed, shown, book, shown2, trusted, trusted2) = "Ok"
  PROVE  /\ verify(book, shown2, trusted2) = "Ok"
         /\ verify_membership(signed, shown, trusted) = "Ok"
         /\ shown.entity.root_hash = book.report.root_hash
         /\ SameTotals(shown.entity.root_sums, book.report.root_sums)
<1> DEFINE low == verify(book, shown2, trusted2)
           high == verify_membership(signed, shown, trusted)
           root == Expect(shown.entity.root_hash = book.report.root_hash, "EntityRootMismatch")
           total == Expect(SameTotals(shown.entity.root_sums, book.report.root_sums),
                           "EntitySumsMismatch")
<1>1. low = "Ok" /\ high = "Ok" /\ root = "Ok" /\ total = "Ok"
  <2>1. InOrder(<<low, high, root, total>>) = "Ok"
    BY DEF verify_chain
  <2> HIDE DEF low, high, root, total
  <2> QED
    BY <2>1, AllFourHold
<1> QED
  BY <1>1 DEF Expect

\* What verify_coverage has seen when it accepts (coverage.rs verify_coverage).
LEMMA CoverageHolds ==
  ASSUME NEW held, NEW owed, NEW statement, NEW trusted, NEW trusted2, NEW tolerance,
         verify_coverage(held, owed, statement, trusted, trusted2, tolerance) = "Ok"
  PROVE  /\ held.report.profile = "coverage.custody"
         /\ owed.report.profile = "solvency.liabilities"
         /\ parses(held.report.snapshot_time) /\ parses(owed.report.snapshot_time)
         /\ skew(held.report.snapshot_time, owed.report.snapshot_time) <= tolerance
<1> DEFINE parsed == parses(held.report.snapshot_time) /\ parses(owed.report.snapshot_time)
           c1 == expect_version(statement.format_version, "coverage-v1")
           c2 == Expect(held.report.profile = "coverage.custody", "Profile")
           c3 == Expect(owed.report.profile = "solvency.liabilities", "Profile")
           c4 == Expect(report_digest(held.report) = statement.custody_report_digest,
                        "DigestMismatch")
           c5 == Expect(report_digest(owed.report) = statement.liabilities_report_digest,
                        "DigestMismatch")
           c6 == check_signature(report_digest(held.report), held.signature, trusted)
           c7 == check_signature(report_digest(owed.report), owed.signature, trusted2)
           c8 == Expect(parsed, "Malformed")
           c9 == Expect(parsed => skew(held.report.snapshot_time, owed.report.snapshot_time)
                                    <= tolerance, "TemporalMismatch")
<1>1. c2 = "Ok" /\ c3 = "Ok" /\ c8 = "Ok" /\ c9 = "Ok"
  <2>1. InOrder(<<c1, c2, c3, c4, c5, c6, c7, c8, c9>>) = "Ok"
    BY DEF verify_coverage
  <2> HIDE DEF c1, c2, c3, c4, c5, c6, c7, c8, c9
  <2> QED
    BY <2>1, AllNineHold
<1>2. parsed
  <2> HIDE DEF parsed
  <2> QED
    BY <1>1 DEF Expect
<1> QED
  BY <1>1, <1>2 DEF Expect

\* What verify_assurance has seen when it accepts (assurance.rs verify_assurance).
LEMMA AssuranceHolds ==
  ASSUME NEW signed, NEW statement, NEW evidence, NEW trusted,
         verify_assurance(signed, statement, evidence, trusted) = "Ok"
  PROVE  /\ statement.report_digest = report_digest(signed.report)
         /\ signed.signature.public_key = trusted.publisher
         /\ \A field \in DOMAIN statement.levels :
              statement.levels[field] \in establish(signed, evidence, trusted, field)
<1> DEFINE c1 == expect_version(statement.format_version, "assurance-v1")
           c2 == Expect(statement.report_digest = report_digest(signed.report), "DigestMismatch")
           c3 == Expect(signed.signature.public_key = trusted.publisher, "UnknownSigner")
           c4 == Expect(verify_signature(trusted.publisher, report_digest(signed.report),
                                         signed.signature.value) = "Ok", "BadSignature")
           c5 == Expect(DOMAIN statement.levels \subseteq REPORT_RESIDENT_FIELDS, "Malformed")
           c6 == Expect(\A field \in DOMAIN statement.levels \cap REPORT_RESIDENT_FIELDS :
                          statement.levels[field] \in establish(signed, evidence, trusted, field),
                        "OverClaimed")
<1>1. c2 = "Ok" /\ c3 = "Ok" /\ c5 = "Ok" /\ c6 = "Ok"
  <2>1. InOrder(<<c1, c2, c3, c4, c5, c6>>) = "Ok"
    BY DEF verify_assurance
  <2> HIDE DEF c1, c2, c3, c4, c5, c6
  <2> QED
    BY <2>1, AllSixHold
<1>2. DOMAIN statement.levels \subseteq REPORT_RESIDENT_FIELDS
  BY <1>1 DEF Expect
<1>3. \A field \in DOMAIN statement.levels \cap REPORT_RESIDENT_FIELDS :
        statement.levels[field] \in establish(signed, evidence, trusted, field)
  BY <1>1 DEF Expect
<1> QED
  BY <1>1, <1>2, <1>3 DEF Expect

\* What each level rests on (assurance.rs establish).
LEMMA LevelsRestOn ==
  ASSUME NEW signed, NEW evidence, NEW trusted, NEW field,
         NEW level \in establish(signed, evidence, trusted, field)
  PROVE  /\ level = "not-disclosed" => withheld(signed.report, field)
         /\ level = "cryptographically-verified" =>
              /\ field = "root_sums"
              /\ \E p \in Range(evidence.proof) : verify(signed, p, trusted.publisher) = "Ok"
         /\ level = "ledger-derived" =>
              /\ \E a \in Range(evidence.anchor) : anchors(signed.report, a)
              /\ \E g \in Range(evidence.provenance) : derives_from_ledger(g, field)
         /\ level \in {"issuer-attested", "third-party-attested"} =>
              \E a \in evidence.attestations :
                Attests(a, signed.report, field, trusted) /\ level = AttestedLevel(a.attestation.role)
<1> DEFINE of == {AttestedLevel(a.attestation.role) :
                    a \in {b \in evidence.attestations : Attests(b, signed.report, field, trusted)}}
           recomputed == field = "root_sums" /\ \E p \in Range(evidence.proof) :
                                                 verify(signed, p, trusted.publisher) = "Ok"
           derived == /\ \E a \in Range(evidence.anchor) : anchors(signed.report, a)
                      /\ \E g \in Range(evidence.provenance) : derives_from_ledger(g, field)
           bound == withheld(signed.report, field)
<1>1. level \in IF bound THEN {"not-disclosed"}
               ELSE {"claimed-only"}
                    \cup (IF recomputed THEN {"cryptographically-verified"} ELSE {})
                    \cup (IF derived THEN {"ledger-derived"} ELSE {})
                    \cup of
  BY DEF establish
<1>2. \A x \in of : x \in {"issuer-attested", "third-party-attested"}
  BY DEF AttestedLevel
<1>3. level \in of => \E a \in evidence.attestations :
        Attests(a, signed.report, field, trusted) /\ level = AttestedLevel(a.attestation.role)
  OBVIOUS
<1> HIDE DEF of, recomputed, derived, bound
<1>4. /\ level = "not-disclosed" => bound
      /\ level = "cryptographically-verified" => recomputed
      /\ level = "ledger-derived" => derived
      /\ level \in {"issuer-attested", "third-party-attested"} => level \in of
  BY <1>1, <1>2
<1> QED
  BY <1>3, <1>4 DEF recomputed, derived, bound

-----------------------------------------------------------------------------
\* The steps of a proof are a sequence.

LEMMA JoinIsSeq ==
  ASSUME NEW s, NEW t, IsSeq(s), IsSeq(t)
  PROVE  IsSeq(s \o t)
<1> DEFINE S == {s[i] : i \in 1 .. Len(s)} \cup {t[i] : i \in 1 .. Len(t)}
<1>1. (\A i \in 1 .. Len(s) : s[i] \in S) /\ \A i \in 1 .. Len(t) : t[i] \in S
  OBVIOUS
<1> HIDE DEF S
<1>2. [i \in 1 .. Len(s) |-> s[i]] \in Seq(S) /\ [i \in 1 .. Len(t) |-> t[i]] \in Seq(S)
  BY <1>1, IsASeq DEF IsSeq
<1>3. s \in Seq(S) /\ t \in Seq(S)
  BY <1>2 DEF IsSeq
<1>4. s \o t \in Seq(S)
  BY <1>3, ConcatProperties
<1> QED
  BY <1>4, SeqIs

LEMMA StepIsSeq == ASSUME NEW level, NEW idx PROVE IsSeq(StepAt(level, idx))
<1> DEFINE left == idx % 2 = 0
           sibling == IF left THEN idx - 1 ELSE idx + 1
           step == [sibling |-> level[sibling], on_left |-> left]
<1>1. StepAt(level, idx) = <<>> \/ StepAt(level, idx) = <<step>>
  BY DEF StepAt
<1> HIDE DEF step
<1> QED
  BY <1>1, NoneIsSeq, OneIsSeq

\* The turns of prove: where the walk is at each height, and the steps so far.
IsWalk(nodes, i, idx, steps) ==
  LET levels == Levels(nodes) IN
  /\ Len(levels) \in Nat
  /\ idx[0] = i
  /\ \A n \in 1 .. Len(levels) : idx[n] = (idx[n - 1] + 1) \div 2
  /\ \A n \in 0 .. Len(levels) :
       steps[n] = IF n <= 1 THEN <<>> ELSE steps[n - 1] \o StepAt(levels[n - 1], idx[n - 2])
  /\ prove(nodes, i) = steps[Len(levels)]

LEMMA ProveIs ==
  ASSUME NEW nodes, IsSeq(nodes), Len(nodes) >= 1, NEW i
  PROVE  \E idx : \E steps : IsWalk(nodes, i, idx, steps)
<1> DEFINE levels == Levels(nodes)
           IsIdx(k, f) == f = [n \in 0 .. k |-> IF n = 0 THEN i ELSE (f[n - 1] + 1) \div 2]
           Indexed == {k \in Nat : \E f : IsIdx(k, f)}
           idx == CHOOSE f : IsIdx(Len(levels), f)
           Step(n) == StepAt(levels[n - 1], idx[n - 2])
           IsSteps(k, f) == f = [n \in 0 .. k |-> IF n <= 1 THEN <<>> ELSE f[n - 1] \o Step(n)]
           Given == {k \in Nat : \E f : IsSteps(k, f)}
           steps == CHOOSE f : IsSteps(Len(levels), f)
<1>1. Len(levels) \in Nat
  <2>1. Len(nodes) \in Nat
    BY DEF IsSeq
  <2>2. Height(Len(nodes)) \in Nat
    BY <2>1, HeightIs
  <2>3. levels = [n \in 1 .. (Height(Len(nodes)) + 1) |-> levels[n]]
    BY DEF Levels
  <2> HIDE DEF levels
  <2> QED
    BY <2>2, <2>3, FunctionIsSeq
<1>2. prove(nodes, i) = steps[Len(levels)]
  BY DEF prove
<1> HIDE DEF Step
<1>3. 0 \in Indexed /\ 0 \in Given
  <2>1. IsIdx(0, [n \in 0 .. 0 |-> i]) /\ IsSteps(0, [n \in 0 .. 0 |-> <<>>])
    OBVIOUS
  <2> HIDE DEF IsIdx, IsSteps
  <2> QED
    BY <2>1
<1>4. ASSUME NEW k \in Nat, k \in Indexed
      PROVE  k + 1 \in Indexed
  <2>1. PICK f : IsIdx(k, f)
    BY <1>4
  <2> DEFINE v == [n \in 0 .. (k + 1) |-> IF n <= k THEN f[n] ELSE (f[k] + 1) \div 2]
  <2>2. v = [n \in 0 .. (k + 1) |-> v[n]]
    OBVIOUS
  <2>3. \A n \in 0 .. (k + 1) : v[n] = IF n = 0 THEN i ELSE (v[n - 1] + 1) \div 2
    BY <2>1
  <2>4. IsIdx(k + 1, v)
    <3> HIDE DEF v
    <3> QED
      BY <2>2, <2>3
  <2> HIDE DEF v, IsIdx
  <2> QED
    BY <2>4
<1>5. ASSUME NEW k \in Nat, k \in Given
      PROVE  k + 1 \in Given
  <2>1. PICK f : IsSteps(k, f)
    BY <1>5
  <2> DEFINE v == [n \in 0 .. (k + 1) |-> IF n <= k THEN f[n]
                                          ELSE IF n <= 1 THEN <<>> ELSE f[k] \o Step(k + 1)]
  <2>2. v = [n \in 0 .. (k + 1) |-> v[n]]
    OBVIOUS
  <2>3. ASSUME NEW n \in 0 .. (k + 1)
        PROVE  v[n] = IF n <= 1 THEN <<>> ELSE v[n - 1] \o Step(n)
    <3>1. CASE n <= k
      <4>1. n \in 0 .. k /\ (n > 1 => n - 1 \in 0 .. k)
        BY <3>1
      <4>2. f[n] = IF n <= 1 THEN <<>> ELSE f[n - 1] \o Step(n)
        BY <2>1, <4>1
      <4>3. v[n] = f[n] /\ (n > 1 => v[n - 1] = f[n - 1])
        BY <3>1, <4>1
      <4> HIDE DEF v
      <4> QED
        BY <4>2, <4>3
    <3>2. CASE n = k + 1
      <4>1. v[k + 1] = IF k + 1 <= 1 THEN <<>> ELSE f[k] \o Step(k + 1)
        OBVIOUS
      <4>2. v[(k + 1) - 1] = f[k]
        OBVIOUS
      <4> HIDE DEF v
      <4> QED
        BY <3>2, <4>1, <4>2
    <3> QED
      BY <3>1, <3>2
  <2>4. IsSteps(k + 1, v)
    <3> HIDE DEF v
    <3> QED
      BY <2>2, <2>3
  <2> HIDE DEF v, IsSteps
  <2> QED
    BY <2>4
<1>6. Len(levels) \in Indexed /\ Len(levels) \in Given
  <2> HIDE DEF Indexed, Given, levels
  <2> QED
    BY <1>1, <1>3, <1>4, <1>5, AllNaturals
<1>7. IsIdx(Len(levels), idx) /\ IsSteps(Len(levels), steps)
  <2>1. (\E f : IsIdx(Len(levels), f)) /\ \E f : IsSteps(Len(levels), f)
    BY <1>6
  <2> HIDE DEF IsIdx, IsSteps
  <2> QED
    BY <2>1
<1> HIDE DEF idx, steps, levels
<1>8. idx[0] = i /\ \A n \in 1 .. Len(levels) : idx[n] = (idx[n - 1] + 1) \div 2
  BY <1>1, <1>7
<1>9. \A n \in 0 .. Len(levels) :
        steps[n] = IF n <= 1 THEN <<>> ELSE steps[n - 1] \o StepAt(levels[n - 1], idx[n - 2])
  BY <1>1, <1>7 DEF Step
<1>10. IsWalk(nodes, i, idx, steps)
  BY <1>1, <1>2, <1>8, <1>9 DEF IsWalk, levels
<1> QED
  BY <1>10

LEMMA ProveIsSeq ==
  ASSUME NEW nodes, IsSeq(nodes), Len(nodes) >= 1, NEW i
  PROVE  IsSeq(prove(nodes, i))
<1> DEFINE levels == Levels(nodes)
<1>1. PICK idx : \E steps : IsWalk(nodes, i, idx, steps)
  BY ProveIs
<1>2. PICK steps : IsWalk(nodes, i, idx, steps)
  BY <1>1
<1> DEFINE Good == {n \in Nat : n \in 0 .. Len(levels) => IsSeq(steps[n])}
<1>3. /\ Len(levels) \in Nat
      /\ \A n \in 0 .. Len(levels) :
           steps[n] = IF n <= 1 THEN <<>> ELSE steps[n - 1] \o StepAt(levels[n - 1], idx[n - 2])
      /\ prove(nodes, i) = steps[Len(levels)]
  BY <1>2 DEF IsWalk
<1> HIDE DEF levels
<1>4. 0 \in Good
  BY <1>3, NoneIsSeq
<1>5. ASSUME NEW n \in Nat, n \in Good
      PROVE  n + 1 \in Good
  <2> SUFFICES ASSUME n + 1 \in 0 .. Len(levels)
               PROVE  IsSeq(steps[n + 1])
    OBVIOUS
  <2>1. (n + 1) - 1 = n /\ n \in 0 .. Len(levels)
    BY <1>3
  <2>2. IsSeq(steps[n])
    BY <1>5, <2>1
  <2>3. steps[n + 1] = <<>> \/ steps[n + 1] = steps[n] \o StepAt(levels[n], idx[(n + 1) - 2])
    BY <1>3, <2>1
  <2> QED
    BY <2>2, <2>3, NoneIsSeq, StepIsSeq, JoinIsSeq
<1>6. Len(levels) \in Good
  <2> HIDE DEF Good
  <2> QED
    BY <1>3, <1>4, <1>5, AllNaturals
<1> QED
  BY <1>3, <1>6

-----------------------------------------------------------------------------
\* Every proof that is made folds to the root.

LEMMA JoinNone ==
  ASSUME NEW s, IsSeq(s), NEW x
  PROVE  s \o <<>> = s /\ s \o <<x>> = Append(s, x)
<1> DEFINE S == {s[i] : i \in 1 .. Len(s)} \cup {x}
<1>1. x \in S /\ \A i \in 1 .. Len(s) : s[i] \in S
  OBVIOUS
<1> HIDE DEF S
<1>2. [i \in 1 .. Len(s) |-> s[i]] \in Seq(S)
  BY <1>1, IsASeq DEF IsSeq
<1>3. s \in Seq(S)
  BY <1>2 DEF IsSeq
<1> QED
  BY <1>1, <1>3

\* One step more.
StepOn(node, step) ==
  IF step.on_left THEN combine(step.sibling, node) ELSE combine(node, step.sibling)

LEMMA FoldNone == ASSUME NEW leaf PROVE fold(leaf, <<>>) = leaf
<1> DEFINE none == <<>>
<1>1. Len(none) = 0 /\ Len(none) \in Nat
  OBVIOUS
<1> HIDE DEF none
<1>2. PICK node : node[0] = leaf /\ fold(leaf, none) = node[Len(none)]
  BY <1>1, FoldIs
<1> QED
  BY <1>1, <1>2 DEF none

LEMMA FoldAppend ==
  ASSUME NEW leaf, NEW s, IsSeq(s), NEW x
  PROVE  fold(leaf, Append(s, x)) = StepOn(fold(leaf, s), x)
<1> DEFINE t == Append(s, x)
<1>1. /\ Len(s) \in Nat /\ Len(t) = Len(s) + 1
      /\ \A i \in 1 .. Len(s) : t[i] = s[i]
      /\ t[Len(s) + 1] = x
  BY AppendIsSeq DEF IsSeq
<1> HIDE DEF t
<1>2. PICK low :
        /\ low[0] = leaf
        /\ \A n \in 1 .. Len(s) : low[n] = StepOn(low[n - 1], s[n])
        /\ fold(leaf, s) = low[Len(s)]
  BY <1>1, FoldIs DEF StepOn
<1>3. PICK high :
        /\ high[0] = leaf
        /\ \A n \in 1 .. Len(t) : high[n] = StepOn(high[n - 1], t[n])
        /\ fold(leaf, t) = high[Len(t)]
  BY <1>1, FoldIs DEF StepOn
<1> DEFINE Alike == {n \in Nat : n \in 0 .. Len(s) => low[n] = high[n]}
<1>4. 0 \in Alike
  BY <1>2, <1>3
<1>5. ASSUME NEW n \in Nat, n \in Alike
      PROVE  n + 1 \in Alike
  <2> SUFFICES ASSUME n + 1 \in 0 .. Len(s)
               PROVE  low[n + 1] = high[n + 1]
    OBVIOUS
  <2>1. /\ n + 1 \in 1 .. Len(s) /\ n + 1 \in 1 .. Len(t) /\ n \in 0 .. Len(s)
        /\ (n + 1) - 1 = n
    BY <1>1
  <2> QED
    BY <1>1, <1>2, <1>3, <1>5, <2>1
<1>6. Len(s) \in Alike
  <2> HIDE DEF Alike
  <2> QED
    BY <1>1, <1>4, <1>5, AllNaturals
<1>7. high[Len(s) + 1] = StepOn(high[Len(s)], x)
  <2>1. Len(s) + 1 \in 1 .. Len(t) /\ (Len(s) + 1) - 1 = Len(s)
    BY <1>1
  <2> QED
    BY <1>1, <1>3, <2>1
<1> QED
  BY <1>1, <1>2, <1>3, <1>6, <1>7 DEF t

\* One turn of prove: the sibling combines with the node to the one above, or there
\* is none and the node is the one above.
LEMMA TurnReaches ==
  ASSUME NEW level, IsSeq(level), Len(level) >= 1, NEW i \in 1 .. Len(level),
         NEW leaf, NEW steps, IsSeq(steps), fold(leaf, steps) = level[i]
  PROVE  LET up == (i + 1) \div 2 IN
         /\ up \in 1 .. Len(LevelAbove(level))
         /\ fold(leaf, steps \o StepAt(level, i)) = LevelAbove(level)[up]
         /\ \A s \in Range(StepAt(level, i)) : \E j \in 1 .. Len(level) : s.sibling = level[j]
<1> DEFINE up == (i + 1) \div 2
           sibling == IF i % 2 = 0 THEN i - 1 ELSE i + 1
           step == [sibling |-> level[sibling], on_left |-> i % 2 = 0]
<1>1. Len(level) \in Nat /\ i \in Nat /\ i >= 1 /\ i <= Len(level)
  BY DEF IsSeq
<1>2. up \in 1 .. Len(LevelAbove(level))
  BY <1>1, LevelAboveIs
<1>3. /\ 2 * up <= Len(level) =>
           LevelAbove(level)[up] = combine(level[2 * up - 1], level[2 * up])
      /\ 2 * up > Len(level) => LevelAbove(level)[up] = level[2 * up - 1]
  BY <1>2, LevelAboveIs
<1>4. \/ i % 2 = 0 /\ i = 2 * up
      \/ i % 2 = 1 /\ i = 2 * up - 1
  BY <1>1
<1>5. StepAt(level, i) = IF sibling > Len(level) THEN <<>> ELSE <<step>>
  BY DEF StepAt
<1>6. CASE i % 2 = 0
  <2>1. i = 2 * up /\ sibling = 2 * up - 1 /\ sibling \in 1 .. Len(level)
    BY <1>1, <1>4, <1>6
  <2>2. step.sibling = level[sibling] /\ step.on_left
    BY <1>6
  <2>3. StepAt(level, i) = <<step>>
    BY <1>1, <1>5, <2>1
  <2> HIDE DEF step
  <2>4. fold(leaf, steps \o <<step>>) = StepOn(level[i], step)
    <3>1. steps \o <<step>> = Append(steps, step)
      BY JoinNone
    <3>2. fold(leaf, Append(steps, step)) = StepOn(fold(leaf, steps), step)
      BY FoldAppend
    <3> QED
      BY <3>1, <3>2
  <2>5. StepOn(level[i], step) = LevelAbove(level)[up]
    BY <1>1, <1>3, <2>1, <2>2 DEF StepOn
  <2>6. \A s \in Range(<<step>>) : s = step
    BY DEF Range
  <2> QED
    BY <1>2, <2>1, <2>2, <2>3, <2>4, <2>5, <2>6
<1>7. CASE i % 2 # 0 /\ i + 1 <= Len(level)
  <2>1. i = 2 * up - 1 /\ sibling = 2 * up /\ sibling \in 1 .. Len(level)
    BY <1>1, <1>4, <1>7
  <2>2. step.sibling = level[sibling] /\ step.on_left = FALSE
    BY <1>7
  <2>3. StepAt(level, i) = <<step>>
    BY <1>1, <1>5, <2>1
  <2> HIDE DEF step
  <2>4. fold(leaf, steps \o <<step>>) = StepOn(level[i], step)
    <3>1. steps \o <<step>> = Append(steps, step)
      BY JoinNone
    <3>2. fold(leaf, Append(steps, step)) = StepOn(fold(leaf, steps), step)
      BY FoldAppend
    <3> QED
      BY <3>1, <3>2
  <2>5. StepOn(level[i], step) = LevelAbove(level)[up]
    <3>1. StepOn(level[i], step) = combine(level[i], level[sibling])
      BY <2>2 DEF StepOn
    <3>2. 2 * up <= Len(level) /\ level[i] = level[2 * up - 1] /\ level[sibling] = level[2 * up]
      BY <1>1, <2>1
    <3> QED
      BY <1>3, <3>1, <3>2
  <2>6. \A s \in Range(<<step>>) : s = step
    BY DEF Range
  <2> QED
    BY <1>2, <2>1, <2>2, <2>3, <2>4, <2>5, <2>6
<1>8. CASE i % 2 # 0 /\ i + 1 > Len(level)
  <2>1. i = 2 * up - 1 /\ sibling > Len(level) /\ 2 * up > Len(level)
    BY <1>1, <1>4, <1>8
  <2>2. StepAt(level, i) = <<>>
    BY <1>5, <2>1
  <2>3. LevelAbove(level)[up] = level[i]
    BY <1>3, <2>1
  <2>4. Range(<<>>) = {}
    BY DEF Range
  <2>5. steps \o <<>> = steps
    BY JoinNone
  <2> QED
    BY <1>2, <2>2, <2>3, <2>4, <2>5
<1> QED
  BY <1>1, <1>6, <1>7, <1>8

LEMMA JoinRange ==
  ASSUME NEW s, NEW t, IsSeq(s), IsSeq(t)
  PROVE  Range(s \o t) \subseteq Range(s) \cup Range(t)
<1> DEFINE S == {s[i] : i \in 1 .. Len(s)}
           T == {t[i] : i \in 1 .. Len(t)}
           U == S \cup T
<1>1. (\A i \in 1 .. Len(s) : s[i] \in U) /\ \A i \in 1 .. Len(t) : t[i] \in U
  OBVIOUS
<1>2. S \subseteq Range(s) /\ T \subseteq Range(t)
  BY DEF IsSeq, Range
<1> HIDE DEF U
<1>3. [i \in 1 .. Len(s) |-> s[i]] \in Seq(U) /\ [i \in 1 .. Len(t) |-> t[i]] \in Seq(U)
  BY <1>1, IsASeq DEF IsSeq
<1>4. s \in Seq(U) /\ t \in Seq(U)
  BY <1>3 DEF IsSeq
<1>5. s \o t \in Seq(U)
  BY <1>4, ConcatProperties
<1>6. \A n \in DOMAIN (s \o t) : (s \o t)[n] \in U
  BY <1>5
<1> QED
  BY <1>2, <1>6 DEF Range, U

\* Hashes of nodes are 32 bytes.
LEMMA HashesGiven ==
  ASSUME NEW nodes, NEW level, NEW top \in Nat, IsTree(nodes, level, top),
         \A i \in 1 .. Len(nodes) : Leafy(nodes[i])
  PROVE  \A h \in 0 .. top : \A i \in 1 .. Len(level[h]) : level[h][i].hash # <<>>
<1> DEFINE Good == {h \in Nat : h \in 0 .. top =>
                     \A i \in 1 .. Len(level[h]) : level[h][i].hash # <<>>}
<1>1. 0 \in Good
  <2>1. \A x : Leafy(x) => x.hash # <<>>
    <3>1. \A x : leaf_node(x).hash # <<>>
      BY DEF leaf_node
    <3>2. \A x : leaf_node_v2(x).hash # <<>>
      BY DEF leaf_node_v2
    <3>3. \A x : entity_leaf_node(x).hash # <<>>
      BY DEF entity_leaf_node
    <3> QED
      BY <3>1, <3>2, <3>3 DEF Leafy
  <2> QED
    BY <2>1 DEF IsTree
<1>2. ASSUME NEW h \in Nat, h \in Good
      PROVE  h + 1 \in Good
  <2> SUFFICES ASSUME h + 1 \in 0 .. top, NEW i \in 1 .. Len(level[h + 1])
               PROVE  level[h + 1][i].hash # <<>>
    OBVIOUS
  <2>1. h + 1 \in 1 .. top /\ h \in 0 .. top /\ (h + 1) - 1 = h
    OBVIOUS
  <2>2. /\ 2 * i - 1 \in 1 .. Len(level[(h + 1) - 1])
        /\ Combined(level, h + 1, i) \/ Promoted(level, h + 1, i)
    BY <2>1, Below
  <2>3. CASE Combined(level, h + 1, i)
    BY <2>3 DEF Combined, combine
  <2>4. CASE Promoted(level, h + 1, i)
    BY <1>2, <2>1, <2>2, <2>4 DEF Promoted
  <2> QED
    BY <2>2, <2>3, <2>4
<1> QED
  <2> HIDE DEF Good
  <2>1. \A h \in Nat : h \in Good
    BY <1>1, <1>2, AllNaturals
  <2> QED
    BY <2>1 DEF Good

\* The proof made for a leaf folds it to the root, through any promotions, and
\* gives no hash that is not one (SumTree::prove with verify.rs fold).
THEOREM ProveFolds ==
  ASSUME NEW nodes, IsSeq(nodes), Len(nodes) >= 1, \A n \in 1 .. Len(nodes) : Leafy(nodes[n]),
         NEW i \in 1 .. Len(nodes)
  PROVE  /\ fold(nodes[i], prove(nodes, i)) = Root(nodes)
         /\ \A s \in Range(prove(nodes, i)) : s.sibling.hash # <<>>
         /\ Root(nodes).hash # <<>>
<1> DEFINE top == Height(Len(nodes))
<1>1. PICK level :
        /\ IsTree(nodes, level, top)
        /\ Len(Levels(nodes)) = top + 1
        /\ \A n \in 1 .. (top + 1) : Levels(nodes)[n] = level[n - 1]
        /\ Root(nodes) = level[top][1]
  BY TreeIs
<1> HIDE DEF top
<1>2. /\ top \in Nat /\ level[0] = nodes /\ Len(level[top]) = 1
      /\ \A h \in 1 .. top : level[h] = LevelAbove(level[h - 1])
      /\ \A h \in 0 .. top : IsSeq(level[h]) /\ Len(level[h]) >= 1
  BY <1>1 DEF IsTree
<1>3. \A h \in 0 .. top : \A n \in 1 .. Len(level[h]) : level[h][n].hash # <<>>
  <2>1. top \in Nat /\ IsTree(nodes, level, top)
    BY <1>1, <1>2
  <2> QED
    BY <2>1, HashesGiven, Zenon
<1>4. PICK idx : \E steps : IsWalk(nodes, i, idx, steps)
  BY ProveIs
<1>5. PICK steps : IsWalk(nodes, i, idx, steps)
  BY <1>4
<1>6. /\ idx[0] = i
      /\ \A n \in 1 .. (top + 1) : idx[n] = (idx[n - 1] + 1) \div 2
      /\ \A n \in 0 .. (top + 1) :
           steps[n] = IF n <= 1 THEN <<>>
                      ELSE steps[n - 1] \o StepAt(Levels(nodes)[n - 1], idx[n - 2])
      /\ prove(nodes, i) = steps[top + 1]
  BY <1>1, <1>5 DEF IsWalk
<1> DEFINE Reaches(h) ==
             /\ idx[h] \in 1 .. Len(level[h])
             /\ IsSeq(steps[h + 1])
             /\ fold(nodes[i], steps[h + 1]) = level[h][idx[h]]
             /\ \A s \in Range(steps[h + 1]) : s.sibling.hash # <<>>
           Good == {h \in Nat : h \in 0 .. top => Reaches(h)}
<1>7. 0 \in Good
  <2>1. steps[0 + 1] = <<>>
    BY <1>2, <1>6
  <2>2. Range(<<>>) = {}
    BY DEF Range
  <2> QED
    BY <1>2, <1>6, <2>1, <2>2, NoneIsSeq, FoldNone
<1>8. ASSUME NEW h \in Nat, h \in Good
      PROVE  h + 1 \in Good
  <2> SUFFICES ASSUME h + 1 \in 0 .. top
               PROVE  Reaches(h + 1)
    OBVIOUS
  <2>1. /\ h \in 0 .. top /\ h + 1 \in 1 .. top /\ h + 1 \in 1 .. (top + 1)
        /\ (h + 1) + 1 \in 0 .. (top + 1)
        /\ ~((h + 1) + 1 <= 1)
        /\ (h + 1) - 1 = h /\ ((h + 1) + 1) - 1 = h + 1 /\ ((h + 1) + 1) - 2 = h
    <3>1. top \in Nat
      BY <1>2
    <3> QED
      BY <3>1
  <2>2. Reaches(h)
    BY <1>8, <2>1
  <2>3. level[h + 1] = LevelAbove(level[h]) /\ IsSeq(level[h]) /\ Len(level[h]) >= 1
    BY <1>2, <2>1
  <2>4. idx[h + 1] = (idx[h] + 1) \div 2
    BY <1>6, <2>1
  <2>5. Levels(nodes)[h + 1] = level[h]
    BY <1>1, <2>1
  <2>6. steps[(h + 1) + 1] = steps[h + 1] \o StepAt(level[h], idx[h])
    BY <1>6, <2>1, <2>5
  <2>7. /\ idx[h + 1] \in 1 .. Len(level[h + 1])
        /\ fold(nodes[i], steps[h + 1] \o StepAt(level[h], idx[h])) = level[h + 1][idx[h + 1]]
        /\ \A s \in Range(StepAt(level[h], idx[h])) :
             \E j \in 1 .. Len(level[h]) : s.sibling = level[h][j]
    <3>1. /\ (idx[h] + 1) \div 2 \in 1 .. Len(LevelAbove(level[h]))
          /\ fold(nodes[i], steps[h + 1] \o StepAt(level[h], idx[h]))
               = LevelAbove(level[h])[(idx[h] + 1) \div 2]
          /\ \A s \in Range(StepAt(level[h], idx[h])) :
               \E j \in 1 .. Len(level[h]) : s.sibling = level[h][j]
      <4>1. ASSUME NEW j \in 1 .. Len(level[h]), NEW st, IsSeq(st),
                   fold(nodes[i], st) = level[h][j]
            PROVE  /\ (j + 1) \div 2 \in 1 .. Len(LevelAbove(level[h]))
                   /\ fold(nodes[i], st \o StepAt(level[h], j))
                        = LevelAbove(level[h])[(j + 1) \div 2]
                   /\ \A s \in Range(StepAt(level[h], j)) :
                        \E k \in 1 .. Len(level[h]) : s.sibling = level[h][k]
        BY <2>3, <4>1, TurnReaches
      <4> QED
        BY <2>2, <4>1
    <3> QED
      BY <2>3, <2>4, <3>1
  <2>8. /\ IsSeq(StepAt(level[h], idx[h]))
        /\ IsSeq(steps[h + 1] \o StepAt(level[h], idx[h]))
        /\ Range(steps[h + 1] \o StepAt(level[h], idx[h]))
             \subseteq Range(steps[h + 1]) \cup Range(StepAt(level[h], idx[h]))
    BY <2>2, StepIsSeq, JoinIsSeq, JoinRange
  <2>9. \A s \in Range(StepAt(level[h], idx[h])) : s.sibling.hash # <<>>
    BY <1>3, <2>1, <2>7
  <2>10. \A s \in Range(steps[(h + 1) + 1]) : s.sibling.hash # <<>>
    BY <2>2, <2>6, <2>8, <2>9
  <2> QED
    BY <2>6, <2>7, <2>8, <2>10
<1>9. Reaches(top)
  <2>1. top \in Good
    <3> HIDE DEF Good
    <3> QED
      BY <1>2, <1>7, <1>8, AllNaturals
  <2> HIDE DEF Reaches
  <2> QED
    BY <1>2, <2>1
<1>10. idx[top] = 1
  BY <1>2, <1>9
<1>11. level[top][1].hash # <<>>
  BY <1>2, <1>3
<1> QED
  BY <1>1, <1>6, <1>9, <1>10, <1>11

-----------------------------------------------------------------------------
(* The calendar of parse: what is written earlier is an earlier second, or     *)
(* another fraction of one.                                                *)

\* Days in the years before this one, of years that begin in March.
DaysBefore(y) == 365 * y + y \div 4 - y \div 100 + y \div 400

\* Days in the months before this one, in a year that begins in March.
MonthsBefore(m) == (153 * ((m + 9) % 12) + 2) \div 5

LEMMA EraArithmetic ==
  ASSUME NEW y \in Int
  PROVE  LET era == y \div 400
             yoe == y - era * 400
         IN  era * 146097 + yoe * 365 + yoe \div 4 - yoe \div 100 = DaysBefore(y)
<1> DEFINE era == y \div 400
           yoe == y - era * 400
<1>1. era \in Int /\ yoe \in Int
  OBVIOUS
<1>2. yoe \div 4 = y \div 4 - 100 * era
  OBVIOUS
<1>3. yoe \div 100 = y \div 100 - 4 * era
  OBVIOUS
<1>4. y \div 4 \in Int /\ y \div 100 \in Int
  OBVIOUS
<1> QED
  BY <1>1, <1>2, <1>3, <1>4 DEF DaysBefore

LEMMA CivilDays ==
  ASSUME NEW y \in Nat, NEW m \in 1..12, NEW d \in Nat
  PROVE  days_from_civil(y, m, d) =
           DaysBefore(IF m <= 2 THEN y - 1 ELSE y) + MonthsBefore(m) + d - 719469
<1> DEFINE z == IF m <= 2 THEN y - 1 ELSE y
<1>1. z \in Int /\ z >= -1
  OBVIOUS
<1>2. (IF z >= 0 THEN z ELSE z - 399) \div 400 = z \div 400
  <2> HIDE DEF z
  <2> QED
    BY <1>1
<1>3. MonthsBefore(m) \in Int
  BY DEF MonthsBefore
<1>4. DaysBefore(z) \in Int
  <2> HIDE DEF z
  <2> QED
    BY <1>1 DEF DaysBefore
<1>5. days_from_civil(y, m, d) =
        (z \div 400) * 146097 + (z - (z \div 400) * 400) * 365
          + (z - (z \div 400) * 400) \div 4 - (z - (z \div 400) * 400) \div 100
          + (MonthsBefore(m) + d - 1) - 719468
  <2> HIDE DEF z
  <2> QED
    BY <1>2 DEF days_from_civil, MonthsBefore, z
<1>6. (z \div 400) * 146097 + (z - (z \div 400) * 400) * 365
        + (z - (z \div 400) * 400) \div 4 - (z - (z \div 400) * 400) \div 100 = DaysBefore(z)
  <2> HIDE DEF z
  <2> QED
    BY <1>1, EraArithmetic
<1> HIDE DEF z
<1>7. days_from_civil(y, m, d) = DaysBefore(z) + (MonthsBefore(m) + d - 1) - 719468
  BY <1>5, <1>6
<1>8. days_from_civil(y, m, d) = DaysBefore(z) + MonthsBefore(m) + d - 719469
  BY <1>3, <1>4, <1>7
<1> QED
  BY <1>8 DEF z

\* Where the months begin, in a year that begins in March.
LEMMA MonthTable ==
  /\ MonthsBefore(3) = 0 /\ MonthsBefore(4) = 31 /\ MonthsBefore(5) = 61
  /\ MonthsBefore(6) = 92 /\ MonthsBefore(7) = 122 /\ MonthsBefore(8) = 153
  /\ MonthsBefore(9) = 184 /\ MonthsBefore(10) = 214 /\ MonthsBefore(11) = 245
  /\ MonthsBefore(12) = 275 /\ MonthsBefore(1) = 306 /\ MonthsBefore(2) = 337
BY DEF MonthsBefore

LEMMA YearLength ==
  ASSUME NEW y \in Int
  PROVE  DaysBefore(y) = DaysBefore(y - 1) + (IF is_leap(y) THEN 366 ELSE 365)
<1>1. y \div 4 = (y - 1) \div 4 + (IF y % 4 = 0 THEN 1 ELSE 0)
  OBVIOUS
<1>2. y \div 100 = (y - 1) \div 100 + (IF y % 100 = 0 THEN 1 ELSE 0)
  OBVIOUS
<1>3. y \div 400 = (y - 1) \div 400 + (IF y % 400 = 0 THEN 1 ELSE 0)
  OBVIOUS
<1>4. (y % 400 = 0 => y % 100 = 0) /\ (y % 100 = 0 => y % 4 = 0)
  OBVIOUS
<1>5. /\ (y - 1) \div 4 \in Int /\ (y - 1) \div 100 \in Int /\ (y - 1) \div 400 \in Int
  OBVIOUS
<1> QED
  BY <1>1, <1>2, <1>3, <1>4, <1>5 DEF DaysBefore, is_leap

LEMMA YearsGrow ==
  ASSUME NEW a \in Int, NEW b \in Int, a <= b
  PROVE  DaysBefore(a) <= DaysBefore(b)
<1>1. a \div 4 <= b \div 4 /\ a \div 400 <= b \div 400
  OBVIOUS
<1>2. b \div 100 - a \div 100 <= b - a
  OBVIOUS
<1> QED
  BY <1>1, <1>2 DEF DaysBefore

\* The day before the first of a month.
MonthStart(y, m) == DaysBefore(IF m <= 2 THEN y - 1 ELSE y) + MonthsBefore(m)

LEMMA DaysBeforeIsInt ==
  ASSUME NEW y \in Int
  PROVE  DaysBefore(y) \in Int
<1>1. y \div 4 \in Int /\ y \div 100 \in Int /\ y \div 400 \in Int
  OBVIOUS
<1> QED
  BY <1>1 DEF DaysBefore

LEMMA MonthStarts ==
  ASSUME NEW y \in Int
  PROVE  /\ MonthStart(y, 1) = DaysBefore(y - 1) + 306
         /\ MonthStart(y, 2) = DaysBefore(y - 1) + 337
         /\ MonthStart(y, 3) = DaysBefore(y)
         /\ MonthStart(y, 4) = DaysBefore(y) + 31
         /\ MonthStart(y, 5) = DaysBefore(y) + 61
         /\ MonthStart(y, 6) = DaysBefore(y) + 92
         /\ MonthStart(y, 7) = DaysBefore(y) + 122
         /\ MonthStart(y, 8) = DaysBefore(y) + 153
         /\ MonthStart(y, 9) = DaysBefore(y) + 184
         /\ MonthStart(y, 10) = DaysBefore(y) + 214
         /\ MonthStart(y, 11) = DaysBefore(y) + 245
         /\ MonthStart(y, 12) = DaysBefore(y) + 275
<1>1. DaysBefore(y) \in Int /\ DaysBefore(y - 1) \in Int
  BY DaysBeforeIsInt
<1> QED
  BY <1>1, MonthTable DEF MonthStart

LEMMA MonthStartIsInt ==
  ASSUME NEW y \in Int, NEW m \in 1..12
  PROVE  MonthStart(y, m) \in Int
<1>1. DaysBefore(y) \in Int /\ DaysBefore(y - 1) \in Int
  BY DaysBeforeIsInt
<1>2. m \in {1, 2, 3, 4, 5, 6, 7, 8, 9, 10, 11, 12}
  OBVIOUS
<1> QED
  BY <1>1, <1>2, MonthStarts

LEMMA MonthLengthIsNat ==
  ASSUME NEW y \in Int, NEW m \in 1..12
  PROVE  days_in_month(y, m) \in Nat
BY DEF days_in_month

\* A month ends where the next one begins.
LEMMA MonthEnds ==
  ASSUME NEW y \in Int, NEW m \in 1..11
  PROVE  MonthStart(y, m) + days_in_month(y, m) = MonthStart(y, m + 1)
<1>1. DaysBefore(y) \in Int /\ DaysBefore(y - 1) \in Int
  BY DaysBeforeIsInt
<1>2. CASE m = 2
  <2>1. days_in_month(y, 2) = IF is_leap(y) THEN 29 ELSE 28
    BY DEF days_in_month
  <2> QED
    BY <1>1, <1>2, <2>1, YearLength, MonthStarts
<1>3. CASE m \in {1, 3, 5, 7, 8, 10}
  <2>1. days_in_month(y, m) = 31
    BY <1>3 DEF days_in_month
  <2> QED
    BY <1>1, <1>3, <2>1, MonthStarts
<1>4. CASE m \in {4, 6, 9, 11}
  <2>1. days_in_month(y, m) = 30
    BY <1>4 DEF days_in_month
  <2> QED
    BY <1>1, <1>4, <2>1, MonthStarts
<1>5. m \in {1, 3, 5, 7, 8, 10} \cup {4, 6, 9, 11} \cup {2}
  OBVIOUS
<1> QED
  BY <1>2, <1>3, <1>4, <1>5

LEMMA YearEnds ==
  ASSUME NEW y \in Int
  PROVE  MonthStart(y, 12) + days_in_month(y, 12) = MonthStart(y + 1, 1)
<1>1. DaysBefore(y) \in Int /\ (y + 1) - 1 = y /\ y + 1 \in Int
  BY DaysBeforeIsInt
<1>2. MonthStart(y + 1, 1) = DaysBefore(y) + 306
  BY <1>1, MonthStarts
<1>3. days_in_month(y, 12) = 31
  BY DEF days_in_month
<1> QED
  BY <1>1, <1>2, <1>3, MonthStarts

LEMMA MonthsGrow ==
  ASSUME NEW y \in Int, NEW m \in 1..12, NEW n \in m..12
  PROVE  MonthStart(y, m) <= MonthStart(y, n)
<1>1. DaysBefore(y) \in Int /\ DaysBefore(y - 1) \in Int
  BY DaysBeforeIsInt
<1>2. DaysBefore(y - 1) + 365 <= DaysBefore(y)
  BY <1>1, YearLength
<1>3. m \in {1, 2, 3, 4, 5, 6, 7, 8, 9, 10, 11, 12} /\ n \in {1, 2, 3, 4, 5, 6, 7, 8, 9, 10, 11, 12}
  OBVIOUS
<1> QED
  BY <1>1, <1>2, <1>3, MonthStarts

LEMMA DayIsInt ==
  ASSUME NEW y \in Nat, NEW m \in 1..12, NEW d \in 1..days_in_month(y, m)
  PROVE  days_from_civil(y, m, d) \in Int
<1>. y \in Int
  OBVIOUS
<1>1. MonthStart(y, m) \in Int
  BY MonthStartIsInt
<1>2. d \in Nat
  BY MonthLengthIsNat
<1>3. days_from_civil(y, m, d) = MonthStart(y, m) + d - 719469
  BY <1>2, CivilDays DEF MonthStart
<1> QED
  BY <1>1, <1>2, <1>3

\* A date of the calendar written earlier is an earlier day.
LEMMA DatesGrow ==
  ASSUME NEW y \in Nat, NEW m \in 1..12, NEW d \in 1..days_in_month(y, m),
         NEW z \in Nat, NEW n \in 1..12, NEW e \in 1..days_in_month(z, n),
         \/ y < z
         \/ y = z /\ m < n
         \/ y = z /\ m = n /\ d < e
  PROVE  /\ days_from_civil(y, m, d) \in Int
         /\ days_from_civil(z, n, e) \in Int
         /\ days_from_civil(y, m, d) < days_from_civil(z, n, e)
<1>. y \in Int /\ z \in Int
  OBVIOUS
<1>1. /\ MonthStart(y, m) \in Int /\ MonthStart(z, n) \in Int
  BY MonthStartIsInt
<1>2. /\ days_in_month(y, m) \in Nat /\ days_in_month(z, n) \in Nat
      /\ d \in Nat /\ d <= days_in_month(y, m) /\ e \in Nat /\ 1 <= e
  <2>1. days_in_month(y, m) \in Nat /\ days_in_month(z, n) \in Nat
    BY MonthLengthIsNat
  <2> QED
    BY <2>1
<1>3. /\ days_from_civil(y, m, d) = MonthStart(y, m) + d - 719469
      /\ days_from_civil(z, n, e) = MonthStart(z, n) + e - 719469
  BY <1>2, CivilDays DEF MonthStart
<1>4. MonthStart(y, m) + d < MonthStart(z, n) + e
  <2>1. CASE y < z
    <3>1. MonthStart(y, m) + days_in_month(y, m) <= MonthStart(y + 1, 1)
      <4>1. CASE m = 12
        BY <1>1, <1>2, <4>1, YearEnds
      <4>2. CASE m # 12
        <5>1. m \in 1..11 /\ m + 1 \in 1..12 /\ 12 \in (m + 1)..12
          BY <4>2
        <5>2. MonthStart(y, m + 1) <= MonthStart(y, 12)
          BY <5>1, MonthsGrow
        <5>3. MonthStart(y, 12) + days_in_month(y, 12) = MonthStart(y + 1, 1)
          BY YearEnds
        <5>4. MonthStart(y, m) + days_in_month(y, m) = MonthStart(y, m + 1)
          BY <5>1, MonthEnds
        <5>5. MonthStart(y, m + 1) \in Int /\ MonthStart(y, 12) \in Int /\ days_in_month(y, 12) \in Nat
          <6>1. y \in Int /\ 12 \in 1..12
            OBVIOUS
          <6> QED
            BY <5>1, <6>1, MonthStartIsInt, MonthLengthIsNat
        <5> QED
          BY <5>2, <5>3, <5>4, <5>5
      <4> QED
        BY <4>1, <4>2
    <3>2. MonthStart(y + 1, 1) <= MonthStart(z, 1)
      <4>1. y + 1 \in Int /\ y \in Int /\ z - 1 \in Int /\ y <= z - 1 /\ (y + 1) - 1 = y
        BY <2>1
      <4>2. DaysBefore(y) <= DaysBefore(z - 1)
        BY <4>1, YearsGrow
      <4>3. MonthStart(y + 1, 1) = DaysBefore(y) + 306
        BY <4>1, MonthStarts
      <4>4. MonthStart(z, 1) = DaysBefore(z - 1) + 306
        BY MonthStarts
      <4> QED
        BY <4>1, <4>2, <4>3, <4>4, DaysBeforeIsInt
    <3>3. MonthStart(z, 1) <= MonthStart(z, n)
      BY MonthsGrow
    <3>4. MonthStart(y + 1, 1) \in Int /\ MonthStart(z, 1) \in Int
      BY MonthStartIsInt
    <3> QED
      BY <1>1, <1>2, <3>1, <3>2, <3>3, <3>4
  <2>2. CASE y = z /\ m < n
    <3>1. m \in 1..11 /\ m + 1 \in 1..12 /\ n \in (m + 1)..12
      BY <2>2
    <3>2. MonthStart(y, m) + days_in_month(y, m) = MonthStart(y, m + 1)
      BY <3>1, MonthEnds
    <3>3. MonthStart(y, m + 1) <= MonthStart(z, n)
      BY <2>2, <3>1, MonthsGrow
    <3>4. MonthStart(y, m + 1) \in Int
      BY <3>1, MonthStartIsInt
    <3> QED
      BY <1>1, <1>2, <3>2, <3>3, <3>4
  <2>3. CASE y = z /\ m = n /\ d < e
    BY <1>1, <1>2, <2>3
  <2> QED
    BY <2>1, <2>2, <2>3
<1> QED
  BY <1>1, <1>2, <1>3, <1>4

\* A time of day.
IsTime(h, m, s) ==
  /\ h \in Int /\ m \in Int /\ s \in Int
  /\ 0 <= h /\ h <= 23 /\ 0 <= m /\ m <= 59 /\ 0 <= s /\ s <= 59

LEMMA SecondOfDay ==
  ASSUME NEW h, NEW m, NEW s, IsTime(h, m, s)
  PROVE  /\ h * 3600 + m * 60 + s \in Int
         /\ 0 <= h * 3600 + m * 60 + s
         /\ h * 3600 + m * 60 + s < 86400
BY DEF IsTime

LEMMA EarlierInTheDay ==
  ASSUME NEW h, NEW m, NEW s, IsTime(h, m, s), NEW i, NEW n, NEW t, IsTime(i, n, t),
         \/ h < i
         \/ h = i /\ m < n
         \/ h = i /\ m = n /\ s < t
  PROVE  h * 3600 + m * 60 + s < i * 3600 + n * 60 + t
BY DEF IsTime

LEMMA EarlierDay ==
  ASSUME NEW a \in Int, NEW b \in Int, NEW u \in Int, NEW v \in Int, a < b, u < 86400, 0 <= v
  PROVE  a * 86400 + u < b * 86400 + v
<1>1. a * 86400 + 86400 <= b * 86400
  OBVIOUS
<1>2. a * 86400 \in Int /\ b * 86400 \in Int
  OBVIOUS
<1> QED
  BY <1>1, <1>2

\* Of two timestamps that parse (instant.rs), the one before the other as text,
\* which is what verify_chain compares (anchor.rs), is of an earlier second or of
\* the same.
THEOREM WrittenEarlier ==
  ASSUME NEW s, NEW t,
         \A i \in 1..6 : s[i] \in Nat /\ t[i] \in Nat,
         parses(s), parses(t), TextBefore(s, t)
  PROVE  parse(s) < parse(t) \/ SameSecond(s, t)
<1> SUFFICES ASSUME ~SameSecond(s, t)
             PROVE  parse(s) < parse(t)
  OBVIOUS
<1> DEFINE D(x) == days_from_civil(x[1], x[2], x[3]) - Epoch
<1>1. PICK i \in 1..6 : s[i] < t[i] /\ \A j \in 1..(i - 1) : s[j] = t[j]
  BY DEF TextBefore
<1>2. \/ s[1] < t[1]
      \/ s[1] = t[1] /\ s[2] < t[2]
      \/ s[1] = t[1] /\ s[2] = t[2] /\ s[3] < t[3]
      \/ s[1] = t[1] /\ s[2] = t[2] /\ s[3] = t[3] /\ s[4] < t[4]
      \/ s[1] = t[1] /\ s[2] = t[2] /\ s[3] = t[3] /\ s[4] = t[4] /\ s[5] < t[5]
      \/ s[1] = t[1] /\ s[2] = t[2] /\ s[3] = t[3] /\ s[4] = t[4] /\ s[5] = t[5] /\ s[6] < t[6]
  <2>1. \A j \in 1..6 : j < i => s[j] = t[j]
    BY <1>1
  <2>2. i \in {1, 2, 3, 4, 5, 6}
    OBVIOUS
  <2> QED
    BY <1>1, <2>1, <2>2
<1>3. Epoch \in Int
  <2>1. 1 \in 1..12 /\ 2026 \in Nat /\ 1 \in Nat /\ MonthStart(2026, 1) \in Int
    BY MonthStartIsInt
  <2>2. Epoch = MonthStart(2026, 1) + 1 - 719469
    BY <2>1, CivilDays DEF Epoch, MonthStart
  <2> QED
    BY <2>1, <2>2
<1>4. /\ s[1] \in Nat /\ s[2] \in 1..12 /\ s[3] \in 1..days_in_month(s[1], s[2])
      /\ t[1] \in Nat /\ t[2] \in 1..12 /\ t[3] \in 1..days_in_month(t[1], t[2])
  BY DEF parses
<1>5. IsTime(s[4], s[5], s[6]) /\ IsTime(t[4], t[5], t[6])
  BY DEF parses, IsTime
<1>6. D(s) \in Int /\ D(t) \in Int
  BY <1>3, <1>4, DayIsInt
<1>7. \/ D(s) < D(t)
      \/ D(s) = D(t) /\ s[4] < t[4]
      \/ D(s) = D(t) /\ s[4] = t[4] /\ s[5] < t[5]
      \/ D(s) = D(t) /\ s[4] = t[4] /\ s[5] = t[5] /\ s[6] < t[6]
  <2>1. CASE \/ s[1] < t[1]
             \/ s[1] = t[1] /\ s[2] < t[2]
             \/ s[1] = t[1] /\ s[2] = t[2] /\ s[3] < t[3]
    <3>1. /\ days_from_civil(s[1], s[2], s[3]) \in Int
          /\ days_from_civil(t[1], t[2], t[3]) \in Int
          /\ days_from_civil(s[1], s[2], s[3]) < days_from_civil(t[1], t[2], t[3])
      BY <1>4, <2>1, DatesGrow
    <3> QED
      BY <1>3, <3>1
  <2>2. CASE s[1] = t[1] /\ s[2] = t[2] /\ s[3] = t[3]
    BY <1>2, <1>4, <2>2
  <2> QED
    BY <1>2, <2>1, <2>2
<1> DEFINE U(x) == x[4] * 3600 + x[5] * 60 + x[6]
<1>8. /\ U(s) \in Int /\ 0 <= U(s) /\ U(s) < 86400
      /\ U(t) \in Int /\ 0 <= U(t) /\ U(t) < 86400
  <2> HIDE DEF D
  <2> QED
    BY <1>5, SecondOfDay
<1>9. D(s) < D(t) \/ (D(s) = D(t) /\ U(s) < U(t))
  <2> HIDE DEF D
  <2>1. CASE \/ s[4] < t[4]
             \/ s[4] = t[4] /\ s[5] < t[5]
             \/ s[4] = t[4] /\ s[5] = t[5] /\ s[6] < t[6]
    <3>1. U(s) < U(t)
      BY <1>5, <2>1, EarlierInTheDay
    <3> QED
      BY <1>7, <2>1, <3>1
  <2> HIDE DEF U
  <2> QED
    BY <1>7, <2>1
<1>10. parse(s) = D(s) * 86400 + U(s) /\ parse(t) = D(t) * 86400 + U(t)
  <2>1. \A x : IsTime(x[4], x[5], x[6]) /\ D(x) \in Int => parse(x) = D(x) * 86400 + U(x)
    BY DEF parse, IsTime
  <2> QED
    BY <1>5, <1>6, <2>1
<1> HIDE DEF D, U
<1>11. CASE D(s) < D(t)
  BY <1>6, <1>8, <1>10, <1>11, EarlierDay
<1>12. CASE D(s) = D(t) /\ U(s) < U(t)
  <2>1. D(s) * 86400 \in Int
    BY <1>6
  <2> QED
    BY <1>8, <1>10, <1>12, <2>1
<1> QED
  BY <1>9, <1>11, <1>12
=============================================================================
