---------------------------- MODULE ProduceProofs ----------------------------
(***************************************************************************)
(* What the service does with a request is what SumTree says may be done   *)
(* with leaves: every step of Produce is a step or a stutter of it.  So    *)
(* what is proved of the tree, first, for any subjects, assets, largest    *)
(* amount and number of leaves, holds of every report, for any requests,   *)
(* names and amounts.                                                      *)
(***************************************************************************)
EXTENDS Produce, Basics

-----------------------------------------------------------------------------
\* Sums and nodes.

LEMMA SumsFacts ==
  ASSUME NEW s \in Sums
  PROVE  /\ DOMAIN s \subseteq Assets
         /\ s = [a \in DOMAIN s |-> s[a]]
         /\ \A a \in DOMAIN s : s[a] \in 0..MaxAmount
         /\ \A a \in Assets : Of(s, a) \in 0..MaxAmount
BY BoundAssumption DEF Sums, Of

LEMMA CombineNode ==
  ASSUME NEW l, NEW r, IsNode(l), IsNode(r), Fits(l, r)
  PROVE  /\ IsNode(combine(l, r))
         /\ DOMAIN combine(l, r).sums = DOMAIN l.sums \cup DOMAIN r.sums
         /\ \A a \in Assets : Of(combine(l, r).sums, a) = Of(l.sums, a) + Of(r.sums, a)
<1> DEFINE held == DOMAIN l.sums \cup DOMAIN r.sums
           sums == [a \in held |-> Of(l.sums, a) + Of(r.sums, a)]
<1>1. combine(l, r).sums = sums /\ combine(l, r) = [hash |-> combine(l, r).hash, sums |-> sums]
  BY DEF combine
<1>2. /\ held \in SUBSET Assets
      /\ \A a \in Assets : Of(l.sums, a) \in 0..MaxAmount /\ Of(r.sums, a) \in 0..MaxAmount
  BY SumsFacts DEF IsNode
<1>3. sums \in [held -> 0..MaxAmount]
  BY <1>2, BoundAssumption DEF Fits
<1>4. \A a \in Assets : a \notin held => Of(l.sums, a) + Of(r.sums, a) = 0
  BY DEF Of
<1> QED
  BY <1>1, <1>2, <1>3, <1>4 DEF IsNode, Sums, Of

LEMMA LeafNode ==
  ASSUME NEW s, NEW b \in Sums
  PROVE  IsNode(leaf_node(s, b)) /\ leaf_node(s, b).sums = b
BY DEF IsNode, leaf_node

\* The hash of a node determines the hashes it was computed from.
LEMMA StepInjective ==
  ASSUME NEW x, NEW y, NEW step, x.hash # y.hash
  PROVE  StepOn(x, step).hash # StepOn(y, step).hash
<1>1. \A l, r : combine(l, r).hash.left = l.hash /\ combine(l, r).hash.right = r.hash
  BY DEF combine
<1> QED
  BY <1>1 DEF StepOn

-----------------------------------------------------------------------------
\* What build keeps true.

IsLeaf(n) == \E s \in Subjects, b \in Sums : n = leaf_node(s, b)

\* The history is the leaves added up, and never goes down.
Counted ==
  /\ IsSeq(leaves) /\ \A i \in 1..Len(leaves) : IsLeaf(leaves[i])
  /\ IsSeq(running) /\ Len(running) = Len(leaves) + 1
  /\ \A n \in 1..Len(running) : running[n] \in [Assets -> Nat]
  /\ \A a \in Assets : running[1][a] = 0
  /\ \A n \in 1..Len(leaves), a \in Assets :
       running[n + 1][a] = running[n][a] + Of(leaves[n].sums, a)
  /\ \A m, n \in 1..Len(running) : m <= n => \A a \in Assets : running[m][a] <= running[n][a]

Chained(span) ==
  /\ IsSeq(span)
  /\ \A i \in 1..Len(span) : /\ span[i].lo \in 1..Len(leaves) /\ span[i].hi \in 1..Len(leaves)
                             /\ span[i].lo <= span[i].hi
  /\ span[1].lo = 1 /\ span[Len(span)].hi = Len(leaves)
  /\ \A i \in 1..(Len(span) - 1) : span[i + 1].lo = span[i].hi + 1

\* The node carries what the leaves from lo to hi hold.
Carries(node, lo, hi) ==
  /\ \A a \in Assets : Of(node.sums, a) = running[hi + 1][a] - running[lo][a]
  /\ DOMAIN node.sums = UNION {DOMAIN leaves[k].sums : k \in lo..hi}

IsLevel(level) ==
  IsSeq(level) /\ Len(level) >= 1 /\ \A i \in 1..Len(level) : IsNode(level[i])

\* The nodes of a level carry all leaves, each once.
Covers(level, span) ==
  /\ IsLevel(level) /\ Chained(span) /\ Len(span) = Len(level)
  /\ \A i \in 1..Len(level) : Carries(level[i], span[i].lo, span[i].hi)

PairsFit(level) == \A i \in Chunks(level) : IsPair(level, i) => Fits(level[2 * i - 1], level[2 * i])

Overflows == \E a \in Assets : running[Len(running)][a] > MaxAmount

Layered ==
  /\ IsSeq(levels) /\ IsSeq(spans) /\ Len(spans) = Len(levels)
  /\ \A l \in 1..Len(levels) : IsLevel(levels[l])
  /\ \A l \in 1..(Len(levels) - 1) :
       Len(levels[l]) > 1 /\ PairsFit(levels[l]) /\ levels[l + 1] = Paired(levels[l])
  /\ Len(levels) >= 1 => levels[1] = leaves /\ Covers(Top, spans[Len(spans)])
  /\ pc = "intake" => Len(levels) = 0
  /\ pc \notin {"intake", "failed"} => Len(levels) >= 1
  /\ pc = "failed" /\ leaves # <<>> => Overflows
  /\ pc \in Done => Len(Top) = 1

-----------------------------------------------------------------------------
\* From one level to the next.

LEMMA ChunkFacts ==
  ASSUME NEW n \in Nat, n > 1
  PROVE  /\ (n + 1) \div 2 \in Nat /\ (n + 1) \div 2 >= 1 /\ (n + 1) \div 2 < n
         /\ \A i \in 1..((n + 1) \div 2) :
              /\ 2 * i - 1 \in 1..n
              /\ 2 * i <= n => 2 * i \in 1..n
              /\ i < (n + 1) \div 2 => 2 * i < n
              /\ i = (n + 1) \div 2 => 2 * i = n \/ 2 * i - 1 = n
  OBVIOUS

LEMMA PairedLevel ==
  ASSUME NEW level, IsLevel(level), Len(level) > 1, PairsFit(level)
  PROVE  IsLevel(Paired(level)) /\ Len(Paired(level)) = (Len(level) + 1) \div 2
<1> DEFINE m == (Len(level) + 1) \div 2
           up == Paired(level)
<1>1. m \in Nat /\ m >= 1 /\ Len(level) \in Nat /\ Chunks(level) = 1..m
  BY ChunkFacts DEF IsLevel, IsSeq, Chunks
<1>2. up = [i \in 1..m |-> up[i]]
  BY <1>1 DEF Paired
<1>3. IsSeq(up) /\ Len(up) = m
  BY <1>1, <1>2, FunctionIsSeq
<1>4. ASSUME NEW i \in 1..m PROVE IsNode(up[i])
  <2>1. /\ 2 * i - 1 \in 1..Len(level)
        /\ IsPair(level, i) => 2 * i \in 1..Len(level)
    BY <1>1, ChunkFacts DEF IsPair
  <2>2. IsNode(level[2 * i - 1]) /\ (IsPair(level, i) => IsNode(level[2 * i]))
    BY <2>1 DEF IsLevel
  <2>3. up[i] = IF IsPair(level, i) THEN combine(level[2 * i - 1], level[2 * i])
                                    ELSE level[2 * i - 1]
    BY <1>1 DEF Paired
  <2>4. IsPair(level, i) => Fits(level[2 * i - 1], level[2 * i])
    BY <1>1 DEF PairsFit
  <2> QED
    BY <2>2, <2>3, <2>4, CombineNode
<1> QED
  BY <1>1, <1>3, <1>4 DEF IsLevel

LEMMA SpansChained ==
  ASSUME NEW span, Chained(span), Len(span) > 1, Len(leaves) \in Nat
  PROVE  Chained(SpansAbove(span)) /\ Len(SpansAbove(span)) = (Len(span) + 1) \div 2
<1> DEFINE n == Len(span)
           m == (n + 1) \div 2
           up == SpansAbove(span)
<1>1. n \in Nat /\ m \in Nat /\ m >= 1 /\ Chunks(span) = 1..m
  BY ChunkFacts DEF Chained, IsSeq, Chunks
<1>2. up = [i \in 1..m |-> up[i]]
  BY <1>1 DEF SpansAbove
<1>3. IsSeq(up) /\ Len(up) = m
  BY <1>1, <1>2, FunctionIsSeq
<1>4. \A i \in 1..m : /\ up[i].lo = span[2 * i - 1].lo
                      /\ 2 * i <= n => up[i].hi = span[2 * i].hi
                      /\ ~(2 * i <= n) => up[i].hi = span[2 * i - 1].hi
  BY <1>1 DEF SpansAbove, IsPair
<1> HIDE DEF up
<1>5. \A i \in 1..m : /\ 2 * i - 1 \in 1..n
                      /\ 2 * i <= n => 2 * i \in 1..n
                      /\ i < m => 2 * i < n
                      /\ i = m => 2 * i = n \/ 2 * i - 1 = n
  BY <1>1, ChunkFacts
<1>6. \A i \in 1..n : span[i].lo \in 1..Len(leaves) /\ span[i].hi \in 1..Len(leaves)
                      /\ span[i].lo <= span[i].hi
  BY DEF Chained
<1>7. \A i \in 1..(n - 1) : span[i + 1].lo = span[i].hi + 1
  BY DEF Chained
<1>8. ASSUME NEW i \in 1..m
      PROVE  /\ up[i].lo \in 1..Len(leaves) /\ up[i].hi \in 1..Len(leaves)
             /\ up[i].lo <= up[i].hi
  <2>1. CASE 2 * i <= n
    <3>1. span[2 * i].lo = span[2 * i - 1].hi + 1
      BY <1>1, <1>5, <1>7, <2>1
    <3>2. up[i].lo = span[2 * i - 1].lo /\ up[i].hi = span[2 * i].hi
      BY <1>4, <2>1
    <3>3. 2 * i - 1 \in 1..n /\ 2 * i \in 1..n
      BY <1>5, <2>1
    <3>4. /\ span[2 * i - 1].lo \in 1..Len(leaves) /\ span[2 * i - 1].hi \in 1..Len(leaves)
          /\ span[2 * i].hi \in 1..Len(leaves)
          /\ span[2 * i - 1].lo <= span[2 * i - 1].hi /\ span[2 * i].lo <= span[2 * i].hi
      BY <1>6, <3>3
    <3> QED
      BY <3>1, <3>2, <3>4
  <2>2. CASE ~(2 * i <= n)
    BY <1>4, <1>5, <1>6, <2>2
  <2> QED
    BY <2>1, <2>2
<1>9. up[1].lo = 1 /\ up[m].hi = Len(leaves)
  <2>1. up[1].lo = span[1].lo /\ span[1].lo = 1 /\ span[n].hi = Len(leaves)
    BY <1>1, <1>4 DEF Chained
  <2>2. up[m].hi = span[n].hi
    BY <1>1, <1>4, <1>5
  <2> QED
    BY <2>1, <2>2
<1>10. ASSUME NEW i \in 1..(m - 1) PROVE up[i + 1].lo = up[i].hi + 1
  <2>1. i \in 1..m /\ i + 1 \in 1..m /\ 2 * i < n /\ 2 * i \in 1..(n - 1)
    BY <1>1, <1>5
  <2>2. up[i].hi = span[2 * i].hi
    BY <1>1, <1>4, <2>1
  <2>3. up[i + 1].lo = span[2 * (i + 1) - 1].lo /\ 2 * (i + 1) - 1 = 2 * i + 1
    BY <1>4, <2>1
  <2> QED
    BY <1>7, <2>1, <2>2, <2>3
<1> QED
  BY <1>1, <1>3, <1>8, <1>9, <1>10 DEF Chained, up

LEMMA CarriesBoth ==
  ASSUME Counted, NEW l, NEW r, NEW lo \in 1..Len(leaves), NEW mid \in 1..Len(leaves),
         NEW hi \in 1..Len(leaves), lo <= mid, mid + 1 <= hi,
         IsNode(l), IsNode(r), Fits(l, r), Carries(l, lo, mid), Carries(r, mid + 1, hi)
  PROVE  Carries(combine(l, r), lo, hi)
<1>1. /\ DOMAIN combine(l, r).sums = DOMAIN l.sums \cup DOMAIN r.sums
      /\ \A a \in Assets : Of(combine(l, r).sums, a) = Of(l.sums, a) + Of(r.sums, a)
  BY CombineNode
<1>2. lo..hi = (lo..mid) \cup ((mid + 1)..hi)
  OBVIOUS
<1>3. \A a \in Assets : Of(combine(l, r).sums, a) = running[hi + 1][a] - running[lo][a]
  <2>1. /\ lo \in 1..Len(running) /\ mid + 1 \in 1..Len(running) /\ hi + 1 \in 1..Len(running)
    BY DEF Counted, IsSeq
  <2>2. \A a \in Assets : /\ running[lo][a] \in Nat /\ running[mid + 1][a] \in Nat
                           /\ running[hi + 1][a] \in Nat
    BY <2>1 DEF Counted
  <2> QED
    BY <1>1, <2>2 DEF Carries
<1>4. DOMAIN combine(l, r).sums = UNION {DOMAIN leaves[k].sums : k \in lo..hi}
  BY <1>1, <1>2 DEF Carries
<1> QED
  BY <1>3, <1>4 DEF Carries

LEMMA PairedCovers ==
  ASSUME Counted, NEW level, NEW span, Covers(level, span), Len(level) > 1, PairsFit(level)
  PROVE  Covers(Paired(level), SpansAbove(span))
<1> DEFINE n == Len(level)
           m == (n + 1) \div 2
           up == Paired(level)
           above == SpansAbove(span)
<1>1. /\ n \in Nat /\ m \in Nat /\ Len(span) = n /\ Len(leaves) \in Nat
      /\ Chunks(level) = 1..m /\ Chunks(span) = 1..m
  BY ChunkFacts DEF Covers, IsLevel, IsSeq, Chunks, Counted
<1>2. IsLevel(up) /\ Len(up) = m
  BY PairedLevel DEF Covers
<1>3. Chained(above) /\ Len(above) = m
  BY <1>1, SpansChained DEF Covers
<1>4. ASSUME NEW i \in 1..m PROVE Carries(up[i], above[i].lo, above[i].hi)
  <2>1. /\ 2 * i - 1 \in 1..n
        /\ 2 * i <= n => 2 * i \in 1..n
    BY <1>1, ChunkFacts
  <2>2. above[i].lo = span[2 * i - 1].lo
    BY <1>1 DEF SpansAbove
  <2>3. CASE 2 * i <= n
    <3>1. up[i] = combine(level[2 * i - 1], level[2 * i])
      BY <1>1, <2>3 DEF Paired, IsPair
    <3>2. above[i].hi = span[2 * i].hi
      BY <1>1, <2>3 DEF SpansAbove, IsPair
    <3>3. IsNode(level[2 * i - 1]) /\ IsNode(level[2 * i])
      BY <2>1, <2>3 DEF Covers, IsLevel
    <3>4. Fits(level[2 * i - 1], level[2 * i])
      BY <1>1, <2>3 DEF PairsFit, IsPair
    <3>5. 2 * i - 1 \in 1..(n - 1) /\ (2 * i - 1) + 1 = 2 * i
      BY <1>1, <2>1, <2>3
    <3>6. span[2 * i].lo = span[2 * i - 1].hi + 1
      BY <1>1, <3>5 DEF Covers, Chained
    <3>7. /\ span[2 * i - 1].lo \in 1..Len(leaves) /\ span[2 * i - 1].hi \in 1..Len(leaves)
          /\ span[2 * i].hi \in 1..Len(leaves)
          /\ span[2 * i - 1].lo <= span[2 * i - 1].hi /\ span[2 * i].lo <= span[2 * i].hi
      BY <1>1, <2>1, <2>3 DEF Covers, Chained
    <3>8. /\ Carries(level[2 * i - 1], span[2 * i - 1].lo, span[2 * i - 1].hi)
          /\ Carries(level[2 * i], span[2 * i - 1].hi + 1, span[2 * i].hi)
      BY <2>1, <2>3, <3>6 DEF Covers
    <3>9. span[2 * i - 1].hi + 1 <= span[2 * i].hi
      BY <3>6, <3>7
    <3>10. Carries(combine(level[2 * i - 1], level[2 * i]), span[2 * i - 1].lo, span[2 * i].hi)
      BY <3>3, <3>4, <3>7, <3>8, <3>9, CarriesBoth
    <3> QED
      BY <2>2, <3>1, <3>2, <3>10
  <2>4. CASE ~(2 * i <= n)
    <3>1. up[i] = level[2 * i - 1] /\ above[i].hi = span[2 * i - 1].hi
      BY <1>1, <2>4 DEF Paired, SpansAbove, IsPair
    <3> QED
      BY <2>1, <2>2, <3>1 DEF Covers
  <2> QED
    BY <2>3, <2>4
<1> QED
  BY <1>1, <1>2, <1>3, <1>4 DEF Covers

\* A sum of two nodes that does not fit is part of a total that does not.
LEMMA OverflowBelow ==
  ASSUME Counted, NEW level, NEW span, Covers(level, span), Len(level) > 1, ~PairsFit(level)
  PROVE  Overflows
<1> DEFINE n == Len(level)
           m == (n + 1) \div 2
<1>1. n \in Nat /\ m \in Nat /\ Len(span) = n /\ Chunks(level) = 1..m /\ Len(leaves) \in Nat
  BY ChunkFacts DEF Covers, IsLevel, IsSeq, Chunks, Counted
<1>2. PICK i \in 1..m : 2 * i <= n /\ ~Fits(level[2 * i - 1], level[2 * i])
  BY <1>1 DEF PairsFit, IsPair
<1>3. PICK a \in Assets : ~(Of(level[2 * i - 1].sums, a) + Of(level[2 * i].sums, a) <= MaxAmount)
  BY <1>2 DEF Fits
<1>4. 2 * i - 1 \in 1..(n - 1) /\ 2 * i - 1 \in 1..n /\ 2 * i \in 1..n /\ (2 * i - 1) + 1 = 2 * i
  BY <1>1, <1>2
<1>5. span[2 * i].lo = span[2 * i - 1].hi + 1
  BY <1>1, <1>4 DEF Covers, Chained
<1>6. /\ span[2 * i - 1].lo \in 1..Len(leaves) /\ span[2 * i - 1].hi \in 1..Len(leaves)
      /\ span[2 * i].hi \in 1..Len(leaves)
  BY <1>1, <1>4 DEF Covers, Chained
<1> DEFINE lo == span[2 * i - 1].lo
           mid == span[2 * i - 1].hi
           hi == span[2 * i].hi
           left == Of(level[2 * i - 1].sums, a)
           right == Of(level[2 * i].sums, a)
<1>7. left = running[mid + 1][a] - running[lo][a] /\ right = running[hi + 1][a] - running[mid + 1][a]
  BY <1>4, <1>5 DEF Covers, Carries
<1>8. left + right > MaxAmount /\ left \in Int /\ right \in Int
  <2>1. IsNode(level[2 * i - 1]) /\ IsNode(level[2 * i])
    BY <1>4 DEF Covers, IsLevel
  <2>2. left \in 0..MaxAmount /\ right \in 0..MaxAmount
    BY <2>1, SumsFacts DEF IsNode
  <2> HIDE DEF left, right
  <2> QED
    BY <1>3, <2>2, BoundAssumption DEF left, right
<1>9. lo \in 1..Len(leaves) /\ mid \in 1..Len(leaves) /\ hi \in 1..Len(leaves)
  BY <1>6
<1> HIDE DEF lo, mid, hi, left, right
<1>10. Len(running) = Len(leaves) + 1
  BY DEF Counted
<1>11. /\ lo \in 1..Len(running) /\ mid + 1 \in 1..Len(running) /\ hi + 1 \in 1..Len(running)
       /\ Len(running) \in 1..Len(running) /\ hi + 1 <= Len(running)
  BY <1>1, <1>9, <1>10
<1>12. /\ running[lo][a] \in Nat /\ running[mid + 1][a] \in Nat /\ running[hi + 1][a] \in Nat
       /\ running[Len(running)][a] \in Nat
  BY <1>11 DEF Counted
<1>13. running[hi + 1][a] <= running[Len(running)][a]
  BY <1>11 DEF Counted
<1>14. running[Len(running)][a] > MaxAmount
  <2> DEFINE x == running[lo][a]
             y == running[mid + 1][a]
             z == running[hi + 1][a]
             t == running[Len(running)][a]
  <2>1. left = y - x /\ right = z - y /\ z <= t /\ x \in Nat /\ y \in Nat /\ z \in Nat /\ t \in Nat
    BY <1>7, <1>12, <1>13
  <2> HIDE DEF x, y, z, t
  <2>2. t > MaxAmount
    BY <1>8, <2>1, BoundAssumption
  <2> QED
    BY <2>2 DEF t
<1> QED
  BY <1>14 DEF Overflows

-----------------------------------------------------------------------------
\* The tree at every step.

Grown == Counted /\ Layered

LEMMA ZeroCount == [a \in Assets |-> 0] \in [Assets -> Nat]
OBVIOUS

LEMMA InitGrown == TreeInit => Grown
<1> SUFFICES ASSUME TreeInit PROVE Grown
  OBVIOUS
<1>1. IsSeq(leaves) /\ Len(leaves) = 0 /\ IsSeq(levels) /\ IsSeq(spans)
      /\ Len(levels) = 0 /\ Len(spans) = 0
  BY NoneIsSeq DEF TreeInit
<1>2. IsSeq(running) /\ Len(running) = 1 /\ running[1] = [a \in Assets |-> 0]
  BY OneIsSeq DEF TreeInit
<1>3. Counted
  BY <1>1, <1>2, ZeroCount DEF Counted
<1>4. Layered
  BY <1>1 DEF Layered, TreeInit, Done
<1> QED
  BY <1>3, <1>4 DEF Grown

LEMMA AddLeafGrown ==
  ASSUME Grown, NEW s \in Subjects, NEW b \in Sums, AddLeaf(s, b)
  PROVE  Grown'
<1> DEFINE n == Len(leaves)
           new == [a \in Assets |-> running[n + 1][a] + Of(b, a)]
<1>1. n \in Nat /\ Len(running) = n + 1 /\ IsSeq(leaves) /\ IsSeq(running)
  BY DEF Grown, Counted, IsSeq
<1>2. /\ leaves' = Append(leaves, leaf_node(s, b)) /\ running' = Append(running, new)
      /\ pc' = "intake" /\ pc = "intake" /\ levels' = levels /\ spans' = spans
  BY <1>1 DEF AddLeaf
<1>3. /\ IsSeq(leaves') /\ Len(leaves') = n + 1
      /\ \A i \in 1..n : leaves'[i] = leaves[i]
      /\ leaves'[n + 1] = leaf_node(s, b)
  BY <1>1, <1>2, AppendIsSeq
<1>4. /\ IsSeq(running') /\ Len(running') = n + 2
      /\ \A i \in 1..(n + 1) : running'[i] = running[i]
      /\ running'[n + 2] = new
  <2> HIDE DEF new
  <2>1. /\ IsSeq(Append(running, new)) /\ Len(Append(running, new)) = Len(running) + 1
        /\ \A i \in 1..Len(running) : Append(running, new)[i] = running[i]
        /\ Append(running, new)[Len(running) + 1] = new
    BY <1>1, AppendIsSeq
  <2> QED
    BY <1>1, <1>2, <2>1
<1>5. \A i \in 1..(n + 1) : running[i] \in [Assets -> Nat]
  BY <1>1 DEF Grown, Counted
<1>6. n + 1 \in 1..(n + 1) /\ running[n + 1] \in [Assets -> Nat]
  BY <1>1, <1>5
<1>7. \A a \in Assets : running[n + 1][a] \in Nat /\ Of(b, a) \in Nat
  BY <1>6, SumsFacts, BoundAssumption
<1>8. /\ new \in [Assets -> Nat]
      /\ \A a \in Assets : new[a] = running[n + 1][a] + Of(b, a) /\ running[n + 1][a] <= new[a]
  BY <1>7
<1> HIDE DEF new
<1>9. \A i \in 1..(n + 1) : IsLeaf(leaves'[i])
  <2>1. IsLeaf(leaf_node(s, b)) /\ \A i \in 1..n : IsLeaf(leaves[i])
    BY DEF IsLeaf, Grown, Counted
  <2> QED
    BY <1>1, <1>3, <2>1
<1>10. \A i \in 1..(n + 2) : running'[i] \in [Assets -> Nat]
  <2>1. \A i \in 1..(n + 2) : i \in 1..(n + 1) \/ i = n + 2
    BY <1>1
  <2> QED
    BY <1>4, <1>5, <1>8, <2>1
<1>11. \A a \in Assets : running'[1][a] = 0
  <2>1. 1 \in 1..(n + 1)
    BY <1>1
  <2> QED
    BY <1>4, <2>1 DEF Grown, Counted
<1>12. ASSUME NEW i \in 1..(n + 1), NEW a \in Assets
       PROVE  running'[i + 1][a] = running'[i][a] + Of(leaves'[i].sums, a)
  <2>1. CASE i \in 1..n
    <3>1. i \in 1..(n + 1) /\ i + 1 \in 1..(n + 1)
      BY <1>1, <2>1
    <3> QED
      BY <1>3, <1>4, <2>1, <3>1 DEF Grown, Counted
  <2>2. CASE i = n + 1
    <3>1. i + 1 = n + 2 /\ leaves'[i].sums = b
      BY <1>1, <1>3, <2>2 DEF leaf_node
    <3> QED
      BY <1>4, <1>6, <1>8, <2>2, <3>1
  <2> QED
    BY <1>1, <2>1, <2>2
<1>13. ASSUME NEW i \in 1..(n + 2), NEW j \in 1..(n + 2), i <= j, NEW a \in Assets
       PROVE  running'[i][a] <= running'[j][a]
  <2>1. CASE j \in 1..(n + 1)
    <3>1. i \in 1..(n + 1)
      BY <1>1, <1>13, <2>1
    <3>2. running[i][a] <= running[j][a]
      BY <1>1, <1>13, <2>1, <3>1 DEF Grown, Counted
    <3> QED
      BY <1>4, <2>1, <3>1, <3>2
  <2>2. CASE j = n + 2 /\ i \in 1..(n + 1)
    <3>1. running[i][a] <= running[n + 1][a]
      <4>1. \A k, m \in 1..(n + 1) : k <= m => running[k][a] <= running[m][a]
        BY <1>1 DEF Grown, Counted
      <4>2. n + 1 \in 1..(n + 1) /\ i <= n + 1
        BY <1>1, <2>2
      <4> QED
        BY <2>2, <4>1, <4>2
    <3>2. running[i] \in [Assets -> Nat]
      BY <1>5, <2>2
    <3>3. running[i][a] \in Nat /\ running[n + 1][a] \in Nat /\ new[a] \in Nat
      BY <1>6, <1>8, <3>2
    <3>4. running[i][a] <= new[a]
      BY <1>8, <3>1, <3>3
    <3> QED
      BY <1>4, <2>2, <3>4
  <2>3. CASE i = n + 2
    <3>1. j = n + 2 /\ new[a] \in Nat
      BY <1>1, <1>8, <1>13, <2>3
    <3> QED
      BY <1>4, <2>3, <3>1
  <2> QED
    BY <1>1, <2>1, <2>2, <2>3
<1>14. Counted'
  <2>1. /\ 1 .. Len(leaves') = 1 .. (n + 1) /\ 1 .. Len(running') = 1 .. (n + 2)
        /\ Len(running') = Len(leaves') + 1
    BY <1>1, <1>3, <1>4
  <2>2. \A i \in 1..Len(leaves') : IsLeaf(leaves'[i])
    BY <1>9, <2>1, Zenon
  <2>3. \A i \in 1..Len(running') : running'[i] \in [Assets -> Nat]
    BY <1>10, <2>1, Zenon
  <2>4. \A i \in 1..Len(leaves'), a \in Assets :
          running'[i + 1][a] = running'[i][a] + Of(leaves'[i].sums, a)
    BY <1>12, <2>1, Zenon
  <2>5. \A i, j \in 1..Len(running') :
          i <= j => \A a \in Assets : running'[i][a] <= running'[j][a]
    BY <1>13, <2>1, Zenon
  <2> QED
    BY <1>3, <1>4, <1>11, <2>1, <2>2, <2>3, <2>4, <2>5, Zenon DEF Counted
<1>15. Layered'
  BY <1>2 DEF Grown, Layered, Done
<1> QED
  BY <1>14, <1>15 DEF Grown

\* Steps that leave the tree as it is.
LEMMA CountedStands ==
  ASSUME Counted, UNCHANGED <<leaves, running>>
  PROVE  Counted'
<1>1. leaves' = leaves /\ running' = running
  OBVIOUS
<1> QED
  BY <1>1, Zenon DEF Counted

LEMMA CoversStands ==
  ASSUME NEW level, NEW span, Covers(level, span), UNCHANGED <<leaves, running>>,
         Top' = level, (spans[Len(spans)])' = span
  PROVE  Covers(Top, spans[Len(spans)])'
<1>1. leaves' = leaves /\ running' = running
  OBVIOUS
<1>2. /\ IsLevel(level) /\ Chained(span) /\ Len(span) = Len(level)
      /\ \A i \in 1..Len(level) : Carries(level[i], span[i].lo, span[i].hi)
  BY DEF Covers
<1>3. IsLevel(Top)' /\ Len(Top') = Len(level)
  BY <1>2
<1>4. Chained(spans[Len(spans)])' /\ Len((spans[Len(spans)])') = Len(level)
  BY <1>1, <1>2, Zenon DEF Chained
<1>5. \A i \in 1..Len(level) :
        Carries(Top[i], spans[Len(spans)][i].lo, spans[Len(spans)][i].hi)'
  BY <1>1, <1>2, Zenon DEF Carries
<1> QED
  BY <1>3, <1>4, <1>5, Zenon DEF Covers

LEMMA StandsGrown ==
  ASSUME Grown, UNCHANGED <<leaves, levels, running, spans>>,
         pc' \notin {"intake", "failed"}, Len(levels) >= 1, pc' \in Done => Len(Top) = 1
  PROVE  Grown'
<1>1. Counted'
  BY CountedStands DEF Grown
<1>2. Layered'
  <2>1. /\ leaves' = leaves /\ levels' = levels /\ spans' = spans /\ Top' = Top
        /\ pc' # "intake" /\ pc' # "failed"
    BY DEF Top
  <2>2. Layered
    BY DEF Grown
  <2>3. levels[1] = leaves /\ Covers(Top, spans[Len(spans)])
    BY <2>2 DEF Layered
  <2>4. Covers(Top, spans[Len(spans)])'
    BY <2>1, <2>3, CoversStands
  <2> QED
    BY <2>1, <2>2, <2>3, <2>4, Zenon DEF Layered
<1> QED
  BY <1>1, <1>2 DEF Grown

\* The lowest level carries the leaves one by one.
LEMMA LeavesCover ==
  ASSUME Counted, leaves # <<>>
  PROVE  Covers(leaves, [i \in DOMAIN leaves |-> [lo |-> i, hi |-> i]])
<1> DEFINE n == Len(leaves)
           span == [i \in DOMAIN leaves |-> [lo |-> i, hi |-> i]]
<1>1. n \in Nat /\ leaves = [i \in 1..n |-> leaves[i]] /\ DOMAIN leaves = 1..n
  BY DEF Counted, IsSeq
<1>2. n >= 1
  <2>1. leaves \in Seq({leaves[i] : i \in 1..n})
    <3> DEFINE S == {leaves[i] : i \in 1..n}
    <3>1. \A i \in 1..n : leaves[i] \in S
      OBVIOUS
    <3> HIDE DEF S
    <3>2. [i \in 1..n |-> leaves[i]] \in Seq(S)
      BY <1>1, <3>1, IsASeq
    <3> QED
      BY <1>1, <3>2 DEF S
  <2>2. n # 0
    BY <2>1, EmptySeq
  <2> QED
    BY <1>1, <2>2
<1>3. ASSUME NEW i \in 1..n PROVE span[i].lo = i /\ span[i].hi = i
  <2>1. span[i] = [lo |-> i, hi |-> i]
    BY <1>1
  <2> QED
    BY <2>1
<1>4. IsSeq(span) /\ Len(span) = n
  <2>1. span = [i \in 1..n |-> span[i]]
    BY <1>1
  <2> HIDE DEF span
  <2> QED
    BY <1>1, <2>1, FunctionIsSeq
<1> HIDE DEF span
<1>5. Chained(span)
  <2>1. 1 \in 1..n /\ n \in 1..n /\ \A i \in 1..(n - 1) : i \in 1..n /\ i + 1 \in 1..n
    BY <1>1, <1>2
  <2>2. \A i \in 1..n : span[i].lo = i /\ span[i].hi = i
    BY <1>3
  <2>3. \A i \in 1..(n - 1) : span[i + 1].lo = span[i].hi + 1
    BY <1>1, <2>1, <2>2
  <2>4. \A i \in 1..n : span[i].lo \in 1..n /\ span[i].hi \in 1..n /\ span[i].lo <= span[i].hi
    BY <1>1, <2>2
  <2> QED
    BY <1>4, <2>1, <2>2, <2>3, <2>4 DEF Chained
<1>6. ASSUME NEW i \in 1..n PROVE IsNode(leaves[i]) /\ leaves[i].sums \in Sums
  BY LeafNode DEF Counted, IsLeaf, IsNode
<1>7. IsLevel(leaves)
  BY <1>2, <1>6 DEF IsLevel, Counted
<1>8. ASSUME NEW i \in 1..n PROVE Carries(leaves[i], i, i)
  <2>1. \A a \in Assets : running[i + 1][a] = running[i][a] + Of(leaves[i].sums, a)
    BY DEF Counted
  <2>2. i \in 1..Len(running) /\ i + 1 \in 1..Len(running)
    <3>1. Len(running) = n + 1
      BY DEF Counted
    <3> QED
      BY <1>1, <3>1
  <2>3. running[i] \in [Assets -> Nat]
    BY <2>2 DEF Counted
  <2>4. \A a \in Assets : Of(leaves[i].sums, a) \in 0..MaxAmount
    BY <1>6, SumsFacts
  <2>5. \A a \in Assets : Of(leaves[i].sums, a) = running[i + 1][a] - running[i][a]
    BY <2>1, <2>3, <2>4, BoundAssumption
  <2>6. i..i = {i}
    BY <1>1
  <2> QED
    BY <2>5, <2>6 DEF Carries
<1> QED
  BY <1>3, <1>4, <1>5, <1>7, <1>8 DEF Covers, span

LEMMA StartBuildGrown ==
  ASSUME Grown, StartBuild
  PROVE  Grown'
<1>1. Counted'
  BY DEF Grown, Counted, StartBuild
<1>2. Len(levels) = 0
  BY DEF Grown, Layered, StartBuild
<1>3. CASE leaves = <<>>
  <2>1. pc' = "failed" /\ UNCHANGED <<leaves, levels, running, spans>>
    BY <1>3 DEF StartBuild
  <2>2. Layered'
    BY <1>2, <1>3, <2>1 DEF Grown, Layered, Done
  <2> QED
    BY <1>1, <2>2 DEF Grown
<1>4. CASE leaves # <<>>
  <2> DEFINE span == [i \in DOMAIN leaves |-> [lo |-> i, hi |-> i]]
  <2>1. /\ pc' = "building" /\ levels' = <<leaves>> /\ spans' = <<span>>
        /\ leaves' = leaves /\ running' = running
    BY <1>4 DEF StartBuild
  <2>2. Covers(leaves, span)
    BY <1>4, LeavesCover DEF Grown
  <2> HIDE DEF span
  <2>3. /\ IsSeq(levels') /\ Len(levels') = 1 /\ levels'[1] = leaves
        /\ IsSeq(spans') /\ Len(spans') = 1 /\ spans'[1] = span
    BY <2>1, OneIsSeq
  <2>5. IsLevel(leaves)
    BY <2>2 DEF Covers
  <2>4. Top' = leaves /\ (spans[Len(spans)])' = span
    BY <2>3 DEF Top
  <2>6. Covers(Top, spans[Len(spans)])'
    BY <2>1, <2>2, <2>4, CoversStands
  <2>7. Layered'
    BY <2>1, <2>3, <2>5, <2>6 DEF Layered, Done
  <2> QED
    BY <1>1, <2>7 DEF Grown
<1> QED
  BY <1>3, <1>4

LEMMA BuildLevelGrown ==
  ASSUME Grown, BuildLevel
  PROVE  Grown'
<1> DEFINE n == Len(levels)
           span == spans[n]
<1>1. Counted'
  BY DEF Grown, Counted, BuildLevel
<1>2. /\ n \in Nat /\ n >= 1 /\ Len(spans) = n /\ IsSeq(levels) /\ IsSeq(spans)
      /\ Covers(Top, span) /\ Len(Top) > 1
  BY DEF Grown, Layered, BuildLevel, IsSeq
<1>3. CASE PairsFit(Top)
  <2>1. /\ pc' = "building" /\ levels' = Append(levels, Paired(Top))
        /\ spans' = Append(spans, SpansAbove(span))
        /\ leaves' = leaves /\ running' = running
    BY <1>2, <1>3 DEF BuildLevel, PairsFit
  <2>2. Covers(Paired(Top), SpansAbove(span))
    BY <1>2, <1>3, PairedCovers DEF Grown
  <2>3. /\ IsSeq(levels') /\ Len(levels') = n + 1
        /\ \A l \in 1..n : levels'[l] = levels[l]
        /\ levels'[n + 1] = Paired(Top)
    BY <1>2, <2>1, AppendIsSeq
  <2>4. /\ IsSeq(spans') /\ Len(spans') = n + 1
        /\ spans'[n + 1] = SpansAbove(span)
    <3> DEFINE above == SpansAbove(span)
    <3> HIDE DEF above
    <3>1. IsSeq(Append(spans, above)) /\ Len(Append(spans, above)) = Len(spans) + 1
          /\ Append(spans, above)[Len(spans) + 1] = above
      BY <1>2, AppendIsSeq
    <3> QED
      BY <1>2, <2>1, <3>1 DEF above
  <2>5. Covers(Top, spans[Len(spans)])'
    <3>1. Top' = Paired(Top) /\ (spans[Len(spans)])' = SpansAbove(span)
      BY <2>3, <2>4 DEF Top
    <3> QED
      BY <2>1, <2>2, <3>1, CoversStands
  <2>6. \A l \in 1..(n + 1) : IsLevel(levels'[l])
    <3>1. \A l \in 1..n : IsLevel(levels[l])
      BY DEF Grown, Layered
    <3>2. IsLevel(Paired(Top))
      BY <2>2 DEF Covers
    <3> QED
      BY <1>2, <2>3, <3>1, <3>2
  <2>7. \A l \in 1..n : /\ Len(levels'[l]) > 1 /\ PairsFit(levels'[l])
                         /\ levels'[l + 1] = Paired(levels'[l])
    <3>1. \A l \in 1..(n - 1) : /\ l \in 1..n /\ l + 1 \in 1..n
                                 /\ Len(levels[l]) > 1 /\ PairsFit(levels[l])
                                 /\ levels[l + 1] = Paired(levels[l])
      BY <1>2 DEF Grown, Layered
    <3>2. \A l \in 1..n : l \in 1..(n - 1) \/ l = n
      BY <1>2
    <3>3. levels'[n] = Top /\ levels'[n + 1] = Paired(Top)
      BY <1>2, <2>3 DEF Top
    <3> QED
      BY <1>2, <1>3, <2>3, <3>1, <3>2, <3>3
  <2>8. levels'[1] = leaves
    BY <1>2, <2>3 DEF Grown, Layered
  <2>9. Layered'
    BY <1>2, <2>1, <2>3, <2>4, <2>5, <2>6, <2>7, <2>8 DEF Layered, Done
  <2> QED
    BY <1>1, <2>9 DEF Grown
<1>4. CASE ~PairsFit(Top)
  <2>1. pc' = "failed" /\ UNCHANGED <<leaves, levels, running, spans>>
    BY <1>4 DEF BuildLevel, PairsFit
  <2>2. Overflows
    BY <1>2, <1>4, OverflowBelow DEF Grown
  <2>3. Covers(Top, spans[Len(spans)])' /\ Overflows'
    <3>1. Top' = Top /\ (spans[Len(spans)])' = span /\ UNCHANGED <<leaves, running>>
      BY <1>2, <2>1 DEF Top
    <3> QED
      BY <1>2, <2>2, <3>1, CoversStands DEF Overflows
  <2>4. Layered'
    BY <1>2, <2>1, <2>3 DEF Grown, Layered, Done
  <2> QED
    BY <1>1, <2>4 DEF Grown
<1> QED
  BY <1>3, <1>4

LEMMA BuiltGrown ==
  ASSUME Grown, Built
  PROVE  Grown'
<1>1. Len(levels) >= 1
  BY DEF Grown, Layered, Built
<1> QED
  BY <1>1, StandsGrown DEF Built

-----------------------------------------------------------------------------
\* Proofs.  The path of a leaf is the nodes its proof folds into, one after the
\* other.

Leads(path, steps, from, to) ==
  /\ IsSeq(path) /\ Len(path) = Len(steps) + 1
  /\ path[1] = from /\ path[Len(path)] = to
  /\ \A k \in 1..Len(steps) : /\ StepFits(path[k], steps[k])
                              /\ path[k + 1] = StepOn(path[k], steps[k])

Asking == {"proving", "proved", "verifying", "accepted", "refused"}

\* The steps collected so far lead from the leaf to the node prove has come to.
Walking ==
  /\ pc \notin Asking => walk = NoWalk
  /\ pc \in Asking =>
       /\ walk = [leaf |-> walk.leaf, idx |-> walk.idx, level |-> walk.level, steps |-> walk.steps]
       /\ walk.leaf \in 0..(Len(leaves) - 1)
       /\ walk.level \in 1..Len(levels)
       /\ walk.idx \in 0..(Len(levels[walk.level]) - 1)
       /\ IsSeq(walk.steps)
       /\ \E path : Leads(path, walk.steps, leaves[walk.leaf + 1], levels[walk.level][walk.idx + 1])
  /\ pc \in Asking \ {"proving"} => walk.level = Len(levels)

\* A fold that began with the leaf is on its path; one that began with another
\* leaf has another hash than the path at every step.
Folding ==
  /\ pc \in {"verifying", "accepted", "refused"} =>
       /\ fold = [claimed |-> fold.claimed, current |-> fold.current, at |-> fold.at]
       /\ IsLeaf(fold.claimed)
       /\ fold.at \in 1..(Len(walk.steps) + 1)
       /\ \E path :
            /\ Leads(path, walk.steps, leaves[walk.leaf + 1], Root)
            /\ fold.claimed = leaves[walk.leaf + 1] => fold.current = path[fold.at]
            /\ fold.claimed # leaves[walk.leaf + 1] => fold.current.hash # path[fold.at].hash
  /\ ProofsVerify

LEMMA LeafHash ==
  ASSUME NEW m, NEW n, IsLeaf(m), IsLeaf(n), m # n
  PROVE  m.hash # n.hash
<1>1. PICK s, b : m = leaf_node(s, b)
  BY DEF IsLeaf
<1>2. PICK t, c : n = leaf_node(t, c)
  BY DEF IsLeaf
<1>3. m.hash = [subject |-> s, holds |-> b] /\ n.hash = [subject |-> t, holds |-> c]
  BY <1>1, <1>2 DEF leaf_node
<1>4. s # t \/ b # c
  BY <1>1, <1>2
<1> QED
  BY <1>3, <1>4

LEMMA LeadsOn ==
  ASSUME NEW path, NEW steps, NEW from, NEW to, NEW step,
         Leads(path, steps, from, to), IsSeq(steps), StepFits(to, step)
  PROVE  Leads(Append(path, StepOn(to, step)), Append(steps, step), from, StepOn(to, step))
<1> DEFINE n == Len(steps)
           new == StepOn(to, step)
           path2 == Append(path, new)
           steps2 == Append(steps, step)
<1>1. n \in Nat /\ Len(path) = n + 1 /\ IsSeq(path) /\ path[1] = from /\ path[n + 1] = to
  BY DEF Leads, IsSeq
<1>2. /\ IsSeq(steps2) /\ Len(steps2) = n + 1
      /\ \A k \in 1..n : steps2[k] = steps[k]
      /\ steps2[n + 1] = step
  BY AppendIsSeq
<1>3. /\ IsSeq(path2) /\ Len(path2) = n + 2
      /\ \A k \in 1..(n + 1) : path2[k] = path[k]
      /\ path2[n + 2] = new
  <2> HIDE DEF new
  <2>1. /\ IsSeq(Append(path, new)) /\ Len(Append(path, new)) = Len(path) + 1
        /\ \A k \in 1..Len(path) : Append(path, new)[k] = path[k]
        /\ Append(path, new)[Len(path) + 1] = new
    BY <1>1, AppendIsSeq
  <2> QED
    BY <1>1, <2>1
<1> HIDE DEF path2, steps2, n
<1>4. ASSUME NEW k \in 1..(n + 1)
      PROVE  StepFits(path2[k], steps2[k]) /\ path2[k + 1] = StepOn(path2[k], steps2[k])
  <2>1. CASE k \in 1..n
    <3>1. StepFits(path[k], steps[k]) /\ path[k + 1] = StepOn(path[k], steps[k])
      BY <2>1 DEF Leads, n
    <3>2. k \in 1..(n + 1) /\ k + 1 \in 1..(n + 1)
      BY <1>1, <2>1
    <3> QED
      BY <1>2, <1>3, <2>1, <3>1, <3>2
  <2>2. CASE k = n + 1
    <3>1. k \in 1..(n + 1) /\ k + 1 = n + 2
      BY <1>1, <2>2
    <3>2. path2[k] = to /\ steps2[k] = step /\ path2[k + 1] = new
      BY <1>1, <1>2, <1>3, <2>2, <3>1
    <3> QED
      BY <3>2
  <2> QED
    BY <1>1, <2>1, <2>2
<1>5. path2[1] = from /\ path2[Len(path2)] = new /\ Len(path2) = Len(steps2) + 1
  <2>1. 1 \in 1..(n + 1) /\ (n + 1) + 1 = n + 2
    BY <1>1
  <2> QED
    BY <1>1, <1>2, <1>3, <2>1
<1>6. Leads(path2, steps2, from, new)
  BY <1>2, <1>3, <1>4, <1>5 DEF Leads
<1> QED
  BY <1>6 DEF path2, steps2

\* One turn of prove's loop, from a node of one level to the node of the next
\* that is above it.
LEMMA NodeAbove ==
  ASSUME NEW level, IsLevel(level), Len(level) > 1, PairsFit(level), NEW idx \in 0..(Len(level) - 1)
  PROVE  LET sibling == SiblingOf(idx)
             step == [sibling |-> level[sibling + 1], onLeft |-> sibling < idx]
             node == level[idx + 1]
             above == Paired(level)[idx \div 2 + 1]
         IN  /\ idx \div 2 \in 0..(Len(Paired(level)) - 1)
             /\ sibling < Len(level) => StepFits(node, step) /\ above = StepOn(node, step)
             /\ ~(sibling < Len(level)) => above = node
<1> DEFINE n == Len(level)
           m == (n + 1) \div 2
           i == idx \div 2 + 1
           sibling == SiblingOf(idx)
           step == [sibling |-> level[sibling + 1], onLeft |-> sibling < idx]
           node == level[idx + 1]
           above == Paired(level)[i]
<1>1. n \in Nat /\ n > 1 /\ Len(Paired(level)) = m /\ Chunks(level) = 1..m /\ idx \in Nat /\ idx < n
  BY PairedLevel DEF IsLevel, IsSeq, Chunks
<1>2. i \in 1..m /\ i - 1 = idx \div 2 /\ i - 1 \in 0..(m - 1)
  BY <1>1
<1>3. above = IF 2 * i <= n THEN combine(level[2 * i - 1], level[2 * i]) ELSE level[2 * i - 1]
  BY <1>1, <1>2 DEF Paired, IsPair
<1>4. 2 * i <= n => Fits(level[2 * i - 1], level[2 * i])
  BY <1>1, <1>2 DEF PairsFit, IsPair
<1>5. CASE idx % 2 = 0
  <2>1. 2 * i - 1 = idx + 1 /\ 2 * i = idx + 2
    BY <1>1, <1>5
  <2>2. sibling = idx + 1 /\ ~(sibling < idx) /\ sibling + 1 = 2 * i
    BY <1>1, <1>5, <2>1 DEF SiblingOf
  <2>3. sibling < n <=> 2 * i <= n
    BY <1>1, <2>1, <2>2
  <2>4. step.sibling = level[2 * i] /\ ~step.onLeft /\ node = level[2 * i - 1]
    BY <2>1, <2>2
  <2>5. sibling < n => StepFits(node, step) /\ above = StepOn(node, step)
    BY <1>3, <1>4, <2>3, <2>4 DEF StepFits, StepOn
  <2>6. ~(sibling < n) => above = node
    BY <1>3, <2>3, <2>4
  <2> QED
    BY <1>1, <1>2, <2>5, <2>6
<1>6. CASE idx % 2 # 0
  <2>1. 2 * i = idx + 1 /\ 2 * i - 1 = idx
    BY <1>1, <1>6
  <2>2. sibling = idx - 1 /\ sibling < idx /\ sibling + 1 = 2 * i - 1 /\ sibling < n /\ 2 * i <= n
    BY <1>1, <1>6, <2>1 DEF SiblingOf
  <2>3. step.sibling = level[2 * i - 1] /\ step.onLeft /\ node = level[2 * i]
    BY <2>1, <2>2
  <2>4. StepFits(node, step) /\ above = StepOn(node, step)
    BY <1>3, <1>4, <2>2, <2>3 DEF StepFits, StepOn
  <2> QED
    BY <1>1, <1>2, <2>2, <2>4
<1> QED
  BY <1>5, <1>6

-----------------------------------------------------------------------------
\* The calls of prove and verify_proof at every step.

Kept == Grown /\ Walking /\ Folding

LEMMA InitKept == TreeInit => Kept
BY InitGrown DEF TreeInit, Kept, Walking, Folding, ProofsVerify, Asking

LEMMA BeforeProofsKept ==
  ASSUME Kept, Grown', pc \notin Asking, pc' \notin Asking, UNCHANGED callVars
  PROVE  Kept'
<1>1. Walking'
  BY DEF Kept, Walking, Asking, callVars
<1>2. Folding'
  BY DEF Folding, ProofsVerify, Asking
<1> QED
  BY <1>1, <1>2 DEF Kept

\* Steps of calls leave the tree alone.
LEMMA CallGrown ==
  ASSUME Kept, UNCHANGED <<leaves, levels, running, spans>>, pc \in Done, pc' \in Done
  PROVE  Grown'
<1>1. Len(levels) >= 1 /\ Len(Top) = 1
  BY DEF Kept, Grown, Layered, Done
<1> QED
  BY <1>1, StandsGrown DEF Kept, Done

LEMMA StartProofKept ==
  ASSUME Kept, NEW i, StartProof(i)
  PROVE  Kept'
<1>1. /\ walk' = [leaf |-> i, idx |-> i, level |-> 1, steps |-> <<>>]
      /\ pc = "built" /\ pc' = "proving" /\ UNCHANGED <<leaves, levels, fold, running, spans>>
      /\ i \in 0..(Len(leaves) - 1)
  BY DEF StartProof
<1>2. Grown'
  BY <1>1, CallGrown DEF Done
<1>3. Len(levels) >= 1 /\ levels[1] = leaves /\ Len(levels) \in Nat
  BY <1>1 DEF Kept, Grown, Layered, IsSeq
<1>4. Leads(<<leaves[i + 1]>>, <<>>, leaves[i + 1], leaves[i + 1])
  <2> DEFINE path == <<leaves[i + 1]>>
  <2>1. IsSeq(path) /\ Len(path) = 1 /\ path[1] = leaves[i + 1]
    BY OneIsSeq
  <2> HIDE DEF path
  <2>2. Leads(path, <<>>, leaves[i + 1], leaves[i + 1])
    BY <2>1, NoneIsSeq DEF Leads
  <2> QED
    BY <2>2 DEF path
<1>5. Walking'
  <2>1. Leads(<<leaves[i + 1]>>, walk'.steps, leaves'[walk'.leaf + 1], levels'[walk'.level][walk'.idx + 1])
    BY <1>1, <1>3, <1>4
  <2>2. \E path : Leads(path, walk'.steps, leaves'[walk'.leaf + 1],
                        levels'[walk'.level][walk'.idx + 1])
    BY <2>1
  <2>3. /\ walk'.leaf \in 0..(Len(leaves') - 1) /\ walk'.level \in 1..Len(levels')
        /\ walk'.idx \in 0..(Len(levels'[walk'.level]) - 1) /\ IsSeq(walk'.steps)
    BY <1>1, <1>3, NoneIsSeq
  <2>4. walk' = [leaf |-> walk'.leaf, idx |-> walk'.idx, level |-> walk'.level, steps |-> walk'.steps]
    BY <1>1
  <2> QED
    BY <1>1, <2>2, <2>3, <2>4 DEF Walking, Asking
<1>6. Folding'
  BY <1>1 DEF Folding, ProofsVerify
<1> QED
  BY <1>2, <1>5, <1>6 DEF Kept

LEMMA ProveStepKept ==
  ASSUME Kept, ProveStep
  PROVE  Kept'
<1> DEFINE l == walk.level
           idx == walk.idx
           level == levels[l]
           sibling == SiblingOf(idx)
           step == [sibling |-> level[sibling + 1], onLeft |-> sibling < idx]
           node == level[idx + 1]
           above == Paired(level)[idx \div 2 + 1]
           from == leaves[walk.leaf + 1]
<1>1. /\ pc = "proving" /\ pc' = "proving" /\ UNCHANGED <<leaves, levels, fold, running, spans>>
      /\ l < Len(levels)
      /\ walk' = [walk EXCEPT !.idx = @ \div 2, !.level = @ + 1,
                              !.steps = IF sibling < Len(level) THEN Append(@, step) ELSE @]
  BY DEF ProveStep
<1>2. /\ walk = [leaf |-> walk.leaf, idx |-> idx, level |-> l, steps |-> walk.steps]
      /\ walk.leaf \in 0..(Len(leaves) - 1) /\ l \in 1..Len(levels) /\ idx \in 0..(Len(level) - 1)
      /\ IsSeq(walk.steps)
  BY <1>1 DEF Kept, Walking, Asking
<1>3. PICK path : Leads(path, walk.steps, from, node)
  BY <1>1 DEF Kept, Walking, Asking
<1>4. l \in 1..(Len(levels) - 1) /\ Len(levels) \in Nat /\ l + 1 \in 1..Len(levels)
  BY <1>1, <1>2 DEF Kept, Grown, Layered, IsSeq
<1>5. /\ IsLevel(level) /\ Len(level) > 1 /\ PairsFit(level)
      /\ levels[l + 1] = Paired(level)
  BY <1>4 DEF Kept, Grown, Layered
<1>6. /\ idx \div 2 \in 0..(Len(Paired(level)) - 1)
      /\ sibling < Len(level) => StepFits(node, step) /\ above = StepOn(node, step)
      /\ ~(sibling < Len(level)) => above = node
  BY <1>2, <1>5, NodeAbove
<1>7. Grown'
  BY <1>1, CallGrown DEF Done
<1>8. /\ walk'.leaf = walk.leaf /\ walk'.idx = idx \div 2 /\ walk'.level = l + 1
      /\ walk'.steps = IF sibling < Len(level) THEN Append(walk.steps, step) ELSE walk.steps
      /\ walk' = [leaf |-> walk'.leaf, idx |-> walk'.idx, level |-> walk'.level, steps |-> walk'.steps]
  BY <1>1, <1>2
<1>9. levels'[walk'.level][walk'.idx + 1] = above /\ leaves'[walk'.leaf + 1] = from
  BY <1>1, <1>5, <1>8
<1>10. IsSeq(walk'.steps) /\ \E path2 : Leads(path2, walk'.steps, from, above)
  <2>1. CASE sibling < Len(level)
    <3> HIDE DEF step, node, above, from, sibling
    <3>1. Leads(Append(path, StepOn(node, step)), Append(walk.steps, step), from, StepOn(node, step))
      BY <1>2, <1>3, <1>6, <2>1, LeadsOn
    <3>2. IsSeq(Append(walk.steps, step))
      BY <1>2, AppendIsSeq
    <3> QED
      BY <1>6, <1>8, <2>1, <3>1, <3>2
  <2>2. CASE ~(sibling < Len(level))
    <3> HIDE DEF step, node, above, from, sibling
    <3> QED
      BY <1>2, <1>3, <1>6, <1>8, <2>2
  <2> QED
    BY <2>1, <2>2
<1>11. Walking'
  <2>1. /\ walk'.leaf \in 0..(Len(leaves') - 1) /\ walk'.level \in 1..Len(levels')
        /\ walk'.idx \in 0..(Len(levels'[walk'.level]) - 1)
    BY <1>1, <1>2, <1>4, <1>5, <1>6, <1>8
  <2> HIDE DEF above, from
  <2>2. \E path2 : Leads(path2, walk'.steps, leaves'[walk'.leaf + 1],
                         levels'[walk'.level][walk'.idx + 1])
    BY <1>9, <1>10
  <2> QED
    BY <1>1, <1>8, <1>10, <2>1, <2>2 DEF Walking, Asking
<1>12. Folding'
  BY <1>1 DEF Folding, ProofsVerify
<1> QED
  BY <1>7, <1>11, <1>12 DEF Kept

LEMMA ProvedKept ==
  ASSUME Kept, Proved
  PROVE  Kept'
<1>1. /\ pc = "proving" /\ pc' = "proved" /\ walk.level = Len(levels)
      /\ UNCHANGED <<leaves, levels, walk, fold, running, spans>>
  BY DEF Proved
<1>2. Grown'
  BY <1>1, CallGrown DEF Done
<1>3. Walking'
  BY <1>1 DEF Kept, Walking, Asking
<1>4. Folding'
  BY <1>1 DEF Folding, ProofsVerify
<1> QED
  BY <1>2, <1>3, <1>4 DEF Kept

LEMMA StartVerifyKept ==
  ASSUME Kept, NEW s \in Subjects, NEW sums \in Sums, StartVerify(leaf_node(s, sums))
  PROVE  Kept'
<1> DEFINE claimed == leaf_node(s, sums)
           from == leaves[walk.leaf + 1]
<1>1. /\ pc = "proved" /\ pc' = "verifying" /\ UNCHANGED <<leaves, levels, walk, running, spans>>
      /\ fold' = [claimed |-> claimed, current |-> claimed, at |-> 1]
  BY DEF StartVerify
<1>2. Grown'
  BY <1>1, CallGrown DEF Done
<1>3. Walking'
  BY <1>1 DEF Kept, Walking, Asking
<1>4. /\ walk.level = Len(levels) /\ walk.idx \in 0..(Len(Top) - 1) /\ Len(Top) = 1
      /\ walk.leaf \in 0..(Len(leaves) - 1) /\ IsSeq(walk.steps)
  BY <1>1 DEF Kept, Walking, Asking, Grown, Layered, Done, Top
<1>5. PICK path : Leads(path, walk.steps, from, levels[walk.level][walk.idx + 1])
  BY <1>1 DEF Kept, Walking, Asking
<1>6. Leads(path, walk.steps, from, Root)
  <2>1. walk.idx = 0 /\ levels[walk.level][walk.idx + 1] = Root
    BY <1>4 DEF Root, Top
  <2> QED
    BY <1>5, <2>1
<1>7. IsLeaf(claimed) /\ IsLeaf(from)
  <2>1. walk.leaf + 1 \in 1..Len(leaves)
    BY <1>4 DEF Kept, Grown, Counted, IsSeq
  <2> QED
    BY <2>1 DEF Kept, Grown, Counted, IsLeaf
<1> HIDE DEF claimed
<1>8. /\ fold'.claimed = claimed /\ fold'.current = claimed /\ fold'.at = 1
      /\ fold' = [claimed |-> fold'.claimed, current |-> fold'.current, at |-> fold'.at]
  BY <1>1
<1>9. fold'.at \in 1..(Len(walk'.steps) + 1)
  BY <1>1, <1>4, <1>8 DEF IsSeq
<1>10. /\ claimed = from => claimed = path[1]
       /\ claimed # from => claimed.hash # path[1].hash
  BY <1>6, <1>7, LeafHash DEF Leads
<1>11. Root' = Root /\ leaves'[walk'.leaf + 1] = from
  BY <1>1 DEF Root, Top
<1> HIDE DEF from
<1>12. /\ Leads(path, walk'.steps, leaves'[walk'.leaf + 1], Root')
       /\ fold'.claimed = leaves'[walk'.leaf + 1] => fold'.current = path[fold'.at]
       /\ fold'.claimed # leaves'[walk'.leaf + 1] => fold'.current.hash # path[fold'.at].hash
  BY <1>1, <1>6, <1>8, <1>10, <1>11
<1>13. Folding'
  BY <1>1, <1>7, <1>8, <1>9, <1>12 DEF Folding, ProofsVerify, IsLeaf
<1> QED
  BY <1>2, <1>3, <1>13 DEF Kept

LEMMA FoldStepKept ==
  ASSUME Kept, FoldStep
  PROVE  Kept'
<1> DEFINE n == Len(walk.steps)
           k == fold.at
           step == walk.steps[k]
           from == leaves[walk.leaf + 1]
           turned == StepOn(fold.current, step)
<1>1. /\ pc = "verifying" /\ pc' \in {"verifying", "refused"} /\ k <= n
      /\ UNCHANGED <<leaves, levels, walk, running, spans>>
  BY DEF FoldStep
<1>2. Grown' /\ Walking'
  BY <1>1, CallGrown DEF Done, Kept, Walking, Asking
<1>3. /\ fold = [claimed |-> fold.claimed, current |-> fold.current, at |-> k]
      /\ IsLeaf(fold.claimed) /\ k \in 1..(n + 1) /\ n \in Nat
  BY <1>1 DEF Kept, Folding, Walking, Asking, IsSeq
<1>4. PICK path :
        /\ Leads(path, walk.steps, from, Root)
        /\ fold.claimed = from => fold.current = path[k]
        /\ fold.claimed # from => fold.current.hash # path[k].hash
  BY <1>1 DEF Kept, Folding
<1>5. k \in 1..n /\ StepFits(path[k], step) /\ path[k + 1] = StepOn(path[k], step)
  BY <1>1, <1>3, <1>4 DEF Leads
<1>6. Root' = Root /\ leaves'[walk'.leaf + 1] = from
  BY <1>1 DEF Root, Top
<1>7. CASE StepFits(fold.current, step)
  <2>1. /\ fold' = [fold EXCEPT !.current = StepOn(@, step), !.at = @ + 1] /\ pc' = "verifying"
    BY <1>1, <1>7 DEF FoldStep
  <2>2. /\ fold'.claimed = fold.claimed /\ fold'.current = turned /\ fold'.at = k + 1
        /\ fold' = [claimed |-> fold'.claimed, current |-> fold'.current, at |-> fold'.at]
    BY <1>3, <2>1
  <2>3. /\ fold.claimed = from => turned = path[k + 1]
        /\ fold.claimed # from => turned.hash # path[k + 1].hash
    <3>1. CASE fold.claimed = from
      BY <1>4, <1>5, <3>1
    <3>2. CASE fold.claimed # from
      BY <1>4, <1>5, <3>2, StepInjective
    <3> QED
      BY <3>1, <3>2
  <2>4. fold'.at \in 1..(Len(walk'.steps) + 1)
    BY <1>1, <1>5, <1>3, <2>2
  <2> HIDE DEF from, turned
  <2>5. /\ Leads(path, walk'.steps, leaves'[walk'.leaf + 1], Root')
        /\ fold'.claimed = leaves'[walk'.leaf + 1] => fold'.current = path[fold'.at]
        /\ fold'.claimed # leaves'[walk'.leaf + 1] => fold'.current.hash # path[fold'.at].hash
    BY <1>1, <1>4, <1>6, <2>2, <2>3
  <2>6. Folding'
    BY <1>3, <2>1, <2>2, <2>4, <2>5 DEF Folding, ProofsVerify, IsLeaf
  <2> QED
    BY <1>2, <2>6 DEF Kept
<1>8. CASE ~StepFits(fold.current, step)
  <2>1. pc' = "refused" /\ UNCHANGED fold
    BY <1>1, <1>8 DEF FoldStep
  <2>2. fold.claimed # from
    BY <1>4, <1>5, <1>8
  <2> HIDE DEF from
  <2>3. /\ Leads(path, walk'.steps, leaves'[walk'.leaf + 1], Root')
        /\ fold'.claimed = leaves'[walk'.leaf + 1] => fold'.current = path[fold'.at]
        /\ fold'.claimed # leaves'[walk'.leaf + 1] => fold'.current.hash # path[fold'.at].hash
    BY <1>1, <1>4, <1>6, <2>1
  <2>4. ProofsVerify'
    BY <1>6, <2>1, <2>2 DEF ProofsVerify
  <2>5. Folding'
    BY <1>1, <1>3, <2>1, <2>3, <2>4 DEF Folding, IsLeaf
  <2> QED
    BY <1>2, <2>5 DEF Kept
<1> QED
  BY <1>7, <1>8

LEMMA DecideKept ==
  ASSUME Kept, Decide
  PROVE  Kept'
<1> DEFINE from == leaves[walk.leaf + 1]
<1>1. /\ pc = "verifying" /\ fold.at = Len(walk.steps) + 1
      /\ pc' = (IF fold.current = Root THEN "accepted" ELSE "refused")
      /\ UNCHANGED <<leaves, levels, walk, fold, running, spans>>
  BY DEF Decide
<1>2. Grown' /\ Walking'
  BY <1>1, CallGrown DEF Done, Kept, Walking, Asking
<1>3. PICK path :
        /\ Leads(path, walk.steps, from, Root)
        /\ fold.claimed = from => fold.current = path[fold.at]
        /\ fold.claimed # from => fold.current.hash # path[fold.at].hash
  BY <1>1 DEF Kept, Folding
<1>4. path[fold.at] = Root
  BY <1>1, <1>3 DEF Leads
<1>5. Root' = Root /\ leaves'[walk'.leaf + 1] = from
  BY <1>1 DEF Root, Top
<1>6. fold.claimed = from <=> fold.current = Root
  BY <1>3, <1>4
<1>7. ProofsVerify'
  BY <1>1, <1>5, <1>6 DEF ProofsVerify
<1> HIDE DEF from
<1>8. /\ Leads(path, walk'.steps, leaves'[walk'.leaf + 1], Root')
      /\ fold'.claimed = leaves'[walk'.leaf + 1] => fold'.current = path[fold'.at]
      /\ fold'.claimed # leaves'[walk'.leaf + 1] => fold'.current.hash # path[fold'.at].hash
  BY <1>1, <1>3, <1>5
<1>9. Folding'
  BY <1>1, <1>7, <1>8 DEF Kept, Folding, IsLeaf
<1> QED
  BY <1>2, <1>9 DEF Kept

LEMMA NextKept == Kept /\ [TreeNext]_treeVars => Kept'
<1> SUFFICES ASSUME Kept, [TreeNext]_treeVars PROVE Kept'
  OBVIOUS
<1>1. ASSUME NEW s \in Subjects, NEW sums \in Sums, AddLeaf(s, sums) PROVE Kept'
  <2>1. Grown'
    BY <1>1, AddLeafGrown DEF Kept
  <2> QED
    BY <1>1, <2>1, BeforeProofsKept DEF AddLeaf, Asking
<1>2. ASSUME StartBuild PROVE Kept'
  <2>1. Grown'
    BY <1>2, StartBuildGrown DEF Kept
  <2> QED
    BY <1>2, <2>1, BeforeProofsKept DEF StartBuild, Asking
<1>3. ASSUME BuildLevel PROVE Kept'
  <2>1. Grown'
    BY <1>3, BuildLevelGrown DEF Kept
  <2> QED
    BY <1>3, <2>1, BeforeProofsKept DEF BuildLevel, Asking
<1>4. ASSUME Built PROVE Kept'
  <2>1. Grown'
    BY <1>4, BuiltGrown DEF Kept
  <2> QED
    BY <1>4, <2>1, BeforeProofsKept DEF Built, Asking
<1>5. ASSUME UNCHANGED treeVars PROVE Kept'
  <2>1. UNCHANGED <<pc, leaves, levels, walk, fold, running, spans>>
    BY <1>5 DEF treeVars
  <2>2. Counted'
    BY <2>1 DEF Kept, Grown, Counted, IsLeaf
  <2>3. Layered'
    BY <2>1 DEF Kept, Grown, Layered, Top, Covers, Chained, Carries, Overflows
  <2>4. Walking'
    BY <2>1 DEF Kept, Walking
  <2>5. Folding'
    BY <2>1 DEF Kept, Folding, ProofsVerify, IsLeaf, Root, Top
  <2> QED
    BY <2>2, <2>3, <2>4, <2>5 DEF Kept, Grown
<1> QED
  BY <1>1, <1>2, <1>3, <1>4, <1>5, StartProofKept, ProveStepKept, ProvedKept, StartVerifyKept,
     FoldStepKept, DecideKept DEF TreeNext, Build, Prove, Verify

LEMMA KeptHolds == TreeSpec => []Kept
BY InitKept, NextKept, PTL DEF TreeSpec

Phases == {"intake", "building", "failed", "built", "proving", "proved", "verifying",
           "accepted", "refused"}

InPhase == pc \in Phases

LEMMA PhasesHold == TreeSpec => []InPhase
<1>1. TreeInit => InPhase
  BY DEF TreeInit, InPhase, Phases
<1>2. InPhase /\ [TreeNext]_treeVars => InPhase'
  <2> SUFFICES ASSUME InPhase, [TreeNext]_treeVars PROVE InPhase'
    OBVIOUS
  <2>1. ASSUME \/ \E s \in Subjects, sums \in Sums : AddLeaf(s, sums)
               \/ \E s \in Subjects, sums \in Sums : StartVerify(leaf_node(s, sums))
               \/ \E i \in 0..(MaxLeaves - 1) : StartProof(i)
               \/ UNCHANGED treeVars
        PROVE  InPhase'
    BY <2>1 DEF InPhase, Phases, AddLeaf, StartVerify, StartProof, treeVars
  <2>2. ASSUME StartBuild \/ BuildLevel \/ Built PROVE InPhase'
    BY <2>2 DEF InPhase, Phases, StartBuild, BuildLevel, Built
  <2>3. ASSUME ProveStep PROVE InPhase'
    <3>1. UNCHANGED pc
      BY <2>3 DEF ProveStep
    <3> QED
      BY <3>1 DEF InPhase
  <2>4. ASSUME Proved \/ FoldStep \/ Decide PROVE InPhase'
    BY <2>4 DEF InPhase, Phases, Proved, FoldStep, Decide
  <2> QED
    BY <2>1, <2>2, <2>3, <2>4 DEF TreeNext, Build, Prove, Verify
<1> QED
  BY <1>1, <1>2, PTL DEF TreeSpec

-----------------------------------------------------------------------------
\* What a reader should know.

\* The values of the calls are what the functions take and return: nodes whose
\* amounts are u128, levels as long as they say, an index of the level it is for.
THEOREM TreeTypesHold == TreeSpec => []TreeTypeOK
<1>1. Kept /\ InPhase => TreeTypeOK
  <2> SUFFICES ASSUME Kept, InPhase PROVE TreeTypeOK
    OBVIOUS
  <2>1. /\ IsSeq(leaves) /\ Len(running) = Len(leaves) + 1 /\ Len(levels) = Len(spans)
        /\ IsSeq(levels) /\ \A l \in 1..Len(levels) : IsLevel(levels[l])
    BY DEF Kept, Grown, Counted, Layered
  <2>2. DOMAIN leaves = 1..Len(leaves) /\ \A i \in DOMAIN leaves : IsNode(leaves[i])
    <3>1. DOMAIN leaves = 1..Len(leaves)
      BY <2>1 DEF IsSeq
    <3>2. \A i \in 1..Len(leaves) : IsLeaf(leaves[i])
      BY DEF Kept, Grown, Counted
    <3> QED
      BY <3>1, <3>2, LeafNode DEF IsLeaf
  <2>3. \A l \in 1..Len(levels) :
          DOMAIN levels[l] = 1..Len(levels[l]) /\ \A i \in 1..Len(levels[l]) : IsNode(levels[l][i])
    BY <2>1 DEF IsLevel, IsSeq
  <2>4. walk.idx \in Nat /\ walk.level \in 0..Len(levels)
    <3>1. CASE pc \in Asking
      BY <2>1, <2>3, <3>1 DEF Kept, Walking, IsLevel, IsSeq
    <3>2. CASE pc \notin Asking
      BY <2>1, <3>2 DEF Kept, Walking, NoWalk, IsSeq
    <3> QED
      BY <3>1, <3>2
  <2> QED
    BY <2>1, <2>2, <2>3, <2>4 DEF TreeTypeOK, InPhase, Phases
<1> QED
  BY <1>1, KeptHolds, PhasesHold, PTL

\* build adds every leaf into the root once: a node that is promoted is not
\* counted again, and no asset of any leaf is lost on the way up.
THEOREM RootTotalsHold == TreeSpec => []RootTotals
<1>1. Kept => RootTotals
  <2> SUFFICES ASSUME Kept, pc \in Done
               PROVE  /\ Len(Top) = 1
                      /\ \A a \in Assets : Of(Root.sums, a) = running[Len(running)][a]
                      /\ DOMAIN Root.sums = UNION {DOMAIN leaves[i].sums : i \in DOMAIN leaves}
    BY DEF RootTotals
  <2> DEFINE span == spans[Len(spans)]
  <2>1. /\ Len(Top) = 1 /\ Covers(Top, span) /\ IsSeq(leaves) /\ Len(running) = Len(leaves) + 1
        /\ \A a \in Assets : running[1][a] = 0
    BY DEF Kept, Grown, Counted, Layered, Done
  <2>2. Len(span) = 1 /\ span[1].lo = 1 /\ span[1].hi = Len(leaves)
    BY <2>1 DEF Covers, Chained
  <2>3. Carries(Root, 1, Len(leaves))
    BY <2>1, <2>2 DEF Covers, Root
  <2>4. \A a \in Assets : Of(Root.sums, a) = running[Len(running)][a]
    <3>1. \A a \in Assets : running[Len(running)][a] \in Nat
      BY DEF Kept, Grown, Counted, IsSeq
    <3> QED
      BY <2>1, <2>3, <3>1 DEF Carries
  <2>5. DOMAIN Root.sums = UNION {DOMAIN leaves[k].sums : k \in 1..Len(leaves)}
    BY <2>3 DEF Carries
  <2> QED
    BY <2>1, <2>4, <2>5 DEF IsSeq
<1> QED
  BY <1>1, KeptHolds, PTL

\* build refuses a book only when it is empty or when the whole of it does not
\* fit in u128, in whatever order its leaves come.
THEOREM OverflowOnlyHold == TreeSpec => []OverflowOnly
<1>1. Kept => OverflowOnly
  BY DEF Kept, Grown, Layered, OverflowOnly, Overflows
<1> QED
  BY <1>1, KeptHolds, PTL

\* verify_proof accepts the proof that prove returned for its leaf, and for no
\* other leaf, at any number of leaves and through any promotions.
THEOREM ProofsVerifyHold == TreeSpec => []ProofsVerify
<1>1. Kept => ProofsVerify
  BY DEF Kept, Folding
<1> QED
  BY <1>1, KeptHolds, PTL
-----------------------------------------------------------------------------
\* What the leaves read so far are.

\* Amounts per name, of some names.
Amounts == UNION {[S -> 0..MaxAmount] : S \in SUBSET Names}

\* Who was read may be in the tree, and what they hold may be too, unless a custody
\* report names an asset it must not.
Readable ==
  \A u \in DOMAIN users :
    /\ u \in Subjects
    /\ users[u] \in Amounts
    /\ request.kind # "custody" => DOMAIN users[u] \subseteq Assets

\* Leaves are committed to only when all have been read and found good.
Intake ==
  /\ request \in Requests
  /\ next \in Nat \ {0}
  /\ Readable
  /\ pc = "intake" /\ leaves # <<>> => AllRead /\ ~CustodyRefused

LEMMA LastForIs ==
  ASSUME NEW amounts, DOMAIN amounts \subseteq Names, NEW n \in DOMAIN amounts
  PROVE  LastFor(amounts, Trim[n]) \in DOMAIN amounts /\ Trim[LastFor(amounts, Trim[n])] = Trim[n]
<1> DEFINE S == {m \in DOMAIN amounts : Trim[m] = Trim[n]}
<1>1. S \in SUBSET Names /\ n \in S
  OBVIOUS
<1>2. \E m \in S : \A k \in S : k = m \/ Before(k, m)
  <2>1. S \in (SUBSET Names) \ {{}}
    BY <1>1
  <2> HIDE DEF S
  <2> QED
    BY <2>1, NameAssumption
<1>3. \E m \in DOMAIN amounts :
        /\ Trim[m] = Trim[n]
        /\ \A k \in DOMAIN amounts : Trim[k] = Trim[n] => k = m \/ Before(k, m)
  BY <1>2
<1> QED
  BY <1>3 DEF LastFor

LEMMA BalancesHeld ==
  ASSUME NEW amounts, DOMAIN amounts \subseteq Names,
         \A n \in DOMAIN amounts :
           /\ Trim[n] \in Assets /\ amounts[n] \in [neg : BOOLEAN, n : Nat]
           /\ Parses(amounts[n].n)
  PROVE  Balances(amounts) \in Amounts /\ DOMAIN Balances(amounts) \subseteq Assets
<1> DEFINE held == {Trim[n] : n \in DOMAIN amounts}
<1>1. held \in SUBSET Assets /\ held \in SUBSET Names
  BY NameAssumption
<1>2. ASSUME NEW a \in held PROVE Clamp(amounts[LastFor(amounts, a)]) \in 0..MaxAmount
  <2>1. LastFor(amounts, a) \in DOMAIN amounts
    BY LastForIs
  <2> QED
    BY <2>1, BoundAssumption DEF Clamp, Parses
<1>3. Balances(amounts) = [a \in held |-> Clamp(amounts[LastFor(amounts, a)])]
  BY DEF Balances
<1>4. Balances(amounts) \in [held -> 0..MaxAmount] /\ DOMAIN Balances(amounts) = held
  BY <1>2, <1>3
<1> QED
  BY <1>1, <1>4 DEF Amounts

-----------------------------------------------------------------------------
\* Every step keeps Intake and is one of the tree's.

LEMMA InitIntake == Init => TreeInit /\ Intake
BY DEF Init, TreeInit, Intake, Readable

LEMMA RequestFacts ==
  ASSUME request \in Requests
  PROVE  /\ Len(request.leaves) \in Nat /\ DOMAIN request.leaves = 1..Len(request.leaves)
         /\ request.kind \in {"liabilities", "otherProfile", "custody"}
         /\ \A i \in DOMAIN request.leaves :
              /\ Trim[request.leaves[i].who] \in Subjects \cup {Blank}
              /\ DOMAIN request.leaves[i].amounts \subseteq Names
              /\ \A n \in DOMAIN request.leaves[i].amounts :
                   /\ Trim[n] \in Assets \cup {Blank}
                   /\ request.leaves[i].amounts[n] \in [neg : BOOLEAN, n : Nat]
              /\ request.kind = "custody" => request.leaves[i].who \in Subjects
<1>1. request.leaves \in Seq(Range(request.leaves))
  BY RequestAssumption
<1>2. Len(request.leaves) \in Nat /\ DOMAIN request.leaves = 1..Len(request.leaves)
  BY <1>1, LenProperties
<1> QED
  BY <1>2, RequestAssumption

\* While a leaf is left to read, none is committed to.
LEMMA NoneYet ==
  ASSUME Intake, pc = "intake", next <= Len(request.leaves)
  PROVE  leaves = <<>>
BY RequestFacts DEF Intake, AllRead

\* A refusal before any leaf is committed to is build's of no leaves.
LEMMA RefusalIsBuild ==
  ASSUME Intake, pc = "intake", leaves = <<>>, Refuse, UNCHANGED <<request, next, users>>
  PROVE  TreeNext /\ Intake'
<1>1. StartBuild
  BY DEF Refuse, StartBuild, callVars
<1>2. Intake'
  BY DEF Refuse, Intake, Readable, Amounts
<1> QED
  BY <1>1, <1>2 DEF TreeNext, Build

\* A leaf that is read leaves the tree alone.
LEMMA ReadingKept ==
  ASSUME Intake, pc = "intake", leaves = <<>>, UNCHANGED treeVars, UNCHANGED request,
         next' \in Nat \ {0}, Readable'
  PROVE  Intake'
BY DEF Intake, treeVars

LEMMA TakeLeafStep ==
  ASSUME Intake, TakeLeaf
  PROVE  [TreeNext]_treeVars /\ Intake'
<1> DEFINE leaf == request.leaves[next]
           user == Trim[leaf.who]
           read == Balances(leaf.amounts)
<1>1. /\ pc = "intake" /\ request.kind = "liabilities" /\ next <= Len(request.leaves)
      /\ UNCHANGED request /\ next \in Nat \ {0} /\ request \in Requests
  BY DEF TakeLeaf, Intake
<1>2. leaves = <<>>
  BY <1>1, NoneYet
<1>3. CASE Refuse /\ UNCHANGED <<next, users, badDebt, clamped>>
  BY <1>1, <1>2, <1>3, RefusalIsBuild
<1>4. CASE ~(Refuse /\ UNCHANGED <<next, users, badDebt, clamped>>)
  <2>1. /\ user # Blank
        /\ \A n \in DOMAIN leaf.amounts : Trim[n] # Blank /\ Parses(leaf.amounts[n].n)
        /\ users' = [u \in DOMAIN users \cup {user} |-> IF u = user THEN read ELSE users[u]]
        /\ next' = next + 1 /\ UNCHANGED treeVars
    BY <1>4 DEF TakeLeaf
  <2>2. next \in DOMAIN request.leaves
    BY <1>1, RequestFacts
  <2>3. user \in Subjects
    BY <1>1, <2>1, <2>2, RequestFacts
  <2>4. read \in Amounts /\ DOMAIN read \subseteq Assets
    <3>1. /\ DOMAIN leaf.amounts \subseteq Names
          /\ \A n \in DOMAIN leaf.amounts :
               /\ Trim[n] \in Assets /\ leaf.amounts[n] \in [neg : BOOLEAN, n : Nat]
               /\ Parses(leaf.amounts[n].n)
      BY <1>1, <2>1, <2>2, RequestFacts
    <3> HIDE DEF leaf
    <3> QED
      BY <3>1, BalancesHeld
  <2> HIDE DEF user, read
  <2>5. Readable'
    BY <1>1, <2>1, <2>3, <2>4 DEF Intake, Readable, Amounts
  <2> QED
    BY <1>1, <1>2, <2>1, <2>5, ReadingKept
<1> QED
  BY <1>3, <1>4

LEMMA TakePositionStep ==
  ASSUME Intake, TakePosition
  PROVE  [TreeNext]_treeVars /\ Intake'
<1> DEFINE leaf == request.leaves[next]
           read == [n \in DOMAIN leaf.amounts |-> leaf.amounts[n].n]
<1>1. /\ pc = "intake" /\ request.kind = "custody" /\ next <= Len(request.leaves)
      /\ UNCHANGED request /\ next \in Nat \ {0} /\ request \in Requests
  BY DEF TakePosition, Intake
<1>2. leaves = <<>>
  BY <1>1, NoneYet
<1>3. CASE Refuse /\ UNCHANGED <<next, users>>
  BY <1>1, <1>2, <1>3, RefusalIsBuild
<1>4. CASE ~(Refuse /\ UNCHANGED <<next, users>>)
  <2>1. /\ \A n \in DOMAIN leaf.amounts : Parses(leaf.amounts[n].n)
        /\ users' = [u \in DOMAIN users \cup {leaf.who} |-> IF u = leaf.who THEN read ELSE users[u]]
        /\ next' = next + 1 /\ UNCHANGED treeVars
    BY <1>4 DEF TakePosition
  <2>2. next \in DOMAIN request.leaves
    BY <1>1, RequestFacts
  <2>3. leaf.who \in Subjects
    BY <1>1, <2>2, RequestFacts
  <2>4. read \in Amounts
    <3>1. /\ DOMAIN leaf.amounts \in SUBSET Names
          /\ \A n \in DOMAIN leaf.amounts : leaf.amounts[n] \in [neg : BOOLEAN, n : Nat]
      BY <1>1, <2>2, RequestFacts
    <3>2. \A n \in DOMAIN leaf.amounts : leaf.amounts[n].n \in 0..MaxAmount
      BY <2>1, <3>1, BoundAssumption DEF Parses
    <3> HIDE DEF leaf
    <3>3. read \in [DOMAIN leaf.amounts -> 0..MaxAmount]
      BY <3>2
    <3> QED
      BY <3>1, <3>3 DEF Amounts
  <2> HIDE DEF leaf, read
  <2>5. Readable'
    BY <1>1, <2>1, <2>3, <2>4 DEF Intake, Readable, Amounts
  <2> QED
    BY <1>1, <1>2, <2>1, <2>5, ReadingKept
<1> QED
  BY <1>3, <1>4

LEMMA CommitLeafStep ==
  ASSUME Intake, CommitLeaf
  PROVE  TreeNext /\ Intake'
<1>1. PICK u \in DOMAIN users : AddLeaf(u, users[u])
  BY DEF CommitLeaf
<1>2. AllRead /\ ~CustodyRefused /\ UNCHANGED <<request, next, users, badDebt, clamped>>
  BY DEF CommitLeaf
<1>3. u \in Subjects /\ users[u] \in Amounts /\ DOMAIN users[u] \subseteq Assets
  BY <1>1, <1>2, NameAssumption DEF Intake, Readable, CustodyRefused
<1>4. users[u] \in Sums
  BY <1>3 DEF Amounts, Sums
<1>5. AllRead' /\ ~CustodyRefused'
  BY <1>1, <1>2 DEF AllRead, Acceptable, CustodyRefused, AddLeaf
<1>6. Intake'
  BY <1>2, <1>5 DEF Intake, Readable, Amounts
<1> QED
  BY <1>1, <1>3, <1>4, <1>6 DEF TreeNext

\* Once the tree is being built, nothing is read.
LEMMA BuildingKept ==
  ASSUME Intake, UNCHANGED <<request, next, users>>, pc' # "intake"
  PROVE  Intake'
BY DEF Intake, Readable, Amounts

LEMMA IntakeStep == Intake /\ [Next]_vars => [TreeNext]_treeVars /\ Intake'
<1> SUFFICES ASSUME Intake, [Next]_vars PROVE [TreeNext]_treeVars /\ Intake'
  OBVIOUS
<1>1. CASE RefuseRequest
  <2>1. pc = "intake" /\ leaves = <<>> /\ Refuse /\ UNCHANGED <<request, next, users>>
    BY <1>1 DEF RefuseRequest
  <2> QED
    BY <2>1, RefusalIsBuild
<1>2. CASE RefusePositions
  <2>1. pc = "intake" /\ Refuse /\ CustodyRefused /\ UNCHANGED <<request, next, users>>
    BY <1>2 DEF RefusePositions, AllRead
  <2> QED
    BY <2>1, RefusalIsBuild DEF Intake
<1>3. CASE BuildTree
  <2>1. Build /\ UNCHANGED <<request, next, users>>
    BY <1>3 DEF BuildTree
  <2>2. pc' # "intake"
    BY <2>1 DEF Build, StartBuild, BuildLevel, Built
  <2> QED
    BY <2>1, <2>2, BuildingKept DEF TreeNext
<1>4. CASE ProveLeaf
  <2>1. Prove /\ UNCHANGED <<request, next, users>>
    BY <1>4 DEF ProveLeaf
  <2>2. pc' # "intake"
    <3>1. ASSUME ProveStep PROVE pc' # "intake"
      <4>1. pc = "proving" /\ UNCHANGED pc
        BY <3>1 DEF ProveStep
      <4> QED
        BY <4>1
    <3>2. ASSUME NEW i, StartProof(i) PROVE pc' # "intake"
      BY <3>2 DEF StartProof
    <3> QED
      BY <2>1, <3>1, <3>2 DEF Prove, Proved
  <2> QED
    BY <2>1, <2>2, BuildingKept DEF TreeNext
<1>5. CASE VerifyLeaf
  <2>1. Verify /\ UNCHANGED <<request, next, users>>
    BY <1>5 DEF VerifyLeaf
  <2>2. pc' # "intake"
    BY <2>1 DEF Verify, StartVerify, FoldStep, Decide
  <2> QED
    BY <2>1, <2>2, BuildingKept DEF TreeNext
<1>6. CASE UNCHANGED vars
  <2>1. UNCHANGED <<pc, leaves, levels, walk, fold, running, spans, request, next, users>>
    BY <1>6 DEF vars, treeVars
  <2>2. Intake'
    BY <2>1 DEF Intake, Readable, Amounts, AllRead, Acceptable, CustodyRefused
  <2> QED
    BY <2>1, <2>2 DEF treeVars
<1> QED
  BY <1>1, <1>2, <1>3, <1>4, <1>5, <1>6, TakeLeafStep, TakePositionStep, CommitLeafStep
  DEF Next, Respond

-----------------------------------------------------------------------------
\* What has been read, and what has been committed to.

Subject(i) == Read(request.leaves[i].who)
Held(i) ==
  LET amounts == request.leaves[i].amounts IN
  IF request.kind = "custody" THEN [n \in DOMAIN amounts |-> amounts[n].n] ELSE Balances(amounts)

\* What the loops check of a leaf by itself.
Sound(i) ==
  LET leaf == request.leaves[i] IN
  /\ \A n \in DOMAIN leaf.amounts : Parses(leaf.amounts[n].n)
  /\ request.kind = "liabilities" =>
       Trim[leaf.who] # Blank /\ \A n \in DOMAIN leaf.amounts : Trim[n] # Blank
  /\ request.kind = "custody" => \A n \in DOMAIN leaf.amounts : ~leaf.amounts[n].neg

Taken ==
  /\ next \in 1..(Len(request.leaves) + 1)
  /\ next > 1 => Acceptable
  /\ \A i, j \in 1..(next - 1) : Subject(i) = Subject(j) => i = j
  /\ DOMAIN users = {Subject(i) : i \in 1..(next - 1)}
  /\ \A i \in 1..(next - 1) : users[Subject(i)] = Held(i) /\ Sound(i)

\* The negative balances of the first leaves.
NegativeBelow(k) == {e \in Entries : Amount(e).neg /\ e[1] < k}
OwedBelow(k, x) ==
  SumFunction([e \in {f \in NegativeBelow(k) : Read(f[2]) = x} |-> Amount(e).n])

Noted ==
  /\ IsFiniteSet(DOMAIN badDebt) /\ DOMAIN badDebt \subseteq Names
  /\ DOMAIN request.badDebt \subseteq DOMAIN badDebt
  /\ \A x \in Names : Of(badDebt, x) = Of(request.badDebt, x) + OwedBelow(next, x)
  /\ clamped = Cardinality(NegativeBelow(next))

ReadAll ==
  /\ request.leaves # <<>> /\ Acceptable /\ next > Len(request.leaves)
  /\ \A n \in DOMAIN request.prices : Parses(request.prices[n])

\* What the subjects committed to have together.
Together(a) == SumFunction([u \in Committed |-> Of(users[u], a)])

\* A request that may be refused.
Refusable ==
  \/ ~WellFormed
  \/ \E a \in Assets : Asked(a) > MaxAmount
  \/ \E n \in Names : Of(request.badDebt, n) + Owed(n) > MaxAmount

Added ==
  /\ Committed \subseteq DOMAIN users
  /\ \A i \in 1..Len(leaves) : \E u \in Committed : leaves[i] = leaf_node(u, users[u])
  /\ IsFiniteSet(Committed) /\ Cardinality(Committed) = Len(leaves)
  /\ \A a \in Assets : running[Len(running)][a] = Together(a)
  /\ leaves # <<>> => ReadAll /\ ~CustodyRefused
  /\ pc \notin {"intake", "failed"} => DOMAIN users \subseteq Committed /\ leaves # <<>>
  /\ pc = "failed" => Refusable

LEMMA ImageOf ==
  ASSUME NEW S, IsFiniteSet(S), NEW f
  PROVE  /\ IsFiniteSet({f[x] : x \in S})
         /\ (\A x, y \in S : f[x] = f[y] => x = y) => Cardinality({f[x] : x \in S}) = Cardinality(S)
<1> DEFINE T == {f[x] : x \in S}
           g == [x \in S |-> f[x]]
<1>1. g \in Surjection(S, T)
  BY DEF Surjection
<1>2. IsFiniteSet(T)
  <2> HIDE DEF g, T
  <2> QED
    BY <1>1, FS_Surjection
<1>3. ASSUME \A x, y \in S : f[x] = f[y] => x = y
      PROVE  Cardinality(T) = Cardinality(S)
  <2>1. g \in Injection(S, T)
    BY <1>3 DEF Injection, IsInjective
  <2> HIDE DEF g, T
  <2> QED
    BY <1>1, <2>1, FS_Surjection
<1> QED
  BY <1>2, <1>3

LEMMA EntryFacts ==
  ASSUME request \in Requests
  PROVE  /\ IsFiniteSet(Entries)
         /\ \A i \in DOMAIN request.leaves : \A n \in DOMAIN request.leaves[i].amounts :
              <<i, n>> \in Entries
         /\ \A e \in Entries :
              /\ e = <<e[1], e[2]>> /\ e[1] \in 1..Len(request.leaves)
              /\ e[2] \in DOMAIN request.leaves[e[1]].amounts
              /\ e[2] \in Names /\ Read(e[2]) \in Names
              /\ Amount(e) = request.leaves[e[1]].amounts[e[2]]
              /\ Amount(e) \in [neg : BOOLEAN, n : Nat]
<1> DEFINE I == DOMAIN request.leaves
           D(i) == DOMAIN request.leaves[i].amounts
           E(i) == {<<i, n>> : n \in D(i)}
<1>1. I = 1..Len(request.leaves) /\ Len(request.leaves) \in Nat /\ \A i \in I : IsFiniteSet(D(i))
  BY RequestFacts, RequestAssumption
<1>2. \A i \in I : IsFiniteSet(E(i))
  <2> SUFFICES ASSUME NEW i \in I PROVE IsFiniteSet(E(i))
    OBVIOUS
  <2> DEFINE f == [n \in D(i) |-> <<i, n>>]
  <2>1. E(i) = {f[n] : n \in D(i)}
    OBVIOUS
  <2>2. IsFiniteSet(D(i))
    BY <1>1
  <2> HIDE DEF f, E, D
  <2> QED
    BY <2>1, <2>2, ImageOf
<1>3. IsFiniteSet(I)
  BY <1>1, FS_Interval
<1>4. IsFiniteSet({E(i) : i \in I})
  <2> DEFINE f == [i \in I |-> E(i)]
  <2>1. {E(i) : i \in I} = {f[i] : i \in I}
    OBVIOUS
  <2> HIDE DEF f, E
  <2> QED
    BY <1>3, <2>1, ImageOf
<1>5. Entries = UNION {E(i) : i \in I}
  BY DEF Entries
<1>6. IsFiniteSet(Entries)
  <2> HIDE DEF E
  <2> QED
    BY <1>2, <1>4, <1>5, FS_UNION
<1>7. \A i \in I : \A n \in D(i) : n \in Names /\ request.leaves[i].amounts[n] \in [neg : BOOLEAN, n : Nat]
  BY RequestFacts
<1>8. \A n \in Names : Read(n) \in Names
  BY NameAssumption DEF Read
<1>9. ASSUME NEW e \in Entries
      PROVE  /\ e = <<e[1], e[2]>> /\ e[1] \in I /\ e[2] \in D(e[1])
  BY <1>5
<1>10. \A i \in I : \A n \in D(i) : <<i, n>> \in Entries
  BY <1>5
<1> QED
  BY <1>1, <1>6, <1>7, <1>8, <1>9, <1>10 DEF Amount

LEMMA HeldFacts ==
  ASSUME request \in Requests, request.kind # "otherProfile",
         NEW i \in DOMAIN request.leaves, Sound(i)
  PROVE  /\ DOMAIN Held(i) = {Read(n) : n \in DOMAIN request.leaves[i].amounts}
         /\ \A a \in DOMAIN Held(i) : \E n \in DOMAIN request.leaves[i].amounts :
              Read(n) = a /\ Held(i)[a] = Clamp(request.leaves[i].amounts[n])
<1> DEFINE amounts == request.leaves[i].amounts
<1>1. CASE request.kind = "custody"
  <2>1. Held(i) = [n \in DOMAIN amounts |-> amounts[n].n] /\ \A n \in DOMAIN amounts : ~amounts[n].neg
    BY <1>1 DEF Held, Sound
  <2>2. \A n : Read(n) = n
    BY <1>1 DEF Read
  <2> HIDE DEF amounts
  <2>3. DOMAIN Held(i) = {Read(n) : n \in DOMAIN amounts}
    BY <2>1, <2>2
  <2>4. \A a \in DOMAIN amounts : Held(i)[a] = Clamp(amounts[a])
    BY <2>1 DEF Clamp
  <2> QED
    BY <2>1, <2>2, <2>3, <2>4 DEF amounts
<1>2. CASE request.kind # "custody"
  <2>1. Held(i) = Balances(amounts)
    BY <1>2 DEF Held
  <2>2. \A n : Read(n) = Trim[n]
    BY <1>2 DEF Read
  <2>3. DOMAIN amounts \subseteq Names
    BY RequestFacts
  <2> HIDE DEF amounts
  <2>4. DOMAIN Held(i) = {Read(n) : n \in DOMAIN amounts}
    BY <2>1, <2>2 DEF Balances
  <2>5. \A a \in DOMAIN Held(i) : Held(i)[a] = Clamp(amounts[LastFor(amounts, a)])
    BY <2>1 DEF Balances
  <2>6. ASSUME NEW a \in DOMAIN Held(i)
        PROVE  LastFor(amounts, a) \in DOMAIN amounts /\ Trim[LastFor(amounts, a)] = a
    <3>1. PICK n \in DOMAIN amounts : Trim[n] = a
      BY <2>2, <2>4, <2>6
    <3> QED
      BY <2>3, <3>1, LastForIs
  <2> QED
    BY <2>2, <2>4, <2>5, <2>6 DEF amounts
<1> QED
  BY <1>1, <1>2

\* Everything has been read: who holds what is what the request said.
Complete == request \in Requests /\ Taken /\ ReadAll /\ Readable

LEMMA CompleteFacts ==
  ASSUME Complete
  PROVE  /\ request.kind # "otherProfile" /\ Len(request.leaves) \in Nat
         /\ next - 1 = Len(request.leaves)
         /\ DOMAIN users = {Subject(i) : i \in DOMAIN request.leaves}
         /\ \A i \in DOMAIN request.leaves : users[Subject(i)] = Held(i) /\ Sound(i)
         /\ \A i, j \in DOMAIN request.leaves : Subject(i) = Subject(j) => i = j
<1>1. DOMAIN request.leaves = 1..Len(request.leaves) /\ Len(request.leaves) \in Nat
  BY RequestFacts DEF Complete
<1>2. next = Len(request.leaves) + 1
  BY <1>1 DEF Complete, Taken, ReadAll
<1>3. next - 1 = Len(request.leaves)
  BY <1>1, <1>2
<1> QED
  BY <1>1, <1>3 DEF Complete, Taken, ReadAll, Acceptable

LEMMA UsersFinite ==
  ASSUME request \in Requests, Taken
  PROVE  IsFiniteSet(DOMAIN users) /\ Cardinality(DOMAIN users) = next - 1
<1> DEFINE I == 1..(next - 1)
           f == [i \in I |-> Subject(i)]
<1>1. Len(request.leaves) \in Nat
  BY RequestFacts
<1>2. next - 1 \in Nat
  BY <1>1 DEF Taken
<1>3. IsFiniteSet(I) /\ Cardinality(I) = next - 1
  BY <1>2, FS_Interval
<1>4. DOMAIN users = {f[i] : i \in I} /\ \A i, j \in I : f[i] = f[j] => i = j
  BY DEF Taken
<1> HIDE DEF I, f
<1> QED
  BY <1>3, <1>4, ImageOf

\* What a subject holds can be added up.
LEMMA HoldingsTally ==
  ASSUME Readable, NEW a, NEW U \in SUBSET DOMAIN users, IsFiniteSet(U)
  PROVE  IsTally([u \in U |-> Of(users[u], a)], U)
<1> DEFINE f == [u \in U |-> Of(users[u], a)]
<1> SUFFICES ASSUME NEW u \in U PROVE f[u] \in Nat
  BY DEF IsTally
<1>1. users[u] \in Amounts
  BY DEF Readable
<1>2. PICK S \in SUBSET Names : users[u] \in [S -> 0..MaxAmount]
  BY <1>1 DEF Amounts
<1>3. Of(users[u], a) \in 0..MaxAmount
  BY <1>2, BoundAssumption DEF Of
<1> QED
  BY <1>3, BoundAssumption

LEMMA EntriesTally ==
  ASSUME request \in Requests, NEW a
  PROVE  /\ IsFiniteSet(EntriesOf(a)) /\ EntriesOf(a) \in SUBSET Entries
         /\ IsTally([e \in EntriesOf(a) |-> Clamp(Amount(e))], EntriesOf(a))
<1>1. EntriesOf(a) \in SUBSET Entries
  BY DEF EntriesOf
<1>2. IsFiniteSet(EntriesOf(a))
  BY <1>1, EntryFacts, FS_Subset
<1>3. \A e \in EntriesOf(a) : Clamp(Amount(e)) \in Nat
  BY <1>1, EntryFacts DEF Clamp
<1> QED
  BY <1>1, <1>2, <1>3 DEF IsTally

\* Which entry a subject's holding was read from.
Source(u, a) ==
  CHOOSE e \in EntriesOf(a) : Subject(e[1]) = u /\ users[u][a] = Clamp(Amount(e))

LEMMA SourceIs ==
  ASSUME Complete, NEW u \in DOMAIN users, NEW a \in DOMAIN users[u]
  PROVE  /\ Source(u, a) \in EntriesOf(a) /\ Subject(Source(u, a)[1]) = u
         /\ users[u][a] = Clamp(Amount(Source(u, a)))
<1>1. PICK i \in DOMAIN request.leaves : Subject(i) = u
  BY CompleteFacts
<1>2. users[u] = Held(i) /\ Sound(i) /\ request.kind # "otherProfile" /\ request \in Requests
  BY <1>1, CompleteFacts DEF Complete
<1>3. PICK n \in DOMAIN request.leaves[i].amounts :
        Read(n) = a /\ Held(i)[a] = Clamp(request.leaves[i].amounts[n])
  BY <1>2, HeldFacts
<1>4. <<i, n>> \in EntriesOf(a)
  BY <1>2, <1>3, EntryFacts DEF EntriesOf
<1>5. Amount(<<i, n>>) = request.leaves[i].amounts[n]
  BY DEF Amount
<1>6. \E e \in EntriesOf(a) : Subject(e[1]) = u /\ users[u][a] = Clamp(Amount(e))
  <2> DEFINE e == <<i, n>>
  <2>1. e[1] = i
    OBVIOUS
  <2>2. e \in EntriesOf(a) /\ Amount(e) = request.leaves[i].amounts[n]
    BY <1>4, <1>5
  <2> HIDE DEF e
  <2> QED
    BY <1>1, <1>2, <1>3, <2>1, <2>2
<1> QED
  BY <1>6 DEF Source

LEMMA EntryHeld ==
  ASSUME Complete, NEW e \in Entries
  PROVE  Subject(e[1]) \in DOMAIN users /\ Read(e[2]) \in DOMAIN users[Subject(e[1])]
<1>1. e[1] \in DOMAIN request.leaves /\ e[2] \in DOMAIN request.leaves[e[1]].amounts
      /\ request \in Requests
  BY EntryFacts, RequestFacts DEF Complete
<1>2. /\ Subject(e[1]) \in DOMAIN users /\ users[Subject(e[1])] = Held(e[1])
      /\ Sound(e[1]) /\ request.kind # "otherProfile"
  BY <1>1, CompleteFacts
<1>3. DOMAIN Held(e[1]) = {Read(n) : n \in DOMAIN request.leaves[e[1]].amounts}
  BY <1>1, <1>2, HeldFacts
<1> QED
  BY <1>1, <1>2, <1>3

LEMMA TotalAsked ==
  ASSUME Complete, NEW a
  PROVE  /\ TotalOf(users, a) \in Nat /\ Asked(a) \in Nat
         /\ TotalOf(users, a) <= Asked(a)
         /\ ~Collides => TotalOf(users, a) = Asked(a)
<1> DEFINE U == DOMAIN users
           H == {u \in U : a \in DOMAIN users[u]}
           f == [u \in U |-> Of(users[u], a)]
           E == EntriesOf(a)
           g == [e \in E |-> Clamp(Amount(e))]
           src == [u \in H |-> Source(u, a)]
           M == {src[u] : u \in H}
           same == [u \in H |-> u]
<1>1. IsFiniteSet(U) /\ Readable /\ request \in Requests
  BY UsersFinite DEF Complete
<1>2. IsTally(f, U)
  BY <1>1, HoldingsTally
<1>3. IsTally(g, E)
  BY <1>1, EntriesTally
<1>4. TotalOf(users, a) = SumFunctionOnSet(f, U)
  BY SumOf DEF TotalOf
<1>5. Asked(a) = SumFunctionOnSet(g, E)
  BY SumOf DEF Asked
<1>6. IsTally(f, H)
  <2>1. H \in SUBSET U
    OBVIOUS
  <2> HIDE DEF f, H, U
  <2> QED
    BY <1>2, <2>1, TallyWithin
<1>7. SumFunctionOnSet(f, H) = SumFunctionOnSet(f, U)
  <2>1. same \in [H -> U] /\ \A u \in H : same[u] = u
    OBVIOUS
  <2>2. \A u \in U : u \notin H => f[u] = 0
    BY DEF Of
  <2> HIDE DEF f, H, U, same
  <2> QED
    BY <1>2, <1>6, <2>1, <2>2, SumAlong
<1>8. \A u \in H : /\ src[u] \in E /\ Subject(src[u][1]) = u
                   /\ f[u] = g[src[u]]
  BY SourceIs DEF Of
<1>9. M \in SUBSET E /\ src \in [H -> M] /\ \A u, v \in H : src[u] = src[v] => u = v
  <2> HIDE DEF E, H, f, g
  <2> QED
    BY <1>8
<1>10. IsTally(g, M)
  <2> HIDE DEF M, E, g
  <2> QED
    BY <1>3, <1>9, TallyWithin
<1>11. SumFunctionOnSet(f, H) = SumFunctionOnSet(g, M)
  <2>1. \A e \in M : \E u \in H : src[u] = e
    OBVIOUS
  <2> HIDE DEF M, E, H, U, f, g, src
  <2> QED
    BY <1>6, <1>8, <1>9, <1>10, <2>1, SumAlong
<1>12. SumFunctionOnSet(g, M) <= SumFunctionOnSet(g, E)
  <2> HIDE DEF M, E, g
  <2> QED
    BY <1>3, <1>9, SumWithin
<1>13. ~Collides => M = E
  <2> SUFFICES ASSUME ~Collides, NEW e \in E PROVE e \in M
    BY <1>9
  <2>1. e \in Entries /\ Read(e[2]) = a
    BY DEF EntriesOf
  <2>2. PICK u \in H : u = Subject(e[1])
    BY <2>1, EntryHeld
  <2>3. src[u] \in Entries /\ Read(src[u][2]) = a /\ Subject(src[u][1]) = u
    BY <1>8 DEF EntriesOf
  <2>4. src[u][1] = e[1]
    <3>1. src[u][1] \in DOMAIN request.leaves /\ e[1] \in DOMAIN request.leaves
      BY <1>1, <2>1, <2>3, EntryFacts, RequestFacts
    <3> HIDE DEF src
    <3> QED
      BY <2>2, <2>3, <3>1, CompleteFacts
  <2>5. src[u] = e
    <3> HIDE DEF src
    <3> QED
      BY <2>1, <2>3, <2>4 DEF Collides
  <2> QED
    BY <2>5
<1>14. SumFunctionOnSet(f, U) \in Nat /\ SumFunctionOnSet(g, E) \in Nat
  <2> HIDE DEF f, U, g, E
  <2> QED
    BY <1>2, <1>3, SumFacts
<1> HIDE DEF U, H, f, E, g, src, M, same
<1> QED
  BY <1>4, <1>5, <1>7, <1>11, <1>12, <1>13, <1>14

-----------------------------------------------------------------------------
\* What is owed.

OwedTally == [e \in Entries |-> Amount(e).n]
OwedEntries(k, x) == {f \in NegativeBelow(k) : Read(f[2]) = x}

LEMMA OwedSum ==
  ASSUME request \in Requests, NEW E \in SUBSET Entries
  PROVE  /\ IsTally(OwedTally, E)
         /\ SumFunction([e \in E |-> Amount(e).n]) = SumFunctionOnSet(OwedTally, E)
         /\ SumFunctionOnSet(OwedTally, E) \in Nat
<1> DEFINE f == [e \in E |-> Amount(e).n]
<1>1. IsTally(OwedTally, Entries)
  BY EntryFacts DEF IsTally, OwedTally
<1>2. IsTally(OwedTally, E)
  BY <1>1, TallyWithin
<1>3. \A e \in E : f[e] = OwedTally[e]
  BY DEF OwedTally
<1>4. SumFunction(f) = SumFunctionOnSet(f, E)
  BY SumOf
<1> HIDE DEF f
<1>5. SumFunctionOnSet(f, E) = SumFunctionOnSet(OwedTally, E)
  BY <1>2, <1>3, SumSame
<1> QED
  BY <1>2, <1>4, <1>5, SumFacts DEF f

LEMMA OwedIs ==
  ASSUME request \in Requests, NEW k, NEW x
  PROVE  /\ OwedBelow(k, x) = SumFunctionOnSet(OwedTally, OwedEntries(k, x))
         /\ OwedBelow(k, x) \in Nat /\ Owed(x) \in Nat
         /\ OwedBelow(k, x) <= Owed(x)
<1> DEFINE E == OwedEntries(k, x)
           F == {f \in EntriesOf(x) : Amount(f).neg}
<1>1. E \in SUBSET Entries /\ F \in SUBSET Entries /\ E \in SUBSET F
  BY DEF OwedEntries, NegativeBelow, EntriesOf
<1>2. OwedBelow(k, x) = SumFunction([e \in E |-> Amount(e).n])
  BY DEF OwedBelow, OwedEntries
<1>3. Owed(x) = SumFunction([e \in F |-> Amount(e).n])
  BY DEF Owed
<1> HIDE DEF E, F
<1>4. /\ OwedBelow(k, x) = SumFunctionOnSet(OwedTally, E) /\ OwedBelow(k, x) \in Nat
      /\ Owed(x) = SumFunctionOnSet(OwedTally, F) /\ Owed(x) \in Nat
  BY <1>1, <1>2, <1>3, OwedSum
<1>5. SumFunctionOnSet(OwedTally, E) <= SumFunctionOnSet(OwedTally, F)
  BY <1>1, OwedSum, SumWithin
<1> QED
  BY <1>4, <1>5 DEF E

LEMMA OwedInAll ==
  ASSUME request \in Requests, next > Len(request.leaves), next \in Nat
  PROVE  /\ \A x : OwedBelow(next, x) = Owed(x)
         /\ NegativeBelow(next) = {e \in Entries : Amount(e).neg}
<1>1. Len(request.leaves) \in Nat
  BY RequestFacts
<1>2. \A e \in Entries : e[1] < next
  BY <1>1, EntryFacts
<1>3. NegativeBelow(next) = {e \in Entries : Amount(e).neg}
  BY <1>2 DEF NegativeBelow
<1>4. \A x : {f \in NegativeBelow(next) : Read(f[2]) = x} = {f \in EntriesOf(x) : Amount(f).neg}
  BY <1>3 DEF EntriesOf
<1> QED
  BY <1>3, <1>4 DEF OwedBelow, Owed

\* The negative balances of the next leaf.
NegativeNow == {<<next, n>> : n \in Negative(request.leaves[next].amounts)}

LEMMA NegativeNowIs ==
  ASSUME request \in Requests, next \in DOMAIN request.leaves
  PROVE  /\ NegativeNow \in SUBSET Entries
         /\ NegativeBelow(next + 1) = NegativeBelow(next) \cup NegativeNow
         /\ NegativeBelow(next) \cap NegativeNow = {}
         /\ IsFiniteSet(NegativeBelow(next)) /\ IsFiniteSet(NegativeNow)
         /\ Cardinality(NegativeNow) = Cardinality(Negative(request.leaves[next].amounts))
         /\ IsFiniteSet(Negative(request.leaves[next].amounts))
<1> DEFINE amounts == request.leaves[next].amounts
           f == [n \in Negative(amounts) |-> <<next, n>>]
<1>1. next \in Nat /\ IsFiniteSet(DOMAIN amounts)
  BY RequestFacts, RequestAssumption
<1>2. \A n \in DOMAIN amounts : <<next, n>> \in Entries
  BY EntryFacts
<1>3. NegativeNow = {f[n] : n \in Negative(amounts)} /\ Negative(amounts) \in SUBSET DOMAIN amounts
  BY DEF NegativeNow, Negative
<1>4. NegativeNow \in SUBSET Entries
  BY <1>2 DEF NegativeNow, Negative
<1>5. IsFiniteSet(Negative(amounts))
  BY <1>1, <1>3, FS_Subset
<1>6. \A m, n \in Negative(amounts) : f[m] = f[n] => m = n
  OBVIOUS
<1>7. IsFiniteSet(NegativeNow) /\ Cardinality(NegativeNow) = Cardinality(Negative(amounts))
  <2> HIDE DEF f, amounts
  <2> QED
    BY <1>3, <1>5, <1>6, ImageOf
<1>8. NegativeBelow(next) \in SUBSET Entries
  BY DEF NegativeBelow
<1>9. IsFiniteSet(NegativeBelow(next))
  BY <1>8, EntryFacts, FS_Subset
<1>10. \A e \in NegativeNow : e[1] = next /\ Amount(e).neg
  BY DEF NegativeNow, Negative, Amount
<1>11. ASSUME NEW e \in Entries, Amount(e).neg, e[1] = next
       PROVE  e \in NegativeNow
  <2>1. e = <<next, e[2]>> /\ e[2] \in DOMAIN amounts /\ Amount(e) = amounts[e[2]]
    BY <1>11, EntryFacts
  <2> QED
    BY <1>11, <2>1 DEF NegativeNow, Negative
<1>12. \A e \in Entries : e[1] \in Nat
  BY EntryFacts, RequestFacts
<1>13. NegativeBelow(next) \cap NegativeNow = {}
  BY <1>1, <1>10 DEF NegativeBelow
<1>14. NegativeBelow(next + 1) = NegativeBelow(next) \cup NegativeNow
  <2>1. ASSUME NEW e \in NegativeBelow(next + 1)
        PROVE  e \in NegativeBelow(next) \cup NegativeNow
    <3>1. e \in Entries /\ Amount(e).neg /\ e[1] < next + 1 /\ e[1] \in Nat
      BY <1>12 DEF NegativeBelow
    <3>2. e[1] < next \/ e[1] = next
      BY <1>1, <3>1
    <3> QED
      BY <1>11, <3>1, <3>2 DEF NegativeBelow
  <2>2. ASSUME NEW e \in NegativeBelow(next)
        PROVE  e \in NegativeBelow(next + 1)
    <3>1. e \in Entries /\ Amount(e).neg /\ e[1] < next /\ e[1] \in Nat
      BY <1>12 DEF NegativeBelow
    <3>2. e[1] < next + 1
      BY <1>1, <3>1
    <3> QED
      BY <3>1, <3>2 DEF NegativeBelow
  <2>3. ASSUME NEW e \in NegativeNow
        PROVE  e \in NegativeBelow(next + 1)
    <3>1. e \in Entries /\ Amount(e).neg /\ e[1] = next
      BY <1>4, <1>10
    <3>2. e[1] < next + 1
      BY <1>1, <3>1
    <3> QED
      BY <3>1, <3>2 DEF NegativeBelow
  <2> QED
    BY <2>1, <2>2, <2>3
<1> QED
  BY <1>4, <1>5, <1>7, <1>9, <1>13, <1>14

\* One more leaf read is its debt more owed.
LEMMA OwedNext ==
  ASSUME request \in Requests, request.kind = "liabilities", next \in DOMAIN request.leaves, NEW x
  PROVE  /\ DebtOf(request.leaves[next].amounts, x) \in Nat
         /\ OwedBelow(next + 1, x) = OwedBelow(next, x) + DebtOf(request.leaves[next].amounts, x)
<1> DEFINE amounts == request.leaves[next].amounts
           C == {m \in Negative(amounts) : Trim[m] = x}
           A == OwedEntries(next, x)
           B == {f \in NegativeNow : Read(f[2]) = x}
           g == [n \in C |-> amounts[n].n]
           h == [n \in C |-> <<next, n>>]
<1>1. /\ NegativeNow \in SUBSET Entries
      /\ NegativeBelow(next + 1) = NegativeBelow(next) \cup NegativeNow
      /\ NegativeBelow(next) \cap NegativeNow = {}
      /\ IsFiniteSet(Negative(amounts))
  BY NegativeNowIs
<1>2. \A n : Read(n) = Trim[n]
  BY DEF Read
<1>3. A \in SUBSET Entries /\ B \in SUBSET Entries /\ A \cup B \in SUBSET Entries /\ A \cap B = {}
      /\ OwedEntries(next + 1, x) = A \cup B
  BY <1>1 DEF OwedEntries, NegativeBelow
<1>4. OwedBelow(next + 1, x) = SumFunctionOnSet(OwedTally, A) + SumFunctionOnSet(OwedTally, B)
  <2>1. OwedBelow(next + 1, x) = SumFunctionOnSet(OwedTally, OwedEntries(next + 1, x))
    BY OwedIs
  <2> HIDE DEF A, B
  <2>2. IsTally(OwedTally, A \cup B)
    BY <1>3, OwedSum
  <2> QED
    BY <1>3, <2>1, <2>2, SumDisjoint
<1>5. OwedBelow(next, x) = SumFunctionOnSet(OwedTally, A)
  BY OwedIs
<1>6. h \in [C -> B] /\ \A m, n \in C : h[m] = h[n] => m = n
  BY <1>2 DEF NegativeNow
<1>7. \A n \in C : h[n] \in Entries /\ g[n] = OwedTally[h[n]] /\ g[n] \in Nat
  <2>1. \A n \in C : /\ <<next, n>> \in Entries /\ amounts[n].n \in Nat
                     /\ Amount(<<next, n>>) = amounts[n]
    BY EntryFacts, RequestFacts DEF Negative, Amount
  <2> QED
    BY <2>1 DEF OwedTally
<1>8. \A e \in B : \E n \in C : h[n] = e
  BY <1>2 DEF NegativeNow
<1>9. IsTally(g, C) /\ IsTally(OwedTally, B)
  <2>1. C \in SUBSET Negative(amounts)
    OBVIOUS
  <2>2. IsFiniteSet(C)
    <3> HIDE DEF C, amounts
    <3> QED
      BY <1>1, <2>1, FS_Subset
  <2> HIDE DEF B, C, g
  <2> QED
    BY <1>3, <1>7, <2>2, OwedSum DEF IsTally
<1>10. SumFunctionOnSet(g, C) = SumFunctionOnSet(OwedTally, B)
  <2> HIDE DEF B, C, g, h
  <2> QED
    BY <1>6, <1>7, <1>8, <1>9, SumAlong
<1>11. DebtOf(amounts, x) = SumFunctionOnSet(g, C)
  BY SumOf DEF DebtOf
<1>12. SumFunctionOnSet(g, C) \in Nat
  <2> HIDE DEF C, g
  <2> QED
    BY <1>9, SumFacts
<1> HIDE DEF A, B, C, g, h
<1> QED
  BY <1>4, <1>5, <1>10, <1>11, <1>12

LEMMA DebtNoted ==
  ASSUME request \in Requests, request.kind = "liabilities", next \in DOMAIN request.leaves, Noted
  PROVE  LET amounts == request.leaves[next].amounts
             after == DebtAfter(amounts)
         IN  /\ IsFiniteSet(DOMAIN after) /\ DOMAIN after \subseteq Names
             /\ DOMAIN request.badDebt \subseteq DOMAIN after
             /\ \A x \in Names : Of(after, x) = Of(request.badDebt, x) + OwedBelow(next + 1, x)
             /\ clamped + Cardinality(Negative(amounts)) = Cardinality(NegativeBelow(next + 1))
<1> DEFINE amounts == request.leaves[next].amounts
           after == DebtAfter(amounts)
           new == {Trim[n] : n \in Negative(amounts)}
<1>1. /\ IsFiniteSet(Negative(amounts)) /\ IsFiniteSet(NegativeBelow(next)) /\ IsFiniteSet(NegativeNow)
      /\ NegativeBelow(next + 1) = NegativeBelow(next) \cup NegativeNow
      /\ NegativeBelow(next) \cap NegativeNow = {}
      /\ Cardinality(NegativeNow) = Cardinality(Negative(amounts))
  BY NegativeNowIs
<1>2. \A n \in Negative(amounts) : n \in Names /\ Trim[n] \in Names
  BY RequestFacts, NameAssumption DEF Negative
<1>3. DOMAIN after = DOMAIN badDebt \cup new
      /\ \A x \in DOMAIN after : after[x] = Of(badDebt, x) + DebtOf(amounts, x)
  BY DEF DebtAfter
<1>4. IsFiniteSet(new)
  <2> HIDE DEF amounts
  <2> QED
    BY <1>1, ImageOf
<1>5. IsFiniteSet(DOMAIN after)
  <2> HIDE DEF after, new
  <2>1. IsFiniteSet(DOMAIN badDebt)
    BY DEF Noted
  <2>2. IsFiniteSet(DOMAIN badDebt \cup new)
    BY <1>4, <2>1, FS_Union
  <2> QED
    BY <1>3, <2>2
<1>6. DOMAIN after \subseteq Names /\ DOMAIN request.badDebt \subseteq DOMAIN after
  <2> HIDE DEF after, amounts
  <2> QED
    BY <1>2, <1>3 DEF Noted
<1>7. ASSUME NEW x \in Names
      PROVE  Of(after, x) = Of(request.badDebt, x) + OwedBelow(next + 1, x)
  <2>1. Of(after, x) = Of(badDebt, x) + DebtOf(amounts, x)
    <3>1. CASE x \in DOMAIN after
      <4> HIDE DEF after
      <4> QED
        BY <1>3, <3>1 DEF Of
    <3>2. CASE x \notin DOMAIN after
      <4>1. x \notin DOMAIN badDebt /\ x \notin new
        <5> HIDE DEF after, new
        <5> QED
          BY <1>3, <3>2
      <4>2. {m \in Negative(amounts) : Trim[m] = x} = {}
        BY <4>1
      <4>3. DebtOf(amounts, x) = SumFunctionOnSet([n \in {} |-> amounts[n].n], {})
        BY <4>2, SumOf DEF DebtOf
      <4>4. DebtOf(amounts, x) = 0
        BY <4>3, SumSteps, FS_EmptySet
      <4> HIDE DEF after
      <4> QED
        BY <3>2, <4>1, <4>4 DEF Of
    <3> QED
      BY <3>1, <3>2
  <2>2. /\ DebtOf(amounts, x) \in Nat /\ OwedBelow(next, x) \in Nat
        /\ OwedBelow(next + 1, x) = OwedBelow(next, x) + DebtOf(amounts, x)
    BY OwedNext, OwedIs
  <2>3. Of(badDebt, x) = Of(request.badDebt, x) + OwedBelow(next, x)
    BY DEF Noted
  <2>4. Of(request.badDebt, x) \in Nat
    BY RequestAssumption DEF Of
  <2> HIDE DEF after, amounts
  <2> QED
    BY <2>1, <2>2, <2>3, <2>4
<1>8. clamped + Cardinality(Negative(amounts)) = Cardinality(NegativeBelow(next + 1))
  <2>1. Cardinality(NegativeBelow(next + 1)) =
          Cardinality(NegativeBelow(next)) + Cardinality(NegativeNow) - Cardinality({})
    BY <1>1, FS_Union
  <2>2. Cardinality(NegativeBelow(next)) \in Nat /\ Cardinality(NegativeNow) \in Nat
    BY <1>1, FS_CardinalityType
  <2>3. clamped = Cardinality(NegativeBelow(next)) /\ Cardinality({}) = 0
    BY FS_EmptySet DEF Noted
  <2> QED
    BY <1>1, <2>1, <2>2, <2>3
<1> QED
  BY <1>5, <1>6, <1>7, <1>8

-----------------------------------------------------------------------------
\* Reading.

\* What is said of the request stays said.
LEMMA RequestKept ==
  ASSUME UNCHANGED request
  PROVE  /\ \A i : Subject(i)' = Subject(i) /\ Held(i)' = Held(i) /\ Sound(i)' = Sound(i)
         /\ Entries' = Entries /\ Acceptable' = Acceptable
         /\ \A x : Asked(x)' = Asked(x) /\ Owed(x)' = Owed(x)
         /\ \A k : NegativeBelow(k)' = NegativeBelow(k)
         /\ \A k, x : OwedBelow(k, x)' = OwedBelow(k, x)
         /\ WellFormed' = WellFormed /\ Refusable' = Refusable
<1>1. \A x : Read(x)' = Read(x)
  BY DEF Read
<1>2. \A i : Subject(i)' = Subject(i)
  BY DEF Subject, Read
<1>3. \A i : Held(i)' = Held(i) /\ Sound(i)' = Sound(i)
  BY DEF Held, Sound
<1>4. Entries' = Entries /\ \A e : Amount(e)' = Amount(e)
  BY DEF Entries, Amount
<1>5. \A x : EntriesOf(x)' = EntriesOf(x)
  BY <1>1, <1>4 DEF EntriesOf
<1>6. \A x : Asked(x)' = Asked(x)
  BY <1>4, <1>5 DEF Asked
<1>7. \A x : Owed(x)' = Owed(x)
  BY <1>4, <1>5 DEF Owed
<1>8. \A k : NegativeBelow(k)' = NegativeBelow(k)
  BY <1>4 DEF NegativeBelow
<1>9. \A k, x : OwedBelow(k, x)' = OwedBelow(k, x)
  BY <1>1, <1>4, <1>8 DEF OwedBelow
<1>10. Acceptable' = Acceptable
  BY DEF Acceptable
<1>11. WellFormed' = WellFormed
  BY <1>1, <1>4 DEF WellFormed
<1>12. Refusable' = Refusable
  BY <1>6, <1>7, <1>11 DEF Refusable
<1> QED
  BY <1>2, <1>3, <1>4, <1>6, <1>7, <1>8, <1>9, <1>10, <1>11, <1>12

LEMMA TakenKept ==
  ASSUME Taken, UNCHANGED <<request, next, users>>
  PROVE  Taken'
BY RequestKept DEF Taken

LEMMA NotedKept ==
  ASSUME Noted, UNCHANGED <<request, next, badDebt, clamped>>
  PROVE  Noted'
BY RequestKept DEF Noted, Of

LEMMA OneMoreTaken ==
  ASSUME request \in Requests, Taken, Acceptable, next \in DOMAIN request.leaves,
         Subject(next) \notin DOMAIN users, Sound(next), next' = next + 1, UNCHANGED request,
         users' = [u \in DOMAIN users \cup {Subject(next)} |->
                     IF u = Subject(next) THEN Held(next) ELSE users[u]]
  PROVE  Taken'
<1>1. /\ Len(request.leaves) \in Nat /\ DOMAIN request.leaves = 1..Len(request.leaves)
      /\ next \in 1..Len(request.leaves)
  BY RequestFacts
<1>2. next' \in 1..(Len(request.leaves) + 1)
  BY <1>1
<1>3. \A i \in 1..(next' - 1) : i \in 1..(next - 1) \/ i = next
  BY <1>1
<1>4. next \in 1..(next' - 1) /\ 1..(next - 1) \subseteq 1..(next' - 1)
  BY <1>1
<1>5. \A i \in 1..(next - 1) : Subject(i) \in DOMAIN users
  BY DEF Taken
<1>6. \A i, j \in 1..(next' - 1) : Subject(i) = Subject(j) => i = j
  BY <1>3, <1>5 DEF Taken
<1>7. DOMAIN users' = {Subject(i) : i \in 1..(next' - 1)}
  <2>1. DOMAIN users' = DOMAIN users \cup {Subject(next)}
    OBVIOUS
  <2>2. DOMAIN users = {Subject(i) : i \in 1..(next - 1)}
    BY DEF Taken
  <2> QED
    BY <1>3, <1>4, <2>1, <2>2
<1>8. \A i \in 1..(next' - 1) : users'[Subject(i)] = Held(i) /\ Sound(i)
  <2>1. users'[Subject(next)] = Held(next)
    OBVIOUS
  <2>2. ASSUME NEW i \in 1..(next - 1)
        PROVE  users'[Subject(i)] = Held(i) /\ Sound(i)
    <3>1. Subject(i) \in DOMAIN users /\ Subject(i) # Subject(next)
      BY <1>5
    <3>2. users'[Subject(i)] = users[Subject(i)]
      BY <3>1
    <3> QED
      BY <3>2 DEF Taken
  <2> QED
    BY <1>3, <2>1, <2>2
<1>9. \A i : Subject(i)' = Subject(i) /\ Held(i)' = Held(i) /\ Sound(i)' = Sound(i)
      /\ Acceptable' = Acceptable
  BY RequestKept
<1>10. \A i, j \in 1..(next' - 1) : Subject(i)' = Subject(j)' => i = j
  BY <1>6, <1>9
<1>11. DOMAIN users' = {Subject(i)' : i \in 1..(next' - 1)}
  BY <1>7, <1>9
<1>12. \A i \in 1..(next' - 1) : users'[Subject(i)'] = Held(i)' /\ Sound(i)'
  BY <1>8, <1>9
<1>13. next' \in 1..(Len(request'.leaves) + 1) /\ (next' > 1 => Acceptable')
  BY <1>2, <1>9
<1> QED
  BY <1>10, <1>11, <1>12, <1>13 DEF Taken

\* A leaf is refused only if the request may be.
LEMMA SecondIsRefusable ==
  ASSUME request \in Requests, Taken, next \in DOMAIN request.leaves,
         Subject(next) \in DOMAIN users
  PROVE  Refusable
<1>1. PICK i \in 1..(next - 1) : Subject(i) = Subject(next)
  BY DEF Taken
<1>2. i \in DOMAIN request.leaves /\ i # next
  BY RequestFacts
<1> QED
  BY <1>1, <1>2 DEF Refusable, WellFormed, Subject

LEMMA UnsoundIsRefusable ==
  ASSUME request \in Requests, NEW i \in DOMAIN request.leaves, ~Sound(i)
  PROVE  Refusable
<1> DEFINE leaf == request.leaves[i]
<1>1. \A n \in DOMAIN leaf.amounts : <<i, n>> \in Entries
  BY EntryFacts
<1>2. \A n : Amount(<<i, n>>) = leaf.amounts[n] /\ <<i, n>>[2] = n
  BY DEF Amount
<1>3. CASE \E n \in DOMAIN leaf.amounts : ~Parses(leaf.amounts[n].n)
  BY <1>1, <1>2, <1>3 DEF Refusable, WellFormed
<1>4. CASE request.kind = "liabilities" /\ Trim[leaf.who] = Blank
  BY <1>4 DEF Refusable, WellFormed
<1>5. CASE request.kind = "liabilities" /\ \E n \in DOMAIN leaf.amounts : Trim[n] = Blank
  BY <1>1, <1>2, <1>5 DEF Refusable, WellFormed
<1>6. CASE request.kind = "custody" /\ \E n \in DOMAIN leaf.amounts : leaf.amounts[n].neg
  BY <1>1, <1>2, <1>6 DEF Refusable, WellFormed
<1> QED
  BY <1>3, <1>4, <1>5, <1>6 DEF Sound

LEMMA DebtIsRefusable ==
  ASSUME request \in Requests, request.kind = "liabilities", next \in DOMAIN request.leaves, Noted,
         NEW x \in DOMAIN DebtAfter(request.leaves[next].amounts),
         DebtAfter(request.leaves[next].amounts)[x] > MaxAmount
  PROVE  Refusable
<1> DEFINE after == DebtAfter(request.leaves[next].amounts)
<1>1. x \in Names /\ Of(after, x) = Of(request.badDebt, x) + OwedBelow(next + 1, x)
  BY DebtNoted
<1>2. Of(after, x) = after[x]
  BY DEF Of
<1>3. Of(request.badDebt, x) \in Nat
  BY RequestAssumption, <1>1 DEF Of
<1>4. OwedBelow(next + 1, x) \in Nat /\ Owed(x) \in Nat /\ OwedBelow(next + 1, x) <= Owed(x)
  BY OwedIs
<1> HIDE DEF after
<1>5. Of(request.badDebt, x) + OwedBelow(next + 1, x) > MaxAmount
  BY <1>1, <1>2 DEF after
<1>6. Of(request.badDebt, x) + Owed(x) > MaxAmount
  BY <1>3, <1>4, <1>5, BoundAssumption
<1> QED
  BY <1>1, <1>6 DEF Refusable

-----------------------------------------------------------------------------
\* The books, step by step.

LEMMA NoneTogether ==
  ASSUME leaves = <<>>
  PROVE  Committed = {} /\ \A a : Together(a) = 0
<1>1. Committed = {}
  BY DEF Committed
<1>2. ASSUME NEW a PROVE Together(a) = 0
  <2> DEFINE f == [u \in {} |-> Of(users[u], a)]
  <2>1. Together(a) = SumFunction(f)
    BY <1>1 DEF Together
  <2>2. SumFunction(f) = SumFunctionOnSet(f, {})
    BY SumOf
  <2> HIDE DEF f
  <2> QED
    BY <2>1, <2>2, SumSteps, FS_EmptySet
<1> QED
  BY <1>1, <1>2

\* Before a leaf is committed to.
LEMMA NoneAdded ==
  ASSUME Added, leaves = <<>>, UNCHANGED <<request, leaves, running>>,
         pc' = "intake" \/ (pc' = "failed" /\ Refusable)
  PROVE  Added'
<1>1. leaves' = <<>>
  OBVIOUS
<1>2. Committed = {} /\ \A a : Together(a) = 0
  BY NoneTogether
<1>3. Committed' = {} /\ \A a : Together(a)' = 0
  <2>1. Committed' = {}
    BY <1>1 DEF Committed
  <2>2. ASSUME NEW a PROVE Together(a)' = 0
    <3> DEFINE f == [u \in {} |-> Of(users'[u], a)]
    <3>1. Together(a)' = SumFunction(f)
      BY <2>1 DEF Together, Of
    <3>2. SumFunction(f) = SumFunctionOnSet(f, {})
      BY SumOf
    <3> HIDE DEF f
    <3> QED
      BY <3>1, <3>2, SumSteps, FS_EmptySet
  <2> QED
    BY <2>1, <2>2
<1>4. Refusable' = Refusable
  BY RequestKept
<1>5. Len(leaves) = 0 /\ 1..0 = {}
  OBVIOUS
<1> QED
  BY <1>1, <1>2, <1>3, <1>4, <1>5, FS_EmptySet DEF Added

LEMMA InitBooks == Init => Taken /\ Noted /\ Added
<1> SUFFICES ASSUME Init PROVE Taken /\ Noted /\ Added
  OBVIOUS
<1>1. request \in Requests /\ next = 1 /\ users = <<>> /\ badDebt = request.badDebt /\ clamped = 0
      /\ leaves = <<>> /\ pc = "intake" /\ running = <<[a \in Assets |-> 0]>>
  BY DEF Init, TreeInit
<1>2. Taken
  BY <1>1, RequestFacts DEF Taken
<1>3. NegativeBelow(next) = {}
  BY <1>1, EntryFacts DEF NegativeBelow
<1>4. \A x : OwedBelow(next, x) = 0
  <2> SUFFICES ASSUME NEW x PROVE OwedBelow(next, x) = 0
    OBVIOUS
  <2>1. OwedEntries(next, x) = {}
    BY <1>3 DEF OwedEntries
  <2>2. OwedBelow(next, x) = SumFunctionOnSet(OwedTally, {})
    BY <1>1, <2>1, OwedIs
  <2> QED
    BY <2>2, SumSteps, FS_EmptySet
<1>5. \A x \in Names : Of(request.badDebt, x) \in Nat
  BY <1>1, RequestAssumption DEF Of
<1>6. Noted
  <2>1. IsFiniteSet(DOMAIN badDebt) /\ DOMAIN badDebt \subseteq Names
    BY <1>1, RequestAssumption
  <2>2. \A x \in Names : Of(badDebt, x) = Of(request.badDebt, x) + OwedBelow(next, x)
    BY <1>1, <1>4, <1>5
  <2>3. clamped = Cardinality(NegativeBelow(next))
    BY <1>1, <1>3, FS_EmptySet
  <2> QED
    BY <1>1, <2>1, <2>2, <2>3 DEF Noted
<1>7. Added
  <2>1. Committed = {} /\ \A a : Together(a) = 0
    BY <1>1, NoneTogether
  <2>2. Len(running) = 1 /\ running[1] = [a \in Assets |-> 0]
    BY <1>1, OneIsSeq
  <2>3. \A a \in Assets : running[Len(running)][a] = 0
    BY <2>2
  <2>4. Len(leaves) = 0 /\ 1..0 = {}
    BY <1>1
  <2> QED
    BY <1>1, <2>1, <2>3, <2>4, FS_EmptySet DEF Added
<1> QED
  BY <1>2, <1>6, <1>7

LEMMA TakeLeafBooks ==
  ASSUME Intake, Taken, Noted, Added, TakeLeaf
  PROVE  Taken' /\ Noted' /\ Added'
<1> DEFINE leaf == request.leaves[next]
           after == DebtAfter(leaf.amounts)
<1>1. /\ pc = "intake" /\ request.kind = "liabilities" /\ next <= Len(request.leaves)
      /\ UNCHANGED request /\ request \in Requests /\ next \in Nat \ {0} /\ Acceptable
  BY DEF TakeLeaf, Intake
<1>2. leaves = <<>>
  BY <1>1, NoneYet
<1>3. next \in DOMAIN request.leaves
  BY <1>1, RequestFacts
<1>4. Subject(next) = Trim[leaf.who] /\ Held(next) = Balances(leaf.amounts)
  BY <1>1 DEF Subject, Read, Held
<1>5. CASE Refuse /\ UNCHANGED <<next, users, badDebt, clamped>> /\ Refusable
  <2>1. pc' = "failed" /\ UNCHANGED <<leaves, running>>
    BY <1>5 DEF Refuse
  <2> QED
    BY <1>1, <1>2, <1>5, <2>1, TakenKept, NotedKept, NoneAdded
<1>6. CASE /\ Sound(next) /\ Subject(next) \notin DOMAIN users
           /\ users' = [u \in DOMAIN users \cup {Trim[leaf.who]} |->
                          IF u = Trim[leaf.who] THEN Balances(leaf.amounts) ELSE users[u]]
           /\ badDebt' = after /\ clamped' = clamped + Cardinality(Negative(leaf.amounts))
           /\ next' = next + 1 /\ UNCHANGED treeVars
  <2>1. Taken'
    <3> HIDE DEF leaf
    <3> QED
      BY <1>1, <1>3, <1>4, <1>6, OneMoreTaken
  <2>2. /\ IsFiniteSet(DOMAIN after) /\ DOMAIN after \subseteq Names
        /\ DOMAIN request.badDebt \subseteq DOMAIN after
        /\ \A x \in Names : Of(after, x) = Of(request.badDebt, x) + OwedBelow(next + 1, x)
        /\ clamped + Cardinality(Negative(leaf.amounts)) = Cardinality(NegativeBelow(next + 1))
    BY <1>1, <1>3, DebtNoted
  <2> HIDE DEF after, leaf
  <2>3. \A x \in Names : Of(badDebt, x)' = Of(request.badDebt, x) + OwedBelow(next + 1, x)
    BY <1>6, <2>2 DEF Of
  <2>4. Noted'
    <3>1. \A k, x : OwedBelow(k, x)' = OwedBelow(k, x)
      BY <1>1, RequestKept
    <3>2. \A k : NegativeBelow(k)' = NegativeBelow(k)
      BY <1>1, RequestKept
    <3>3. ASSUME NEW x \in Names
          PROVE  Of(badDebt, x)' = Of(request.badDebt, x)' + OwedBelow(next, x)'
      <4>1. OwedBelow(next, x)' = OwedBelow(next + 1, x)
        <5>1. \A k : k = next' => OwedBelow(next, x)' = OwedBelow(k, x)'
          BY <1>1 DEF OwedBelow, NegativeBelow
        <5> QED
          BY <1>6, <3>1, <5>1
      <4>2. Of(request.badDebt, x)' = Of(request.badDebt, x)
        BY <1>1 DEF Of
      <4> QED
        BY <2>3, <4>1, <4>2
    <3>4. clamped' = Cardinality(NegativeBelow(next)')
      <4>1. NegativeBelow(next)' = NegativeBelow(next + 1)
        <5>1. \A k : k = next' => NegativeBelow(next)' = NegativeBelow(k)'
          BY <1>1 DEF NegativeBelow
        <5> QED
          BY <1>6, <3>2, <5>1
      <4> QED
        BY <1>6, <2>2, <4>1
    <3> QED
      BY <1>1, <1>6, <2>2, <3>3, <3>4 DEF Noted
  <2>5. pc' = "intake" /\ UNCHANGED <<leaves, running>>
    BY <1>1, <1>6 DEF treeVars
  <2> QED
    BY <1>1, <1>2, <2>1, <2>4, <2>5, NoneAdded
<1>7. CASE Refuse /\ UNCHANGED <<next, users, badDebt, clamped>> /\ ~Refusable
  <2>1. /\ Subject(next) \notin DOMAIN users /\ Sound(next)
        /\ \A x \in DOMAIN after : ~(after[x] > MaxAmount)
    BY <1>1, <1>3, <1>7, SecondIsRefusable, UnsoundIsRefusable, DebtIsRefusable
  <2>2. /\ Trim[leaf.who] # Blank
        /\ \A n \in DOMAIN leaf.amounts : Trim[n] # Blank /\ Parses(leaf.amounts[n].n)
    BY <1>1, <2>1 DEF Sound
  <2>3. next' = next + 1
    BY <1>4, <2>1, <2>2 DEF TakeLeaf
  <2> QED
    BY <1>1, <1>7, <2>3
<1> QED
  <2>1. CASE Refuse /\ UNCHANGED <<next, users, badDebt, clamped>>
    BY <1>5, <1>7, <2>1
  <2>2. CASE ~(Refuse /\ UNCHANGED <<next, users, badDebt, clamped>>)
    <3>1. /\ Trim[leaf.who] # Blank /\ Trim[leaf.who] \notin DOMAIN users
          /\ \A n \in DOMAIN leaf.amounts : Trim[n] # Blank /\ Parses(leaf.amounts[n].n)
          /\ users' = [u \in DOMAIN users \cup {Trim[leaf.who]} |->
                          IF u = Trim[leaf.who] THEN Balances(leaf.amounts) ELSE users[u]]
          /\ badDebt' = after /\ clamped' = clamped + Cardinality(Negative(leaf.amounts))
          /\ next' = next + 1 /\ UNCHANGED treeVars
      BY <2>2 DEF TakeLeaf
    <3>2. Sound(next)
      BY <1>1, <3>1 DEF Sound
    <3> QED
      BY <1>4, <1>6, <3>1, <3>2
  <2> QED
    BY <2>1, <2>2

LEMMA TakePositionBooks ==
  ASSUME Intake, Taken, Noted, Added, TakePosition
  PROVE  Taken' /\ Noted' /\ Added'
<1> DEFINE leaf == request.leaves[next]
           read == [n \in DOMAIN leaf.amounts |-> leaf.amounts[n].n]
<1>1. /\ pc = "intake" /\ request.kind = "custody" /\ next <= Len(request.leaves)
      /\ UNCHANGED <<request, badDebt, clamped>>
      /\ request \in Requests /\ next \in Nat \ {0} /\ Acceptable
  <2>1. /\ pc = "intake" /\ request.kind = "custody" /\ next <= Len(request.leaves)
        /\ UNCHANGED <<request, badDebt, clamped>>
    BY DEF TakePosition
  <2>2. Acceptable
    BY <2>1, RequestAssumption DEF Intake, Acceptable
  <2> QED
    BY <2>1, <2>2 DEF Intake
<1>2. leaves = <<>>
  BY <1>1, NoneYet
<1>3. next \in DOMAIN request.leaves
  BY <1>1, RequestFacts
<1>4. Subject(next) = leaf.who /\ Held(next) = read
  BY <1>1 DEF Subject, Read, Held
<1>5. CASE Refuse /\ UNCHANGED <<next, users>>
  <2>1. pc' = "failed" /\ UNCHANGED <<leaves, running>>
    BY <1>5 DEF Refuse
  <2>2. Refusable
    <3> SUFFICES ASSUME ~Refusable PROVE FALSE
      OBVIOUS
    <3>1. Subject(next) \notin DOMAIN users /\ Sound(next)
      BY <1>1, <1>3, SecondIsRefusable, UnsoundIsRefusable
    <3>2. \A n \in DOMAIN leaf.amounts : ~leaf.amounts[n].neg /\ Parses(leaf.amounts[n].n)
      BY <1>1, <3>1 DEF Sound
    <3>3. next' = next + 1
      BY <1>4, <3>1, <3>2 DEF TakePosition
    <3> QED
      BY <1>1, <1>5, <3>3
  <2> QED
    BY <1>1, <1>2, <1>5, <2>1, <2>2, TakenKept, NotedKept, NoneAdded
<1>6. CASE ~(Refuse /\ UNCHANGED <<next, users>>)
  <2>1. /\ leaf.who \notin DOMAIN users
        /\ \A n \in DOMAIN leaf.amounts : ~leaf.amounts[n].neg /\ Parses(leaf.amounts[n].n)
        /\ users' = [u \in DOMAIN users \cup {leaf.who} |-> IF u = leaf.who THEN read ELSE users[u]]
        /\ next' = next + 1 /\ UNCHANGED treeVars
    BY <1>6 DEF TakePosition
  <2>2. Sound(next)
    BY <1>1, <2>1 DEF Sound
  <2>3. Taken'
    <3> HIDE DEF leaf, read
    <3> QED
      BY <1>1, <1>3, <1>4, <2>1, <2>2, OneMoreTaken
  <2>4. NegativeBelow(next + 1) = NegativeBelow(next)
    <3>1. Negative(leaf.amounts) = {}
      BY <2>1 DEF Negative
    <3>2. NegativeNow = {}
      BY <3>1 DEF NegativeNow
    <3> QED
      BY <1>1, <1>3, <3>2, NegativeNowIs
  <2>5. \A x : OwedBelow(next + 1, x) = OwedBelow(next, x)
    BY <2>4 DEF OwedBelow
  <2>6. Noted'
    <3>1. \A k, x : OwedBelow(k, x)' = OwedBelow(k, x)
      BY <1>1, RequestKept
    <3>2. \A k : NegativeBelow(k)' = NegativeBelow(k)
      BY <1>1, RequestKept
    <3>3. \A x : OwedBelow(next, x)' = OwedBelow(next, x)
      <4>1. \A x, k : k = next' => OwedBelow(next, x)' = OwedBelow(k, x)'
        BY <1>1 DEF OwedBelow, NegativeBelow
      <4> QED
        BY <2>1, <2>5, <3>1, <4>1
    <3>4. NegativeBelow(next)' = NegativeBelow(next)
      <4>1. \A k : k = next' => NegativeBelow(next)' = NegativeBelow(k)'
        BY <1>1 DEF NegativeBelow
      <4> QED
        BY <2>1, <2>4, <3>2, <4>1
    <3> QED
      BY <1>1, <3>3, <3>4 DEF Noted, Of
  <2>7. pc' = "intake" /\ UNCHANGED <<leaves, running>>
    BY <1>1, <2>1 DEF treeVars
  <2> QED
    BY <1>1, <1>2, <2>3, <2>6, <2>7, NoneAdded
<1> QED
  BY <1>5, <1>6

LEMMA RefuseRequestBooks ==
  ASSUME Intake, Taken, Noted, Added, RefuseRequest
  PROVE  Taken' /\ Noted' /\ Added'
<1>1. /\ leaves = <<>> /\ pc' = "failed" /\ UNCHANGED <<leaves, running>>
      /\ UNCHANGED <<request, next, users, badDebt, clamped>>
  BY DEF RefuseRequest, Refuse
<1>2. \/ request.leaves = <<>> \/ request.kind = "otherProfile"
      \/ \E n \in DOMAIN request.badDebt : ~Parses(request.badDebt[n])
      \/ \E n \in DOMAIN request.prices : ~Parses(request.prices[n])
  BY DEF RefuseRequest
<1>3. Refusable
  BY <1>2 DEF Refusable, WellFormed
<1> QED
  BY <1>1, <1>3, TakenKept, NotedKept, NoneAdded

LEMMA RefusePositionsBooks ==
  ASSUME Intake, Taken, Noted, Added, RefusePositions
  PROVE  Taken' /\ Noted' /\ Added'
<1>1. /\ AllRead /\ CustodyRefused /\ pc' = "failed" /\ UNCHANGED <<leaves, running>>
      /\ UNCHANGED <<request, next, users, badDebt, clamped>>
  BY DEF RefusePositions, Refuse
<1>2. leaves = <<>>
  BY <1>1 DEF Added
<1>3. ReadAll
  BY <1>1 DEF AllRead, ReadAll
<1>4. Complete
  BY <1>3 DEF Intake, Complete
<1>5. request.kind = "custody" /\ request \in Requests
  BY <1>1 DEF CustodyRefused, Intake
<1>6. Refusable
  <2> SUFFICES ASSUME ~Refusable PROVE FALSE
    OBVIOUS
  <2>1. WellFormed
    BY DEF Refusable
  <2>2. \A e \in Entries : e[2] \in SafeNames
    BY <1>5, <2>1 DEF WellFormed
  <2>3. CASE \E a \in Names : TotalOf(users, a) > MaxAmount
    <3>1. PICK a \in Names : TotalOf(users, a) > MaxAmount
      BY <2>3
    <3>2. TotalOf(users, a) \in Nat /\ Asked(a) \in Nat /\ TotalOf(users, a) <= Asked(a)
      BY <1>4, TotalAsked
    <3>3. Asked(a) > MaxAmount
      BY <3>1, <3>2, BoundAssumption
    <3>4. a \notin Assets
      BY <3>3 DEF Refusable
    <3>5. \A e \in Entries : Read(e[2]) = e[2]
      BY <1>5 DEF Read
    <3>6. EntriesOf(a) = {}
      BY <2>2, <3>4, <3>5, NameAssumption DEF EntriesOf
    <3>7. Asked(a) = 0
      <4> DEFINE g == [e \in {} |-> Clamp(Amount(e))]
      <4>1. Asked(a) = SumFunction(g)
        BY <3>6 DEF Asked
      <4>2. SumFunction(g) = SumFunctionOnSet(g, {})
        BY SumOf
      <4> HIDE DEF g
      <4> QED
        BY <4>1, <4>2, SumSteps, FS_EmptySet
    <3> QED
      BY <3>3, <3>7, BoundAssumption
  <2>4. CASE \E u \in DOMAIN users : ~(DOMAIN users[u] \subseteq SafeNames)
    <3>1. PICK u \in DOMAIN users : ~(DOMAIN users[u] \subseteq SafeNames)
      BY <2>4
    <3>2. PICK a \in DOMAIN users[u] : a \notin SafeNames
      BY <3>1
    <3>3. Source(u, a) \in EntriesOf(a)
      BY <1>4, SourceIs
    <3>4. Source(u, a) \in Entries /\ Source(u, a)[2] = a
      BY <1>5, <3>3 DEF EntriesOf, Read
    <3> QED
      BY <2>2, <3>2, <3>4
  <2> QED
    BY <1>1, <2>3, <2>4 DEF CustodyRefused
<1> QED
  BY <1>1, <1>2, <1>6, TakenKept, NotedKept, NoneAdded

LEMMA CommittedIs ==
  ASSUME IsSeq(leaves)
  PROVE  Committed = {leaves[i].hash.subject : i \in 1..Len(leaves)}
BY DEF IsSeq, Committed

LEMMA CommitLeafBooks ==
  ASSUME Grown, Intake, Taken, Noted, Added, CommitLeaf
  PROVE  Taken' /\ Noted' /\ Added'
<1>1. PICK u \in DOMAIN users \ Committed : AddLeaf(u, users[u])
  BY DEF CommitLeaf
<1>2. AllRead /\ ~CustodyRefused /\ UNCHANGED <<request, next, users, badDebt, clamped>>
  BY DEF CommitLeaf
<1>3. pc' = "intake"
  BY <1>1 DEF AddLeaf
<1> DEFINE n == Len(leaves)
           new == [a \in Assets |-> running[Len(running)][a] + Of(users[u], a)]
<1>4. n \in Nat /\ IsSeq(leaves) /\ IsSeq(running) /\ Len(running) = n + 1
  BY DEF Grown, Counted, IsSeq
<1>5. leaves' = Append(leaves, leaf_node(u, users[u])) /\ running' = Append(running, new)
  BY <1>1 DEF AddLeaf
<1>6. /\ IsSeq(leaves') /\ Len(leaves') = n + 1
      /\ \A i \in 1..n : leaves'[i] = leaves[i]
      /\ leaves'[n + 1] = leaf_node(u, users[u])
  BY <1>4, <1>5, AppendIsSeq
<1>7. running'[Len(running')] = new
  <2> HIDE DEF new
  <2>1. Len(running') = Len(running) + 1 /\ running'[Len(running) + 1] = new
    BY <1>4, <1>5, AppendIsSeq
  <2> QED
    BY <2>1
<1>8. Committed' = Committed \cup {u}
  <2>1. Committed' = {leaves'[i].hash.subject : i \in 1..(n + 1)}
    BY <1>6 DEF Committed, IsSeq
  <2>2. Committed = {leaves[i].hash.subject : i \in 1..n}
    BY <1>4, CommittedIs
  <2>3. leaves'[n + 1].hash.subject = u
    BY <1>6 DEF leaf_node
  <2>4. \A i \in 1..(n + 1) : i \in 1..n \/ i = n + 1
    BY <1>4
  <2>5. n + 1 \in 1..(n + 1) /\ 1..n \subseteq 1..(n + 1)
    BY <1>4
  <2> HIDE DEF n
  <2> QED
    BY <1>6, <2>1, <2>2, <2>3, <2>4, <2>5
<1>9. Committed' \subseteq DOMAIN users'
  BY <1>1, <1>2, <1>8 DEF Added
<1>10. IsFiniteSet(Committed') /\ Cardinality(Committed') = Len(leaves')
  BY <1>1, <1>6, <1>8, FS_AddElement DEF Added
<1>11. \A i \in 1..Len(leaves') : \E v \in Committed' : leaves'[i] = leaf_node(v, users'[v])
  <2>1. ASSUME NEW i \in 1..n
        PROVE  \E v \in Committed' : leaves'[i] = leaf_node(v, users'[v])
    <3>1. PICK v \in Committed : leaves[i] = leaf_node(v, users[v])
      BY DEF Added
    <3> QED
      BY <1>2, <1>6, <1>8, <3>1
  <2>2. \E v \in Committed' : leaves'[n + 1] = leaf_node(v, users'[v])
    BY <1>2, <1>6, <1>8
  <2>3. \A i \in 1..(n + 1) : i \in 1..n \/ i = n + 1
    BY <1>4
  <2> HIDE DEF n
  <2> QED
    BY <1>6, <2>1, <2>2, <2>3
<1>12. ASSUME NEW a \in Assets
       PROVE  running'[Len(running')][a] = Together(a)'
  <2> DEFINE f == [v \in DOMAIN users |-> Of(users[v], a)]
             g == [v \in Committed |-> Of(users[v], a)]
             h == [v \in Committed' |-> Of(users[v], a)]
  <2>1. Committed \in SUBSET DOMAIN users /\ Committed' \in SUBSET DOMAIN users
    BY <1>2, <1>9 DEF Added
  <2>2. IsTally(f, DOMAIN users)
    BY UsersFinite, HoldingsTally DEF Intake
  <2>3. IsTally(f, Committed) /\ IsTally(f, Committed')
    <3> HIDE DEF f
    <3> QED
      BY <2>1, <2>2, TallyWithin
  <2>4. \A v \in Committed : g[v] = f[v]
    BY <2>1
  <2>5. \A v \in Committed' : h[v] = f[v]
    BY <2>1
  <2>6. Together(a) = SumFunctionOnSet(g, Committed)
    BY SumOf DEF Together
  <2>7. Together(a)' = SumFunctionOnSet(h, Committed')
    <3>1. Together(a)' = SumFunction(h)
      BY <1>2 DEF Together
    <3> QED
      BY <3>1, SumOf
  <2>8. f[u] \in Nat /\ f[u] = Of(users[u], a)
    BY <1>1, <2>2 DEF IsTally
  <2>9. new[a] = running[Len(running)][a] + Of(users[u], a)
    OBVIOUS
  <2> HIDE DEF f, g, h, new
  <2>10. Together(a) = SumFunctionOnSet(f, Committed)
    BY <2>3, <2>4, <2>6, SumSame
  <2>11. Together(a)' = SumFunctionOnSet(f, Committed')
    BY <2>3, <2>5, <2>7, SumSame
  <2>12. SumFunctionOnSet(f, Committed') = f[u] + SumFunctionOnSet(f, Committed)
    BY <1>1, <1>8, <2>3, <2>8, SumAdds
  <2>13. SumFunctionOnSet(f, Committed) \in Nat
    BY <2>3, SumFacts
  <2>14. running[Len(running)][a] = SumFunctionOnSet(f, Committed)
    BY <2>10 DEF Added
  <2> QED
    BY <1>7, <2>8, <2>9, <2>11, <2>12, <2>13, <2>14
<1>13. ReadAll' /\ ~CustodyRefused'
  BY <1>2 DEF AllRead, ReadAll, Acceptable, CustodyRefused
<1>14. Added'
  BY <1>3, <1>9, <1>10, <1>11, <1>12, <1>13 DEF Added
<1> QED
  BY <1>2, <1>14, TakenKept, NotedKept

\* Once all leaves are committed to.
LEMMA AllAdded ==
  ASSUME Added, leaves # <<>>, DOMAIN users \subseteq Committed,
         UNCHANGED <<leaves, running, request, next, users>>,
         pc' # "intake", pc' = "failed" => Refusable
  PROVE  Added'
<1>1. Committed' = Committed /\ \A a : Together(a)' = Together(a)
  <2>1. Committed' = Committed
    BY DEF Committed
  <2> QED
    BY <2>1 DEF Together
<1>2. Refusable' = Refusable
  BY RequestKept
<1>3. ReadAll' /\ ~CustodyRefused'
  BY DEF Added, ReadAll, Acceptable, CustodyRefused
<1> QED
  BY <1>1, <1>2, <1>3 DEF Added

\* What all subjects committed to have together is what they have.
LEMMA TogetherAll ==
  ASSUME Added, DOMAIN users \subseteq Committed
  PROVE  Committed = DOMAIN users /\ \A a : Together(a) = TotalOf(users, a)
<1>1. Committed = DOMAIN users
  BY DEF Added
<1> QED
  BY <1>1 DEF Together, TotalOf

LEMMA BuildTreeBooks ==
  ASSUME Grown, Grown', Intake, Taken, Noted, Added, BuildTree
  PROVE  Taken' /\ Noted' /\ Added'
<1>1. Build /\ UNCHANGED <<request, next, users, badDebt, clamped>>
  BY DEF BuildTree
<1>2. UNCHANGED <<leaves, running>> /\ pc \in {"intake", "building"} /\ pc' # "intake"
  BY <1>1 DEF Build, StartBuild, BuildLevel, Built
<1>3. DOMAIN users \subseteq Committed
  BY <1>2 DEF BuildTree, Added
<1>4. leaves # <<>> /\ ReadAll
  <2>1. CASE pc = "building"
    BY <2>1 DEF Added
  <2>2. CASE pc = "intake"
    <3>1. AllRead
      BY <2>2 DEF BuildTree
    <3>2. ReadAll
      BY <3>1 DEF AllRead, ReadAll
    <3>3. Complete
      BY <3>2 DEF Complete, Intake
    <3>4. 1 \in DOMAIN request.leaves
      <4>1. request.leaves \in Seq(Range(request.leaves)) /\ request.leaves # <<>>
        BY <3>2, RequestAssumption DEF ReadAll, Intake
      <4> QED
        BY <4>1, LenProperties, EmptySeq
    <3>5. Subject(1) \in DOMAIN users
      BY <3>3, <3>4, CompleteFacts
    <3>6. leaves # <<>>
      BY <1>3, <3>5, NoneTogether
    <3> QED
      BY <3>2, <3>6
  <2> QED
    BY <1>2, <2>1, <2>2
<1>5. ASSUME pc' = "failed"
      PROVE  Refusable
  <2>1. Overflows'
    BY <1>2, <1>4, <1>5 DEF Grown, Layered
  <2>2. PICK a \in Assets : running[Len(running)][a] > MaxAmount
    BY <1>2, <2>1 DEF Overflows
  <2>3. running[Len(running)][a] = TotalOf(users, a)
    BY <1>3, TogetherAll DEF Added
  <2>4. Complete
    BY <1>4 DEF Complete, Intake
  <2>5. TotalOf(users, a) \in Nat /\ Asked(a) \in Nat /\ TotalOf(users, a) <= Asked(a)
    BY <2>4, TotalAsked
  <2>6. Asked(a) > MaxAmount
    BY <2>2, <2>3, <2>5, BoundAssumption
  <2> QED
    BY <2>6 DEF Refusable
<1>6. Added'
  BY <1>1, <1>2, <1>3, <1>4, <1>5, AllAdded
<1> QED
  BY <1>1, <1>6, TakenKept, NotedKept

\* What comes after the tree is built.
LEMMA ProvingBooks ==
  ASSUME Taken, Noted, Added, UNCHANGED <<leaves, running, request, next, users, badDebt, clamped>>,
         pc \notin {"intake", "failed"}, pc' \notin {"intake", "failed"}
  PROVE  Taken' /\ Noted' /\ Added'
<1>1. DOMAIN users \subseteq Committed /\ leaves # <<>>
  BY DEF Added
<1>2. Added'
  BY <1>1, AllAdded
<1> QED
  BY <1>2, TakenKept, NotedKept

Books == Intake /\ Taken /\ Noted /\ Added

LEMMA NextBooks == Grown /\ Grown' /\ Books /\ [Next]_vars => Books'
<1> SUFFICES ASSUME Grown, Grown', Intake, Taken, Noted, Added, [Next]_vars
             PROVE  Taken' /\ Noted' /\ Added'
  BY IntakeStep DEF Books
<1>1. CASE ProveLeaf
  <2>1. Prove /\ UNCHANGED <<request, next, users, badDebt, clamped>>
    BY <1>1 DEF ProveLeaf
  <2>2. ASSUME ProveStep
        PROVE  UNCHANGED <<leaves, running>> /\ pc \notin {"intake", "failed"} /\ pc' \notin {"intake", "failed"}
    <3>1. pc = "proving" /\ UNCHANGED <<pc, leaves, running>>
      BY <2>2 DEF ProveStep
    <3> QED
      BY <3>1
  <2>3. ASSUME Proved
        PROVE  UNCHANGED <<leaves, running>> /\ pc \notin {"intake", "failed"} /\ pc' \notin {"intake", "failed"}
    BY <2>3 DEF Proved
  <2>4. ASSUME NEW i, StartProof(i)
        PROVE  UNCHANGED <<leaves, running>> /\ pc \notin {"intake", "failed"} /\ pc' \notin {"intake", "failed"}
    BY <2>4 DEF StartProof
  <2>5. UNCHANGED <<leaves, running>> /\ pc \notin {"intake", "failed"} /\ pc' \notin {"intake", "failed"}
    BY <2>1, <2>2, <2>3, <2>4 DEF Prove
  <2> QED
    BY <2>1, <2>5, ProvingBooks
<1>2. CASE VerifyLeaf
  <2>1. Verify /\ UNCHANGED <<request, next, users, badDebt, clamped>>
    BY <1>2 DEF VerifyLeaf
  <2>2. UNCHANGED <<leaves, running>> /\ pc \notin {"intake", "failed"} /\ pc' \notin {"intake", "failed"}
    BY <2>1 DEF Verify, StartVerify, FoldStep, Decide
  <2> QED
    BY <2>1, <2>2, ProvingBooks
<1>3. CASE UNCHANGED vars
  <2>1. UNCHANGED <<pc, leaves, running, request, next, users, badDebt, clamped>>
    BY <1>3 DEF vars, treeVars
  <2>2. Added'
    <3>1. CASE leaves = <<>>
      <4>1. pc \in {"intake", "failed"} /\ (pc = "failed" => Refusable)
        BY <3>1 DEF Added
      <4> QED
        BY <2>1, <3>1, <4>1, NoneAdded
    <3>2. CASE leaves # <<>>
      <4>1. Committed' = Committed /\ \A a : Together(a)' = Together(a)
        <5>1. Committed' = Committed
          BY <2>1 DEF Committed
        <5> QED
          BY <2>1, <5>1 DEF Together
      <4>2. Refusable' = Refusable
        BY <2>1, RequestKept
      <4>3. ReadAll' /\ ~CustodyRefused'
        BY <2>1, <3>2 DEF Added, ReadAll, Acceptable, CustodyRefused
      <4> QED
        BY <2>1, <4>1, <4>2, <4>3 DEF Added
    <3> QED
      BY <3>1, <3>2
  <2> QED
    BY <2>1, <2>2, TakenKept, NotedKept
<1> QED
  BY <1>1, <1>2, <1>3, RefuseRequestBooks, RefusePositionsBooks, TakeLeafBooks, TakePositionBooks,
     CommitLeafBooks, BuildTreeBooks
  DEF Next, Respond

-----------------------------------------------------------------------------
\* What a reader should know.

\* do_publish and do_custody use the tree as it is meant to be used: they give it
\* leaves of u128 amounts only, all of them before it is built, and refuse before
\* they have given it any.
THEOREM ReportsAreTrees == Spec => TreeSpec
BY InitIntake, IntakeStep, PTL DEF Spec, TreeSpec

LEMMA BooksHold == Spec => [](Books /\ Kept /\ InPhase)
<1>1. Init => Books
  BY InitIntake, InitBooks DEF Books
<1>2. Kept => Grown
  BY DEF Kept
<1>3. Kept /\ Kept' /\ Books /\ [Next]_vars => Books'
  <2>1. (Kept => Grown)'
    BY DEF Kept
  <2> QED
    BY <1>2, <2>1, NextBooks
<1>4. Spec => []Kept
  BY ReportsAreTrees, KeptHolds, PTL
<1>5. Spec => []InPhase
  BY ReportsAreTrees, PhasesHold, PTL
<1> QED
  BY <1>1, <1>3, <1>4, <1>5, PTL DEF Spec

LEMMA DoneIs ==
  ASSUME Books, Kept, pc \in Done
  PROVE  /\ Complete /\ ~CustodyRefused /\ Committed = DOMAIN users
         /\ \A a \in Assets : running[Len(running)][a] = TotalOf(users, a)
<1>1. leaves # <<>> /\ DOMAIN users \subseteq Committed
  BY DEF Books, Added, Done
<1>2. ReadAll /\ ~CustodyRefused
  BY <1>1 DEF Books, Added
<1>3. Committed = DOMAIN users /\ \A a : Together(a) = TotalOf(users, a)
  BY <1>1, TogetherAll DEF Books
<1> QED
  BY <1>2, <1>3 DEF Books, Complete, Intake, Added

LEMMA DoneWellFormed ==
  ASSUME Books, Kept, pc \in Done
  PROVE  WellFormed
<1>1. Complete /\ ~CustodyRefused /\ ReadAll /\ request \in Requests
  BY DoneIs DEF Complete
<1>2. \A i \in DOMAIN request.leaves : Sound(i)
  BY <1>1, CompleteFacts
<1>3. \A e \in Entries : /\ Sound(e[1]) /\ e[1] \in DOMAIN request.leaves
                         /\ e[2] \in DOMAIN request.leaves[e[1]].amounts
                         /\ Amount(e) = request.leaves[e[1]].amounts[e[2]]
  BY <1>1, <1>2, EntryFacts, RequestFacts
<1>4. request.kind # "otherProfile" /\ request.leaves # <<>>
  BY <1>1 DEF ReadAll, Acceptable
<1>5. \A i, j \in DOMAIN request.leaves :
        i # j => Read(request.leaves[i].who) # Read(request.leaves[j].who)
  BY <1>1, CompleteFacts DEF Subject
<1>6. \A e \in Entries : Parses(Amount(e).n)
  BY <1>3 DEF Sound
<1>7. ASSUME request.kind = "custody", NEW e \in Entries
      PROVE  ~Amount(e).neg /\ e[2] \in SafeNames
  <2>1. ~Amount(e).neg
    BY <1>3, <1>7 DEF Sound
  <2>2. Subject(e[1]) \in DOMAIN users /\ Read(e[2]) \in DOMAIN users[Subject(e[1])]
    BY <1>1, EntryHeld
  <2>3. Read(e[2]) = e[2]
    BY <1>7 DEF Read
  <2>4. DOMAIN users[Subject(e[1])] \subseteq SafeNames
    BY <1>1, <1>7, <2>2 DEF CustodyRefused
  <2> QED
    BY <2>1, <2>2, <2>3, <2>4
<1>8. ASSUME request.kind = "liabilities"
      PROVE  /\ \A i \in DOMAIN request.leaves : Trim[request.leaves[i].who] # Blank
             /\ \A e \in Entries : Trim[e[2]] # Blank
  BY <1>2, <1>3, <1>8 DEF Sound
<1>9. /\ \A n \in DOMAIN request.badDebt : Parses(request.badDebt[n])
      /\ \A n \in DOMAIN request.prices : Parses(request.prices[n])
  BY <1>1 DEF ReadAll, Acceptable
<1> QED
  BY <1>4, <1>5, <1>6, <1>7, <1>8, <1>9 DEF WellFormed

LEMMA NoneOwed ==
  ASSUME NEW x, \A e \in EntriesOf(x) : ~Amount(e).neg
  PROVE  Owed(x) = 0
<1> DEFINE g == [e \in {} |-> Amount(e).n]
<1>1. {f \in EntriesOf(x) : Amount(f).neg} = {}
  OBVIOUS
<1>2. Owed(x) = SumFunction(g)
  BY <1>1 DEF Owed
<1>3. SumFunction(g) = SumFunctionOnSet(g, {})
  BY SumOf
<1> HIDE DEF g
<1> QED
  BY <1>2, <1>3, SumSteps, FS_EmptySet

\* Only a trimmed name is owed.
LEMMA OwedTrimmed ==
  ASSUME Complete, NEW x, x \notin Names \/ Trim[x] # x
  PROVE  Owed(x) = 0
<1>1. request \in Requests
  BY DEF Complete
<1>2. CASE request.kind = "custody"
  <2>1. ASSUME NEW e \in EntriesOf(x) PROVE ~Amount(e).neg
    <3>1. /\ e \in Entries /\ e[1] \in DOMAIN request.leaves
          /\ e[2] \in DOMAIN request.leaves[e[1]].amounts
          /\ Amount(e) = request.leaves[e[1]].amounts[e[2]]
      BY <1>1, EntryFacts, RequestFacts DEF EntriesOf
    <3>2. Sound(e[1])
      BY <3>1, CompleteFacts
    <3> QED
      BY <1>2, <3>1, <3>2 DEF Sound
  <2> QED
    BY <2>1, NoneOwed
<1>3. CASE request.kind # "custody"
  <2>1. ASSUME NEW e \in EntriesOf(x) PROVE FALSE
    <3>1. e[2] \in Names /\ Trim[e[2]] = x
      BY <1>1, <1>3, EntryFacts DEF EntriesOf, Read
    <3> QED
      BY <3>1, NameAssumption
  <2> QED
    BY <2>1, NoneOwed
<1> QED
  BY <1>2, <1>3

LEMMA DebtsDisclosed ==
  ASSUME Complete, Noted, NEW a \in Assets
  PROVE  Disclosed(badDebt, a) = Owed(a) + Disclosed(request.badDebt, a)
<1> DEFINE S == {m \in DOMAIN badDebt : Trim[m] = a}
           R == {m \in DOMAIN request.badDebt : Trim[m] = a}
           f == [m \in S |-> Of(request.badDebt, m)]
           g == [m \in S |-> Owed(m)]
           h == [m \in S |-> badDebt[m]]
           d == [m \in R |-> request.badDebt[m]]
           inS == [m \in R |-> m]
           inO == [m \in S \cap {a} |-> m]
<1>1. request \in Requests /\ next > Len(request.leaves) /\ next \in Nat
  BY RequestFacts DEF Complete, ReadAll, Taken
<1>2. \A m : OwedBelow(next, m) = Owed(m) /\ Owed(m) \in Nat
  BY <1>1, OwedInAll, OwedIs
<1>3. IsFiniteSet(S) /\ S \in SUBSET Names /\ R \in SUBSET S
  <2>1. S \in SUBSET DOMAIN badDebt /\ IsFiniteSet(DOMAIN badDebt)
    BY DEF Noted
  <2>2. R \in SUBSET S /\ S \in SUBSET Names
    BY DEF Noted
  <2> HIDE DEF S, R
  <2> QED
    BY <2>1, <2>2, FS_Subset
<1>4. \A m \in S : Of(request.badDebt, m) \in Nat
  BY <1>1, <1>3, RequestAssumption DEF Of
<1>5. \A m \in S : h[m] = f[m] + g[m]
  <2>1. ASSUME NEW m \in S
        PROVE  badDebt[m] = Of(request.badDebt, m) + Owed(m)
    <3>1. Of(badDebt, m) = Of(request.badDebt, m) + OwedBelow(next, m)
      BY <1>3 DEF Noted
    <3>2. Of(badDebt, m) = badDebt[m]
      BY DEF Of
    <3> QED
      BY <1>2, <3>1, <3>2
  <2> QED
    BY <2>1
<1>6. IsTally(f, S) /\ IsTally(g, S)
  BY <1>2, <1>3, <1>4 DEF IsTally
<1>7. Disclosed(badDebt, a) = SumFunctionOnSet(h, S)
  BY SumOf DEF Disclosed
<1>8. Disclosed(request.badDebt, a) = SumFunctionOnSet(d, R)
  BY SumOf DEF Disclosed
<1>9. SumFunctionOnSet(h, S) = SumFunctionOnSet(f, S) + SumFunctionOnSet(g, S)
  <2> HIDE DEF S, f, g, h
  <2> QED
    BY <1>5, <1>6, SumPlus
<1>10. SumFunctionOnSet(d, R) = SumFunctionOnSet(f, S)
  <2>1. inS \in [R -> S] /\ \A m \in R : inS[m] = m
    BY <1>3
  <2>2. \A m \in R : d[m] = f[m]
    BY <1>3 DEF Of
  <2>3. \A m \in S : f[m] = 0 \/ m \in R
    BY DEF Of
  <2>4. IsTally(d, R)
    <3>1. IsFiniteSet(R)
      <4> HIDE DEF R, S
      <4> QED
        BY <1>3, FS_Subset
    <3>2. \A m \in R : d[m] \in Nat
      BY <1>1, RequestAssumption
    <3> QED
      BY <3>1, <3>2 DEF IsTally
  <2> HIDE DEF S, R, d, f, inS
  <2> QED
    BY <1>6, <2>1, <2>2, <2>3, <2>4, SumAlong
<1>11. SumFunctionOnSet(g, S \cap {a}) = SumFunctionOnSet(g, S)
  <2>1. inO \in [S \cap {a} -> S] /\ \A m \in S \cap {a} : inO[m] = m
    OBVIOUS
  <2>2. \A m \in S : g[m] = 0 \/ m \in S \cap {a}
    BY OwedTrimmed
  <2>3. IsTally(g, S \cap {a})
    <3> HIDE DEF S, g
    <3> QED
      BY <1>6, TallyWithin
  <2> HIDE DEF S, g, inO
  <2> QED
    BY <1>6, <2>1, <2>2, <2>3, SumAlong
<1>12. SumFunctionOnSet(g, S \cap {a}) = Owed(a)
  <2>1. CASE a \in S
    <3>1. S \cap {a} = {a} /\ {a} \ {a} = {} /\ g[a] = Owed(a)
      BY <2>1
    <3>2. IsTally(g, {a})
      BY <1>2, <3>1, FS_Singleton DEF IsTally
    <3> HIDE DEF g, S
    <3>3. SumFunctionOnSet(g, {a}) = g[a] + SumFunctionOnSet(g, {}) /\ SumFunctionOnSet(g, {}) = 0
      BY <3>1, <3>2, SumFacts
    <3>4. SumFunctionOnSet(g, {a}) = Owed(a)
      BY <1>2, <3>1, <3>3
    <3>5. S \cap {a} = {a}
      BY <3>1
    <3> QED
      BY <3>4, <3>5
  <2>2. CASE a \notin S
    <3>1. S \cap {a} = {} /\ SumFunctionOnSet(g, {}) = 0
      <4>1. S \cap {a} = {}
        BY <2>2
      <4> HIDE DEF g, S
      <4> QED
        BY <4>1, SumSteps, FS_EmptySet
    <3>2. Owed(a) = 0
      <4>1. a \in Names
        BY NameAssumption
      <4>2. CASE Trim[a] # a
        BY <4>2, OwedTrimmed
      <4>3. CASE Trim[a] = a
        <5>1. a \notin DOMAIN badDebt
          BY <2>2, <4>3
        <5>2. Of(badDebt, a) = Of(request.badDebt, a) + OwedBelow(next, a) /\ Of(badDebt, a) = 0
          BY <4>1, <5>1 DEF Noted, Of
        <5>3. Of(request.badDebt, a) \in Nat
          BY <1>1, <4>1, RequestAssumption DEF Of
        <5>4. Of(request.badDebt, a) + Owed(a) = 0
          BY <1>2, <5>2
        <5> QED
          BY <1>2, <5>3, <5>4
      <4> QED
        BY <4>2, <4>3
    <3> QED
      BY <3>1, <3>2
  <2> QED
    BY <2>1, <2>2
<1>13. SumFunctionOnSet(f, S) \in Nat
  <2> HIDE DEF f, S
  <2> QED
    BY <1>6, SumFacts
<1> HIDE DEF S, R, f, g, h, d, inS, inO
<1> QED
  BY <1>2, <1>7, <1>8, <1>9, <1>10, <1>11, <1>12, <1>13

\* Whatever a report was made from, its root carries its leaves, each once.
THEOREM ReportTotals == Spec => []RootTotals
BY ReportsAreTrees, RootTotalsHold, PTL

\* No request that was read is refused by the tree, except for a total that u128
\* cannot hold.
THEOREM ReportOverflows == Spec => []OverflowOnly
BY ReportsAreTrees, OverflowOnlyHold, PTL

\* Every proof handed out with a report opens its own leaf, and no other.
THEOREM ReportProofs == Spec => []ProofsVerify
BY ReportsAreTrees, ProofsVerifyHold, PTL

\* What the service keeps of a request is what it says: a place in the leaves, names
\* that were given, and a tree that is one.
THEOREM TypesHold == Spec => []TypeOK
<1>1. Books => /\ next \in 1..(Len(request.leaves) + 1) /\ clamped \in Nat
               /\ \A u \in DOMAIN users : u \in Names
               /\ DOMAIN badDebt \subseteq Names
  <2> SUFFICES ASSUME Books
               PROVE  /\ next \in 1..(Len(request.leaves) + 1) /\ clamped \in Nat
                      /\ \A u \in DOMAIN users : u \in Names
                      /\ DOMAIN badDebt \subseteq Names
    OBVIOUS
  <2>1. NegativeBelow(next) \in SUBSET Entries /\ IsFiniteSet(Entries)
    BY EntryFacts DEF NegativeBelow, Books, Intake
  <2>2. Cardinality(NegativeBelow(next)) \in Nat
    BY <2>1, FS_Subset, FS_CardinalityType
  <2>3. \A u \in DOMAIN users : u \in Names
    BY NameAssumption DEF Books, Intake, Readable
  <2> QED
    BY <2>2, <2>3 DEF Books, Taken, Noted
<1>2. Spec => []TreeTypeOK
  BY ReportsAreTrees, TreeTypesHold, PTL
<1> QED
  BY <1>1, <1>2, BooksHold, PTL DEF TypeOK

\* Nobody's balance is lost, counted twice or moved to another asset between the
\* request and the root, whatever names, amounts and order the request has.
THEOREM NothingLostHolds == Spec => []NothingLost
<1>1. Books /\ Kept /\ RootTotals => NothingLost
  <2> SUFFICES ASSUME Books, Kept, RootTotals, pc \in Done, ~Collides
               PROVE  /\ \A a \in Assets : Of(Root.sums, a) = Asked(a)
                      /\ DOMAIN Root.sums = {Read(e[2]) : e \in Entries}
                      /\ Len(leaves) = Len(request.leaves)
    BY DEF NothingLost
  <2>1. /\ Complete /\ Committed = DOMAIN users
        /\ \A a \in Assets : running[Len(running)][a] = TotalOf(users, a)
    BY DoneIs
  <2>2. /\ \A a \in Assets : Of(Root.sums, a) = running[Len(running)][a]
        /\ DOMAIN Root.sums = UNION {DOMAIN leaves[i].sums : i \in DOMAIN leaves}
    BY DEF RootTotals
  <2>3. \A a \in Assets : TotalOf(users, a) = Asked(a)
    BY <2>1, TotalAsked
  <2>4. DOMAIN leaves = 1..Len(leaves)
        /\ Committed = {leaves[i].hash.subject : i \in DOMAIN leaves}
    BY DEF Kept, Grown, Counted, IsSeq, Committed
  <2>5. ASSUME NEW i \in DOMAIN leaves
        PROVE  \E u \in DOMAIN users : leaves[i].sums = users[u] /\ leaves[i].hash.subject = u
    <3>1. PICK u \in Committed : leaves[i] = leaf_node(u, users[u])
      BY <2>4 DEF Books, Added
    <3>2. leaves[i].sums = users[u] /\ leaves[i].hash.subject = u
      BY <3>1 DEF leaf_node
    <3> QED
      BY <2>1, <3>2
  <2>6. DOMAIN Root.sums = UNION {DOMAIN users[u] : u \in DOMAIN users}
    <3>1. \A u \in DOMAIN users : \E i \in DOMAIN leaves : leaves[i].sums = users[u]
      BY <2>1, <2>4, <2>5
    <3> QED
      BY <2>2, <2>5, <3>1
  <2>7. UNION {DOMAIN users[u] : u \in DOMAIN users} = {Read(e[2]) : e \in Entries}
    <3>1. ASSUME NEW u \in DOMAIN users, NEW a \in DOMAIN users[u]
          PROVE  a \in {Read(e[2]) : e \in Entries}
      <4>1. Source(u, a) \in EntriesOf(a)
        BY <2>1, SourceIs
      <4> QED
        BY <4>1 DEF EntriesOf
    <3>2. \A e \in Entries : \E u \in DOMAIN users : Read(e[2]) \in DOMAIN users[u]
      BY <2>1, EntryHeld
    <3> QED
      BY <3>1, <3>2
  <2>8. Len(leaves) = Len(request.leaves)
    <3>1. Cardinality(Committed) = Len(leaves)
      BY DEF Books, Added
    <3>2. Cardinality(DOMAIN users) = next - 1
      BY UsersFinite DEF Books, Intake
    <3>3. next - 1 = Len(request.leaves)
      BY <2>1, CompleteFacts
    <3> QED
      BY <2>1, <3>1, <3>2, <3>3
  <2> QED
    BY <2>1, <2>2, <2>3, <2>6, <2>7, <2>8
<1> QED
  BY <1>1, BooksHold, ReportTotals, PTL

\* Negative equity is surfaced, not netted: what is disclosed is what the request
\* disclosed and every balance clamped, under whatever spelling of its asset.
THEOREM DebtSurfacedHolds == Spec => []DebtSurfaced
<1>1. Books /\ Kept => DebtSurfaced
  <2> SUFFICES ASSUME Books, Kept, pc \in Done
               PROVE  /\ \A a \in Assets : Disclosed(badDebt, a) = Owed(a) + Disclosed(request.badDebt, a)
                      /\ clamped = Cardinality({e \in Entries : Amount(e).neg})
    BY DEF DebtSurfaced
  <2>1. Complete /\ Noted
    BY DoneIs DEF Books
  <2>2. NegativeBelow(next) = {e \in Entries : Amount(e).neg}
    <3>1. request \in Requests /\ next > Len(request.leaves) /\ next \in Nat
      BY <2>1, RequestFacts DEF Complete, ReadAll, Taken
    <3> QED
      BY <3>1, OwedInAll
  <2> QED
    BY <2>1, <2>2, DebtsDisclosed DEF Noted
<1> QED
  BY <1>1, BooksHold, PTL

\* A request is published only if it is well formed, and refused only if it is not
\* or if a total of it does not fit.
THEOREM PublishesExactlyHolds == Spec => []PublishesExactly
<1>1. Books /\ Kept => PublishesExactly
  <2> SUFFICES ASSUME Books, Kept PROVE PublishesExactly
    OBVIOUS
  <2>1. pc = "failed" => Refusable
    BY DEF Books, Added
  <2> QED
    BY <2>1, DoneWellFormed DEF PublishesExactly, Refusable
<1> QED
  BY <1>1, BooksHold, PTL
==============================================================================
