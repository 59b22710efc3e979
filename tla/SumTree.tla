------------------------------- MODULE SumTree -------------------------------
(***************************************************************************)
(* The Merkle sum tree: how `build` pairs nodes level by level and adds up *)
(* what their leaves hold, how `prove` collects the siblings of a leaf,    *)
(* and how `verify_proof` folds them back into a root.  The loops of the   *)
(* three functions are the actions: one turn of a loop is one step.        *)
(*                                                                         *)
(* A hash is the term that was hashed.  Nodes of different terms have      *)
(* different hashes; the salt of a leaf is that of its subject.  An asset  *)
(* is a key of a leaf's sums: an asset of a v1 leaf, a qualified one of a  *)
(* v2 leaf.                                                                *)
(***************************************************************************)
EXTENDS Integers, Sequences

CONSTANTS
  Subjects,   \* whom a leaf is about
  Assets,
  MaxAmount,  \* the largest u128
  MaxLeaves   \* bound on the leaves of a tree

ASSUME BoundAssumption == MaxAmount \in Nat /\ MaxLeaves \in Nat

VARIABLES
  pc,       \* what the caller is doing
  leaves,   \* the nodes given to build
  levels,   \* levels[1] the leaves, the last one the root alone
  walk,     \* the call of prove
  fold,     \* the call of verify_proof
  running,  \* history: running[n + 1] is what the first n leaves hold together
  spans     \* history: the first and the last leaf below each node

callVars == <<walk, fold>>
treeVars == <<pc, leaves, levels, walk, fold, running, spans>>

-----------------------------------------------------------------------------

\* Amounts per asset, of some assets.
Sums == UNION {[held -> 0..MaxAmount] : held \in SUBSET Assets}

\* What a map of amounts has of an asset.
Of(sums, a) == IF a \in DOMAIN sums THEN sums[a] ELSE 0

\* leaf_node and leaf_node_v2: the hash covers the subject, its salt and the
\* amounts.
leaf_node(subject, sums) == [hash |-> [subject |-> subject, holds |-> sums], sums |-> sums]

\* Mutant of Fits: the largest amount is taken for an overflow.
FitsBelow(left, right) == \A a \in Assets : Of(left.sums, a) + Of(right.sums, a) < MaxAmount

\* The checked additions of combine.
Fits(left, right) == \A a \in Assets : Of(left.sums, a) + Of(right.sums, a) <= MaxAmount

combine(left, right) ==
  LET sums == [a \in DOMAIN left.sums \cup DOMAIN right.sums |->
                 Of(left.sums, a) + Of(right.sums, a)]
  IN  [hash |-> [left |-> left.hash, right |-> right.hash, sums |-> sums], sums |-> sums]

\* The chunks of two of a level: the first of chunk i, and whether there is a
\* second.
Chunks(level) == 1..((Len(level) + 1) \div 2)
IsPair(level, i) == 2 * i <= Len(level)

\* Mutant of Paired: an odd node is combined with itself.
PairedTwice(level) ==
  [i \in Chunks(level) |->
     combine(level[2 * i - 1], level[IF IsPair(level, i) THEN 2 * i ELSE 2 * i - 1])]

\* The level above: pairs combined, an odd node promoted unchanged.
Paired(level) ==
  [i \in Chunks(level) |->
     IF IsPair(level, i) THEN combine(level[2 * i - 1], level[2 * i]) ELSE level[2 * i - 1]]

\* The history above.
SpansAbove(span) ==
  [i \in Chunks(span) |->
     [lo |-> span[2 * i - 1].lo,
      hi |-> IF IsPair(span, i) THEN span[2 * i].hi ELSE span[2 * i - 1].hi]]

Top == levels[Len(levels)]
Root == Top[1]

\* One step of a proof applied to a node, as verify_proof does.
StepOn(node, step) ==
  IF step.onLeft THEN combine(step.sibling, node) ELSE combine(node, step.sibling)
StepFits(node, step) ==
  IF step.onLeft THEN Fits(step.sibling, node) ELSE Fits(node, step.sibling)

NoWalk == [leaf |-> 0, idx |-> 0, level |-> 0, steps |-> <<>>]
NoNode == [hash |-> <<>>, sums |-> <<>>]
NoFold == [claimed |-> NoNode, current |-> NoNode, at |-> 0]

-----------------------------------------------------------------------------

TreeInit ==
  /\ pc = "intake"
  /\ leaves = <<>>
  /\ levels = <<>>
  /\ walk = NoWalk
  /\ fold = NoFold
  /\ running = <<[a \in Assets |-> 0]>>
  /\ spans = <<>>

\* One more leaf for build.
AddLeaf(subject, sums) ==
  /\ pc = "intake"
  /\ Len(leaves) < MaxLeaves
  /\ leaves' = Append(leaves, leaf_node(subject, sums))
  /\ running' = Append(running, [a \in Assets |-> running[Len(running)][a] + Of(sums, a)])
  /\ UNCHANGED <<pc, levels, spans, callVars>>

\* build refuses no leaves, and starts with the lowest level.
StartBuild ==
  /\ pc = "intake"
  /\ IF leaves = <<>>
     THEN pc' = "failed" /\ UNCHANGED <<levels, spans>>
     ELSE /\ pc' = "building"
          /\ levels' = <<leaves>>
          /\ spans' = <<[i \in DOMAIN leaves |-> [lo |-> i, hi |-> i]]>>
  /\ UNCHANGED <<leaves, running, callVars>>

\* Mutant of BuildLevel: sums are added without a check.
BuildUnchecked ==
  /\ pc = "building"
  /\ Len(Top) > 1
  /\ levels' = Append(levels, Paired(Top))
  /\ spans' = Append(spans, SpansAbove(spans[Len(spans)]))
  /\ UNCHANGED <<pc, leaves, running, callVars>>

\* Mutant of BuildLevel: the loop ends at two nodes.
BuildToTwo ==
  /\ pc = "building"
  /\ Len(Top) > 2
  /\ IF \A i \in Chunks(Top) : IsPair(Top, i) => Fits(Top[2 * i - 1], Top[2 * i])
     THEN /\ levels' = Append(levels, Paired(Top))
          /\ spans' = Append(spans, SpansAbove(spans[Len(spans)]))
          /\ UNCHANGED pc
     ELSE pc' = "failed" /\ UNCHANGED <<levels, spans>>
  /\ UNCHANGED <<leaves, running, callVars>>

\* One turn of build's loop: the next level, unless a sum overflows.
BuildLevel ==
  /\ pc = "building"
  /\ Len(Top) > 1
  /\ IF \A i \in Chunks(Top) : IsPair(Top, i) => Fits(Top[2 * i - 1], Top[2 * i])
     THEN /\ levels' = Append(levels, Paired(Top))
          /\ spans' = Append(spans, SpansAbove(spans[Len(spans)]))
          /\ UNCHANGED pc
     ELSE pc' = "failed" /\ UNCHANGED <<levels, spans>>
  /\ UNCHANGED <<leaves, running, callVars>>

Built ==
  /\ pc = "building"
  /\ Len(Top) = 1
  /\ pc' = "built"
  /\ UNCHANGED <<leaves, levels, running, spans, callVars>>

\* prove is called for leaf i, counted from 0.  A publisher calls it for every
\* leaf; no call changes anything for another, so one is followed.
StartProof(i) ==
  /\ pc = "built"
  /\ i \in 0..(Len(leaves) - 1)
  /\ walk' = [leaf |-> i, idx |-> i, level |-> 1, steps |-> <<>>]
  /\ pc' = "proving"
  /\ UNCHANGED <<leaves, levels, fold, running, spans>>

\* idx ^ 1
SiblingOf(idx) == IF idx % 2 = 0 THEN idx + 1 ELSE idx - 1

\* Mutant of ProveStep: a promoted node is taken for its own sibling.
ProvePromoted ==
  LET level   == levels[walk.level]
      sibling == IF SiblingOf(walk.idx) < Len(level) THEN SiblingOf(walk.idx) ELSE walk.idx
  IN
  /\ pc = "proving"
  /\ walk.level < Len(levels)
  /\ walk' = [walk EXCEPT
       !.idx = @ \div 2,
       !.level = @ + 1,
       !.steps = Append(@, [sibling |-> level[sibling + 1], onLeft |-> sibling < walk.idx])]
  /\ UNCHANGED <<pc, leaves, levels, fold, running, spans>>

\* One turn of prove's loop: a level at which the node was promoted adds no step.
ProveStep ==
  LET level   == levels[walk.level]
      sibling == SiblingOf(walk.idx)
  IN
  /\ pc = "proving"
  /\ walk.level < Len(levels)
  /\ walk' = [walk EXCEPT
       !.idx = @ \div 2,
       !.level = @ + 1,
       !.steps = IF sibling < Len(level)
                 THEN Append(@, [sibling |-> level[sibling + 1], onLeft |-> sibling < walk.idx])
                 ELSE @]
  /\ UNCHANGED <<pc, leaves, levels, fold, running, spans>>

Proved ==
  /\ pc = "proving"
  /\ walk.level = Len(levels)
  /\ pc' = "proved"
  /\ UNCHANGED <<leaves, levels, walk, fold, running, spans>>

\* verify_proof is called with the proof and the root for some leaf.
StartVerify(claimed) ==
  /\ pc = "proved"
  /\ fold' = [claimed |-> claimed, current |-> claimed, at |-> 1]
  /\ pc' = "verifying"
  /\ UNCHANGED <<leaves, levels, walk, running, spans>>

\* One turn of verify_proof's loop.
FoldStep ==
  /\ pc = "verifying"
  /\ fold.at <= Len(walk.steps)
  /\ IF StepFits(fold.current, walk.steps[fold.at])
     THEN /\ fold' = [fold EXCEPT !.current = StepOn(@, walk.steps[fold.at]), !.at = @ + 1]
          /\ UNCHANGED pc
     ELSE pc' = "refused" /\ UNCHANGED fold
  /\ UNCHANGED <<leaves, levels, walk, running, spans>>

\* current == *root, hash and sums.
Decide ==
  /\ pc = "verifying"
  /\ fold.at = Len(walk.steps) + 1
  /\ pc' = IF fold.current = Root THEN "accepted" ELSE "refused"
  /\ UNCHANGED <<leaves, levels, walk, fold, running, spans>>

Build == StartBuild \/ BuildLevel \/ Built
Prove == ProveStep \/ Proved \/ \E i \in 0..(MaxLeaves - 1) : StartProof(i)
Verify == FoldStep \/ Decide \/ \E s \in Subjects, sums \in Sums : StartVerify(leaf_node(s, sums))

TreeNext ==
  \/ \E s \in Subjects, sums \in Sums : AddLeaf(s, sums)
  \/ Build \/ Prove \/ Verify

TreeSpec == TreeInit /\ [][TreeNext]_treeVars

-----------------------------------------------------------------------------

IsNode(n) == n = [hash |-> n.hash, sums |-> n.sums] /\ n.sums \in Sums

TreeTypeOK ==
  /\ pc \in {"intake", "building", "failed", "built", "proving", "proved", "verifying",
             "accepted", "refused"}
  /\ DOMAIN leaves = 1..Len(leaves) /\ \A i \in DOMAIN leaves : IsNode(leaves[i])
  /\ \A l \in 1..Len(levels) :
       DOMAIN levels[l] = 1..Len(levels[l]) /\ \A i \in 1..Len(levels[l]) : IsNode(levels[l][i])
  /\ Len(levels) = Len(spans) /\ Len(running) = Len(leaves) + 1
  /\ walk.idx \in Nat /\ walk.level \in 0..Len(levels)

Done == {"built", "proving", "proved", "verifying", "accepted", "refused"}

\* The root carries exactly what all leaves hold together, every leaf once, for
\* every asset any of them has: what "promoted, never duplicated" is for, at any
\* number of leaves.
RootTotals ==
  pc \in Done =>
    /\ Len(Top) = 1
    /\ \A a \in Assets : Of(Root.sums, a) = running[Len(running)][a]
    /\ DOMAIN Root.sums = UNION {DOMAIN leaves[i].sums : i \in DOMAIN leaves}

\* build fails for no leaves, or for a total that u128 cannot hold: an overflow
\* below the root is an overflow of the whole, and no other book is refused.
OverflowOnly ==
  pc = "failed" /\ leaves # <<>> =>
    \E a \in Assets : running[Len(running)][a] > MaxAmount

\* A proof is accepted for the leaf it was made for, through every promotion, and
\* for no other one.
ProofsVerify ==
  /\ pc = "accepted" => fold.claimed = leaves[walk.leaf + 1]
  /\ pc = "refused" => fold.claimed # leaves[walk.leaf + 1]
=============================================================================
