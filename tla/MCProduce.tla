------------------------------ MODULE MCProduce ------------------------------
(***************************************************************************)
(* Requests for the model checker: short ones with every kind of bad name  *)
(* and amount, and longer ones whose trees have nodes promoted at one and  *)
(* at several levels.                                                      *)
(***************************************************************************)
EXTENDS Produce, TLC

MCSubjects == {"a", "b", "c", "d", "e"}
MCAssets == {"A", "B"}
MCByteOrder == <<"", " ", " A", "A", "B", "a", "a ", "b", "c", "d", "e">>
MCNames == {MCByteOrder[i] : i \in DOMAIN MCByteOrder}
MCTrim == [n \in MCNames |-> CASE n = " " -> "" [] n = " A" -> "A" [] n = "a " -> "a" [] OTHER -> n]

Plus(n) == [neg |-> FALSE, n |-> n]
Minus(n) == [neg |-> TRUE, n |-> n]
Leaf(who, amounts) == [who |-> who, amounts |-> amounts]
Request(kind, ls) == [kind |-> kind, leaves |-> ls, badDebt |-> <<>>, prices |-> <<>>]

ShortAmounts ==
  {<<>>, "A" :> Plus(1), "A" :> Minus(1), "A" :> Plus(3) @@ "B" :> Plus(1),
   " A" :> Plus(1) @@ "A" :> Plus(2), " A" :> Minus(1) @@ "A" :> Minus(2),
   "A" :> Plus(4), " " :> Plus(1)}
ShortLeaves == {Leaf(w, m) : w \in {"a", "a ", "b", " "}, m \in ShortAmounts}

Short == {Request("liabilities", ls) : ls \in UNION {[1..n -> ShortLeaves] : n \in 0..2}}

FewAmounts == {<<>>, "A" :> Plus(1), "A" :> Plus(2) @@ "B" :> Minus(1)}
Long ==
  {Request("liabilities", [i \in 1..3 |-> Leaf(<<"c", "a", "b">>[i], m[i])]) :
     m \in [1..3 -> FewAmounts]}
  \cup {Request("liabilities", [i \in 1..5 |-> Leaf(<<"e", "b", "a", "d", "c">>[i], m[i])]) :
     m \in [1..5 -> {"A" :> Plus(1), "B" :> Plus(1)}]}

Debts ==
  {[Request("liabilities", <<Leaf("a", m)>>) EXCEPT !.badDebt = d, !.prices = p] :
     m \in {"A" :> Plus(1), "A" :> Minus(3), " A" :> Minus(1)},
     d \in {<<>>, "A" :> 1, " A" :> 1, "A" :> 4}, p \in {<<>>, "A" :> 4}}

Positions == {Leaf(w, n :> x) : w \in {"a", "b"}, n \in {"A", "B", " A"},
                                x \in {Plus(1), Plus(3), Plus(4), Minus(1)}}
Custody ==
  {Request("custody", ps) : ps \in UNION {[1..n -> Positions] : n \in 0..2}}
  \cup {Request("custody", [i \in 1..4 |-> Leaf(<<"c", "a", "d", "b">>[i], m[i])]) :
     m \in [1..4 -> {"A" :> Plus(1), "B" :> Plus(2)}]}

MCRequests ==
  Short \cup Long \cup Debts \cup Custody
    \cup {Request("otherProfile", <<Leaf("a", "A" :> Plus(1))>>)}

\* Those that ask for nothing below zero: none of their balances is clamped.
Unclamped ==
  {q \in MCRequests : \A i \in DOMAIN q.leaves : \A n \in DOMAIN q.leaves[i].amounts :
                        ~q.leaves[i].amounts[n].neg}
=============================================================================
