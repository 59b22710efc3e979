-------------------------- MODULE AnchorHistories ---------------------------
(***************************************************************************)
(* What the console promises a reader of its database about an             *)
(* organisation's publications: each one stored either starts a history or *)
(* is the one and only continuation of an earlier one, moving its snapshot *)
(* time forward and its ledger offset not backwards.  Nothing is ever      *)
(* changed or taken out.                                                   *)
(*                                                                         *)
(* That there is one history and not several is not promised: the console  *)
(* stores a second first publication if two are made at once.              *)
(***************************************************************************)
EXTENDS Naturals, Sequences

CONSTANT Cuts  \* pairs of a snapshot time and a ledger offset, as numbers

VARIABLE log

Init == log = <<>>

\* A publication that names no predecessor.
Start(cut) ==
  log' = Append(log, [snap |-> cut.snap, offset |-> cut.offset, prev |-> 0])

\* A publication that continues one nobody has continued.
Continue(cut, prev) ==
  /\ prev \in DOMAIN log
  /\ \A i \in DOMAIN log : log[i].prev # prev
  /\ cut.snap > log[prev].snap
  /\ cut.offset >= log[prev].offset
  /\ log' = Append(log, [snap |-> cut.snap, offset |-> cut.offset, prev |-> prev])

Next ==
  \E cut \in Cuts : Start(cut) \/ \E prev \in DOMAIN log : Continue(cut, prev)

Spec == Init /\ [][Next]_log
=============================================================================
