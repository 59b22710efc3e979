---------------------------- MODULE AnchorChain -----------------------------
(***************************************************************************)
(* The anchor chain of a publisher's reports                               *)
(* (rust/solvency-report/src/anchor.rs, and verifyAnchorChain in           *)
(* ts/verifier/src/coverage.ts, which applies the same rules in the same   *)
(* order): a pure walk over a history, oldest anchor first.                *)
(*                                                                         *)
(* An anchor is a record with the fields the rules look at:                *)
(*   digest          its anchor digest, a collision-free name for it       *)
(*   prev            the digest it names as its predecessor, or NoAnchor   *)
(*   publisher       the Canton party it is published as                   *)
(*   snapshot_time   a string: Before is the order of strings on it        *)
(*   ledger_offset   a number                                              *)
(* Every anchor the modelled system makes has the supported version.       *)
(***************************************************************************)
EXTENDS Integers

CONSTANTS NoAnchor, Before(_, _)

Ok == [ok |-> TRUE]
Failed(kind, index) == [ok |-> FALSE, kind |-> kind, index |-> index]

\* The rules a later anchor is held to against the one before it.
Names(a, previous) == a.prev = previous.digest
SamePublisher(a, previous) == a.publisher = previous.publisher
\* Mutant of Advances: one instant may be restated.
AdvancesOrRestates(a, previous) ==
  ~Before(a.snapshot_time, previous.snapshot_time) /\ a.ledger_offset >= previous.ledger_offset
Advances(a, previous) ==
  Before(previous.snapshot_time, a.snapshot_time) /\ a.ledger_offset >= previous.ledger_offset

\* The first rule the anchor at this position of the history breaks, if any.
AnchorVerdict(history, index) ==
  LET a == history[index]
      previous == history[index - 1]
  IN
  IF index = 1 THEN IF a.prev = NoAnchor THEN Ok ELSE Failed("NotGenesis", index)
  ELSE IF ~Names(a, previous) THEN Failed("Broken", index)
  ELSE IF ~SamePublisher(a, previous) THEN Failed("PublisherChanged", index)
  ELSE IF ~Advances(a, previous) THEN Failed("WentBackwards", index)
  ELSE Ok

\* verify_chain: the verdict on the first anchor that breaks a rule.
verify_chain(history) ==
  LET bad == {i \in DOMAIN history : ~AnchorVerdict(history, i).ok} IN
  IF bad = {}
  THEN Ok
  ELSE AnchorVerdict(history, CHOOSE i \in bad : \A j \in bad : i <= j)
=============================================================================
