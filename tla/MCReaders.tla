----------------------------- MODULE MCReaders ------------------------------
EXTENDS Readers

\* In bytewise order.
FileNamesInOrder ==
  <<"../a-path", "anchor.json", "extra.json", "pack.json", "proof-ann.json", "proof-bob.json",
    "proof.json", "report.json">>

Features ==
  {"anchor-v1", "assurance-v1", "provenance-v1", "coverage-v1", "group-v1", "leaf-v2",
   "manifest", "pack-v1", "proof-v1", "proof-v2", "report-v1", "report-v2"}

AllTopics ==
  {"corpus", "delivery", "inclusion", "group", "coverage", "assurance", "history", "disclosure"}

Issues ==
  [t \in AllTopics |-> CASE t \in {"group", "history", "assurance"} -> 3
                         [] t \in {"corpus", "delivery"} -> 0
                         [] OTHER -> 2]
Accepts ==
  [t \in AllTopics |-> CASE t = "coverage" -> 3
                         [] t \in {"group", "history", "assurance"} -> 1
                         [] OTHER -> 2]

SnapshotsOfDays ==
  <<<<2026, 1, 1, 23, 59, 30, "Z">>, <<2026, 1, 2, 0, 0, 0, "Z">>,
    <<2026, 1, 2, 0, 5, 0, ".2Z">>, <<2026, 1, 2, 0, 5, 1, "Z">>,
    <<2026, 1, 2, 0, 5, 0, "Z">>>>
\* Those of a history: before midnight, and a fraction and a whole of one second.
DaysPublished ==
  [t \in Publishing |-> CASE t = "coverage" -> 1..4
                         [] t = "history" -> {1, 3, 5}
                         [] OTHER -> 1..2]
AmountsPublished ==
  [t \in Publishing |-> CASE t = "inclusion" -> {<<1, 2>>, <<1, 2, 3>>, <<3>>}
                         [] t = "group" -> {<<1, 2>>, <<3, 3, 1>>}
                         [] t = "coverage" -> {<<2, 2>>, <<3>>}
                         [] OTHER -> {<<1, 2>>}]

Row(user, amount) == [user |-> user, asset |-> "USDA", amount |-> amount]
BalanceFiles ==
  {<<Row("ann", 1), Row("bob", 2)>>, <<Row("bob", 3)>>,
   <<Row("ann", 1), Row("ann", 2)>>, <<Row("ann", 1000000), Row("bob", 1)>>}

Noon == <<2026, 1, 1, 12, 0, 0, "Z">>
Evening == <<2026, 1, 1, 18, 0, 0, "Z">>
SnapshotTimes == {Noon, Evening}
Salted ==
  [t \in {Noon, Evening} |-> [users \in SUBSET {"ann", "bob"} |->
     SelectSeq(IF t = Noon THEN <<"ann", "bob">> ELSE <<"bob", "ann">>, LAMBDA u : u \in users)]]
=============================================================================
