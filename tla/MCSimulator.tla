----------------------------- MODULE MCSimulator ----------------------------
EXTENDS Simulator

Alice == "alice"
Bob == "bob"

OwnerOf == [a |-> Alice, b |-> Bob, new |-> Alice]
SeenBy == [a |-> {Alice, Bob}, b |-> {Bob}, new |-> {Alice, Bob}]

Step(op, cid, consuming) == [op |-> op, cid |-> cid, consuming |-> consuming, ids |-> <<>>]
End == <<Step("End", "a", FALSE)>>
Consume(cid, body) == <<Step("Exercise", cid, TRUE)>> \o body \o End
Use(cid, body) == <<Step("Exercise", cid, FALSE)>> \o body \o End
Fetch(cid) == <<Step("Fetch", cid, FALSE)>>
Create(cid) == <<Step("Create", cid, FALSE)>>
RolledBack(body) == <<Step("Rollback", "a", FALSE)>> \o body \o End
Assertion(ids) == <<[Step("Fail", "a", FALSE) EXCEPT !.ids = ids]>>

Bodies ==
  {Consume("a", Create("new") \o Fetch("b")),
   Consume("a", Create("new") \o Consume("new", <<>>)),
   Use("a", RolledBack(Consume("a", Create("new"))) \o Fetch("b")),
   Use("a", Consume("a", Fetch("a"))),
   Use("b", Create("new")),
   Fetch("b"),
   Use("a", Assertion(<<"a", "b", "new">>))}

Output(amount, to_self, lock_holders) ==
  [amount |-> amount, to_self |-> to_self, lock_holders |-> lock_holders]
Transfers ==
  {[choice |-> "", outputs |-> <<>>],
   [choice |-> "AmuletRules_Transfer",
    outputs |-> <<Output(1, FALSE, 1), Output(2, FALSE, 0), Output(6, TRUE, 2)>>],
   [choice |-> "TransferFactory_Transfer", outputs |-> <<Output(5, FALSE, 0)>>]}

\* One command to a request, as prepare accepts.
SimulationRequests ==
  {[act_as |-> act_as, read_as |-> read_as, commands |-> body, transfer |-> transfer,
    lookup_contracts |-> lookup] :
     act_as \in {{Alice}, {Bob}}, read_as \in {{}, {Bob}}, body \in Bodies,
     transfer \in Transfers, lookup \in BOOLEAN}

Fees ==
  [create_fee |-> 3, lock_holder_fee |-> 2, initial_rate |-> 9,
   steps |-> <<[threshold |-> 2, rate |-> 4], [threshold |-> 6, rate |-> 1]>>]
=============================================================================
