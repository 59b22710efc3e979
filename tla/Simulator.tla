------------------------------ MODULE Simulator -----------------------------
(***************************************************************************)
(* canton-sim (rust/sim-core, sim-diagnose, sim-fee): a request is         *)
(* interpreted by a participant without being submitted, and a report says *)
(* what it would do, or why it would fail and what it would cost.          *)
(*                                                                         *)
(* The participant is external: contracts are absent, active or archived,  *)
(* others create and archive them at any moment, also between the calls of *)
(* one simulation, and interpretation is of the ledger as it is then.      *)
(***************************************************************************)
EXTENDS Integers, Sequences, SequencesExt, FiniteSets, FiniteSetsExt

CONSTANTS
  Owner,         \* for each contract, its signatory, who controls its choices
  Stakeholders,  \* for each contract, the parties that see it
  New,           \* the contracts requests create; others make the rest
  Requests,      \* [act_as, read_as, commands, transfer, lookup_contracts]
  max_contract_lookups,
  Schedule,      \* [create_fee, lock_holder_fee, initial_rate, steps]
  Price          \* USD of a Canton Coin

VARIABLES
  ledger,     \* the participant's contracts
  sim,        \* the simulation: request, where it is, ids left to look up, report
  since,      \* history: what each contract was when the request was interpreted
  submission  \* the submission made after the report, if any

vars == <<ledger, sim, since, submission>>

Contracts == DOMAIN Owner

\* The id of a contract is the hash of the transaction that creates it and the
\* place in it, so that no other step creates the same.
RequestAssumption ==
  /\ New \subseteq Contracts
  /\ \A r \in Requests :
       LET Creates == {i \in DOMAIN r.commands : r.commands[i].op = "Create"} IN
       /\ r.commands \in Seq(Range(r.commands))
       /\ \A step \in Range(r.commands) :
            /\ step.op \in {"Create", "Fetch", "Exercise", "Rollback", "End", "Fail"}
            /\ step.cid \in Contracts /\ step.ids \in Seq(Contracts)
       /\ \A i \in Creates : r.commands[i].cid \in New
       /\ \A i, j \in Creates : r.commands[i].cid = r.commands[j].cid => i = j
       /\ r.transfer.outputs \in Seq([amount : Nat, to_self : BOOLEAN, lock_holders : Nat])
ASSUME RequestAssumption

\* A schedule as the network publishes it: steps in the order of their thresholds.
ScheduleAssumption ==
  LET steps == Schedule.steps IN
  /\ {Price, Schedule.create_fee, Schedule.lock_holder_fee, Schedule.initial_rate} \subseteq Nat
  /\ steps \in Seq([threshold : Nat, rate : Nat])
  /\ \A i, j \in DOMAIN steps : i < j => steps[i].threshold < steps[j].threshold
ASSUME ScheduleAssumption

LookupAssumption == max_contract_lookups \in Nat
ASSUME LookupAssumption

-----------------------------------------------------------------------------
(* The participant.  A command is the steps its interpretation takes, in   *)
(* order: contracts are created, fetched and exercised, an assertion that  *)
(* names contracts fails, and what is tried is rolled back.  What an       *)
(* exercise or a rollback brings about stands before its "End".            *)

Fail(s, code, contract_ids) == [s EXCEPT !.error = <<[code |-> code, ids |-> contract_ids]>>]

\* A node of the transaction under the one that is open, with who authorises
\* what is under it and the contracts to go back to.
Add(s, step, by) ==
  [s EXCEPT !.nodes = Append(@, [kind |-> step.op, cid |-> step.cid,
                                 consuming |-> step.op = "Exercise" /\ step.consuming,
                                 parent |-> s.at, by |-> by, kept |-> s.now])]

Open(s) == [s EXCEPT !.at = Len(s.nodes)]

Close(s) ==
  IF s.at = 0 THEN s
  ELSE LET node == s.nodes[s.at]
       IN  [s EXCEPT !.at = node.parent, !.now = IF node.kind = "Rollback" THEN node.kept ELSE @]

\* s is the ledger before the transaction and now, the nodes so far, the open
\* one of them, and the error that ended it.
Perform(s, step, request) ==
  LET c == step.cid
      by == IF s.at = 0 THEN request.act_as ELSE s.nodes[s.at].by
      visible == Stakeholders[c] \cap (request.act_as \cup request.read_as) # {}
                 \/ s.before[c] = "absent"
  IN
  CASE s.error # <<>> -> s
    [] s.error = <<>> /\ step.op = "Fail" -> Fail(s, "UNHANDLED_EXCEPTION", step.ids)
    [] s.error = <<>> /\ step.op = "Rollback" -> Open(Add(s, step, by))
    [] s.error = <<>> /\ step.op = "End" -> Close(s)
    [] s.error = <<>> /\ step.op = "Create" ->
         IF Owner[c] \in by THEN [Add(s, step, by) EXCEPT !.now[c] = "active"]
         ELSE Fail(s, "DAML_AUTHORIZATION_ERROR", <<>>)
    [] s.error = <<>> /\ step.op \in {"Fetch", "Exercise"} ->
         IF s.now[c] = "archived" /\ s.before[c] # "archived"
         THEN Fail(s, "CONTRACT_NOT_ACTIVE", <<c>>)
         ELSE IF s.now[c] # "active" \/ ~visible THEN Fail(s, "CONTRACT_NOT_FOUND", <<c>>)
         ELSE IF step.op = "Fetch" THEN Add(s, step, by)
         ELSE IF Owner[c] \notin by THEN Fail(s, "DAML_AUTHORIZATION_ERROR", <<>>)
         ELSE [Open(Add(s, step, {Owner[c]}))
                 EXCEPT !.now[c] = IF step.consuming THEN "archived" ELSE @]

Outcome(request, contracts) ==
  LET steps == request.commands
      after[k \in 0..Len(steps)] ==
        IF k = 0 THEN [before |-> contracts, now |-> contracts, error |-> <<>>, at |-> 0,
                       nodes |-> <<>>]
        ELSE Perform(after[k - 1], steps[k], request)
  IN  after[Len(steps)]

\* A prepared transaction: its nodes by id, the roots, and the contracts it
\* takes from the ledger.  The parties of a node are the contract's; siblings
\* come in some order, which no effect tells apart.
Prepared(nodes) ==
  LET Under(p) == SetToSeq({i \in DOMAIN nodes : nodes[i].parent = p})
      Cids(kinds) == {n.cid : n \in {m \in Range(nodes) : m.kind \in kinds}}
  IN  [roots |-> Under(0),
       nodes |-> [i \in DOMAIN nodes |->
                    [node_id |-> i, kind |-> nodes[i].kind, cid |-> nodes[i].cid,
                     consuming |-> nodes[i].consuming, children |-> Under(i)]],
       inputs |-> Cids({"Exercise", "Fetch"}) \ Cids({"Create"})]

-----------------------------------------------------------------------------
(* Reading a prepared transaction (prepared.rs).                           *)

\* The stack holds the ids still to be walked; a node is listed at its first
\* visit, before its children.  Every turn takes an id off.
walk(stack, nodes) ==
  LET turns == Len(stack) + SumFunction([i \in DOMAIN nodes |-> Len(nodes[i].children)])
      Turn(w) ==
        IF w.stack = <<>> THEN w
        ELSE LET Here == {n \in Range(nodes) : n.node_id = Head(w.stack)} \ Range(w.listed)
                 node == CHOOSE n \in Here : TRUE
             IN  IF Here = {} THEN [w EXCEPT !.stack = Tail(@)]
                 ELSE [stack |-> node.children \o Tail(w.stack), listed |-> Append(w.listed, node)]
      after[k \in 0..turns] ==
        IF k = 0 THEN [stack |-> stack, listed |-> <<>>] ELSE Turn(after[k - 1])
  IN  after[turns].listed

\* The roots, then whatever they did not reach.
Listed(tx) == walk(tx.roots \o [i \in DOMAIN tx.nodes |-> tx.nodes[i].node_id], tx.nodes)

\* A count goes up at every node listed.
Effects(tx, listed) ==
  LET Kind(k) == {i \in DOMAIN listed : listed[i].kind = k}
      Consuming == {i \in Kind("Exercise") : listed[i].consuming}
      Cids(at) == {listed[i].cid : i \in at}
  IN  [created |-> Cids(Kind("Create")),
       counts |-> [creates |-> Cardinality(Kind("Create")), archives |-> Cardinality(Consuming),
                   rollbacks |-> Cardinality(Kind("Rollback"))],
       informees |-> UNION {Stakeholders[listed[i].cid] : i \in DOMAIN listed \ Kind("Rollback")},
       input_contracts |-> [c \in tx.inputs |-> c \in Cids(Consuming)],
       consumed |-> Cids(Consuming)]

\* Mutant of effects_of: the children of exercises are not walked.
effects_of_roots(tx) ==
  Effects(tx, walk(tx.roots, [i \in DOMAIN tx.nodes |-> [tx.nodes[i] EXCEPT !.children = <<>>]]))

effects_of(tx) == Effects(tx, Listed(tx))

-----------------------------------------------------------------------------
(* Fees (sim-fee).  Amounts are in a smallest unit; nothing is rounded.    *)

\* What is over lower(i), up to the threshold of step i, pays rate(i).
lower(i) == IF i = 1 THEN 0 ELSE Schedule.steps[i - 1].threshold
rate(i) == IF i = 1 THEN Schedule.initial_rate ELSE Schedule.steps[i - 1].rate

\* The steps the loop goes through before it meets a threshold not exceeded.
Passed(amount) ==
  {i \in DOMAIN Schedule.steps : \A j \in 1..i : Schedule.steps[j].threshold < amount}

\* Mutant of transfer_fee_usd: a step does not start where the last one ended.
transfer_fee_usd_from_zero(amount) == amount * rate(Cardinality(Passed(amount)) + 1)

transfer_fee_usd(amount) ==
  LET last == Cardinality(Passed(amount)) + 1
      charged == [i \in Passed(amount) |-> (lower(i + 1) - lower(i)) * rate(i)]
  IN  IF amount <= 0 THEN 0 ELSE SumFunction(charged) + (amount - lower(last)) * rate(last)

\* One create fee for each output, a fee for each lock holder, and the transfer
\* fee of what goes to others.
quote_amulet_transfer(outputs) ==
  LET lock_fee == SumFunction([i \in DOMAIN outputs |->
                                 Schedule.lock_holder_fee * outputs[i].lock_holders])
      transfer_fee == SumFunction([i \in DOMAIN outputs |->
                                     IF outputs[i].to_self THEN 0
                                     ELSE transfer_fee_usd(outputs[i].amount * Price)])
  IN  [outputs |-> Len(outputs), transfer_fee |-> transfer_fee,
       total_usd |-> transfer_fee + lock_fee + Schedule.create_fee * Len(outputs)]

\* A transfer through the token standard leaves its change out, which is added.
Change == [amount |-> 0, to_self |-> TRUE, lock_holders |-> 0]
amulet_fee_for(request) ==
  LET t == request.transfer
      outputs == IF t.choice = "TransferFactory_Transfer" THEN Append(t.outputs, Change)
                 ELSE t.outputs
  IN  IF outputs = <<>> THEN <<>> ELSE <<quote_amulet_transfer(outputs)>>

-----------------------------------------------------------------------------
(* Diagnosis (sim-diagnose).                                               *)

\* The phases of the codes this participant answers with.
phase_for(code) ==
  CASE code = "DAML_AUTHORIZATION_ERROR" -> "Authorization"
    [] code \in {"CONTRACT_NOT_FOUND", "CONTRACT_NOT_ACTIVE", "UNHANDLED_EXCEPTION"} ->
         "Interpretation"
    [] code = "PARTICIPANT_BACKPRESSURE" -> "Participant"
    [] OTHER -> "Unknown"

\* Categories 1 to 3 are transient; without one it depends on the code.  An
\* answer the participant calls definite is not asked for again.
retryable(error) ==
  /\ IF error.category # 0 THEN error.category \in 1..3
     ELSE error.code = "PARTICIPANT_BACKPRESSURE"
  /\ ~error.definite_answer

diagnose(error) ==
  [code |-> error.code, phase |-> phase_for(error.code), retryable |-> retryable(error),
   contract_ids |-> error.ids,
   hints |-> IF phase_for(error.code) \in {"Interpretation", "Authorization"}
             THEN <<"nothing was sent">> ELSE <<>>]

category(code) ==
  CASE code = "CONTRACT_NOT_FOUND" -> 11
    [] code = "PARTICIPANT_BACKPRESSURE" -> 2
    [] OTHER -> 9

-----------------------------------------------------------------------------
(* Simulating (simulate.rs).                                               *)

NoRequest == [act_as |-> {}]
NoReport ==
  [outcome |-> "Inconclusive", effects |-> <<>>, amulet_fee |-> <<>>, diagnosis |-> <<>>,
   contract_states |-> <<>>]
NoSubmission == [outcome |-> "none"]

Init ==
  /\ ledger \in [Contracts -> {"absent", "active", "archived"}]
  /\ \A c \in New : ledger[c] = "absent"
  /\ sim = [request |-> NoRequest, at |-> "idle", left |-> <<>>, report |-> NoReport]
  /\ since = ledger
  /\ submission = NoSubmission

\* The request goes out; the answer is of the ledger as it is now.
Asked(request) ==
  /\ sim.at = "idle"
  /\ since' = ledger
  /\ UNCHANGED <<ledger, submission>>

Report(request, report) ==
  sim' = [request |-> request, at |-> "reported", left |-> <<>>, report |-> report]

\* A transport error, or an answer without the prepared transaction.
Unreachable(request) == Asked(request) /\ Report(request, NoReport)

\* The answer holds a prepared transaction, which may not decode: the outcome
\* is then the same, without effects.
on_prepared(request) ==
  /\ Asked(request)
  /\ Outcome(request, ledger).error = <<>>
  /\ \E effects \in {<<effects_of(Prepared(Outcome(request, ledger).nodes))>>, <<>>} :
       Report(request, [NoReport EXCEPT !.outcome = "WouldSucceed", !.effects = effects,
                                        !.amulet_fee = amulet_fee_for(request)])

\* A rejection is diagnosed; the contracts it names are looked up if that was
\* asked for and can explain it.
Rejected(request, error) ==
  LET ids == error.ids
      diagnosis == diagnose(error)
      looked == request.lookup_contracts /\ diagnosis.phase \in {"Interpretation", "Confirmation"}
      cids == SubSeq(ids, 1, Min({Len(ids), max_contract_lookups}))
  IN  sim' = [request |-> request,
              at |-> IF looked /\ cids # <<>> THEN "lookup" ELSE "reported",
              left |-> IF looked THEN cids ELSE <<>>,
              report |-> [NoReport EXCEPT !.outcome = "WouldFail", !.diagnosis = <<diagnosis>>,
                                          !.amulet_fee = amulet_fee_for(request)]]

on_rejected(request) ==
  /\ Asked(request)
  /\ \E error \in Range(Outcome(request, ledger).error)
                 \cup {[code |-> "PARTICIPANT_BACKPRESSURE", ids |-> <<>>]},
        definite \in BOOLEAN :
       Rejected(request, [code |-> error.code, ids |-> error.ids,
                          category |-> category(error.code), definite_answer |-> definite])

\* The events of a contract that the parties of the request see.
contract_events(c, request) ==
  IF Stakeholders[c] \cap (request.act_as \cup request.read_as) = {} THEN {}
  ELSE CASE ledger[c] = "absent" -> {}
         [] ledger[c] = "active" -> {"created"}
         [] ledger[c] = "archived" -> {"created", "archived"}

\* Mutant of State: the created event decides.
State_created(events) ==
  IF "created" \in events THEN "Active"
  ELSE IF "archived" \in events THEN "Archived" ELSE "Unknown"

State(events) ==
  IF "archived" \in events THEN "Archived"
  ELSE IF "created" \in events THEN "Active" ELSE "Unknown"

Hinted(diagnosis, hint) == [diagnosis EXCEPT !.hints = <<hint>> \o @]

\* One contract at a time; a lookup that fails is reported as such.  The hint
\* of the last one comes first.
lookup_contract ==
  /\ sim.at = "lookup"
  /\ LET c == Head(sim.left) IN
     \E state \in {State(contract_events(c, sim.request)), "LookupFailed"} :
       sim' = [request |-> sim.request, left |-> Tail(sim.left),
               at |-> IF Tail(sim.left) = <<>> THEN "reported" ELSE "lookup",
               report |-> [sim.report EXCEPT
                             !.contract_states = Append(@, [cid |-> c, state |-> state]),
                             !.diagnosis = <<Hinted(@[1], <<state, c>>)>>]]
  /\ UNCHANGED <<ledger, since, submission>>

-----------------------------------------------------------------------------
(* The rest of the world.                                                  *)

OthersCreate(c) ==
  /\ c \notin New /\ ledger[c] = "absent"
  /\ ledger' = [ledger EXCEPT ![c] = "active"]
  /\ UNCHANGED <<sim, since, submission>>

OthersArchive(c) ==
  /\ ledger[c] = "active"
  /\ ledger' = [ledger EXCEPT ![c] = "archived"]
  /\ UNCHANGED <<sim, since, submission>>

\* Whoever read the report submits the request.
Submit ==
  /\ sim.at = "reported" /\ submission = NoSubmission
  /\ LET outcome == Outcome(sim.request, ledger)
         kept == IF outcome.error = <<>> THEN outcome.now ELSE ledger
     IN
     /\ submission' = [outcome |-> IF outcome.error = <<>> THEN "committed" ELSE "rejected",
                       before |-> ledger, after |-> kept]
     /\ ledger' = kept
  /\ UNCHANGED <<sim, since>>

Next ==
  \/ \E r \in Requests : Unreachable(r) \/ on_prepared(r) \/ on_rejected(r)
  \/ lookup_contract
  \/ \E c \in Contracts : OthersCreate(c) \/ OthersArchive(c)
  \/ Submit

Spec == Init /\ [][Next]_vars

-----------------------------------------------------------------------------
report == sim.report

\* "What would be committed" (model.rs): if the contracts reported as inputs
\* are still there, the submission commits, and creates and archives what was
\* reported, with everybody who sees it named.  A transaction with rollback
\* nodes is left out: what happened under them is counted too.
EffectsCommitted ==
  \A e \in Range(report.effects) :
    submission # NoSubmission
    /\ (\A c \in DOMAIN e.input_contracts : submission.before[c] = since[c]) =>
      LET Became(state) == {c \in Contracts : submission.before[c] # state
                                              /\ submission.after[c] = state}
          Made == {c \in Contracts : submission.before[c] = "absent"
                                     /\ submission.after[c] # "absent"}
      IN
      /\ submission.outcome = "committed"
      /\ e.counts.rollbacks = 0 =>
           /\ e.created = Made
           /\ e.consumed = Became("archived")
           /\ e.counts.archives = Cardinality(Became("archived"))
           /\ \A c \in Made \cup Became("archived") : Stakeholders[c] \subseteq e.informees

\* What is said of a contract is so, whatever moved between the calls: archived
\* is final; a contract both not found and active, or never seen and there,
\* came in between (simulate.rs lookup_contract, after the rejection).
StatesHold ==
  \A s \in Range(report.contract_states) :
    LET c == s.cid
        visible == Stakeholders[c] \cap (sim.request.act_as \cup sim.request.read_as) # {}
    IN
    /\ s.state = "Archived" => ledger[c] = "archived"
    /\ s.state = "Active" =>
         /\ visible /\ ledger[c] # "absent"
         /\ report.diagnosis[1].code = "CONTRACT_NOT_FOUND" => since[c] = "absent"
    /\ s.state = "Unknown" /\ visible => since[c] = "absent"

\* The fee quoted for a transfer is the marginal rate of each unit sent to
\* others added up, and the fees of every output, change included (sim-fee).
RateAt(u) ==
  LET passed == {i \in DOMAIN Schedule.steps : Schedule.steps[i].threshold < u}
  IN  IF passed = {} THEN Schedule.initial_rate ELSE Schedule.steps[Max(passed)].rate

Marginal(output) ==
  IF output.to_self THEN 0 ELSE SumFunction([u \in 1..(output.amount * Price) |-> RateAt(u)])

FeeAsScheduled ==
  \A q \in Range(report.amulet_fee) :
    LET t == sim.request.transfer
        n == Len(t.outputs) + (IF t.choice = "TransferFactory_Transfer" THEN 1 ELSE 0)
        holders == SumFunction([i \in DOMAIN t.outputs |-> t.outputs[i].lock_holders])
    IN
    /\ q.outputs = n
    /\ q.transfer_fee = SumFunction([i \in DOMAIN t.outputs |-> Marginal(t.outputs[i])])
    /\ q.total_usd = q.transfer_fee + n * Schedule.create_fee + holders * Schedule.lock_holder_fee
=============================================================================
