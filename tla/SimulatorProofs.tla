--------------------------- MODULE SimulatorProofs --------------------------
(***************************************************************************)
(* What a simulation reports, for any contracts, requests, schedules and   *)
(* whatever others do meanwhile.  An interpretation is followed step by    *)
(* step: from a ledger that holds the same input contracts it takes the    *)
(* same course (SameCourse), and what its nodes say is what it did to the  *)
(* contracts (NodesSay); the walk over them lists each once (EachListed).  *)
(***************************************************************************)
EXTENDS Simulator, Basics

States == {"absent", "active", "archived"}
Ledgers == [Contracts -> States]

\* A contract, once there, goes one way.
Later(a, b) ==
  \A c \in Contracts : /\ a[c] = "archived" => b[c] = "archived"
                       /\ a[c] = "active" => b[c] # "absent"

LEMMA LaterSame == ASSUME NEW a PROVE Later(a, a)
BY DEF Later

LEMMA LaterOn ==
  ASSUME NEW a, NEW b \in Ledgers, NEW c \in Ledgers, Later(a, b), Later(b, c)
  PROVE  Later(a, c)
BY DEF Later, Ledgers, States

\* Not to be found by those who ask.
Hidden(c, request) == Stakeholders[c] \cap (request.act_as \cup request.read_as) = {}
Missing(c, contracts, request) == contracts[c] # "active" \/ Hidden(c, request)

-----------------------------------------------------------------------------
\* An interpretation, step by step.

Then(before, now, error, at, nodes) ==
  [before |-> before, now |-> now, error |-> error, at |-> at, nodes |-> nodes]

IsState(s) == s = Then(s.before, s.now, s.error, s.at, s.nodes)

Start(contracts) == Then(contracts, contracts, <<>>, 0, <<>>)

IsRun(request, contracts, after) ==
  /\ after[0] = Start(contracts)
  /\ \A k \in 1 .. Len(request.commands) :
       after[k] = Perform(after[k - 1], request.commands[k], request)
  /\ Outcome(request, contracts) = after[Len(request.commands)]

LEMMA RunIs ==
  ASSUME NEW request, NEW contracts, Len(request.commands) \in Nat
  PROVE  \E after : IsRun(request, contracts, after)
<1> DEFINE Step(k, s) == Perform(s, request.commands[k], request)
           Follows(n, f) == f = [k \in 0 .. n |-> IF k = 0 THEN Start(contracts)
                                                  ELSE Step(k, f[k - 1])]
           Given == {n \in Nat : \E f : Follows(n, f)}
<1> HIDE DEF Step
<1>1. 0 \in Given
  <2>1. Follows(0, [k \in 0 .. 0 |-> Start(contracts)])
    OBVIOUS
  <2> QED
    BY <2>1
<1>2. ASSUME NEW n \in Nat, n \in Given
      PROVE  n + 1 \in Given
  <2>1. PICK f : Follows(n, f)
    BY <1>2
  <2> DEFINE g == [k \in 0 .. (n + 1) |-> IF k <= n THEN f[k] ELSE Step(n + 1, f[n])]
  <2>2. g = [k \in 0 .. (n + 1) |-> g[k]]
    OBVIOUS
  <2>3. \A k \in 0 .. (n + 1) : g[k] = IF k = 0 THEN Start(contracts) ELSE Step(k, g[k - 1])
    BY <2>1
  <2>4. Follows(n + 1, g)
    <3> HIDE DEF g
    <3> QED
      BY <2>2, <2>3
  <2> HIDE DEF g, Follows
  <2> QED
    BY <2>4
<1>3. Len(request.commands) \in Given
  <2> HIDE DEF Given
  <2> QED
    BY <1>1, <1>2, AllNaturals
<1> DEFINE after == CHOOSE f : Follows(Len(request.commands), f)
<1>4. Follows(Len(request.commands), after)
  <2>1. \E f : Follows(Len(request.commands), f)
    BY <1>3
  <2> HIDE DEF Follows
  <2> QED
    BY <2>1
<1>5. Outcome(request, contracts) = after[Len(request.commands)]
  BY DEF Outcome, Step, Start, Then
<1> HIDE DEF after
<1>6. after[0] = Start(contracts)
      /\ \A k \in 1 .. Len(request.commands) : after[k] = Step(k, after[k - 1])
  <2> DEFINE n == Len(request.commands)
  <2>1. \A k \in 0 .. n : after[k] = IF k = 0 THEN Start(contracts) ELSE Step(k, after[k - 1])
    BY <1>4
  <2>2. n \in Nat
    OBVIOUS
  <2> HIDE DEF n
  <2>3. 0 \in 0 .. n /\ \A k \in 1 .. n : k \in 0 .. n /\ k # 0
    BY <2>2
  <2>4. after[0] = Start(contracts) /\ \A k \in 1 .. n : after[k] = Step(k, after[k - 1])
    BY <2>1, <2>3
  <2> QED
    BY <2>4 DEF n
<1> QED
  BY <1>5, <1>6 DEF Step, IsRun

Kinds == {"Create", "Fetch", "Exercise", "Rollback"}
Ops == Kinds \cup {"End", "Fail"}

By(s, request) == IF s.at = 0 THEN request.act_as ELSE s.nodes[s.at].by
Usable(s, c, request) ==
  s.now[c] = "active" /\ (~Hidden(c, request) \/ s.before[c] = "absent")

Node(s, step, by) ==
  [kind |-> step.op, cid |-> step.cid, consuming |-> step.op = "Exercise" /\ step.consuming,
   parent |-> s.at, by |-> by, kept |-> s.now]

Fails(s, t, code, ids) ==
  t = Then(s.before, s.now, <<[code |-> code, ids |-> ids]>>, s.at, s.nodes)
Adds(s, t, step, by, now, at) ==
  t = Then(s.before, now, <<>>, at, Append(s.nodes, Node(s, step, by)))

LEMMA FailIs ==
  ASSUME NEW s, IsState(s), NEW code, NEW ids
  PROVE  Fails(s, Fail(s, code, ids), code, ids)
<1> DEFINE b == s.before  n == s.now  e == s.error  a == s.at  d == s.nodes
<1>1. s = Then(b, n, e, a, d)
  BY DEF IsState
<1> HIDE DEF b, n, e, a, d
<1>2. Fail(s, code, ids) = Then(b, n, <<[code |-> code, ids |-> ids]>>, a, d)
  BY <1>1 DEF Fail, Then
<1> QED
  BY <1>2 DEF Fails, b, n, a, d

LEMMA AddIs ==
  ASSUME NEW s, IsState(s), s.error = <<>>, NEW step, NEW by
  PROVE  Adds(s, Add(s, step, by), step, by, s.now, s.at)
<1> DEFINE b == s.before  n == s.now  e == s.error  a == s.at  d == s.nodes
<1>1. s = Then(b, n, e, a, d) /\ e = <<>>
  BY DEF IsState
<1>2. Add(s, step, by) = [s EXCEPT !.nodes = Append(@, Node(s, step, by))]
  BY DEF Add, Node
<1> HIDE DEF b, n, e, a, d
<1>3. Add(s, step, by) = Then(b, n, e, a, Append(d, Node(s, step, by)))
  BY <1>1, <1>2 DEF Then
<1> QED
  BY <1>1, <1>3 DEF Adds, b, n, a, d

LEMMA OpenIs ==
  ASSUME NEW b, NEW n, NEW e, NEW a, NEW d
  PROVE  /\ Open(Then(b, n, e, a, d)) = Then(b, n, e, Len(d), d)
         /\ IsState(Then(b, n, e, a, d))
BY DEF Open, Then, IsState

LEMMA CloseIs ==
  ASSUME NEW s, IsState(s)
  PROVE  /\ s.at = 0 => Close(s) = s
         /\ s.at # 0 => Close(s) = Then(s.before,
                                        IF s.nodes[s.at].kind = "Rollback" THEN s.nodes[s.at].kept
                                        ELSE s.now,
                                        s.error, s.nodes[s.at].parent, s.nodes)
<1> DEFINE b == s.before  n == s.now  e == s.error  a == s.at  d == s.nodes
<1>1. s = Then(b, n, e, a, d)
  BY DEF IsState
<1> HIDE DEF b, n, e, a, d
<1>2. a # 0 => Close(s) = Then(b, IF d[a].kind = "Rollback" THEN d[a].kept ELSE n,
                               e, d[a].parent, d)
  BY <1>1 DEF Close, Then
<1>3. a = 0 => Close(s) = s
  BY <1>1 DEF Close, Then
<1> QED
  BY <1>2, <1>3 DEF b, n, e, a, d

Refuses(s, t, c) ==
  \/ Fails(s, t, "CONTRACT_NOT_ACTIVE", <<c>>)
  \/ /\ Fails(s, t, "CONTRACT_NOT_FOUND", <<c>>)
     /\ ~(s.now[c] = "archived" /\ s.before[c] # "archived")

LEMMA PerformIs ==
  ASSUME NEW s, IsState(s), s.error = <<>>, IsSeq(s.nodes), NEW request,
         NEW step, step.op \in Ops, NEW t, t = Perform(s, step, request),
         NEW c, c = step.cid, NEW by, by = By(s, request)
  PROVE  /\ step.op = "Fail" => Fails(s, t, "UNHANDLED_EXCEPTION", step.ids)
         /\ step.op = "Rollback" => Adds(s, t, step, by, s.now, Len(s.nodes) + 1)
         /\ step.op = "End" => t = Close(s)
         /\ step.op = "Create" =>
              \/ /\ Owner[c] \in by
                 /\ Adds(s, t, step, by, [s.now EXCEPT ![c] = "active"], s.at)
              \/ /\ Owner[c] \notin by
                 /\ Fails(s, t, "DAML_AUTHORIZATION_ERROR", <<>>)
         /\ step.op = "Fetch" =>
              \/ Usable(s, c, request) /\ Adds(s, t, step, by, s.now, s.at)
              \/ ~Usable(s, c, request) /\ Refuses(s, t, c)
         /\ step.op = "Exercise" =>
              \/ /\ Usable(s, c, request) /\ Owner[c] \in by
                 /\ Adds(s, t, step, {Owner[c]},
                         [s.now EXCEPT ![c] = IF step.consuming THEN "archived" ELSE @],
                         Len(s.nodes) + 1)
              \/ /\ Usable(s, c, request) /\ Owner[c] \notin by
                 /\ Fails(s, t, "DAML_AUTHORIZATION_ERROR", <<>>)
              \/ ~Usable(s, c, request) /\ Refuses(s, t, c)
<1> DEFINE visible == Stakeholders[c] \cap (request.act_as \cup request.read_as) # {}
                      \/ s.before[c] = "absent"
<1>1. visible = (~Hidden(c, request) \/ s.before[c] = "absent")
  BY DEF Hidden
<1>2. ASSUME NEW who, NEW now
      PROVE  /\ Adds(s, Open(Add(s, step, who)), step, who, s.now, Len(s.nodes) + 1)
             /\ [Add(s, step, who) EXCEPT !.now[c] = now] =
                  Then(s.before, [s.now EXCEPT ![c] = now], <<>>, s.at,
                       Append(s.nodes, Node(s, step, who)))
             /\ [Open(Add(s, step, who)) EXCEPT !.now[c] = now] =
                  Then(s.before, [s.now EXCEPT ![c] = now], <<>>, Len(s.nodes) + 1,
                       Append(s.nodes, Node(s, step, who)))
             /\ Open(Add(s, step, who)).now[c] = s.now[c]
  <2>1. Add(s, step, who) = Then(s.before, s.now, <<>>, s.at, Append(s.nodes, Node(s, step, who)))
    BY AddIs DEF Adds
  <2>2. Len(Append(s.nodes, Node(s, step, who))) = Len(s.nodes) + 1
    BY AppendIsSeq
  <2>3. Open(Add(s, step, who)) = Then(s.before, s.now, <<>>, Len(s.nodes) + 1,
                                       Append(s.nodes, Node(s, step, who)))
    <3> DEFINE d == Append(s.nodes, Node(s, step, who))
    <3>1. Add(s, step, who) = Then(s.before, s.now, <<>>, s.at, d) /\ Len(d) = Len(s.nodes) + 1
      BY <2>1, <2>2
    <3> HIDE DEF d
    <3>2. Open(Then(s.before, s.now, <<>>, s.at, d)) = Then(s.before, s.now, <<>>, Len(d), d)
      BY DEF Open, Then
    <3>3. Open(Add(s, step, who)) = Then(s.before, s.now, <<>>, Len(s.nodes) + 1, d)
      BY <3>1, <3>2
    <3> QED
      BY <3>3 DEF d
  <2> DEFINE d == Append(s.nodes, Node(s, step, who))
  <2> HIDE DEF d
  <2>4. [Then(s.before, s.now, <<>>, s.at, d) EXCEPT !.now[c] = now] =
          Then(s.before, [s.now EXCEPT ![c] = now], <<>>, s.at, d)
    BY DEF Then
  <2>5. [Then(s.before, s.now, <<>>, Len(s.nodes) + 1, d) EXCEPT !.now[c] = now] =
          Then(s.before, [s.now EXCEPT ![c] = now], <<>>, Len(s.nodes) + 1, d)
    BY DEF Then
  <2>6. Then(s.before, s.now, <<>>, Len(s.nodes) + 1, d).now = s.now
    BY DEF Then
  <2> QED
    BY <2>1, <2>3, <2>4, <2>5, <2>6 DEF Adds, d
<1>3. step.op = "Fail" => Fails(s, t, "UNHANDLED_EXCEPTION", step.ids)
  <2>1. step.op = "Fail" => t = Fail(s, "UNHANDLED_EXCEPTION", step.ids)
    BY DEF Perform
  <2> QED
    BY <2>1, FailIs
<1>4. step.op = "Rollback" => Adds(s, t, step, by, s.now, Len(s.nodes) + 1)
  <2>1. step.op = "Rollback" => t = Open(Add(s, step, by))
    BY DEF Perform, By
  <2> QED
    BY <1>2, <2>1
<1>5. step.op = "End" => t = Close(s)
  BY DEF Perform
<1>6. step.op = "Create" =>
        \/ /\ Owner[c] \in by
           /\ Adds(s, t, step, by, [s.now EXCEPT ![c] = "active"], s.at)
        \/ /\ Owner[c] \notin by
           /\ Fails(s, t, "DAML_AUTHORIZATION_ERROR", <<>>)
  <2>1. step.op = "Create" =>
          t = IF Owner[c] \in by THEN [Add(s, step, by) EXCEPT !.now[c] = "active"]
              ELSE Fail(s, "DAML_AUTHORIZATION_ERROR", <<>>)
    BY DEF Perform, By
  <2>2. Adds(s, [Add(s, step, by) EXCEPT !.now[c] = "active"], step, by,
             [s.now EXCEPT ![c] = "active"], s.at)
    BY <1>2 DEF Adds
  <2>3. Fails(s, Fail(s, "DAML_AUTHORIZATION_ERROR", <<>>), "DAML_AUTHORIZATION_ERROR", <<>>)
    BY FailIs
  <2> QED
    BY <2>1, <2>2, <2>3
<1>7. step.op \in {"Fetch", "Exercise"} =>
        t = IF s.now[c] = "archived" /\ s.before[c] # "archived"
            THEN Fail(s, "CONTRACT_NOT_ACTIVE", <<c>>)
            ELSE IF s.now[c] # "active" \/ ~visible THEN Fail(s, "CONTRACT_NOT_FOUND", <<c>>)
            ELSE IF step.op = "Fetch" THEN Add(s, step, by)
            ELSE IF Owner[c] \notin by THEN Fail(s, "DAML_AUTHORIZATION_ERROR", <<>>)
            ELSE [Open(Add(s, step, {Owner[c]}))
                    EXCEPT !.now[c] = IF step.consuming THEN "archived" ELSE @]
  BY DEF Perform, By
<1>8. ~Usable(s, c, request) /\ step.op \in {"Fetch", "Exercise"} => Refuses(s, t, c)
  <2> HIDE DEF visible
  <2>1. ~Usable(s, c, request) => s.now[c] # "active" \/ ~visible
    BY <1>1 DEF Usable
  <2> QED
    BY <1>7, <2>1, FailIs DEF Refuses
<1>9. Usable(s, c, request) => s.now[c] = "active" /\ s.now[c] # "archived" /\ visible
  BY <1>1 DEF Usable
<1>10. Usable(s, c, request) /\ step.op = "Fetch" => Adds(s, t, step, by, s.now, s.at)
  <2> HIDE DEF visible
  <2>1. Usable(s, c, request) /\ step.op = "Fetch" => t = Add(s, step, by)
    BY <1>7, <1>9
  <2> QED
    BY <2>1, AddIs
<1>11. Usable(s, c, request) /\ step.op = "Exercise" =>
         \/ /\ Owner[c] \in by
            /\ Adds(s, t, step, {Owner[c]},
                    [s.now EXCEPT ![c] = IF step.consuming THEN "archived" ELSE @],
                    Len(s.nodes) + 1)
         \/ /\ Owner[c] \notin by
            /\ Fails(s, t, "DAML_AUTHORIZATION_ERROR", <<>>)
  <2> HIDE DEF visible
  <2> SUFFICES ASSUME Usable(s, c, request), step.op = "Exercise"
               PROVE  \/ /\ Owner[c] \in by
                         /\ Adds(s, t, step, {Owner[c]},
                                 [s.now EXCEPT ![c] = IF step.consuming THEN "archived" ELSE @],
                                 Len(s.nodes) + 1)
                      \/ /\ Owner[c] \notin by
                         /\ Fails(s, t, "DAML_AUTHORIZATION_ERROR", <<>>)
    OBVIOUS
  <2>1. t = IF Owner[c] \notin by THEN Fail(s, "DAML_AUTHORIZATION_ERROR", <<>>)
            ELSE [Open(Add(s, step, {Owner[c]}))
                    EXCEPT !.now[c] = IF step.consuming THEN "archived" ELSE @]
    BY <1>7, <1>9
  <2>2. CASE Owner[c] \notin by
    BY <2>1, <2>2, FailIs
  <2>3. CASE Owner[c] \in by
    <3> DEFINE now == IF step.consuming THEN "archived" ELSE s.now[c]
    <3>1. t = [Open(Add(s, step, {Owner[c]})) EXCEPT !.now[c] = now]
      BY <1>2, <2>1, <2>3
    <3>2. [s.now EXCEPT ![c] = IF step.consuming THEN "archived" ELSE @] =
            [s.now EXCEPT ![c] = now]
      OBVIOUS
    <3> QED
      BY <1>2, <2>3, <3>1, <3>2 DEF Adds
  <2> QED
    BY <2>2, <2>3
<1> QED
  BY <1>3, <1>4, <1>5, <1>6, <1>8, <1>10, <1>11

LEMMA PerformAfter ==
  ASSUME NEW s, NEW step, NEW request, s.error # <<>>
  PROVE  Perform(s, step, request) = s
BY DEF Perform

-----------------------------------------------------------------------------
\* What holds all along an interpretation.

WellFormed(request) ==
  LET steps == request.commands IN
  /\ Len(steps) \in Nat
  /\ \A k \in 1 .. Len(steps) :
       /\ steps[k].op \in Ops /\ steps[k].cid \in Contracts /\ steps[k].ids \in Seq(Contracts)
       /\ steps[k].op = "Create" => steps[k].cid \in New
  /\ \A j, k \in 1 .. Len(steps) :
       steps[j].op = "Create" /\ steps[k].op = "Create" /\ steps[j].cid = steps[k].cid => j = k

LEMMA RequestIs ==
  ASSUME NEW request \in Requests
  PROVE  WellFormed(request)
<1> DEFINE steps == request.commands
<1>1. steps \in Seq(Range(steps))
  BY RequestAssumption DEF RequestAssumption
<1>2. Len(steps) \in Nat /\ DOMAIN steps = 1 .. Len(steps)
  BY <1>1, LenProperties
<1>3. \A k \in 1 .. Len(steps) : steps[k] \in Range(steps)
  BY <1>2 DEF Range
<1>4. \A k \in 1 .. Len(steps) :
        /\ steps[k].op \in Ops
        /\ steps[k].cid \in Contracts /\ steps[k].ids \in Seq(Contracts)
  BY <1>3, RequestAssumption DEF RequestAssumption, Ops, Kinds
<1>5. \A k \in 1 .. Len(steps) : steps[k].op = "Create" => steps[k].cid \in New
  BY <1>2, RequestAssumption DEF RequestAssumption
<1>6. \A j, k \in 1 .. Len(steps) :
        steps[j].op = "Create" /\ steps[k].op = "Create" /\ steps[j].cid = steps[k].cid => j = k
  BY <1>2, RequestAssumption DEF RequestAssumption
<1> QED
  BY <1>2, <1>4, <1>5, <1>6 DEF WellFormed

Fresh(contracts) == \A c \in New : contracts[c] = "absent"

NodeAccords(node, i, contracts) ==
  /\ node.kind \in Kinds /\ node.cid \in Contracts
  /\ node.kind = "Create" => node.cid \in New
  /\ node.parent \in 0 .. (i - 1)
  /\ node.kept \in Ledgers /\ Later(contracts, node.kept)

ErrorAccords(error, contracts, request) ==
  error # <<>> =>
    \E code, ids :
      /\ error = <<[code |-> code, ids |-> ids]>>
      /\ ids \in Seq(Contracts)
      /\ code = "CONTRACT_NOT_FOUND" => \A c \in Range(ids) : Missing(c, contracts, request)

Accords(s, contracts, request) ==
  /\ IsState(s)
  /\ s.before = contracts
  /\ s.now \in Ledgers
  /\ Later(contracts, s.now)
  /\ IsSeq(s.nodes)
  /\ s.at \in 0 .. Len(s.nodes)
  /\ \A i \in 1 .. Len(s.nodes) : NodeAccords(s.nodes[i], i, contracts)
  /\ ErrorAccords(s.error, contracts, request)

LEMMA ThenIs ==
  ASSUME NEW b, NEW n, NEW e, NEW a, NEW d, NEW t, t = Then(b, n, e, a, d)
  PROVE  IsState(t) /\ t.before = b /\ t.now = n /\ t.error = e /\ t.at = a /\ t.nodes = d
BY DEF Then, IsState

LEMMA AddsAccords ==
  ASSUME NEW request, NEW contracts, NEW s, Accords(s, contracts, request), NEW step,
         step.op \in Kinds, step.cid \in Contracts, step.op = "Create" => step.cid \in New,
         NEW now \in Ledgers, Later(contracts, now), NEW at \in 0 .. (Len(s.nodes) + 1),
         NEW by, NEW t, Adds(s, t, step, by, now, at)
  PROVE  Accords(t, contracts, request)
<1>1. /\ IsState(t) /\ t.before = contracts /\ t.now = now /\ t.error = <<>> /\ t.at = at
      /\ t.nodes = Append(s.nodes, Node(s, step, by))
  <2> DEFINE d == Append(s.nodes, Node(s, step, by))
  <2>1. t = Then(contracts, now, <<>>, at, d)
    BY DEF Adds, Accords
  <2> HIDE DEF d
  <2>2. /\ IsState(t) /\ t.before = contracts /\ t.now = now /\ t.error = <<>> /\ t.at = at
        /\ t.nodes = d
    BY <2>1 DEF Then, IsState
  <2> QED
    BY <2>2 DEF d
<1>2. /\ IsSeq(t.nodes) /\ Len(t.nodes) = Len(s.nodes) + 1 /\ Len(s.nodes) \in Nat
      /\ \A i \in 1 .. Len(s.nodes) : t.nodes[i] = s.nodes[i]
      /\ t.nodes[Len(s.nodes) + 1] = Node(s, step, by)
  BY <1>1, AppendIsSeq DEF Accords, IsSeq
<1>3. NodeAccords(Node(s, step, by), Len(s.nodes) + 1, contracts)
  BY <1>2 DEF Node, NodeAccords, Accords
<1>4. ASSUME NEW i \in 1 .. Len(t.nodes)
      PROVE  NodeAccords(t.nodes[i], i, contracts)
  <2>1. i \in 1 .. Len(s.nodes) \/ i = Len(s.nodes) + 1
    BY <1>2
  <2> QED
    BY <1>2, <1>3, <2>1 DEF Accords
<1>5. t.at \in 0 .. Len(t.nodes)
  BY <1>1, <1>2
<1> QED
  BY <1>1, <1>2, <1>4, <1>5 DEF Accords, ErrorAccords

LEMMA FailsAccords ==
  ASSUME NEW request, NEW contracts, NEW s, Accords(s, contracts, request),
         NEW code, NEW ids \in Seq(Contracts),
         code = "CONTRACT_NOT_FOUND" => \A c \in Range(ids) : Missing(c, contracts, request),
         NEW t, Fails(s, t, code, ids)
  PROVE  Accords(t, contracts, request)
<1>1. /\ IsState(t) /\ t.before = s.before /\ t.now = s.now /\ t.at = s.at
      /\ t.error = <<[code |-> code, ids |-> ids]>> /\ t.nodes = s.nodes
  BY ThenIs DEF Fails
<1>2. ErrorAccords(t.error, contracts, request)
  BY <1>1 DEF ErrorAccords
<1> QED
  BY <1>1, <1>2 DEF Accords

LEMMA CloseAccords ==
  ASSUME NEW request, NEW contracts, NEW s, Accords(s, contracts, request)
  PROVE  Accords(Close(s), contracts, request)
<1>1. CASE s.at = 0
  BY <1>1, CloseIs DEF Accords
<1>2. CASE s.at # 0
  <2> DEFINE node == s.nodes[s.at]  t == Close(s)
  <2>1. NodeAccords(node, s.at, contracts) /\ s.at \in 1 .. Len(s.nodes) /\ Len(s.nodes) \in Nat
    BY <1>2 DEF Accords, IsSeq
  <2>2. /\ IsState(t) /\ t.before = s.before /\ t.error = s.error /\ t.nodes = s.nodes
        /\ t.now = IF node.kind = "Rollback" THEN node.kept ELSE s.now
        /\ t.at = node.parent
    <3>1. t = Then(s.before, IF node.kind = "Rollback" THEN node.kept ELSE s.now,
                   s.error, node.parent, s.nodes)
      BY <1>2, CloseIs DEF Accords
    <3> HIDE DEF node, t
    <3> QED
      BY <3>1, ThenIs
  <2>3. t.now \in Ledgers /\ Later(contracts, t.now)
    BY <2>1, <2>2 DEF NodeAccords, Accords
  <2>4. t.at \in 0 .. Len(t.nodes)
    <3>1. node.parent \in 0 .. (s.at - 1)
      BY <2>1 DEF NodeAccords
    <3> HIDE DEF node, t
    <3> QED
      BY <2>1, <2>2, <3>1
  <2>5. \A i \in 1 .. Len(t.nodes) : NodeAccords(t.nodes[i], i, contracts)
    BY <2>2 DEF Accords
  <2>6. ErrorAccords(t.error, contracts, request) /\ t.before = contracts /\ IsSeq(t.nodes)
    BY <2>2 DEF Accords
  <2>7. Accords(t, contracts, request)
    <3> HIDE DEF t, node
    <3> QED
      BY <2>2, <2>3, <2>4, <2>5, <2>6 DEF Accords
  <2> QED
    BY <2>7
<1> QED
  BY <1>1, <1>2

\* A contract that may be used is there now, so none is brought back.
LEMMA LedgersSet ==
  ASSUME NEW contracts \in Ledgers, NEW now \in Ledgers, Later(contracts, now),
         NEW c \in Contracts, NEW state \in States,
         contracts[c] = "archived" => state = "archived",
         contracts[c] = "active" => state # "absent"
  PROVE  /\ [now EXCEPT ![c] = state] \in Ledgers
         /\ Later(contracts, [now EXCEPT ![c] = state])
BY DEF Ledgers, Later

LEMMA RefusesAccords ==
  ASSUME NEW request, NEW contracts \in Ledgers, NEW s, Accords(s, contracts, request),
         NEW c \in Contracts, ~Usable(s, c, request), NEW t, Refuses(s, t, c)
  PROVE  Accords(t, contracts, request)
<1>1. <<c>> \in Seq(Contracts) /\ Range(<<c>>) = {c}
  BY DEF Range
<1>2. CASE Fails(s, t, "CONTRACT_NOT_ACTIVE", <<c>>)
  BY <1>1, <1>2, FailsAccords
<1>3. CASE /\ Fails(s, t, "CONTRACT_NOT_FOUND", <<c>>)
           /\ ~(s.now[c] = "archived" /\ s.before[c] # "archived")
  <2>1. /\ s.before = contracts /\ s.now[c] \in States /\ contracts[c] \in States
        /\ contracts[c] = "active" => s.now[c] # "absent"
    BY DEF Accords, Ledgers, Later
  <2>2. Missing(c, contracts, request)
    BY <1>3, <2>1 DEF Usable, Missing, States
  <2> QED
    BY <1>1, <1>3, <2>2, FailsAccords
<1> QED
  BY <1>2, <1>3 DEF Refuses

LEMMA PerformAccords ==
  ASSUME NEW request, NEW contracts \in Ledgers, Fresh(contracts),
         NEW s, Accords(s, contracts, request), NEW step,
         step.op \in Ops, step.cid \in Contracts, step.ids \in Seq(Contracts),
         step.op = "Create" => step.cid \in New
  PROVE  Accords(Perform(s, step, request), contracts, request)
<1> DEFINE t == Perform(s, step, request)  c == step.cid  by == By(s, request)
<1>1. CASE s.error # <<>>
  BY <1>1, PerformAfter
<1>2. CASE s.error = <<>>
  <2>1. IsState(s) /\ IsSeq(s.nodes) /\ s.now \in Ledgers /\ Later(contracts, s.now)
        /\ s.at \in 0 .. Len(s.nodes) /\ Len(s.nodes) \in Nat
    BY DEF Accords, IsSeq
  <2>2. /\ s.at \in 0 .. (Len(s.nodes) + 1) /\ Len(s.nodes) + 1 \in 0 .. (Len(s.nodes) + 1)
    BY <2>1
  <2>3. ASSUME NEW u, Fails(s, u, "DAML_AUTHORIZATION_ERROR", <<>>)
        PROVE  Accords(u, contracts, request)
    <3>1. <<>> \in Seq(Contracts)
      OBVIOUS
    <3> QED
      BY <2>3, <3>1, FailsAccords
  <2> HIDE DEF t
  <2>4. CASE step.op = "Fail"
    <3>1. Fails(s, t, "UNHANDLED_EXCEPTION", step.ids)
      BY <1>2, <2>1, <2>4, PerformIs DEF t
    <3>2. Accords(t, contracts, request)
      BY <3>1, FailsAccords
    <3> QED
      BY <3>2 DEF t
  <2>5. CASE step.op = "Rollback"
    <3>1. Adds(s, t, step, by, s.now, Len(s.nodes) + 1) /\ step.op \in Kinds
      BY <1>2, <2>1, <2>5, PerformIs DEF t, Kinds
    <3>2. Accords(t, contracts, request)
      BY <2>1, <2>2, <2>5, <3>1, AddsAccords
    <3> QED
      BY <3>2 DEF t
  <2>6. CASE step.op = "End"
    <3>1. t = Close(s)
      BY <1>2, <2>1, <2>6, PerformIs DEF t
    <3> QED
      BY <3>1, CloseAccords DEF t
  <2>7. CASE step.op = "Create"
    <3>1. \/ Adds(s, t, step, by, [s.now EXCEPT ![c] = "active"], s.at)
          \/ Fails(s, t, "DAML_AUTHORIZATION_ERROR", <<>>)
      BY <1>2, <2>1, <2>7, PerformIs DEF t
    <3> DEFINE now == [s.now EXCEPT ![c] = "active"]
    <3>2. now \in Ledgers /\ Later(contracts, now) /\ step.op \in Kinds
      <4>1. contracts[c] = "absent"
        BY <2>7 DEF Fresh
      <4> QED
        BY <2>1, <2>7, <4>1, LedgersSet DEF States, Kinds
    <3> HIDE DEF now
    <3>3. ASSUME Adds(s, t, step, by, now, s.at)
          PROVE  Accords(t, contracts, request)
      BY <2>2, <2>7, <3>2, <3>3, AddsAccords
    <3> QED
      BY <2>3, <3>1, <3>3 DEF t, now
  <2>8. CASE step.op = "Fetch"
    <3>1. \/ Adds(s, t, step, by, s.now, s.at)
          \/ ~Usable(s, c, request) /\ Refuses(s, t, c)
      BY <1>2, <2>1, <2>8, PerformIs DEF t
    <3>2. ASSUME Adds(s, t, step, by, s.now, s.at)
          PROVE  Accords(t, contracts, request)
      BY <2>1, <2>2, <2>8, <3>2, AddsAccords DEF Kinds
    <3> QED
      BY <3>1, <3>2, RefusesAccords DEF t
  <2>9. CASE step.op = "Exercise"
    <3> DEFINE now == [s.now EXCEPT ![c] = IF step.consuming THEN "archived" ELSE @]
    <3>1. \/ /\ Usable(s, c, request)
             /\ Adds(s, t, step, {Owner[c]}, now, Len(s.nodes) + 1)
          \/ Fails(s, t, "DAML_AUTHORIZATION_ERROR", <<>>)
          \/ ~Usable(s, c, request) /\ Refuses(s, t, c)
      BY <1>2, <2>1, <2>9, PerformIs DEF t
    <3>2. ASSUME Usable(s, c, request)
          PROVE  now \in Ledgers /\ Later(contracts, now)
      <4> DEFINE state == IF step.consuming THEN "archived" ELSE "active"
      <4>1. s.now[c] = "active" /\ contracts[c] # "archived" /\ now = [s.now EXCEPT ![c] = state]
        BY <2>1, <3>2 DEF Usable, Later
      <4>2. state \in States /\ state # "absent"
        BY DEF States
      <4> HIDE DEF now, state
      <4> QED
        BY <2>1, <4>1, <4>2, LedgersSet
    <3> HIDE DEF now
    <3>3. ASSUME Usable(s, c, request), Adds(s, t, step, {Owner[c]}, now, Len(s.nodes) + 1)
          PROVE  Accords(t, contracts, request)
      BY <2>2, <2>9, <3>2, <3>3, AddsAccords DEF Kinds
    <3> QED
      BY <2>3, <3>1, <3>3, RefusesAccords DEF t
  <2> QED
    BY <2>4, <2>5, <2>6, <2>7, <2>8, <2>9 DEF Ops, Kinds
<1> QED
  BY <1>1, <1>2

LEMMA StartAccords ==
  ASSUME NEW request, NEW contracts \in Ledgers
  PROVE  Accords(Start(contracts), contracts, request)
<1> DEFINE s == Start(contracts)
<1>1. /\ IsState(s) /\ s.before = contracts /\ s.now = contracts /\ s.error = <<>>
      /\ s.at = 0 /\ s.nodes = <<>>
  BY DEF Start, Then, IsState
<1> HIDE DEF s
<1>2. Accords(s, contracts, request)
  BY <1>1, NoneIsSeq, LaterSame DEF Accords, ErrorAccords
<1> QED
  BY <1>2 DEF s

LEMMA RunAccords ==
  ASSUME NEW request, WellFormed(request), NEW contracts \in Ledgers, Fresh(contracts),
         NEW after, IsRun(request, contracts, after)
  PROVE  \A k \in 0 .. Len(request.commands) : Accords(after[k], contracts, request)
<1> DEFINE n == Len(request.commands)
           Good == {k \in Nat : k \in 0 .. n => Accords(after[k], contracts, request)}
<1>1. 0 \in Good
  BY StartAccords DEF IsRun
<1>2. ASSUME NEW k \in Nat, k \in Good
      PROVE  k + 1 \in Good
  <2> SUFFICES ASSUME k + 1 \in 0 .. n
               PROVE  Accords(after[k + 1], contracts, request)
    OBVIOUS
  <2>1. n \in Nat
    BY DEF WellFormed
  <2>2. k \in 0 .. n /\ k + 1 \in 1 .. n /\ (k + 1) - 1 = k
    BY <2>1
  <2>3. after[k + 1] = Perform(after[k], request.commands[k + 1], request)
    BY <2>2 DEF IsRun
  <2>4. Accords(after[k], contracts, request)
    BY <1>2, <2>2
  <2> QED
    BY <2>2, <2>3, <2>4, PerformAccords DEF WellFormed
<1>3. \A k \in Nat : k \in Good
  <2> HIDE DEF Good
  <2> QED
    BY <1>1, <1>2, AllNaturals
<1> QED
  BY <1>3

LEMMA OutcomeAccords ==
  ASSUME NEW request \in Requests, NEW contracts \in Ledgers, Fresh(contracts)
  PROVE  Accords(Outcome(request, contracts), contracts, request)
<1>1. WellFormed(request)
  BY RequestIs
<1>2. Len(request.commands) \in Nat
  BY <1>1 DEF WellFormed
<1>3. PICK after : IsRun(request, contracts, after)
  BY <1>2, RunIs
<1>4. \A k \in 0 .. Len(request.commands) : Accords(after[k], contracts, request)
  BY <1>1, <1>3, RunAccords
<1> QED
  BY <1>2, <1>3, <1>4 DEF IsRun

-----------------------------------------------------------------------------
\* Where a simulation is: a contract still to be looked up because it was not
\* found was not there for those who ask, when they asked.

IsReport(p) ==
  p = [outcome |-> p.outcome, effects |-> p.effects, amulet_fee |-> p.amulet_fee,
       diagnosis |-> p.diagnosis, contract_states |-> p.contract_states]
IsDiagnosis(d) ==
  d = [code |-> d.code, phase |-> d.phase, retryable |-> d.retryable,
       contract_ids |-> d.contract_ids, hints |-> d.hints]

Explains(d, left, contracts, request) ==
  /\ IsDiagnosis(d)
  /\ d.code = "CONTRACT_NOT_FOUND" => \A c \in Range(left) : Missing(c, contracts, request)

OnLedger ==
  /\ ledger \in Ledgers
  /\ since \in Ledgers
  /\ Later(since, ledger)
  /\ submission = NoSubmission => Fresh(ledger)

InCourse ==
  /\ sim = [request |-> sim.request, at |-> sim.at, left |-> sim.left, report |-> sim.report]
  /\ sim.at \in {"idle", "lookup", "reported"}
  /\ sim.at # "idle" => sim.request \in Requests
  /\ sim.at # "reported" => submission = NoSubmission

Looking ==
  /\ IsReport(report)
  /\ IsSeq(report.contract_states)
  /\ \A s \in Range(report.contract_states) : s.cid \in Contracts
  /\ sim.at = "lookup" =>
       /\ sim.left \in Seq(Contracts) /\ sim.left # <<>>
       /\ \E d : report.diagnosis = <<d>> /\ Explains(d, sim.left, since, sim.request)

Known == OnLedger /\ InCourse /\ Looking /\ StatesHold

LEMMA SubmitLater ==
  ASSUME OnLedger, InCourse, Submit
  PROVE  ledger' \in Ledgers /\ Later(ledger, ledger')
<1>1. sim.at = "reported" /\ submission = NoSubmission /\ sim.request \in Requests
  BY DEF Submit, InCourse
<1>2. Accords(Outcome(sim.request, ledger), ledger, sim.request)
  BY <1>1, OutcomeAccords DEF OnLedger
<1>3. ledger' = IF Outcome(sim.request, ledger).error = <<>> THEN Outcome(sim.request, ledger).now
                ELSE ledger
  BY DEF Submit
<1> QED
  BY <1>2, <1>3, LaterSame DEF Accords, OnLedger

LEMMA StepLater ==
  ASSUME OnLedger, InCourse, [Next]_vars
  PROVE  ledger' \in Ledgers /\ Later(ledger, ledger')
<1>1. CASE UNCHANGED ledger
  BY <1>1, LaterSame DEF OnLedger
<1>2. ASSUME NEW c \in Contracts, OthersCreate(c) \/ OthersArchive(c)
      PROVE  ledger' \in Ledgers /\ Later(ledger, ledger')
  <2>1. PICK state \in States : /\ ledger' = [ledger EXCEPT ![c] = state] /\ ledger[c] # "archived"
                                /\ ledger[c] = "active" => state # "absent"
    BY <1>2 DEF OthersCreate, OthersArchive, States
  <2> QED
    BY <2>1, LedgersSet, LaterSame DEF OnLedger
<1>3. CASE Submit
  BY <1>3, SubmitLater
<1>4. ASSUME NEW r \in Requests, Unreachable(r) \/ on_prepared(r) \/ on_rejected(r)
      PROVE  UNCHANGED ledger
  BY <1>4 DEF Unreachable, on_prepared, on_rejected, Asked
<1>5. CASE lookup_contract
  BY <1>1, <1>5 DEF lookup_contract
<1> QED
  BY <1>1, <1>2, <1>3, <1>4, <1>5 DEF Next, vars

LEMMA StepFresh ==
  ASSUME OnLedger, InCourse, [Next]_vars, submission' = NoSubmission
  PROVE  Fresh(ledger')
<1>1. NoSubmission # [outcome |-> "committed", before |-> ledger, after |-> ledger']
      /\ NoSubmission # [outcome |-> "rejected", before |-> ledger, after |-> ledger']
  BY DEF NoSubmission
<1>2. ~Submit
  BY <1>1 DEF Submit
<1>3. submission = NoSubmission
  BY <1>2 DEF Next, vars, Unreachable, on_prepared, on_rejected, Asked, lookup_contract,
              OthersCreate, OthersArchive
<1>4. Fresh(ledger)
  BY <1>3 DEF OnLedger
<1>5. CASE UNCHANGED ledger
  BY <1>4, <1>5
<1>6. ASSUME NEW c \in Contracts, OthersCreate(c) \/ OthersArchive(c)
      PROVE  Fresh(ledger')
  <2>1. c \notin New
    BY <1>4, <1>6 DEF OthersCreate, OthersArchive, Fresh
  <2>2. \A d \in New : d \in Contracts /\ d # c
    BY <2>1, RequestAssumption DEF RequestAssumption
  <2>3. PICK state : ledger' = [ledger EXCEPT ![c] = state]
    BY <1>6 DEF OthersCreate, OthersArchive
  <2> QED
    BY <1>4, <2>2, <2>3 DEF Fresh, OnLedger, Ledgers
<1>7. ASSUME NEW r \in Requests, Unreachable(r) \/ on_prepared(r) \/ on_rejected(r)
      PROVE  UNCHANGED ledger
  BY <1>7 DEF Unreachable, on_prepared, on_rejected, Asked
<1> QED
  BY <1>2, <1>5, <1>6, <1>7 DEF Next, vars, lookup_contract

LEMMA StepOnLedger ==
  ASSUME OnLedger, InCourse, [Next]_vars
  PROVE  OnLedger'
<1>1. ledger' \in Ledgers /\ Later(ledger, ledger') /\ (submission' = NoSubmission => Fresh(ledger'))
  BY StepLater, StepFresh
<1>2. UNCHANGED since \/ (since' = ledger /\ UNCHANGED ledger)
  <2>1. ASSUME NEW r \in Requests, Unreachable(r) \/ on_prepared(r) \/ on_rejected(r)
        PROVE  since' = ledger /\ UNCHANGED ledger
    BY <2>1 DEF Unreachable, on_prepared, on_rejected, Asked
  <2>2. ASSUME NEW c \in Contracts, OthersCreate(c) \/ OthersArchive(c)
        PROVE  UNCHANGED since
    BY <2>2 DEF OthersCreate, OthersArchive
  <2>3. lookup_contract \/ Submit \/ UNCHANGED vars => UNCHANGED since
    BY DEF lookup_contract, Submit, vars
  <2> QED
    BY <2>1, <2>2, <2>3 DEF Next
<1> QED
  BY <1>1, <1>2, LaterOn, LaterSame DEF OnLedger

\* What is said of one contract, of the ledger it was asked about and as it is.
StateHolds(s, diagnosis, request, contracts, now) ==
  LET c == s.cid
      visible == Stakeholders[c] \cap (request.act_as \cup request.read_as) # {}
  IN
  /\ s.state = "Archived" => now[c] = "archived"
  /\ s.state = "Active" =>
       /\ visible /\ now[c] # "absent"
       /\ diagnosis[1].code = "CONTRACT_NOT_FOUND" => contracts[c] = "absent"
  /\ s.state = "Unknown" /\ visible => contracts[c] = "absent"

LEMMA StatesHoldEach ==
  StatesHold <=> \A s \in Range(report.contract_states) :
                   StateHolds(s, report.diagnosis, sim.request, since, ledger)
BY DEF StatesHold, StateHolds

LEMMA StateStays ==
  ASSUME NEW s, s.cid \in Contracts, NEW diagnosis, NEW request, NEW contracts,
         NEW a, NEW b \in Ledgers, Later(a, b), StateHolds(s, diagnosis, request, contracts, a),
         a \in Ledgers
  PROVE  StateHolds(s, diagnosis, request, contracts, b)
BY DEF StateHolds, Later, Ledgers, States

\* The simulation stands still: the ledger moves, or the request is submitted.
LEMMA StillKnown ==
  ASSUME Known, [Next]_vars, UNCHANGED <<sim, since>>,
         UNCHANGED submission \/ sim.at = "reported"
  PROVE  InCourse' /\ Looking' /\ StatesHold'
<1>1. InCourse'
  BY DEF Known, InCourse
<1>2. Looking'
  BY DEF Known, Looking, report
<1>3. ledger' \in Ledgers /\ Later(ledger, ledger') /\ ledger \in Ledgers
  BY StepLater DEF Known, OnLedger
<1>4. \A s \in Range(report'.contract_states) :
        StateHolds(s, report'.diagnosis, sim'.request, since', ledger')
  <2>1. report' = report
    BY DEF report
  <2>2. ASSUME NEW s \in Range(report.contract_states)
        PROVE  StateHolds(s, report.diagnosis, sim.request, since, ledger')
    <3>1. s.cid \in Contracts /\ StateHolds(s, report.diagnosis, sim.request, since, ledger)
      BY StatesHoldEach DEF Known, Looking
    <3> QED
      BY <1>3, <3>1, StateStays
  <2> QED
    BY <2>1, <2>2
<1>5. StatesHold'
  BY <1>4 DEF StatesHold, StateHolds
<1> QED
  BY <1>1, <1>2, <1>5

LEMMA NoReportIs ==
  /\ IsReport(NoReport) /\ NoReport.contract_states = <<>>
  /\ NoReport.effects = <<>> /\ NoReport.amulet_fee = <<>>
BY DEF IsReport, NoReport

LEMMA ReportIs ==
  ASSUME NEW outcome, NEW effects, NEW fee, NEW diagnosis, NEW states
  PROVE  LET p == [outcome |-> outcome, effects |-> effects, amulet_fee |-> fee,
                   diagnosis |-> diagnosis, contract_states |-> states]
         IN  /\ IsReport(p) /\ p.outcome = outcome /\ p.effects = effects
             /\ p.amulet_fee = fee /\ p.diagnosis = diagnosis /\ p.contract_states = states
BY DEF IsReport

\* An answer came in, of the ledger as it is.
LEMMA AskedKnown ==
  ASSUME Known, NEW request \in Requests, Asked(request), NEW at, NEW left, NEW p,
         sim' = [request |-> request, at |-> at, left |-> left, report |-> p],
         IsReport(p), p.contract_states = <<>>,
         \/ at = "reported"
         \/ /\ at = "lookup" /\ left \in Seq(Contracts) /\ left # <<>>
            /\ \E d : p.diagnosis = <<d>> /\ Explains(d, left, ledger, request)
  PROVE  InCourse' /\ Looking' /\ StatesHold'
<1>1. /\ sim'.request = request /\ sim'.at = at /\ sim'.left = left /\ report' = p
      /\ since' = ledger
      /\ sim' = [request |-> sim'.request, at |-> sim'.at, left |-> sim'.left,
                 report |-> sim'.report]
  BY DEF report, Asked
<1>2. submission' = NoSubmission
  BY DEF Asked, Known, InCourse
<1>3. InCourse'
  BY <1>1, <1>2 DEF InCourse
<1>4. Range(report'.contract_states) = {} /\ IsSeq(report'.contract_states)
  BY <1>1, NoneIsSeq DEF Range
<1>5. Looking'
  BY <1>1, <1>4 DEF Looking
<1>6. StatesHold'
  BY <1>4 DEF StatesHold
<1> QED
  BY <1>3, <1>5, <1>6

\* The contracts looked up are among those the rejection names.
LEMMA CidsIs ==
  ASSUME NEW ids \in Seq(Contracts), NEW cids,
         cids = SubSeq(ids, 1, Min({Len(ids), max_contract_lookups}))
  PROVE  cids \in Seq(Contracts) /\ Range(cids) \subseteq Range(ids)
<1> DEFINE m == Min({Len(ids), max_contract_lookups})
<1>1. Len(ids) \in Nat /\ DOMAIN ids = 1 .. Len(ids) /\ max_contract_lookups \in Nat
  BY LenProperties, LookupAssumption DEF LookupAssumption
<1>2. m \in Nat /\ m <= Len(ids)
  <2> DEFINE S == {Len(ids), max_contract_lookups}
  <2>1. \E x \in S : \A y \in S : x <= y
    <3>1. CASE Len(ids) <= max_contract_lookups
      BY <1>1, <3>1
    <3>2. CASE max_contract_lookups <= Len(ids)
      BY <1>1, <3>2
    <3> QED
      BY <1>1, <3>1, <3>2
  <2>2. Min(S) \in S /\ \A y \in S : Min(S) <= y
    <3> HIDE DEF S
    <3> QED
      BY <2>1 DEF Min
  <2> QED
    BY <1>1, <2>2
<1> HIDE DEF m
<1>3. \A i \in 1 .. m : ids[i] \in Contracts /\ i \in DOMAIN ids
  BY <1>1, <1>2
<1>4. /\ SubSeq(ids, 1, m) \in Seq(Contracts)
      /\ Len(SubSeq(ids, 1, m)) = m
      /\ \A i \in 1 .. m : SubSeq(ids, 1, m)[i] = ids[i]
  BY <1>2, <1>3, SubSeqProperties
<1>5. cids = SubSeq(ids, 1, m)
  BY DEF m
<1>6. DOMAIN cids = 1 .. m
  BY <1>4, <1>5, LenProperties
<1> QED
  BY <1>3, <1>4, <1>5, <1>6 DEF Range

LEMMA RejectedKnown ==
  ASSUME Known, NEW request \in Requests, Asked(request), NEW error,
         error.ids \in Seq(Contracts),
         error.code = "CONTRACT_NOT_FOUND" =>
           \A c \in Range(error.ids) : Missing(c, ledger, request),
         Rejected(request, error)
  PROVE  InCourse' /\ Looking' /\ StatesHold'
<1> DEFINE d == diagnose(error)
           looked == request.lookup_contracts /\ d.phase \in {"Interpretation", "Confirmation"}
           cids == SubSeq(error.ids, 1, Min({Len(error.ids), max_contract_lookups}))
           p == [NoReport EXCEPT !.outcome = "WouldFail", !.diagnosis = <<d>>,
                                 !.amulet_fee = amulet_fee_for(request)]
           at == IF looked /\ cids # <<>> THEN "lookup" ELSE "reported"
           left == IF looked THEN cids ELSE <<>>
<1>1. sim' = [request |-> request, at |-> at, left |-> left, report |-> p]
  BY DEF Rejected
<1>2. cids \in Seq(Contracts) /\ Range(cids) \subseteq Range(error.ids)
  BY CidsIs
<1>3. IsDiagnosis(d) /\ d.code = error.code
  BY DEF diagnose, IsDiagnosis
<1> HIDE DEF d
<1>4. IsReport(p) /\ p.contract_states = <<>> /\ p.diagnosis = <<d>>
  <2> DEFINE ds == <<d>>  fee == amulet_fee_for(request)
  <2>1. p = [NoReport EXCEPT !.outcome = "WouldFail", !.diagnosis = ds, !.amulet_fee = fee]
    BY Zenon
  <2> HIDE DEF p, ds, fee
  <2>2. p = [outcome |-> "WouldFail", effects |-> <<>>, amulet_fee |-> fee,
             diagnosis |-> ds, contract_states |-> <<>>]
    BY <2>1 DEF NoReport
  <2>3. IsReport(p) /\ p.contract_states = <<>> /\ p.diagnosis = ds
    BY <2>2 DEF IsReport
  <2> QED
    BY <2>3 DEF ds
<1> HIDE DEF p, cids
<1>5. CASE looked /\ cids # <<>>
  <2>1. at = "lookup" /\ left = cids
    BY <1>5
  <2>2. Explains(d, left, ledger, request)
    BY <1>2, <1>3, <2>1 DEF Explains
  <2> HIDE DEF at, left
  <2> QED
    BY <1>1, <1>2, <1>4, <1>5, <2>1, <2>2, AskedKnown
<1>6. CASE ~(looked /\ cids # <<>>)
  <2>1. at = "reported"
    BY <1>6
  <2> HIDE DEF at, left
  <2> QED
    BY <1>1, <1>4, <2>1, AskedKnown
<1> QED
  BY <1>5, <1>6

LEMMA on_rejectedKnown ==
  ASSUME Known, NEW request \in Requests, on_rejected(request)
  PROVE  InCourse' /\ Looking' /\ StatesHold'
<1> DEFINE errors == Range(Outcome(request, ledger).error)
                     \cup {[code |-> "PARTICIPANT_BACKPRESSURE", ids |-> <<>>]}
<1>1. Asked(request)
  BY DEF on_rejected
<1>2. PICK e \in errors, definite \in BOOLEAN :
        Rejected(request, [code |-> e.code, ids |-> e.ids, category |-> category(e.code),
                           definite_answer |-> definite])
  BY DEF on_rejected
<1>3. ErrorAccords(Outcome(request, ledger).error, ledger, request)
  <2>1. ledger \in Ledgers /\ Fresh(ledger)
    BY <1>1 DEF Known, OnLedger, InCourse, Asked
  <2> QED
    BY <2>1, OutcomeAccords DEF Accords
<1>4. /\ e.ids \in Seq(Contracts)
      /\ e.code = "CONTRACT_NOT_FOUND" => \A c \in Range(e.ids) : Missing(c, ledger, request)
  <2>1. CASE e \in Range(Outcome(request, ledger).error)
    <3> DEFINE error == Outcome(request, ledger).error
    <3>1. error # <<>>
      BY <2>1 DEF Range
    <3>2. PICK code, ids : /\ error = <<[code |-> code, ids |-> ids]>>
                           /\ ids \in Seq(Contracts)
                           /\ code = "CONTRACT_NOT_FOUND" =>
                                \A c \in Range(ids) : Missing(c, ledger, request)
      BY <1>3, <3>1 DEF ErrorAccords
    <3> HIDE DEF error
    <3>3. e = [code |-> code, ids |-> ids]
      BY <2>1, <3>2 DEF Range, error
    <3>4. e.code = code /\ e.ids = ids
      BY <3>3
    <3> QED
      BY <3>2, <3>4
  <2>2. CASE e = [code |-> "PARTICIPANT_BACKPRESSURE", ids |-> <<>>]
    BY <2>2
  <2> QED
    BY <2>1, <2>2
<1> DEFINE error == [code |-> e.code, ids |-> e.ids, category |-> category(e.code),
                     definite_answer |-> definite]
<1>5. error.code = e.code /\ error.ids = e.ids /\ Rejected(request, error)
  BY <1>2
<1> HIDE DEF error
<1> QED
  BY <1>1, <1>4, <1>5, RejectedKnown

\* A hint changes nothing else of a diagnosis.
LEMMA HintedIs ==
  ASSUME NEW d, IsDiagnosis(d), NEW hint
  PROVE  Hinted(d, hint) = [code |-> d.code, phase |-> d.phase, retryable |-> d.retryable,
                            contract_ids |-> d.contract_ids, hints |-> <<hint>> \o d.hints]
<1> DEFINE a == d.code  b == d.phase  c == d.retryable  f == d.contract_ids  g == d.hints
           h == <<hint>>
<1>1. d = [code |-> a, phase |-> b, retryable |-> c, contract_ids |-> f, hints |-> g]
  BY DEF IsDiagnosis
<1>2. Hinted(d, hint) = [d EXCEPT !.hints = h \o @]
  BY DEF Hinted
<1> HIDE DEF a, b, c, f, g, h
<1>3. Hinted(d, hint) =
        [code |-> a, phase |-> b, retryable |-> c, contract_ids |-> f, hints |-> h \o g]
  BY <1>1, <1>2
<1> QED
  BY <1>3 DEF a, b, c, f, g, h

LEMMA DiagnosisIs ==
  ASSUME NEW a, NEW b, NEW c, NEW f, NEW g, NEW d,
         d = [code |-> a, phase |-> b, retryable |-> c, contract_ids |-> f, hints |-> g]
  PROVE  IsDiagnosis(d) /\ d.code = a
BY DEF IsDiagnosis

LEMMA LookedIs ==
  ASSUME NEW p, IsReport(p), NEW entry, NEW hint
  PROVE  [p EXCEPT !.contract_states = Append(@, entry), !.diagnosis = <<Hinted(@[1], hint)>>] =
           [outcome |-> p.outcome, effects |-> p.effects, amulet_fee |-> p.amulet_fee,
            diagnosis |-> <<Hinted(p.diagnosis[1], hint)>>,
            contract_states |-> Append(p.contract_states, entry)]
<1> DEFINE o == p.outcome  e == p.effects  f == p.amulet_fee  ds == p.diagnosis
           cs == p.contract_states
           q == [outcome |-> o, effects |-> e, amulet_fee |-> f, diagnosis |-> ds,
                 contract_states |-> Append(cs, entry)]
<1>1. p = [outcome |-> o, effects |-> e, amulet_fee |-> f, diagnosis |-> ds,
           contract_states |-> cs]
  BY DEF IsReport
<1>2. [p EXCEPT !.contract_states = Append(@, entry)] = q
  <2> HIDE DEF o, e, f, ds, cs
  <2> QED
    BY <1>1
<1>3. \A x : x = q => [x EXCEPT !.diagnosis = <<Hinted(@[1], hint)>>] =
                        [outcome |-> o, effects |-> e, amulet_fee |-> f,
                         diagnosis |-> <<Hinted(ds[1], hint)>>,
                         contract_states |-> Append(cs, entry)]
  <2> DEFINE states == Append(cs, entry)
  <2> HIDE DEF o, e, f, ds, cs, states
  <2>1. ASSUME NEW x, x = [outcome |-> o, effects |-> e, amulet_fee |-> f, diagnosis |-> ds,
                           contract_states |-> states]
        PROVE  [x EXCEPT !.diagnosis = <<Hinted(@[1], hint)>>] =
                 [outcome |-> o, effects |-> e, amulet_fee |-> f,
                  diagnosis |-> <<Hinted(ds[1], hint)>>, contract_states |-> states]
    BY <2>1
  <2> QED
    BY <2>1, Zenon DEF states
<1> HIDE DEF q, o, e, f, ds, cs
<1>4. [p EXCEPT !.contract_states = Append(@, entry), !.diagnosis = <<Hinted(@[1], hint)>>] =
        [q EXCEPT !.diagnosis = <<Hinted(@[1], hint)>>]
  BY <1>2, Zenon
<1>5. [q EXCEPT !.diagnosis = <<Hinted(@[1], hint)>>] =
        [outcome |-> o, effects |-> e, amulet_fee |-> f,
         diagnosis |-> <<Hinted(ds[1], hint)>>, contract_states |-> Append(cs, entry)]
  BY <1>3, Zenon
<1>6. [p EXCEPT !.contract_states = Append(@, entry), !.diagnosis = <<Hinted(@[1], hint)>>] =
        [outcome |-> o, effects |-> e, amulet_fee |-> f,
         diagnosis |-> <<Hinted(ds[1], hint)>>, contract_states |-> Append(cs, entry)]
  BY <1>4, <1>5, Zenon
<1> QED
  BY <1>6 DEF o, e, f, ds, cs

\* One contract looked up.
LEMMA LookupIs ==
  ASSUME Known, lookup_contract
  PROVE  \E c, state, d :
           LET e == Hinted(d, <<state, c>>) IN
           /\ c \in Contracts
           /\ sim.left \in Seq(Contracts) /\ sim.left # <<>> /\ c = Head(sim.left)
           /\ state \in {State(contract_events(c, sim.request)), "LookupFailed"}
           /\ report.diagnosis = <<d>> /\ Explains(d, sim.left, since, sim.request)
           /\ sim' = [request |-> sim.request, left |-> Tail(sim.left),
                      at |-> IF Tail(sim.left) = <<>> THEN "reported" ELSE "lookup",
                      report |-> [outcome |-> report.outcome, effects |-> report.effects,
                                  amulet_fee |-> report.amulet_fee, diagnosis |-> <<e>>,
                                  contract_states |-> Append(report.contract_states,
                                                             [cid |-> c, state |-> state])]]
<1>1. sim.left \in Seq(Contracts) /\ sim.left # <<>> /\ IsReport(report)
  BY DEF lookup_contract, Known, Looking
<1>2. PICK d : report.diagnosis = <<d>> /\ Explains(d, sim.left, since, sim.request)
  BY DEF lookup_contract, Known, Looking
<1> DEFINE c == Head(sim.left)
<1>3. c \in Contracts
  BY <1>1, HeadTailProperties
<1>4. PICK state \in {State(contract_events(c, sim.request)), "LookupFailed"} :
        sim' = [request |-> sim.request, left |-> Tail(sim.left),
                at |-> IF Tail(sim.left) = <<>> THEN "reported" ELSE "lookup",
                report |-> [sim.report EXCEPT
                              !.contract_states = Append(@, [cid |-> c, state |-> state]),
                              !.diagnosis = <<Hinted(@[1], <<state, c>>)>>]]
  BY DEF lookup_contract
<1> HIDE DEF c
<1> DEFINE entry == [cid |-> c, state |-> state]  hint == <<state, c>>
<1>5. sim.report = report /\ report.diagnosis[1] = d
  BY <1>2 DEF report
<1>6. [sim.report EXCEPT !.contract_states = Append(@, entry),
                         !.diagnosis = <<Hinted(@[1], hint)>>] =
        [outcome |-> report.outcome, effects |-> report.effects,
         amulet_fee |-> report.amulet_fee, diagnosis |-> <<Hinted(d, hint)>>,
         contract_states |-> Append(report.contract_states, entry)]
  <2> HIDE DEF entry, hint
  <2>1. [report EXCEPT !.contract_states = Append(@, entry),
                       !.diagnosis = <<Hinted(@[1], hint)>>] =
          [outcome |-> report.outcome, effects |-> report.effects,
           amulet_fee |-> report.amulet_fee, diagnosis |-> <<Hinted(report.diagnosis[1], hint)>>,
           contract_states |-> Append(report.contract_states, entry)]
    BY <1>1, LookedIs
  <2> QED
    BY <1>5, <2>1, Zenon
<1>7. sim' = [request |-> sim.request, left |-> Tail(sim.left),
              at |-> IF Tail(sim.left) = <<>> THEN "reported" ELSE "lookup",
              report |-> [outcome |-> report.outcome, effects |-> report.effects,
                          amulet_fee |-> report.amulet_fee, diagnosis |-> <<Hinted(d, hint)>>,
                          contract_states |-> Append(report.contract_states, entry)]]
  BY <1>4, <1>6, Zenon
<1> QED
  BY <1>1, <1>2, <1>3, <1>4, <1>7, Zenon DEF c

\* What the events seen say of a contract that was missing.
LEMMA EventsSay ==
  ASSUME NEW c \in Contracts, NEW request, NEW d, NEW contracts \in Ledgers, ledger \in Ledgers,
         Later(contracts, ledger),
         d.code = "CONTRACT_NOT_FOUND" => Missing(c, contracts, request),
         NEW state \in {State(contract_events(c, request)), "LookupFailed"}, NEW ds, ds[1] = d
  PROVE  StateHolds([cid |-> c, state |-> state], ds, request, contracts, ledger)
<1> DEFINE s == [cid |-> c, state |-> state]
           visible == Stakeholders[c] \cap (request.act_as \cup request.read_as) # {}
<1>1. s.cid = c /\ s.state = state
  OBVIOUS
<1>2. visible <=> ~Hidden(c, request)
  BY DEF Hidden
<1>3. CASE state = "LookupFailed"
  BY <1>1, <1>3 DEF StateHolds
<1>4. CASE state = State(contract_events(c, request)) /\ ~visible
  <2>1. contract_events(c, request) = {}
    BY <1>4 DEF contract_events
  <2>2. state = "Unknown"
    BY <1>4, <2>1 DEF State
  <2> QED
    BY <1>1, <1>4, <2>2 DEF StateHolds
<1>5. CASE state = State(contract_events(c, request)) /\ visible
  <2>1. /\ ledger[c] = "absent" => state = "Unknown"
        /\ ledger[c] = "active" => state = "Active"
        /\ ledger[c] = "archived" => state = "Archived"
    BY <1>5 DEF contract_events, State
  <2>2. ledger[c] \in States /\ contracts[c] \in States
    BY DEF Ledgers
  <2>3. ledger[c] = "absent" => contracts[c] = "absent"
    BY <2>2 DEF Later, States
  <2>4. ledger[c] = "active" /\ d.code = "CONTRACT_NOT_FOUND" => contracts[c] = "absent"
    BY <1>2, <1>5, <2>2 DEF Later, States, Missing
  <2> HIDE DEF s, visible
  <2>5. s.state = "Archived" => ledger[c] = "archived"
    BY <1>1, <2>1, <2>2 DEF States
  <2>6. s.state = "Active" => ledger[c] = "active"
    BY <1>1, <2>1, <2>2 DEF States
  <2>7. s.state = "Unknown" => ledger[c] = "absent"
    BY <1>1, <2>1, <2>2 DEF States
  <2>8. StateHolds(s, ds, request, contracts, ledger)
    BY <1>1, <1>5, <2>3, <2>4, <2>5, <2>6, <2>7 DEF StateHolds, visible
  <2> QED
    BY <2>8 DEF s
<1> QED
  BY <1>3, <1>4, <1>5

LEMMA LookupKnown ==
  ASSUME Known, lookup_contract
  PROVE  InCourse' /\ Looking' /\ StatesHold'
<1> DEFINE left == sim.left  request == sim.request  states == report.contract_states
<1>1. PICK c, state, d :
        LET e == Hinted(d, <<state, c>>) IN
        /\ c \in Contracts
        /\ left \in Seq(Contracts) /\ left # <<>> /\ c = Head(left)
        /\ state \in {State(contract_events(c, request)), "LookupFailed"}
        /\ report.diagnosis = <<d>> /\ Explains(d, left, since, request)
        /\ sim' = [request |-> request, left |-> Tail(left),
                   at |-> IF Tail(left) = <<>> THEN "reported" ELSE "lookup",
                   report |-> [outcome |-> report.outcome, effects |-> report.effects,
                               amulet_fee |-> report.amulet_fee, diagnosis |-> <<e>>,
                               contract_states |-> Append(states,
                                                          [cid |-> c, state |-> state])]]
  BY LookupIs
<1> DEFINE e == Hinted(d, <<state, c>>)  entry == [cid |-> c, state |-> state]
           q == [outcome |-> report.outcome, effects |-> report.effects,
                 amulet_fee |-> report.amulet_fee, diagnosis |-> <<e>>,
                 contract_states |-> Append(states, entry)]
           at == IF Tail(left) = <<>> THEN "reported" ELSE "lookup"
<1>2. sim' = [request |-> request, left |-> Tail(left), at |-> at, report |-> q]
  BY <1>1
<1>3. IsDiagnosis(e) /\ e.code = d.code
  <2>1. IsDiagnosis(d)
    BY <1>1 DEF Explains
  <2>2. e = [code |-> d.code, phase |-> d.phase, retryable |-> d.retryable,
             contract_ids |-> d.contract_ids, hints |-> <<<<state, c>>>> \o d.hints]
    BY <2>1, HintedIs
  <2> HIDE DEF e
  <2> QED
    BY <2>2, DiagnosisIs
<1>4. IsReport(q) /\ q.diagnosis = <<e>> /\ q.contract_states = Append(states, entry)
  <2> HIDE DEF e, entry
  <2> QED
    BY ReportIs
<1> HIDE DEF e, q
<1>5. /\ sim'.request = request /\ sim'.left = Tail(left) /\ sim'.at = at /\ report' = q
      /\ sim' = [request |-> sim'.request, at |-> sim'.at, left |-> sim'.left,
                 report |-> sim'.report]
  BY <1>2 DEF report
<1>6. /\ ledger' = ledger /\ since' = since /\ submission' = submission /\ sim.at = "lookup"
  BY DEF lookup_contract
<1>7. Tail(left) \in Seq(Contracts) /\ Range(Tail(left)) \subseteq Range(left) /\ c \in Range(left)
  <2>1. Tail(left) \in Seq(Contracts) /\ Len(Tail(left)) = Len(left) - 1
        /\ \A i \in 1 .. Len(Tail(left)) : Tail(left)[i] = left[i + 1]
    BY <1>1, HeadTailProperties
  <2>2. /\ Len(left) \in Nat /\ DOMAIN left = 1 .. Len(left) /\ Len(left) # 0
        /\ DOMAIN Tail(left) = 1 .. Len(Tail(left))
    BY <1>1, <2>1, LenProperties, EmptySeq
  <2>3. c = left[1] /\ 1 \in DOMAIN left
    BY <1>1, <2>2
  <2>4. ASSUME NEW i \in DOMAIN Tail(left)
        PROVE  i + 1 \in DOMAIN left /\ Tail(left)[i] = left[i + 1]
    BY <2>1, <2>2
  <2> HIDE DEF left
  <2> QED
    BY <2>1, <2>3, <2>4 DEF Range
<1>8. Explains(e, Tail(left), since, request)
  BY <1>1, <1>3, <1>7 DEF Explains
<1>9. InCourse'
  BY <1>5, <1>6 DEF Known, InCourse
<1>10. /\ IsSeq(Append(states, entry)) /\ Range(Append(states, entry)) = Range(states) \cup {entry}
       /\ entry.cid \in Contracts
  <2>1. IsSeq(states) /\ entry.cid = c
    BY DEF Known, Looking
  <2> HIDE DEF entry
  <2> QED
    BY <1>1, <2>1, AppendIsSeq, RangeOfAppend
<1>11. Looking'
  <2>1. IsReport(report') /\ IsSeq(report'.contract_states)
    BY <1>4, <1>5, <1>10
  <2>2. \A s \in Range(report'.contract_states) : s.cid \in Contracts
    <3> HIDE DEF entry, states
    <3> QED
      BY <1>4, <1>5, <1>10 DEF Known, Looking, states
  <2>3. sim'.at = "lookup" => Tail(left) # <<>>
    BY <1>5
  <2>4. sim'.at = "lookup" =>
          /\ sim'.left \in Seq(Contracts) /\ sim'.left # <<>>
          /\ \E x : report'.diagnosis = <<x>> /\ Explains(x, sim'.left, since', sim'.request)
    <3> HIDE DEF left, request, at
    <3> QED
      BY <1>4, <1>5, <1>6, <1>7, <1>8, <2>3
  <2> QED
    BY <2>1, <2>2, <2>4 DEF Looking
<1>12. \A s \in Range(report'.contract_states) :
         StateHolds(s, report'.diagnosis, sim'.request, since', ledger')
  <2>1. ASSUME NEW s \in Range(states)
        PROVE  StateHolds(s, <<e>>, request, since, ledger)
    <3>1. StateHolds(s, <<d>>, request, since, ledger)
      <4>1. StateHolds(s, report.diagnosis, request, since, ledger)
        BY <2>1, StatesHoldEach DEF Known
      <4> QED
        BY <1>1, <4>1
    <3>2. <<d>>[1] = d /\ <<e>>[1] = e
      OBVIOUS
    <3> QED
      BY <1>3, <3>1, <3>2 DEF StateHolds
  <2>2. StateHolds(entry, <<e>>, request, since, ledger)
    <3>1. e.code = "CONTRACT_NOT_FOUND" => Missing(c, since, request)
      BY <1>3, <1>7, <1>8, <1>1 DEF Explains
    <3>2. since \in Ledgers /\ ledger \in Ledgers /\ Later(since, ledger)
      BY DEF Known, OnLedger
    <3>3. <<e>>[1] = e
      OBVIOUS
    <3> DEFINE ds == <<e>>
    <3>4. ds[1] = e
      BY <3>3
    <3> HIDE DEF ds, request
    <3>5. StateHolds(entry, ds, request, since, ledger)
      BY <1>1, <3>1, <3>2, <3>4, EventsSay
    <3> QED
      BY <3>5 DEF ds
  <2> HIDE DEF entry, states, request
  <2> QED
    BY <1>4, <1>5, <1>6, <1>10, <2>1, <2>2
<1>13. StatesHold'
  BY <1>12 DEF StatesHold, StateHolds
<1> QED
  BY <1>9, <1>11, <1>13

LEMMA InitKnown ==
  ASSUME Init
  PROVE  Known
<1>1. /\ sim.request = NoRequest /\ sim.at = "idle" /\ sim.left = <<>> /\ report = NoReport
      /\ sim = [request |-> sim.request, at |-> sim.at, left |-> sim.left,
                report |-> sim.report]
  BY DEF Init, report
<1>2. Range(report.contract_states) = {} /\ IsSeq(report.contract_states)
  BY <1>1, NoReportIs, NoneIsSeq DEF Range
<1>3. OnLedger
  BY LaterSame DEF Init, OnLedger, Ledgers, States, Fresh
<1>4. InCourse
  BY <1>1 DEF Init, InCourse
<1>5. Looking
  BY <1>1, <1>2, NoReportIs DEF Looking
<1>6. StatesHold
  BY <1>2 DEF StatesHold
<1> QED
  BY <1>3, <1>4, <1>5, <1>6 DEF Known

LEMMA on_preparedKnown ==
  ASSUME Known, NEW request \in Requests, on_prepared(request)
  PROVE  InCourse' /\ Looking' /\ StatesHold'
<1> DEFINE fee == amulet_fee_for(request)
<1>1. PICK effects : sim' = [request |-> request, at |-> "reported", left |-> <<>>,
                             report |-> [NoReport EXCEPT !.outcome = "WouldSucceed",
                                                         !.effects = effects,
                                                         !.amulet_fee = fee]]
  BY DEF on_prepared, Report
<1>2. Asked(request)
  BY DEF on_prepared
<1> DEFINE p == [NoReport EXCEPT !.outcome = "WouldSucceed", !.effects = effects,
                                 !.amulet_fee = fee]
<1> HIDE DEF fee
<1>3. IsReport(p) /\ p.contract_states = <<>>
  <2>1. p = [NoReport EXCEPT !.outcome = "WouldSucceed", !.effects = effects,
                             !.amulet_fee = fee]
    BY Zenon
  <2> HIDE DEF p
  <2>2. p = [outcome |-> "WouldSucceed", effects |-> effects, amulet_fee |-> fee,
             diagnosis |-> <<>>, contract_states |-> <<>>]
    BY <2>1 DEF NoReport
  <2> QED
    BY <2>2 DEF IsReport
<1> HIDE DEF p
<1> QED
  BY <1>1, <1>2, <1>3, AskedKnown DEF p

LEMMA NextKnown ==
  ASSUME Known, [Next]_vars
  PROVE  Known'
<1>1. OnLedger'
  BY StepOnLedger DEF Known
<1> SUFFICES InCourse' /\ Looking' /\ StatesHold'
  BY <1>1 DEF Known
<1>2. ASSUME NEW r \in Requests, Unreachable(r) \/ on_prepared(r) \/ on_rejected(r)
      PROVE  InCourse' /\ Looking' /\ StatesHold'
  <2>1. CASE Unreachable(r)
    <3>1. /\ Asked(r) /\ sim' = [request |-> r, at |-> "reported", left |-> <<>>,
                                 report |-> NoReport]
      BY <2>1 DEF Unreachable, Report
    <3> QED
      BY <3>1, NoReportIs, AskedKnown
  <2> QED
    BY <1>2, <2>1, on_preparedKnown, on_rejectedKnown
<1>3. CASE lookup_contract
  BY <1>3, LookupKnown
<1>4. ASSUME NEW c \in Contracts, OthersCreate(c) \/ OthersArchive(c)
      PROVE  InCourse' /\ Looking' /\ StatesHold'
  <2>1. UNCHANGED <<sim, since>> /\ UNCHANGED submission
    BY <1>4 DEF OthersCreate, OthersArchive
  <2> QED
    BY <2>1, StillKnown
<1>5. CASE Submit
  <2>1. UNCHANGED <<sim, since>> /\ sim.at = "reported"
    BY <1>5 DEF Submit
  <2> QED
    BY <2>1, StillKnown
<1>6. CASE UNCHANGED vars
  BY <1>6, StillKnown DEF vars
<1> QED
  BY <1>2, <1>3, <1>4, <1>5, <1>6 DEF Next

\* Whatever others create and archive between the calls of a simulation, what
\* lookup_contract says of a contract is so (simulate.rs): archived is final,
\* and what was not found and is active, or was never seen, was not there when
\* the request was interpreted.
THEOREM StatesHoldHolds == Spec => []StatesHold
<1>1. Init => Known
  BY InitKnown
<1>2. Known /\ [Next]_vars => Known'
  BY NextKnown
<1>3. Known => StatesHold
  BY DEF Known
<1> QED
  BY <1>1, <1>2, <1>3, PTL DEF Spec

-----------------------------------------------------------------------------
\* Fees: what is charged step by step is the rate of each unit, added up.

Steps == Len(Schedule.steps)

LEMMA ScheduleIs ==
  /\ Steps \in Nat /\ DOMAIN Schedule.steps = 1 .. Steps
  /\ \A i \in 1 .. Steps : Schedule.steps[i].threshold \in Nat /\ Schedule.steps[i].rate \in Nat
  /\ \A i, j \in 1 .. Steps :
       i <= j => Schedule.steps[i].threshold <= Schedule.steps[j].threshold
  /\ Price \in Nat /\ Schedule.create_fee \in Nat /\ Schedule.lock_holder_fee \in Nat
  /\ Schedule.initial_rate \in Nat
<1> DEFINE steps == Schedule.steps
<1>1. steps \in Seq([threshold : Nat, rate : Nat])
  BY ScheduleAssumption DEF ScheduleAssumption
<1>2. Steps \in Nat /\ DOMAIN steps = 1 .. Steps
  BY <1>1, LenProperties DEF Steps
<1>3. \A i \in 1 .. Steps : steps[i] \in [threshold : Nat, rate : Nat]
  BY <1>1, <1>2, ElementOfSeq DEF Steps
<1>4. \A i, j \in 1 .. Steps : i < j => steps[i].threshold < steps[j].threshold
  BY <1>2, ScheduleAssumption DEF ScheduleAssumption
<1>5. \A i \in 1 .. Steps : steps[i].threshold \in Nat /\ steps[i].rate \in Nat
  BY <1>3
<1>6. ASSUME NEW i \in 1 .. Steps, NEW j \in 1 .. Steps, i <= j
      PROVE  steps[i].threshold <= steps[j].threshold
  <2>1. i = j \/ i < j
    BY <1>2, <1>6
  <2> QED
    BY <1>4, <1>5, <2>1
<1> QED
  BY <1>2, <1>5, <1>6, ScheduleAssumption DEF ScheduleAssumption

LEMMA LowerIs ==
  /\ lower(1) = 0
  /\ \A i \in 1 .. (Steps + 1) : lower(i) \in Nat /\ rate(i) \in Nat
  /\ \A i \in 1 .. Steps : lower(i + 1) = Schedule.steps[i].threshold /\ lower(i) <= lower(i + 1)
<1>1. lower(1) = 0
  BY DEF lower
<1>2. ASSUME NEW i \in 1 .. (Steps + 1)
      PROVE  lower(i) \in Nat /\ rate(i) \in Nat
  <2>1. i = 1 \/ i - 1 \in 1 .. Steps
    BY ScheduleIs
  <2> QED
    BY <2>1, ScheduleIs DEF lower, rate
<1>3. ASSUME NEW i \in 1 .. Steps
      PROVE  lower(i + 1) = Schedule.steps[i].threshold
  BY ScheduleIs DEF lower
<1>4. ASSUME NEW i \in 1 .. Steps
      PROVE  lower(i) <= lower(i + 1)
  <2>1. i = 1 \/ i - 1 \in 1 .. Steps
    BY ScheduleIs
  <2>2. CASE i = 1
    BY <1>1, <1>3, <2>2, ScheduleIs
  <2>3. CASE i # 1 /\ i - 1 \in 1 .. Steps
    <3>1. lower(i) = Schedule.steps[i - 1].threshold
      BY <2>3 DEF lower
    <3>2. i - 1 <= i /\ i \in 1 .. Steps
      BY ScheduleIs
    <3> QED
      BY <1>3, <2>3, <3>1, <3>2, ScheduleIs
  <2> QED
    BY <2>1, <2>2, <2>3
<1> QED
  BY <1>1, <1>2, <1>3, <1>4

\* What is over lower(i) and within the threshold of step i has its rate.
LEMMA RateIs ==
  ASSUME NEW i \in 1 .. (Steps + 1), NEW u \in Nat, lower(i) < u,
         i = Steps + 1 \/ u <= lower(i + 1)
  PROVE  RateAt(u) = rate(i)
<1> DEFINE passed == {j \in DOMAIN Schedule.steps : Schedule.steps[j].threshold < u}
<1>1. passed = 1 .. (i - 1)
  <2>1. ASSUME NEW j \in 1 .. Steps, j <= i - 1
        PROVE  Schedule.steps[j].threshold < u
    <3>1. i - 1 \in 1 .. Steps /\ i # 1 /\ j <= i - 1
      BY <2>1, ScheduleIs
    <3>2. lower(i) = Schedule.steps[i - 1].threshold
      BY <3>1 DEF lower
    <3>3. Schedule.steps[j].threshold <= Schedule.steps[i - 1].threshold
      BY <2>1, <3>1, ScheduleIs
    <3>4. Schedule.steps[j].threshold \in Nat /\ lower(i) \in Nat
      BY ScheduleIs, LowerIs
    <3> QED
      BY <3>2, <3>3, <3>4
  <2>2. ASSUME NEW j \in 1 .. Steps, ~(j <= i - 1)
        PROVE  ~(Schedule.steps[j].threshold < u)
    <3>1. i \in 1 .. Steps /\ i <= j /\ i # Steps + 1
      BY <2>2, ScheduleIs
    <3>2. u <= Schedule.steps[i].threshold
      BY <3>1, LowerIs
    <3>3. Schedule.steps[i].threshold <= Schedule.steps[j].threshold
      BY <2>2, <3>1, ScheduleIs
    <3>4. Schedule.steps[i].threshold \in Nat /\ Schedule.steps[j].threshold \in Nat
      BY <3>1, ScheduleIs
    <3> QED
      BY <3>2, <3>3, <3>4
  <2>3. \A j \in 1 .. (i - 1) : j \in 1 .. Steps /\ j <= i - 1
    BY ScheduleIs
  <2>4. \A j \in 1 .. Steps : j <= i - 1 => j \in 1 .. (i - 1)
    BY ScheduleIs
  <2> QED
    BY <2>1, <2>2, <2>3, <2>4, ScheduleIs
<1>2. RateAt(u) = IF passed = {} THEN Schedule.initial_rate
                  ELSE Schedule.steps[Max(passed)].rate
  BY DEF RateAt
<1> HIDE DEF passed
<1>3. CASE i = 1
  <2>1. passed = {}
    BY <1>1, <1>3
  <2> QED
    BY <1>2, <1>3, <2>1 DEF rate
<1>4. CASE i # 1
  <2>1. i - 1 \in passed /\ \A j \in passed : i - 1 >= j /\ j \in Nat
    BY <1>1, <1>4, ScheduleIs
  <2>2. Max(passed) = i - 1
    <3>1. \E x \in passed : \A y \in passed : x >= y
      BY <2>1
    <3>2. Max(passed) \in passed /\ \A y \in passed : Max(passed) >= y
      BY <3>1 DEF Max
    <3>3. Max(passed) >= i - 1 /\ i - 1 >= Max(passed) /\ Max(passed) \in Nat /\ i - 1 \in Int
      BY <2>1, <3>2
    <3> QED
      BY <3>3
  <2>3. passed # {}
    BY <2>1
  <2> QED
    BY <1>2, <1>4, <2>2, <2>3 DEF rate
<1> QED
  BY <1>3, <1>4

LEMMA ConstantSum ==
  ASSUME NEW f, NEW a \in Nat, NEW r \in Nat, NEW b \in Nat, a <= b,
         \A u \in (a + 1) .. b : f[u] = r
  PROVE  IsTally(f, (a + 1) .. b) /\ SumFunctionOnSet(f, (a + 1) .. b) = (b - a) * r
<1> DEFINE Good == {k \in Nat : a + k <= b =>
                      /\ IsTally(f, (a + 1) .. (a + k))
                      /\ SumFunctionOnSet(f, (a + 1) .. (a + k)) = k * r}
<1>1. 0 \in Good
  <2>1. (a + 1) .. (a + 0) = {}
    OBVIOUS
  <2>2. IsTally(f, {})
    BY FS_EmptySet DEF IsTally
  <2>3. SumFunctionOnSet(f, {}) = 0
    BY <2>2, SumFacts
  <2> QED
    BY <2>1, <2>2, <2>3
<1>2. ASSUME NEW k \in Nat, k \in Good
      PROVE  k + 1 \in Good
  <2> SUFFICES ASSUME a + (k + 1) <= b
               PROVE  /\ IsTally(f, (a + 1) .. (a + (k + 1)))
                      /\ SumFunctionOnSet(f, (a + 1) .. (a + (k + 1))) = (k + 1) * r
    OBVIOUS
  <2> DEFINE S == (a + 1) .. (a + k)  x == a + (k + 1)
  <2>1. IsTally(f, S) /\ SumFunctionOnSet(f, S) = k * r
    BY <1>2
  <2>2. (a + 1) .. (a + (k + 1)) = S \cup {x} /\ x \notin S
    OBVIOUS
  <2>3. f[x] = r
    OBVIOUS
  <2>4. IsTally(f, S \cup {x}) /\ SumFunctionOnSet(f, S \cup {x}) = r + k * r
    <3> HIDE DEF S, x
    <3> QED
      BY <2>1, <2>2, <2>3, SumAdds
  <2>5. (k + 1) * r = r + k * r
    OBVIOUS
  <2> QED
    BY <2>2, <2>4, <2>5
<1>3. b - a \in Good
  <2>1. b - a \in Nat
    OBVIOUS
  <2> HIDE DEF Good
  <2> QED
    BY <1>1, <1>2, <2>1, AllNaturals
<1>4. a + (b - a) = b
  OBVIOUS
<1> QED
  BY <1>3, <1>4

UnitRates == [u \in Nat |-> RateAt(u)]
Charges == [i \in 1 .. Steps |-> (lower(i + 1) - lower(i)) * rate(i)]

\* The units of one step, or of the part of it that is reached.
LEMMA UnitsOfStep ==
  ASSUME NEW i \in 1 .. (Steps + 1), NEW n \in Nat, lower(i) <= n,
         i = Steps + 1 \/ n <= lower(i + 1)
  PROVE  /\ IsTally(UnitRates, (lower(i) + 1) .. n)
         /\ SumFunctionOnSet(UnitRates, (lower(i) + 1) .. n) = (n - lower(i)) * rate(i)
<1>1. lower(i) \in Nat /\ rate(i) \in Nat /\ (i # Steps + 1 => lower(i + 1) \in Nat)
  <2>1. i # Steps + 1 => i + 1 \in 1 .. (Steps + 1)
    BY ScheduleIs
  <2> QED
    BY <2>1, LowerIs
<1>2. ASSUME NEW u \in (lower(i) + 1) .. n
      PROVE  UnitRates[u] = rate(i)
  <2>1. u \in Nat /\ lower(i) < u /\ u <= n
    BY <1>1
  <2>2. i = Steps + 1 \/ u <= lower(i + 1)
    BY <1>1, <2>1
  <2> QED
    BY <2>1, <2>2, RateIs DEF UnitRates
<1> QED
  BY <1>1, <1>2, ConstantSum

LEMMA UnitsUpTo ==
  \A k \in 0 .. Steps :
    /\ IsTally(UnitRates, 1 .. lower(k + 1)) /\ IsTally(Charges, 1 .. k)
    /\ SumFunctionOnSet(UnitRates, 1 .. lower(k + 1)) = SumFunctionOnSet(Charges, 1 .. k)
<1> DEFINE Good == {k \in Nat : k <= Steps =>
              /\ IsTally(UnitRates, 1 .. lower(k + 1)) /\ IsTally(Charges, 1 .. k)
              /\ SumFunctionOnSet(UnitRates, 1 .. lower(k + 1)) = SumFunctionOnSet(Charges, 1 .. k)}
<1>1. 0 \in Good
  <2>1. 1 .. lower(0 + 1) = {} /\ 1 .. 0 = {}
    BY LowerIs
  <2>2. IsTally(UnitRates, {}) /\ IsTally(Charges, {})
    BY FS_EmptySet DEF IsTally
  <2>3. SumFunctionOnSet(UnitRates, {}) = 0 /\ SumFunctionOnSet(Charges, {}) = 0
    BY <2>2, SumFacts
  <2> QED
    BY <2>1, <2>2, <2>3
<1>2. ASSUME NEW k \in Nat, k \in Good
      PROVE  k + 1 \in Good
  <2> SUFFICES ASSUME k + 1 <= Steps
               PROVE  /\ IsTally(UnitRates, 1 .. lower((k + 1) + 1))
                      /\ IsTally(Charges, 1 .. (k + 1))
                      /\ SumFunctionOnSet(UnitRates, 1 .. lower((k + 1) + 1)) =
                           SumFunctionOnSet(Charges, 1 .. (k + 1))
    OBVIOUS
  <2> DEFINE i == k + 1  a == lower(i)  b == lower(i + 1)
  <2>1. Steps \in Nat /\ i \in 1 .. Steps /\ i \in 1 .. (Steps + 1) /\ i + 1 \in 1 .. (Steps + 1)
    BY ScheduleIs
  <2>2. a \in Nat /\ b \in Nat /\ a <= b /\ rate(i) \in Nat
    BY <2>1, LowerIs
  <2>3. /\ IsTally(UnitRates, (a + 1) .. b)
        /\ SumFunctionOnSet(UnitRates, (a + 1) .. b) = (b - a) * rate(i)
    BY <2>1, <2>2, UnitsOfStep
  <2>4. /\ IsTally(UnitRates, 1 .. a) /\ IsTally(Charges, 1 .. k)
        /\ SumFunctionOnSet(UnitRates, 1 .. a) = SumFunctionOnSet(Charges, 1 .. k)
    BY <1>2, <2>1
  <2>5. Charges[i] = (b - a) * rate(i)
    BY <2>1 DEF Charges
  <2>6. Charges[i] \in Nat
    <3>1. SumFunctionOnSet(UnitRates, (a + 1) .. b) \in Nat
      BY <2>3, SumFacts
    <3> QED
      BY <2>3, <2>5, <3>1
  <2> HIDE DEF a, b
  <2>7. 1 .. b = (1 .. a) \cup ((a + 1) .. b) /\ (1 .. a) \cap ((a + 1) .. b) = {}
    BY <2>2
  <2> DEFINE U == 1 .. a  V == (a + 1) .. b  K == 1 .. k
  <2>8. IsTally(UnitRates, U) /\ IsTally(UnitRates, V) /\ IsTally(Charges, K)
    BY <2>3, <2>4
  <2>10. 1 .. i = K \cup {i} /\ i \notin K
    OBVIOUS
  <2> HIDE DEF U, V, K, i
  <2>9. /\ IsTally(UnitRates, U \cup V)
        /\ SumFunctionOnSet(UnitRates, U \cup V) =
             SumFunctionOnSet(UnitRates, U) + SumFunctionOnSet(UnitRates, V)
    <3>1. IsTally(UnitRates, U \cup V)
      BY <2>8, FS_Union DEF IsTally
    <3>2. U \cap V = {}
      BY <2>7 DEF U, V
    <3> QED
      BY <3>1, <3>2, SumDisjoint
  <2>11. /\ IsTally(Charges, K \cup {i})
         /\ SumFunctionOnSet(Charges, K \cup {i}) = Charges[i] + SumFunctionOnSet(Charges, K)
    BY <2>6, <2>8, <2>10, SumAdds
  <2>12. SumFunctionOnSet(Charges, K) \in Nat
    BY <2>8, SumFacts
  <2>13. 1 .. b = U \cup V
    BY <2>7 DEF U, V
  <2>14. SumFunctionOnSet(UnitRates, 1 .. b) = SumFunctionOnSet(Charges, 1 .. i)
    <3>1. SumFunctionOnSet(UnitRates, U) = SumFunctionOnSet(Charges, K)
      BY <2>4 DEF U, K
    <3>2. SumFunctionOnSet(UnitRates, V) = Charges[i]
      BY <2>3, <2>5 DEF V
    <3>3. SumFunctionOnSet(UnitRates, 1 .. b) = SumFunctionOnSet(Charges, K) + Charges[i]
      BY <2>9, <2>13, <3>1, <3>2
    <3>4. SumFunctionOnSet(Charges, 1 .. i) = Charges[i] + SumFunctionOnSet(Charges, K)
      BY <2>10, <2>11
    <3> QED
      BY <2>6, <2>12, <3>3, <3>4
  <2>15. IsTally(UnitRates, 1 .. b) /\ IsTally(Charges, 1 .. i)
    BY <2>9, <2>10, <2>11, <2>13
  <2> QED
    BY <2>14, <2>15 DEF b, i
<1>3. \A k \in Nat : k \in Good
  <2> HIDE DEF Good
  <2> QED
    BY <1>1, <1>2, AllNaturals
<1> QED
  BY <1>3, ScheduleIs

LEMMA DownIs ==
  ASSUME NEW n \in Nat, NEW S \in SUBSET (1 .. n), \A i \in S : \A j \in 1 .. i : j \in S
  PROVE  \E m \in 0 .. n : S = 1 .. m
<1> DEFINE out == {k \in Nat : k >= 1 /\ k \notin S}
<1>1. n + 1 \in out /\ out \in SUBSET Nat
  OBVIOUS
<1>2. PICK k \in out : \A j \in out : k <= j
  <2> HIDE DEF out
  <2> QED
    BY <1>1, LeastNatural
<1>3. k \in Nat /\ k >= 1 /\ k \notin S /\ k <= n + 1
  BY <1>1, <1>2
<1>4. \A j \in 1 .. (k - 1) : j \in S
  <2>1. \A j \in 1 .. (k - 1) : j \in Nat /\ j >= 1 /\ ~(k <= j)
    BY <1>3
  <2> QED
    BY <1>2, <2>1
<1>5. \A i \in S : i \in 1 .. (k - 1)
  <2> SUFFICES ASSUME NEW i \in S, ~(i \in 1 .. (k - 1))
               PROVE  FALSE
    OBVIOUS
  <2>1. i \in 1 .. n /\ k \in 1 .. i
    BY <1>3
  <2> QED
    BY <1>3, <2>1
<1>6. S = 1 .. (k - 1)
  BY <1>4, <1>5
<1>7. k - 1 \in 0 .. n
  BY <1>3
<1> QED
  BY <1>6, <1>7

\* The loop over the steps charges what the rates of the units add up to.
LEMMA PassedIs ==
  ASSUME NEW n \in Nat
  PROVE  \E m \in 0 .. Steps :
           /\ Passed(n) = 1 .. m /\ Cardinality(Passed(n)) = m
           /\ lower(m + 1) <= n \/ n = 0
           /\ m = Steps \/ n <= lower((m + 1) + 1)
<1>1. \A i \in Passed(n) : \A j \in 1 .. i : j \in Passed(n)
  BY ScheduleIs DEF Passed
<1>2. Passed(n) \in SUBSET (1 .. Steps)
  BY ScheduleIs DEF Passed
<1>3. PICK m \in 0 .. Steps : Passed(n) = 1 .. m
  <2> DEFINE S == Passed(n)
  <2> HIDE DEF S
  <2>1. \E m \in 0 .. Steps : S = 1 .. m
    BY <1>1, <1>2, ScheduleIs, DownIs DEF S
  <2> QED
    BY <2>1 DEF S
<1>4. Cardinality(Passed(n)) = m
  BY <1>3, FS_Interval, ScheduleIs
<1>5. m # 0 => Schedule.steps[m].threshold < n
  <2>1. m # 0 => m \in Passed(n) /\ m \in 1 .. m
    BY <1>3, ScheduleIs
  <2> QED
    BY <2>1 DEF Passed
<1>6. lower(m + 1) <= n
  <2>1. CASE m = 0
    BY <2>1, LowerIs
  <2>2. CASE m # 0
    <3>1. m \in 1 .. Steps
      BY <2>2, ScheduleIs
    <3>2. lower(m + 1) = Schedule.steps[m].threshold /\ Schedule.steps[m].threshold \in Nat
      BY <3>1, LowerIs, ScheduleIs
    <3> QED
      BY <1>5, <2>2, <3>2
  <2> QED
    BY <2>1, <2>2
<1>7. m # Steps => n <= lower((m + 1) + 1)
  <2> SUFFICES ASSUME m # Steps
               PROVE  n <= lower((m + 1) + 1)
    OBVIOUS
  <2>1. m + 1 \in 1 .. Steps /\ m + 1 \notin 1 .. m
    BY ScheduleIs
  <2>2. lower((m + 1) + 1) = Schedule.steps[m + 1].threshold
    BY <2>1, LowerIs
  <2>3. PICK j \in 1 .. (m + 1) : ~(Schedule.steps[j].threshold < n)
    <3>1. m + 1 \in DOMAIN Schedule.steps /\ m + 1 \notin Passed(n)
      BY <1>3, <2>1, ScheduleIs
    <3> QED
      BY <3>1 DEF Passed
  <2>4. j \in 1 .. Steps /\ j <= m + 1
    BY <2>1, ScheduleIs
  <2>5. Schedule.steps[j].threshold <= Schedule.steps[m + 1].threshold
    BY <2>1, <2>4, ScheduleIs
  <2>6. Schedule.steps[j].threshold \in Nat /\ Schedule.steps[m + 1].threshold \in Nat
    BY <2>1, <2>4, ScheduleIs
  <2> QED
    BY <2>2, <2>3, <2>5, <2>6
<1> QED
  BY <1>3, <1>4, <1>6, <1>7

\* The loop over the steps charges what the rates of the units add up to.
LEMMA FeeIsMarginal ==
  ASSUME NEW n \in Nat
  PROVE  /\ transfer_fee_usd(n) \in Nat
         /\ SumFunction([u \in 1 .. n |-> RateAt(u)]) = transfer_fee_usd(n)
<1>1. PICK m \in 0 .. Steps :
        /\ Passed(n) = 1 .. m /\ Cardinality(Passed(n)) = m
        /\ lower(m + 1) <= n \/ n = 0
        /\ m = Steps \/ n <= lower((m + 1) + 1)
  BY PassedIs
<1> DEFINE a == lower(m + 1)
<1>2. Steps \in Nat /\ m \in Nat /\ m + 1 \in 1 .. (Steps + 1) /\ m <= Steps
  BY ScheduleIs
<1>3. a \in Nat /\ rate(m + 1) \in Nat
  BY <1>2, LowerIs
<1>4. CASE n = 0
  <2>1. [u \in 1 .. n |-> RateAt(u)] = [u \in {} |-> RateAt(u)]
    BY <1>4
  <2> DEFINE f == [u \in {} |-> RateAt(u)]
  <2>2. SumFunction(f) = SumFunctionOnSet(f, {})
    BY SumOf
  <2>3. IsTally(f, {})
    BY FS_EmptySet DEF IsTally
  <2> HIDE DEF f
  <2>4. SumFunction(f) = 0
    BY <2>2, <2>3, SumFacts
  <2> QED
    BY <1>4, <2>1, <2>4 DEF f, transfer_fee_usd
<1>5. CASE n # 0
  <2> DEFINE i == m + 1
             charged == [j \in Passed(n) |-> (lower(j + 1) - lower(j)) * rate(j)]
             U == 1 .. a  V == (a + 1) .. n  K == 1 .. m
             f == [u \in 1 .. n |-> RateAt(u)]
  <2>1. a <= n /\ 1 .. n = U \cup V /\ U \cap V = {}
    BY <1>1, <1>3, <1>5
  <2>2. IsTally(UnitRates, V) /\ SumFunctionOnSet(UnitRates, V) = (n - a) * rate(i)
    <3>1. i = Steps + 1 \/ n <= lower(i + 1)
      BY <1>1, <1>2
    <3> HIDE DEF i
    <3> QED
      BY <1>2, <2>1, <3>1, UnitsOfStep DEF i
  <2>3. /\ IsTally(UnitRates, U) /\ IsTally(Charges, K)
        /\ SumFunctionOnSet(UnitRates, U) = SumFunctionOnSet(Charges, K)
    BY <1>2, UnitsUpTo
  <2>4. transfer_fee_usd(n) = SumFunction(charged) + (n - a) * rate(i)
    BY <1>1, <1>5 DEF transfer_fee_usd
  <2>5. SumFunction(charged) = SumFunctionOnSet(Charges, K)
    <3>1. \A j \in K : charged[j] = Charges[j]
      BY <1>1, <1>2 DEF Charges
    <3>2. SumFunction(charged) = SumFunctionOnSet(charged, K)
      BY <1>1, SumOf
    <3> HIDE DEF charged, K
    <3> QED
      BY <2>3, <3>1, <3>2, SumSame
  <2>6. \A u \in 1 .. n : f[u] = UnitRates[u]
    BY DEF UnitRates
  <2>7. SumFunction(f) = SumFunctionOnSet(f, 1 .. n)
    BY SumOf
  <2> HIDE DEF U, V, K, f, charged
  <2>8. /\ IsTally(UnitRates, 1 .. n)
        /\ SumFunctionOnSet(UnitRates, 1 .. n) =
             SumFunctionOnSet(UnitRates, U) + SumFunctionOnSet(UnitRates, V)
    <3>1. IsTally(UnitRates, U \cup V)
      BY <2>2, <2>3, FS_Union DEF IsTally
    <3>2. SumFunctionOnSet(UnitRates, U \cup V) =
            SumFunctionOnSet(UnitRates, U) + SumFunctionOnSet(UnitRates, V)
      BY <2>1, <3>1, SumDisjoint
    <3> QED
      BY <2>1, <3>1, <3>2
  <2>9. SumFunction(f) = SumFunctionOnSet(UnitRates, 1 .. n)
    BY <2>6, <2>7, <2>8, SumSame
  <2>10. SumFunctionOnSet(UnitRates, 1 .. n) \in Nat
    BY <2>8, SumFacts
  <2>11. SumFunction(f) = transfer_fee_usd(n)
    BY <2>2, <2>3, <2>4, <2>5, <2>8, <2>9
  <2> QED
    BY <2>9, <2>10, <2>11 DEF f
<1> QED
  BY <1>4, <1>5

\* The fees of one output as they are quoted and as they are scheduled.
OutputFee(output) == IF output.to_self THEN 0 ELSE transfer_fee_usd(output.amount * Price)

LEMMA OutputFeeIs ==
  ASSUME NEW output, output.amount \in Nat
  PROVE  OutputFee(output) \in Nat /\ OutputFee(output) = Marginal(output)
<1>1. output.amount * Price \in Nat
  BY ScheduleIs
<1>2. /\ transfer_fee_usd(output.amount * Price) \in Nat
      /\ SumFunction([u \in 1 .. (output.amount * Price) |-> RateAt(u)]) =
           transfer_fee_usd(output.amount * Price)
  BY <1>1, FeeIsMarginal
<1> QED
  BY <1>2 DEF OutputFee, Marginal

Quoted(outputs) ==
  /\ IsTally([i \in DOMAIN outputs |-> OutputFee(outputs[i])], DOMAIN outputs)
  /\ IsTally([i \in DOMAIN outputs |-> outputs[i].lock_holders], DOMAIN outputs)

LEMMA OutputsAre ==
  ASSUME NEW outputs \in Seq([amount : Nat, to_self : BOOLEAN, lock_holders : Nat])
  PROVE  /\ Len(outputs) \in Nat /\ DOMAIN outputs = 1 .. Len(outputs)
         /\ \A i \in DOMAIN outputs : outputs[i].amount \in Nat /\ outputs[i].lock_holders \in Nat
         /\ Quoted(outputs)
<1>1. Len(outputs) \in Nat /\ DOMAIN outputs = 1 .. Len(outputs)
  BY LenProperties
<1>2. ASSUME NEW i \in DOMAIN outputs
      PROVE  outputs[i].amount \in Nat /\ outputs[i].lock_holders \in Nat
  <2>1. outputs[i] \in [amount : Nat, to_self : BOOLEAN, lock_holders : Nat]
    BY <1>1, ElementOfSeq
  <2> QED
    BY <2>1
<1>3. IsFiniteSet(DOMAIN outputs)
  BY <1>1, FS_Interval
<1>4. \A i \in DOMAIN outputs : OutputFee(outputs[i]) \in Nat
  BY <1>2, OutputFeeIs
<1> QED
  BY <1>1, <1>2, <1>3, <1>4 DEF Quoted, IsTally

\* A fee for each lock holder.
LEMMA Scaled ==
  ASSUME NEW S, NEW f, IsTally(f, S), NEW r \in Nat, NEW g, \A x \in S : g[x] = r * f[x]
  PROVE  IsTally(g, S) /\ SumFunctionOnSet(g, S) = r * SumFunctionOnSet(f, S)
<1> DEFINE P == {T \in SUBSET S : SumFunctionOnSet(g, T) = r * SumFunctionOnSet(f, T)}
<1>1. IsTally(g, S)
  <2>1. \A x \in S : g[x] \in Nat
    BY DEF IsTally
  <2> QED
    BY <2>1 DEF IsTally
<1>2. ASSUME NEW T \in SUBSET S, \A x \in T : T \ {x} \in P
      PROVE  T \in P
  <2>1. CASE T = {}
    <3>1. SumFunctionOnSet(f, {}) = 0 /\ SumFunctionOnSet(g, {}) = 0
      BY <1>1, SumFacts
    <3> QED
      BY <2>1, <3>1
  <2>2. CASE T # {}
    <3>1. PICK x \in T : TRUE
      BY <2>2
    <3>2. SumFunctionOnSet(g, T \ {x}) = r * SumFunctionOnSet(f, T \ {x})
      BY <1>2, <3>1
    <3>3. IsTally(f, T) /\ IsTally(g, T) /\ IsTally(f, T \ {x})
      BY <1>1, TallyWithin
    <3>4. /\ SumFunctionOnSet(f, T) = f[x] + SumFunctionOnSet(f, T \ {x})
          /\ SumFunctionOnSet(g, T) = g[x] + SumFunctionOnSet(g, T \ {x})
      BY <3>1, <3>3, SumFacts
    <3>5. f[x] \in Nat /\ g[x] = r * f[x] /\ SumFunctionOnSet(f, T \ {x}) \in Nat
      BY <3>1, <3>3, SumFacts DEF IsTally
    <3> DEFINE a == f[x]  b == SumFunctionOnSet(f, T \ {x})
    <3>6. r * a + r * b = r * (a + b)
      <4> HIDE DEF a, b
      <4>1. a \in Nat /\ b \in Nat
        BY <3>5 DEF a, b
      <4> QED
        BY <4>1
    <3> QED
      BY <3>2, <3>4, <3>5, <3>6
  <2> QED
    BY <2>1, <2>2
<1>3. \A T \in SUBSET S : T \in P
  <2> HIDE DEF P
  <2> QED
    BY <1>2, AllFinite DEF IsTally
<1> QED
  BY <1>1, <1>3

FeesOf(outputs) == SumFunction([i \in DOMAIN outputs |-> Marginal(outputs[i])])
HoldersOf(outputs) == SumFunction([i \in DOMAIN outputs |-> outputs[i].lock_holders])

QuotedAs(q, n, fees, holders) ==
  /\ q.outputs = n
  /\ q.transfer_fee = fees
  /\ q.total_usd = q.transfer_fee + n * Schedule.create_fee + holders * Schedule.lock_holder_fee

LEMMA QuoteIs ==
  ASSUME NEW outputs \in Seq([amount : Nat, to_self : BOOLEAN, lock_holders : Nat])
  PROVE  QuotedAs(quote_amulet_transfer(outputs), Len(outputs), FeesOf(outputs),
                  HoldersOf(outputs))
<1> DEFINE D == DOMAIN outputs  n == Len(outputs)
           fees == [i \in D |-> IF outputs[i].to_self THEN 0
                                ELSE transfer_fee_usd(outputs[i].amount * Price)]
           marginal == [i \in D |-> Marginal(outputs[i])]
           locks == [i \in D |-> Schedule.lock_holder_fee * outputs[i].lock_holders]
           holders == [i \in D |-> outputs[i].lock_holders]
           q == quote_amulet_transfer(outputs)
<1>1. /\ n \in Nat /\ D = 1 .. n /\ IsTally(holders, D)
      /\ \A i \in D : outputs[i].amount \in Nat /\ outputs[i].lock_holders \in Nat
  BY OutputsAre DEF Quoted
<1>2. IsTally(fees, D)
  <2>1. fees = [i \in D |-> OutputFee(outputs[i])]
    BY DEF OutputFee
  <2> HIDE DEF fees
  <2> QED
    BY <2>1, OutputsAre DEF Quoted
<1>3. SumFunction(fees) = FeesOf(outputs)
  <2>1. \A i \in D : marginal[i] = fees[i]
    BY <1>1, OutputFeeIs DEF OutputFee
  <2>2. SumFunction(fees) = SumFunctionOnSet(fees, D)
    BY SumOf
  <2>3. SumFunction(marginal) = SumFunctionOnSet(marginal, D)
    BY SumOf
  <2>4. FeesOf(outputs) = SumFunction(marginal)
    BY DEF FeesOf
  <2> HIDE DEF fees, marginal, D
  <2> QED
    BY <1>2, <2>1, <2>2, <2>3, <2>4, SumSame
<1>4. SumFunction(locks) = Schedule.lock_holder_fee * HoldersOf(outputs) /\ HoldersOf(outputs) \in Nat
  <2>1. \A i \in D : locks[i] = Schedule.lock_holder_fee * holders[i]
    OBVIOUS
  <2>2. SumFunction(locks) = SumFunctionOnSet(locks, D)
    BY SumOf
  <2>3. SumFunction(holders) = SumFunctionOnSet(holders, D)
    BY SumOf
  <2>4. HoldersOf(outputs) = SumFunction(holders)
    BY DEF HoldersOf
  <2>5. Schedule.lock_holder_fee \in Nat
    BY ScheduleIs
  <2> HIDE DEF locks, holders, D
  <2>6. SumFunctionOnSet(locks, D) = Schedule.lock_holder_fee * SumFunctionOnSet(holders, D)
    <3> DEFINE l == Schedule.lock_holder_fee
    <3> HIDE DEF l
    <3>1. l \in Nat /\ \A i \in D : locks[i] = l * holders[i]
      BY <2>1, <2>5 DEF l
    <3>2. SumFunctionOnSet(locks, D) = l * SumFunctionOnSet(holders, D)
      BY <1>1, <3>1, Scaled
    <3> QED
      BY <3>2 DEF l
  <2>7. SumFunctionOnSet(holders, D) \in Nat
    BY <1>1, SumFacts
  <2> QED
    BY <2>2, <2>3, <2>4, <2>6, <2>7
<1>5. q = [outputs |-> n, transfer_fee |-> SumFunction(fees),
           total_usd |-> SumFunction(fees) + SumFunction(locks) + Schedule.create_fee * n]
  BY DEF quote_amulet_transfer
<1>6. SumFunction(fees) \in Nat
  <2>1. SumFunction(fees) = SumFunctionOnSet(fees, D)
    BY SumOf
  <2> HIDE DEF fees, D
  <2> QED
    BY <1>2, <2>1, SumFacts
<1> DEFINE x == SumFunction(fees)  y == SumFunction(locks)  h == HoldersOf(outputs)
           c == Schedule.create_fee  l == Schedule.lock_holder_fee
<1>7. q.outputs = n /\ q.transfer_fee = x /\ q.total_usd = x + y + c * n
  <2> HIDE DEF x, y, n, q
  <2> QED
    BY <1>5 DEF x, y
<1>8. c \in Nat /\ l \in Nat
  BY ScheduleIs
<1>9. x + y + c * n = x + n * c + h * l
  <2>1. x \in Nat /\ h \in Nat /\ y = l * h /\ n \in Nat
    BY <1>1, <1>4, <1>6
  <2> HIDE DEF x, y, n, h, c, l
  <2> QED
    BY <1>8, <2>1
<1>10. QuotedAs(q, n, x, h)
  <2> HIDE DEF q, x, y, n, h
  <2> QED
    BY <1>7, <1>9 DEF QuotedAs
<1> QED
  BY <1>3, <1>10

\* The change costs a create fee, and nothing else.
LEMMA ChangeAdds ==
  ASSUME NEW outputs \in Seq([amount : Nat, to_self : BOOLEAN, lock_holders : Nat]),
         NEW all, all = Append(outputs, Change)
  PROVE  /\ all \in Seq([amount : Nat, to_self : BOOLEAN, lock_holders : Nat])
         /\ Len(all) = Len(outputs) + 1
         /\ FeesOf(all) = FeesOf(outputs)
         /\ HoldersOf(all) = HoldersOf(outputs)
<1> DEFINE n == Len(outputs)  D == 1 .. n
           fees == [i \in DOMAIN all |-> Marginal(all[i])]
           fees0 == [i \in DOMAIN outputs |-> Marginal(outputs[i])]
           holders == [i \in DOMAIN all |-> all[i].lock_holders]
           holders0 == [i \in DOMAIN outputs |-> outputs[i].lock_holders]
<1>1. Change \in [amount : Nat, to_self : BOOLEAN, lock_holders : Nat]
  BY DEF Change
<1>2. /\ all \in Seq([amount : Nat, to_self : BOOLEAN, lock_holders : Nat])
      /\ Len(all) = n + 1 /\ \A i \in 1 .. n : all[i] = outputs[i] /\ all[n + 1] = Change
  BY <1>1, AppendProperties
<1>3. /\ n \in Nat /\ DOMAIN outputs = D /\ DOMAIN all = D \cup {n + 1} /\ n + 1 \notin D
      /\ all[n + 1] = Change
  BY <1>1, <1>2, OutputsAre, AppendProperties
<1>4. IsTally(fees0, D) /\ IsTally(holders0, D)
  <2>1. \A i \in D : fees0[i] \in Nat /\ holders0[i] \in Nat
    BY <1>3, OutputsAre, OutputFeeIs
  <2>2. IsFiniteSet(D)
    BY <1>3, FS_Interval
  <2> HIDE DEF fees0, holders0, D
  <2> QED
    BY <2>1, <2>2 DEF IsTally
<1>5. Marginal(Change) = 0 /\ Change.lock_holders = 0
  BY DEF Marginal, Change
<1>6. \A i \in D : fees[i] = fees0[i] /\ holders[i] = holders0[i]
  BY <1>2, <1>3
<1>7. fees[n + 1] = 0 /\ holders[n + 1] = 0
  BY <1>3, <1>5
<1>8. /\ SumFunction(fees) = SumFunctionOnSet(fees, D \cup {n + 1})
      /\ SumFunction(fees0) = SumFunctionOnSet(fees0, D)
      /\ SumFunction(holders) = SumFunctionOnSet(holders, D \cup {n + 1})
      /\ SumFunction(holders0) = SumFunctionOnSet(holders0, D)
  BY <1>3, SumOf
<1> HIDE DEF fees, fees0, holders, holders0, D
<1>9. /\ IsTally(fees, D) /\ SumFunctionOnSet(fees, D) = SumFunctionOnSet(fees0, D)
      /\ IsTally(holders, D) /\ SumFunctionOnSet(holders, D) = SumFunctionOnSet(holders0, D)
  BY <1>4, <1>6, SumSame DEF IsTally
<1>10. /\ SumFunctionOnSet(fees, D \cup {n + 1}) = 0 + SumFunctionOnSet(fees, D)
       /\ SumFunctionOnSet(holders, D \cup {n + 1}) = 0 + SumFunctionOnSet(holders, D)
  <2> DEFINE x == n + 1
  <2>1. x \notin D /\ fees[x] = 0 /\ holders[x] = 0 /\ fees[x] \in Nat /\ holders[x] \in Nat
    BY <1>3, <1>7
  <2> HIDE DEF x
  <2>2. SumFunctionOnSet(fees, D \cup {x}) = fees[x] + SumFunctionOnSet(fees, D)
    BY <1>9, <2>1, SumAdds
  <2>3. SumFunctionOnSet(holders, D \cup {x}) = holders[x] + SumFunctionOnSet(holders, D)
    BY <1>9, <2>1, SumAdds
  <2>4. /\ SumFunctionOnSet(fees, D \cup {x}) = 0 + SumFunctionOnSet(fees, D)
        /\ SumFunctionOnSet(holders, D \cup {x}) = 0 + SumFunctionOnSet(holders, D)
    BY <2>1, <2>2, <2>3
  <2> QED
    BY <2>4 DEF x
<1>11. SumFunctionOnSet(fees0, D) \in Nat /\ SumFunctionOnSet(holders0, D) \in Nat
  BY <1>4, SumFacts
<1>12. SumFunction(fees) = SumFunction(fees0) /\ SumFunction(holders) = SumFunction(holders0)
  BY <1>8, <1>9, <1>10, <1>11
<1> QED
  BY <1>2, <1>12 DEF FeesOf, HoldersOf, fees, fees0, holders, holders0

LEMMA FeeIs ==
  ASSUME NEW request \in Requests, NEW q \in Range(amulet_fee_for(request))
  PROVE  LET t == request.transfer
             n == Len(t.outputs) + (IF t.choice = "TransferFactory_Transfer" THEN 1 ELSE 0)
         IN  QuotedAs(q, n, FeesOf(t.outputs), HoldersOf(t.outputs))
<1> DEFINE t == request.transfer
           all == IF t.choice = "TransferFactory_Transfer" THEN Append(t.outputs, Change)
                  ELSE t.outputs
           n == Len(t.outputs) + (IF t.choice = "TransferFactory_Transfer" THEN 1 ELSE 0)
<1>1. t.outputs \in Seq([amount : Nat, to_self : BOOLEAN, lock_holders : Nat])
  BY RequestAssumption DEF RequestAssumption
<1>2. /\ all \in Seq([amount : Nat, to_self : BOOLEAN, lock_holders : Nat])
      /\ Len(all) = n /\ FeesOf(all) = FeesOf(t.outputs) /\ HoldersOf(all) = HoldersOf(t.outputs)
  <2>1. CASE t.choice = "TransferFactory_Transfer"
    <3>1. all = Append(t.outputs, Change) /\ n = Len(t.outputs) + 1
      BY <2>1
    <3> HIDE DEF all, n, t
    <3> QED
      BY <1>1, <3>1, ChangeAdds
  <2>2. CASE t.choice # "TransferFactory_Transfer"
    <3>1. all = t.outputs /\ n = Len(t.outputs)
      BY <1>1, <2>2, OutputsAre
    <3> HIDE DEF all, n, t
    <3> QED
      BY <1>1, <3>1
  <2> QED
    BY <2>1, <2>2
<1>3. amulet_fee_for(request) = IF all = <<>> THEN <<>> ELSE <<quote_amulet_transfer(all)>>
  BY DEF amulet_fee_for
<1> HIDE DEF all, n
<1>4. q = quote_amulet_transfer(all)
  BY <1>3 DEF Range
<1>5. QuotedAs(q, Len(all), FeesOf(all), HoldersOf(all))
  BY <1>2, <1>4, QuoteIs
<1> QED
  BY <1>2, <1>5 DEF n

Answers(r) ==
  /\ Asked(r) /\ sim'.request = r
  /\ report'.amulet_fee \in {<<>>, amulet_fee_for(r)}
  /\ \/ report'.effects = <<>>
     \/ /\ Outcome(r, ledger).error = <<>>
        /\ report'.effects = <<effects_of(Prepared(Outcome(r, ledger).nodes))>>

Keeps ==
  /\ since' = since /\ sim'.request = sim.request
  /\ report'.amulet_fee = report.amulet_fee /\ report'.effects = report.effects

\* A report gets its effects and its fee with the answer, and keeps them.
LEMMA ReportStep ==
  ASSUME Known, [Next]_vars
  PROVE  Keeps \/ \E r \in Requests : Answers(r)
<1>1. ASSUME UNCHANGED <<sim, since>>
      PROVE  Keeps
  BY <1>1 DEF Keeps, report
<1>2. ASSUME NEW r \in Requests, Unreachable(r)
      PROVE  Answers(r)
  <2>1. /\ Asked(r) /\ sim' = [request |-> r, at |-> "reported", left |-> <<>>,
                               report |-> NoReport]
    BY <1>2 DEF Unreachable, Report
  <2>2. sim'.request = r /\ report' = NoReport
    BY <2>1 DEF report
  <2> QED
    BY <2>1, <2>2, NoReportIs DEF Answers
<1>3. ASSUME NEW r \in Requests, on_prepared(r)
      PROVE  Answers(r)
  <2> DEFINE fee == amulet_fee_for(r)
             all == <<effects_of(Prepared(Outcome(r, ledger).nodes))>>
  <2>1. PICK effects \in {all, <<>>} :
          sim' = [request |-> r, at |-> "reported", left |-> <<>>,
                  report |-> [NoReport EXCEPT !.outcome = "WouldSucceed",
                                              !.effects = effects, !.amulet_fee = fee]]
    BY <1>3 DEF on_prepared, Report
  <2>2. Asked(r) /\ Outcome(r, ledger).error = <<>>
    BY <1>3 DEF on_prepared
  <2> DEFINE p == [NoReport EXCEPT !.outcome = "WouldSucceed", !.effects = effects,
                                   !.amulet_fee = fee]
  <2> HIDE DEF fee, all
  <2>3. p.effects = effects /\ p.amulet_fee = fee
    <3>1. p = [NoReport EXCEPT !.outcome = "WouldSucceed", !.effects = effects,
                               !.amulet_fee = fee]
      BY Zenon
    <3> HIDE DEF p
    <3>2. p = [outcome |-> "WouldSucceed", effects |-> effects, amulet_fee |-> fee,
               diagnosis |-> <<>>, contract_states |-> <<>>]
      BY <3>1 DEF NoReport
    <3> QED
      BY <3>2
  <2> HIDE DEF p
  <2>4. sim'.request = r /\ report' = p
    BY <2>1 DEF report, p
  <2> QED
    BY <2>2, <2>3, <2>4 DEF Answers, fee, all
<1>4. ASSUME NEW r \in Requests, on_rejected(r)
      PROVE  Answers(r)
  <2> DEFINE fee == amulet_fee_for(r)
  <2>1. PICK ds, at, left :
          sim' = [request |-> r, at |-> at, left |-> left,
                  report |-> [NoReport EXCEPT !.outcome = "WouldFail", !.diagnosis = ds,
                                              !.amulet_fee = fee]]
    BY <1>4 DEF on_rejected, Rejected
  <2>2. Asked(r)
    BY <1>4 DEF on_rejected
  <2> DEFINE p == [NoReport EXCEPT !.outcome = "WouldFail", !.diagnosis = ds,
                                   !.amulet_fee = fee]
  <2> HIDE DEF fee
  <2>3. p.effects = <<>> /\ p.amulet_fee = fee
    <3>1. p = [NoReport EXCEPT !.outcome = "WouldFail", !.diagnosis = ds, !.amulet_fee = fee]
      BY Zenon
    <3> HIDE DEF p
    <3>2. p = [outcome |-> "WouldFail", effects |-> <<>>, amulet_fee |-> fee,
               diagnosis |-> ds, contract_states |-> <<>>]
      BY <3>1 DEF NoReport
    <3> QED
      BY <3>2
  <2> HIDE DEF p
  <2>4. sim'.request = r /\ report' = p
    BY <2>1 DEF report, p
  <2> QED
    BY <2>2, <2>3, <2>4 DEF Answers, fee
<1>5. ASSUME lookup_contract
      PROVE  Keeps
  <2>1. PICK c, state, d :
          sim' = [request |-> sim.request, left |-> Tail(sim.left),
                  at |-> IF Tail(sim.left) = <<>> THEN "reported" ELSE "lookup",
                  report |-> [outcome |-> report.outcome, effects |-> report.effects,
                              amulet_fee |-> report.amulet_fee,
                              diagnosis |-> <<Hinted(d, <<state, c>>)>>,
                              contract_states |-> Append(report.contract_states,
                                                         [cid |-> c, state |-> state])]]
    BY <1>5, LookupIs
  <2>2. /\ sim'.request = sim.request /\ report'.effects = report.effects
        /\ report'.amulet_fee = report.amulet_fee
    BY <2>1 DEF report
  <2>3. since' = since
    BY <1>5 DEF lookup_contract
  <2> QED
    BY <2>2, <2>3 DEF Keeps
<1>6. ASSUME NEW c \in Contracts, OthersCreate(c) \/ OthersArchive(c)
      PROVE  Keeps
  BY <1>1, <1>6 DEF OthersCreate, OthersArchive
<1>7. ASSUME Submit
      PROVE  Keeps
  BY <1>1, <1>7 DEF Submit
<1>8. ASSUME UNCHANGED vars
      PROVE  Keeps
  BY <1>1, <1>8 DEF vars
<1> QED
  BY <1>2, <1>3, <1>4, <1>5, <1>6, <1>7, <1>8 DEF Next

Priced ==
  \/ report.amulet_fee = <<>>
  \/ sim.request \in Requests /\ report.amulet_fee = amulet_fee_for(sim.request)

LEMMA PricedSays ==
  ASSUME Priced
  PROVE  FeeAsScheduled
<1> SUFFICES ASSUME NEW q \in Range(report.amulet_fee)
             PROVE  LET t == sim.request.transfer
                        n == Len(t.outputs)
                             + (IF t.choice = "TransferFactory_Transfer" THEN 1 ELSE 0)
                    IN  QuotedAs(q, n, FeesOf(t.outputs), HoldersOf(t.outputs))
  BY DEF FeeAsScheduled, QuotedAs, FeesOf, HoldersOf
<1>1. sim.request \in Requests /\ report.amulet_fee = amulet_fee_for(sim.request)
  BY DEF Priced, Range
<1> QED
  BY <1>1, FeeIs

\* The fee of a report is, for every schedule with ascending thresholds, the
\* marginal rate of each unit sent to others added up and the fees of every
\* output, change included (quote_amulet_transfer, transfer_fee_usd and the
\* change output amulet_fee_for adds).
THEOREM FeeAsScheduledHolds == Spec => []FeeAsScheduled
<1>1. Init => Known /\ Priced
  <2> SUFFICES ASSUME Init
               PROVE  Known /\ Priced
    OBVIOUS
  <2>1. report = NoReport
    BY DEF Init, report
  <2> QED
    BY <2>1, InitKnown, NoReportIs DEF Priced
<1>2. Known /\ Priced /\ [Next]_vars => (Known /\ Priced)'
  <2> SUFFICES ASSUME Known, Priced, [Next]_vars
               PROVE  Known' /\ Priced'
    OBVIOUS
  <2>1. CASE Keeps
    BY <2>1, NextKnown DEF Keeps, Priced
  <2>2. ASSUME NEW r \in Requests, Answers(r)
        PROVE  Known' /\ Priced'
    BY <2>2, NextKnown DEF Answers, Priced
  <2> QED
    BY <2>1, <2>2, ReportStep
<1>3. Known /\ Priced => FeeAsScheduled
  BY PricedSays
<1> QED
  BY <1>1, <1>2, <1>3, PTL DEF Spec

-----------------------------------------------------------------------------
\* An interpretation that does not end in an error.

Goes(s, t, step, request) ==
  LET c == step.cid
      by == By(s, request)
  IN
  \/ step.op = "Rollback" /\ Adds(s, t, step, by, s.now, Len(s.nodes) + 1)
  \/ step.op = "End" /\ t = Close(s)
  \/ /\ step.op = "Create" /\ Owner[c] \in by
     /\ Adds(s, t, step, by, [s.now EXCEPT ![c] = "active"], s.at)
  \/ /\ step.op = "Fetch" /\ Usable(s, c, request)
     /\ Adds(s, t, step, by, s.now, s.at)
  \/ /\ step.op = "Exercise" /\ Usable(s, c, request) /\ Owner[c] \in by
     /\ Adds(s, t, step, {Owner[c]},
             [s.now EXCEPT ![c] = IF step.consuming THEN "archived" ELSE @],
             Len(s.nodes) + 1)

LEMMA PerformGoes ==
  ASSUME NEW s, IsState(s), s.error = <<>>, IsSeq(s.nodes), NEW request,
         NEW step, step.op \in Ops, NEW t, t = Perform(s, step, request), t.error = <<>>
  PROVE  Goes(s, t, step, request)
<1> DEFINE c == step.cid  by == By(s, request)
<1>1. ASSUME NEW code, NEW ids, Fails(s, t, code, ids)
      PROVE  FALSE
  <2>1. t.error = <<[code |-> code, ids |-> ids]>>
    <3> DEFINE error == <<[code |-> code, ids |-> ids]>>
    <3>1. t = Then(s.before, s.now, error, s.at, s.nodes)
      BY <1>1 DEF Fails
    <3> HIDE DEF error
    <3>2. t.error = error
      BY <3>1, ThenIs
    <3> QED
      BY <3>2 DEF error
  <2>2. PICK e : t.error = <<e>>
    BY <2>1, Zenon
  <2> QED
    BY <2>2
<1>2. ~Refuses(s, t, c)
  BY <1>1 DEF Refuses
<1> DEFINE now == [s.now EXCEPT ![c] = IF step.consuming THEN "archived" ELSE @]
<1>3. /\ step.op = "Fail" => Fails(s, t, "UNHANDLED_EXCEPTION", step.ids)
      /\ step.op = "Rollback" => Adds(s, t, step, by, s.now, Len(s.nodes) + 1)
      /\ step.op = "End" => t = Close(s)
      /\ step.op = "Create" =>
           \/ /\ Owner[c] \in by
              /\ Adds(s, t, step, by, [s.now EXCEPT ![c] = "active"], s.at)
           \/ Fails(s, t, "DAML_AUTHORIZATION_ERROR", <<>>)
      /\ step.op = "Fetch" =>
           \/ Usable(s, c, request) /\ Adds(s, t, step, by, s.now, s.at)
           \/ Refuses(s, t, c)
      /\ step.op = "Exercise" =>
           \/ /\ Usable(s, c, request) /\ Owner[c] \in by
              /\ Adds(s, t, step, {Owner[c]}, now, Len(s.nodes) + 1)
           \/ Fails(s, t, "DAML_AUTHORIZATION_ERROR", <<>>)
           \/ Refuses(s, t, c)
  BY PerformIs
<1> HIDE DEF now
<1>4. step.op \in {"Rollback", "End", "Create", "Fetch", "Exercise"}
  BY <1>1, <1>3 DEF Ops, Kinds
<1> QED
  BY <1>1, <1>2, <1>3, <1>4 DEF now, Goes

\* What adding a node does.
LEMMA AddsIs ==
  ASSUME NEW s, IsSeq(s.nodes), NEW t, NEW step, NEW by, NEW now, NEW at,
         Adds(s, t, step, by, now, at)
  PROVE  /\ t.before = s.before /\ t.now = now /\ t.error = <<>> /\ t.at = at
         /\ IsSeq(t.nodes) /\ Len(t.nodes) = Len(s.nodes) + 1 /\ Len(s.nodes) \in Nat
         /\ \A i \in 1 .. Len(s.nodes) : t.nodes[i] = s.nodes[i]
         /\ t.nodes[Len(s.nodes) + 1] = Node(s, step, by)
<1> DEFINE d == Append(s.nodes, Node(s, step, by))
<1>1. t = Then(s.before, now, <<>>, at, d)
  BY DEF Adds
<1>2. /\ IsSeq(d) /\ Len(d) = Len(s.nodes) + 1 /\ Len(s.nodes) \in Nat
      /\ \A i \in 1 .. Len(s.nodes) : d[i] = s.nodes[i]
      /\ d[Len(s.nodes) + 1] = Node(s, step, by)
  BY AppendIsSeq DEF IsSeq
<1> HIDE DEF d
<1>3. t.before = s.before /\ t.now = now /\ t.error = <<>> /\ t.at = at /\ t.nodes = d
  BY <1>1, ThenIs
<1> QED
  BY <1>2, <1>3

NodeIs(node, s, step, by) ==
  /\ node.kind = step.op /\ node.cid = step.cid
  /\ node.consuming = (step.op = "Exercise" /\ step.consuming)
  /\ node.parent = s.at /\ node.by = by /\ node.kept = s.now

LEMMA NodeFields ==
  ASSUME NEW s, NEW step, NEW by
  PROVE  NodeIs(Node(s, step, by), s, step, by)
BY DEF Node, NodeIs

\* Nodes are added at the end, and one for each step that is in the transaction.
Extends(s, t) ==
  /\ Len(s.nodes) \in Nat /\ Len(t.nodes) \in Nat /\ Len(s.nodes) <= Len(t.nodes)
  /\ \A i \in 1 .. Len(s.nodes) : t.nodes[i] = s.nodes[i]

LEMMA ExtendsOn ==
  ASSUME NEW s, NEW t, NEW u, Extends(s, t), Extends(t, u)
  PROVE  Extends(s, u)
BY DEF Extends

LEMMA PerformExtends ==
  ASSUME NEW request, NEW contracts, NEW s, Accords(s, contracts, request), s.error = <<>>,
         NEW step, step.op \in Ops, NEW t, t = Perform(s, step, request), t.error = <<>>
  PROVE  /\ Extends(s, t)
         /\ step.op # "End" => /\ Len(t.nodes) = Len(s.nodes) + 1
                               /\ t.nodes[Len(s.nodes) + 1].kind = step.op
                               /\ t.nodes[Len(s.nodes) + 1].cid = step.cid
<1>1. IsState(s) /\ IsSeq(s.nodes) /\ Len(s.nodes) \in Nat
  BY DEF Accords, IsSeq
<1>2. ASSUME NEW by, NEW now, NEW at, Adds(s, t, step, by, now, at)
      PROVE  /\ Extends(s, t)
             /\ Len(t.nodes) = Len(s.nodes) + 1
             /\ t.nodes[Len(s.nodes) + 1].kind = step.op
             /\ t.nodes[Len(s.nodes) + 1].cid = step.cid
  <2>1. /\ Len(t.nodes) = Len(s.nodes) + 1
        /\ \A i \in 1 .. Len(s.nodes) : t.nodes[i] = s.nodes[i]
        /\ t.nodes[Len(s.nodes) + 1] = Node(s, step, by)
    BY <1>1, <1>2, AddsIs
  <2> QED
    BY <1>1, <2>1, NodeFields DEF Extends, NodeIs
<1>3. CASE step.op = "End" /\ t = Close(s)
  <2>1. t.nodes = s.nodes
    <3>1. CASE s.at = 0
      BY <1>1, <1>3, <3>1, CloseIs
    <3>2. CASE s.at # 0
      <4> DEFINE now == IF s.nodes[s.at].kind = "Rollback" THEN s.nodes[s.at].kept ELSE s.now
      <4>1. t = Then(s.before, now, s.error, s.nodes[s.at].parent, s.nodes)
        BY <1>1, <1>3, <3>2, CloseIs
      <4> HIDE DEF now
      <4> QED
        BY <4>1, ThenIs
    <3> QED
      BY <3>1, <3>2
  <2> QED
    BY <1>1, <1>3, <2>1 DEF Extends
<1>4. \/ \E by, now, at : Adds(s, t, step, by, now, at)
      \/ step.op = "End" /\ t = Close(s)
  <2>1. Goes(s, t, step, request)
    BY <1>1, PerformGoes
  <2> QED
    BY <2>1, Zenon DEF Goes
<1> QED
  BY <1>2, <1>3, <1>4

\* An interpretation without an error: none of its steps ended in one.
Clean(request, contracts, after) ==
  /\ IsRun(request, contracts, after)
  /\ \A k \in 0 .. Len(request.commands) :
       Accords(after[k], contracts, request) /\ after[k].error = <<>>

LEMMA CleanIs ==
  ASSUME NEW request \in Requests, NEW contracts \in Ledgers, Fresh(contracts),
         Outcome(request, contracts).error = <<>>
  PROVE  \E after : Clean(request, contracts, after)
<1> DEFINE n == Len(request.commands)
<1>1. WellFormed(request) /\ n \in Nat
  BY RequestIs DEF WellFormed
<1>2. PICK after : IsRun(request, contracts, after)
  BY <1>1, RunIs
<1>3. \A k \in 0 .. n : Accords(after[k], contracts, request)
  BY <1>1, <1>2, RunAccords
<1> DEFINE Good == {j \in Nat : j <= n => after[n - j].error = <<>>}
<1>4. 0 \in Good
  <2>1. after[n].error = <<>> /\ n - 0 = n
    BY <1>1, <1>2 DEF IsRun
  <2> QED
    BY <2>1
<1>5. ASSUME NEW j \in Nat, j \in Good
      PROVE  j + 1 \in Good
  <2> SUFFICES ASSUME j + 1 <= n
               PROVE  after[n - (j + 1)].error = <<>>
    OBVIOUS
  <2> DEFINE k == n - j
  <2>1. k \in 1 .. n /\ n - (j + 1) = k - 1 /\ after[k].error = <<>>
    BY <1>1, <1>5
  <2> HIDE DEF k, n
  <2>2. after[k] = Perform(after[k - 1], request.commands[k], request)
    BY <1>2, <2>1 DEF IsRun, n
  <2>3. after[k - 1].error # <<>> => after[k] = after[k - 1]
    BY <2>2, PerformAfter
  <2> QED
    BY <2>1, <2>3
<1>6. \A j \in Nat : j \in Good
  <2> HIDE DEF Good
  <2> QED
    BY <1>4, <1>5, AllNaturals
<1>7. ASSUME NEW k \in 0 .. n
      PROVE  after[k].error = <<>>
  <2>1. n - k \in Nat /\ n - k <= n /\ n - (n - k) = k
    BY <1>1
  <2> QED
    BY <1>6, <2>1
<1> QED
  BY <1>2, <1>3, <1>7 DEF Clean

\* One step of it.
LEMMA CleanStep ==
  ASSUME NEW request, WellFormed(request), NEW contracts, NEW after,
         Clean(request, contracts, after), NEW k \in Nat, k + 1 \in 0 .. Len(request.commands)
  PROVE  LET step == request.commands[k + 1] IN
         /\ k \in 0 .. Len(request.commands) /\ k + 1 \in 1 .. Len(request.commands)
         /\ step.op \in Ops /\ step.cid \in Contracts
         /\ Accords(after[k], contracts, request) /\ after[k].error = <<>>
         /\ Accords(after[k + 1], contracts, request) /\ after[k + 1].error = <<>>
         /\ after[k + 1] = Perform(after[k], step, request)
         /\ Goes(after[k], after[k + 1], step, request)
         /\ Extends(after[k], after[k + 1])
<1> DEFINE n == Len(request.commands)  step == request.commands[k + 1]
<1>1. n \in Nat /\ k \in 0 .. n /\ k + 1 \in 1 .. n /\ (k + 1) - 1 = k
  BY DEF WellFormed
<1>2. step.op \in Ops /\ step.cid \in Contracts
  BY <1>1 DEF WellFormed
<1>3. /\ Accords(after[k], contracts, request) /\ after[k].error = <<>>
      /\ Accords(after[k + 1], contracts, request) /\ after[k + 1].error = <<>>
  BY <1>1 DEF Clean
<1>4. after[k + 1] = Perform(after[k], step, request)
  <2>1. after[k + 1] = Perform(after[(k + 1) - 1], step, request)
    BY <1>1 DEF Clean, IsRun
  <2> QED
    BY <1>1, <2>1
<1> HIDE DEF step
<1>5. Goes(after[k], after[k + 1], step, request)
  BY <1>2, <1>3, <1>4, PerformGoes DEF Accords
<1>6. Extends(after[k], after[k + 1])
  BY <1>2, <1>3, <1>4, PerformExtends
<1> QED
  BY <1>1, <1>2, <1>3, <1>4, <1>5, <1>6 DEF step

\* What a step added is in the transaction.
LEMMA CleanExtends ==
  ASSUME NEW request, WellFormed(request), NEW contracts, NEW after,
         Clean(request, contracts, after)
  PROVE  \A k \in 0 .. Len(request.commands) :
           Extends(after[k], after[Len(request.commands)])
<1> DEFINE n == Len(request.commands)
           Good == {j \in Nat : j <= n => Extends(after[n - j], after[n])}
<1>1. n \in Nat
  BY DEF WellFormed
<1>2. 0 \in Good
  <2>1. Accords(after[n], contracts, request)
    BY <1>1 DEF Clean
  <2>2. Extends(after[n], after[n]) /\ n - 0 = n
    BY <1>1, <2>1 DEF Accords, IsSeq, Extends
  <2> QED
    BY <2>2
<1>3. ASSUME NEW j \in Nat, j \in Good
      PROVE  j + 1 \in Good
  <2> SUFFICES ASSUME j + 1 <= n
               PROVE  Extends(after[n - (j + 1)], after[n])
    OBVIOUS
  <2> DEFINE k == n - (j + 1)
  <2>1. k \in Nat /\ k + 1 \in 0 .. n /\ k + 1 = n - j /\ Extends(after[k + 1], after[n])
    BY <1>1, <1>3
  <2> HIDE DEF k
  <2>2. Extends(after[k], after[k + 1])
    <3> HIDE DEF Good
    <3> QED
      BY <2>1, CleanStep
  <2>3. Extends(after[k], after[n])
    BY <2>1, <2>2, ExtendsOn
  <2> QED
    BY <2>3 DEF k
<1>4. \A j \in Nat : j \in Good
  <2> HIDE DEF Good
  <2> QED
    BY <1>2, <1>3, AllNaturals
<1> SUFFICES ASSUME NEW k \in 0 .. n
             PROVE  Extends(after[k], after[n])
  OBVIOUS
<1>5. n - k \in Nat /\ n - k <= n /\ n - (n - k) = k
  BY <1>1
<1> QED
  BY <1>4, <1>5

-----------------------------------------------------------------------------
\* Two interpretations, from ledgers that hold the same of the contracts A.

Alike(m, n, A) ==
  /\ m.kind = n.kind /\ m.cid = n.cid /\ m.consuming = n.consuming
  /\ m.parent = n.parent /\ m.by = n.by
  /\ \A c \in A : m.kept[c] = n.kept[c]

Abreast(s, t, A) ==
  /\ s.error = <<>> /\ t.error = <<>> /\ s.at = t.at
  /\ Len(s.nodes) = Len(t.nodes)
  /\ \A i \in 1 .. Len(s.nodes) : Alike(s.nodes[i], t.nodes[i], A)
  /\ \A c \in A : s.now[c] = t.now[c]

LEMMA BothAdd ==
  ASSUME NEW A, NEW s, NEW t, Abreast(s, t, A), IsSeq(s.nodes), IsSeq(t.nodes),
         NEW step, NEW by, NEW at, NEW u, NEW v, NEW now, NEW then,
         Adds(s, u, step, by, now, at), Adds(t, v, step, by, then, at),
         \A c \in A : now[c] = then[c]
  PROVE  Abreast(u, v, A)
<1>1. /\ u.now = now /\ u.error = <<>> /\ u.at = at
      /\ Len(u.nodes) = Len(s.nodes) + 1 /\ Len(s.nodes) \in Nat
      /\ \A i \in 1 .. Len(s.nodes) : u.nodes[i] = s.nodes[i]
      /\ u.nodes[Len(s.nodes) + 1] = Node(s, step, by)
  BY AddsIs
<1>2. /\ v.now = then /\ v.error = <<>> /\ v.at = at
      /\ Len(v.nodes) = Len(t.nodes) + 1
      /\ \A i \in 1 .. Len(t.nodes) : v.nodes[i] = t.nodes[i]
      /\ v.nodes[Len(t.nodes) + 1] = Node(t, step, by)
  BY AddsIs
<1>3. Alike(Node(s, step, by), Node(t, step, by), A)
  <2> DEFINE m == Node(s, step, by)  n == Node(t, step, by)
  <2>1. NodeIs(m, s, step, by) /\ NodeIs(n, t, step, by)
    BY NodeFields
  <2> HIDE DEF m, n
  <2>2. Alike(m, n, A)
    BY <2>1 DEF NodeIs, Alike, Abreast
  <2> QED
    BY <2>2 DEF m, n
<1>4. ASSUME NEW i \in 1 .. Len(u.nodes)
      PROVE  Alike(u.nodes[i], v.nodes[i], A)
  <2>1. CASE i \in 1 .. Len(s.nodes)
    BY <1>1, <1>2, <2>1 DEF Abreast
  <2>2. CASE i = Len(s.nodes) + 1
    BY <1>1, <1>2, <1>3, <2>2 DEF Abreast
  <2> QED
    BY <1>1, <2>1, <2>2
<1> QED
  BY <1>1, <1>2, <1>4 DEF Abreast

\* Without an error the first does not meet one the second would.
LEMMA BothGo ==
  ASSUME NEW request, NEW K \in Ledgers, NEW L \in Ledgers,
         NEW A, A = {c \in Contracts : K[c] = L[c]},
         NEW s, Accords(s, K, request), NEW t, Accords(t, L, request), Abreast(s, t, A),
         NEW step, step.op \in Ops, step.cid \in Contracts,
         step.op \in {"Fetch", "Exercise"} => step.cid \in A,
         NEW u, Goes(s, u, step, request), NEW v, v = Perform(t, step, request)
  PROVE  Abreast(u, v, A)
<1> DEFINE c == step.cid
<1>1. /\ IsState(s) /\ IsSeq(s.nodes) /\ s.now \in Ledgers /\ s.before = K /\ s.error = <<>>
      /\ IsState(t) /\ IsSeq(t.nodes) /\ t.now \in Ledgers /\ t.before = L /\ t.error = <<>>
      /\ s.at = t.at /\ s.at \in 0 .. Len(s.nodes)
      /\ Len(s.nodes) \in Nat /\ Len(s.nodes) = Len(t.nodes)
  BY DEF Accords, Abreast, IsSeq
<1>2. By(s, request) = By(t, request)
  <2>1. s.at # 0 => s.at \in 1 .. Len(s.nodes)
    BY <1>1
  <2> QED
    BY <1>1, <2>1 DEF By, Abreast, Alike
<1>3. c \in A => (Usable(s, c, request) <=> Usable(t, c, request))
  BY <1>1 DEF Usable, Abreast
<1>4. ASSUME NEW state
      PROVE  /\ \A d \in A : [s.now EXCEPT ![c] = state][d] = [t.now EXCEPT ![c] = state][d]
  BY <1>1 DEF Ledgers, Abreast
<1>5. \A d \in A : s.now[d] = t.now[d]
  BY DEF Abreast
<1> DEFINE by == By(t, request)
<1> HIDE DEF by
<1>6. /\ IsState(t) /\ t.error = <<>> /\ IsSeq(t.nodes)
       /\ v = Perform(t, step, request) /\ c = step.cid /\ by = By(t, request)
  BY <1>1 DEF by
<1> HIDE DEF c
<1>7. step.op = "Rollback" => Adds(t, v, step, by, t.now, Len(t.nodes) + 1)
  <2> SUFFICES ASSUME step.op = "Rollback"
               PROVE  Adds(t, v, step, by, t.now, Len(t.nodes) + 1)
    OBVIOUS
  <2> QED
    BY <1>6, PerformIs
<1>8. step.op = "End" => v = Close(t)
  <2> SUFFICES ASSUME step.op = "End"
               PROVE  v = Close(t)
    OBVIOUS
  <2> QED
    BY <1>6, PerformIs
<1>9. step.op = "Create" =>
        \/ Adds(t, v, step, by, [t.now EXCEPT ![c] = "active"], t.at)
        \/ Owner[c] \notin by
  <2> SUFFICES ASSUME step.op = "Create"
               PROVE  \/ Adds(t, v, step, by, [t.now EXCEPT ![c] = "active"], t.at)
                      \/ Owner[c] \notin by
    OBVIOUS
  <2> QED
    BY <1>6, PerformIs
<1>10. step.op = "Fetch" => Adds(t, v, step, by, t.now, t.at) \/ ~Usable(t, c, request)
  BY <1>6, PerformIs
<1>11. step.op = "Exercise" =>
        \/ Adds(t, v, step, {Owner[c]},
                [t.now EXCEPT ![c] = IF step.consuming THEN "archived" ELSE @], Len(t.nodes) + 1)
        \/ Owner[c] \notin by
        \/ ~Usable(t, c, request)
  BY <1>6, PerformIs
<1>12. CASE step.op = "Rollback" /\ Adds(s, u, step, By(s, request), s.now, Len(s.nodes) + 1)
  BY <1>1, <1>2, <1>5, <1>7, <1>12, BothAdd DEF by
<1>13. CASE step.op = "End" /\ u = Close(s)
  <2>1. v = Close(t)
    BY <1>8, <1>13
  <2>2. CASE s.at = 0
    BY <1>1, <1>13, <2>1, <2>2, CloseIs
  <2>3. CASE s.at # 0
    <3> DEFINE m == s.nodes[s.at]  n == t.nodes[t.at]
               now == IF m.kind = "Rollback" THEN m.kept ELSE s.now
               then == IF n.kind = "Rollback" THEN n.kept ELSE t.now
    <3>1. Alike(m, n, A)
      <4>1. s.at \in 1 .. Len(s.nodes) /\ n = t.nodes[s.at]
        BY <1>1, <2>3
      <4> HIDE DEF n
      <4> QED
        BY <4>1 DEF Abreast
    <3>2. m.parent = n.parent /\ \A d \in A : now[d] = then[d]
      BY <1>5, <3>1 DEF Alike
    <3>3. u = Then(s.before, now, s.error, m.parent, s.nodes)
      BY <1>1, <1>13, <2>3, CloseIs
    <3>4. v = Then(t.before, then, t.error, n.parent, t.nodes)
      BY <1>1, <2>1, <2>3, CloseIs
    <3> HIDE DEF now, then, m, n
    <3>5. u.now = now /\ u.error = <<>> /\ u.at = m.parent /\ u.nodes = s.nodes
      BY <1>1, <3>3, ThenIs
    <3>6. v.now = then /\ v.error = <<>> /\ v.at = n.parent /\ v.nodes = t.nodes
      BY <1>1, <3>4, ThenIs
    <3> QED
      BY <3>2, <3>5, <3>6 DEF Abreast
  <2> QED
    BY <2>2, <2>3
<1>14. CASE /\ step.op = "Create" /\ Owner[c] \in By(s, request)
            /\ Adds(s, u, step, By(s, request), [s.now EXCEPT ![c] = "active"], s.at)
  <2> DEFINE now == [s.now EXCEPT ![c] = "active"]  then == [t.now EXCEPT ![c] = "active"]
  <2>1. Adds(t, v, step, by, then, s.at)
    BY <1>1, <1>2, <1>9, <1>14 DEF by
  <2>2. \A d \in A : now[d] = then[d]
    BY <1>4
  <2>3. Adds(s, u, step, by, now, s.at)
    BY <1>2, <1>14 DEF by
  <2> HIDE DEF now, then
  <2> QED
    BY <1>1, <2>1, <2>2, <2>3, BothAdd
<1>15. CASE /\ step.op = "Fetch" /\ Usable(s, c, request)
            /\ Adds(s, u, step, By(s, request), s.now, s.at)
  <2>1. Adds(t, v, step, by, t.now, s.at)
    BY <1>1, <1>3, <1>10, <1>15 DEF c
  <2> QED
    BY <1>1, <1>2, <1>5, <1>15, <2>1, BothAdd DEF by
<1>16. CASE /\ step.op = "Exercise" /\ Usable(s, c, request) /\ Owner[c] \in By(s, request)
            /\ Adds(s, u, step, {Owner[c]},
                    [s.now EXCEPT ![c] = IF step.consuming THEN "archived" ELSE @],
                    Len(s.nodes) + 1)
  <2> DEFINE now == [s.now EXCEPT ![c] = IF step.consuming THEN "archived" ELSE @]
             then == [t.now EXCEPT ![c] = IF step.consuming THEN "archived" ELSE @]
  <2>1. c \in A
    BY <1>16 DEF c
  <2>2. Adds(t, v, step, {Owner[c]}, then, Len(s.nodes) + 1)
    BY <1>1, <1>2, <1>3, <1>11, <1>16, <2>1 DEF by
  <2>3. \A d \in A : now[d] = then[d]
    BY <1>1, <1>5, <2>1 DEF Ledgers
  <2>4. Adds(s, u, step, {Owner[c]}, now, Len(s.nodes) + 1)
    BY <1>16
  <2> HIDE DEF now, then
  <2> QED
    BY <1>1, <2>2, <2>3, <2>4, BothAdd
<1> QED
  BY <1>12, <1>13, <1>14, <1>15, <1>16 DEF Goes, c

\* The contracts the nodes of a kind are of.
CidsOf(nodes, kinds) ==
  {nodes[i].cid : i \in {j \in 1 .. Len(nodes) : nodes[j].kind \in kinds}}
InputsOf(nodes) == CidsOf(nodes, {"Exercise", "Fetch"}) \ CidsOf(nodes, {"Create"})

\* A contract that is used is one the transaction takes from the ledger, or new.
LEMMA UsedInputs ==
  ASSUME NEW request, WellFormed(request), NEW contracts, NEW after,
         Clean(request, contracts, after), NEW k \in Nat, k + 1 \in 0 .. Len(request.commands),
         request.commands[k + 1].op \in {"Fetch", "Exercise"}
  PROVE  \/ request.commands[k + 1].cid \in InputsOf(after[Len(request.commands)].nodes)
         \/ request.commands[k + 1].cid \in New
<1> DEFINE n == Len(request.commands)  step == request.commands[k + 1]
           s == after[k]  u == after[k + 1]  all == after[n].nodes  i == Len(s.nodes) + 1
<1>1. /\ Accords(s, contracts, request) /\ s.error = <<>> /\ u.error = <<>>
      /\ u = Perform(s, step, request) /\ step.op \in Ops
  BY CleanStep
<1>2. Extends(u, after[n])
  BY CleanExtends
<1>3. Accords(after[n], contracts, request)
  <2>1. n \in 0 .. n
    BY DEF WellFormed
  <2> QED
    BY <2>1 DEF Clean
<1> HIDE DEF n, step, s, u
<1>4. /\ Extends(s, u) /\ Len(u.nodes) = i
      /\ step.op # "End" => u.nodes[i].kind = step.op /\ u.nodes[i].cid = step.cid
  <2>1. step.op # "End"
    BY DEF step
  <2> QED
    BY <1>1, <2>1, PerformExtends
<1>5. i \in 1 .. Len(u.nodes) /\ i \in 1 .. Len(all) /\ all[i] = u.nodes[i]
  BY <1>2, <1>4 DEF Extends
<1>6. step.op \in {"Fetch", "Exercise"} /\ step.op # "End"
  BY DEF step
<1>7. step.cid \in CidsOf(all, {"Exercise", "Fetch"})
  <2>1. all[i].kind \in {"Exercise", "Fetch"} /\ all[i].cid = step.cid
    BY <1>4, <1>5, <1>6
  <2> HIDE DEF all, i
  <2> QED
    BY <1>5, <2>1 DEF CidsOf
<1>8. ASSUME NEW c \in CidsOf(all, {"Create"})
      PROVE  c \in New
  <2>1. PICK j \in 1 .. Len(all) : all[j].kind = "Create" /\ all[j].cid = c
    BY DEF CidsOf
  <2>2. NodeAccords(all[j], j, contracts)
    BY <1>3, <2>1 DEF Accords
  <2> QED
    BY <2>1, <2>2 DEF NodeAccords
<1>9. step.cid \in InputsOf(all) \/ step.cid \in New
  <2> HIDE DEF all
  <2> QED
    BY <1>7, <1>8 DEF InputsOf
<1> QED
  BY <1>9 DEF all, n, step

\* From a ledger that holds the same inputs, an interpretation without an error
\* takes the same course.
LEMMA SameCourse ==
  ASSUME NEW request \in Requests, NEW K \in Ledgers, Fresh(K), NEW L \in Ledgers, Fresh(L),
         Outcome(request, K).error = <<>>,
         \A c \in InputsOf(Outcome(request, K).nodes) : K[c] = L[c]
  PROVE  Abreast(Outcome(request, K), Outcome(request, L), {c \in Contracts : K[c] = L[c]})
<1> DEFINE n == Len(request.commands)  A == {c \in Contracts : K[c] = L[c]}
<1>1. WellFormed(request) /\ n \in Nat
  BY RequestIs DEF WellFormed
<1>2. PICK first : Clean(request, K, first)
  BY CleanIs
<1>3. PICK second : IsRun(request, L, second)
  BY <1>1, RunIs
<1>4. \A k \in 0 .. n : Accords(second[k], L, request)
  BY <1>1, <1>3, RunAccords
<1>5. Outcome(request, K) = first[n] /\ Outcome(request, L) = second[n]
  BY <1>2, <1>3 DEF IsRun, Clean
<1> DEFINE Good == {k \in Nat : k <= n => Abreast(first[k], second[k], A)}
<1>6. 0 \in Good
  <2>1. first[0] = Start(K) /\ second[0] = Start(L)
    BY <1>2, <1>3 DEF Clean, IsRun
  <2>2. first[0].error = <<>> /\ first[0].at = 0 /\ first[0].nodes = <<>> /\ first[0].now = K
    BY <2>1, ThenIs DEF Start
  <2>3. second[0].error = <<>> /\ second[0].at = 0 /\ second[0].nodes = <<>> /\ second[0].now = L
    BY <2>1, ThenIs DEF Start
  <2>4. Abreast(first[0], second[0], A)
    BY <2>2, <2>3 DEF Abreast
  <2> QED
    BY <2>4
<1>7. ASSUME NEW k \in Nat, k \in Good
      PROVE  k + 1 \in Good
  <2> SUFFICES ASSUME k + 1 <= n
               PROVE  Abreast(first[k + 1], second[k + 1], A)
    OBVIOUS
  <2> DEFINE step == request.commands[k + 1]
  <2>1. k + 1 \in 0 .. n /\ k + 1 \in 1 .. n /\ k \in 0 .. n /\ (k + 1) - 1 = k
    BY <1>1
  <2>2. Abreast(first[k], second[k], A)
    BY <1>1, <1>7
  <2> HIDE DEF Good
  <2>3. /\ step.op \in Ops /\ step.cid \in Contracts /\ Accords(first[k], K, request)
        /\ Goes(first[k], first[k + 1], step, request)
    BY <1>1, <1>2, <2>1, CleanStep
  <2>4. second[k + 1] = Perform(second[k], step, request)
    <3>1. second[k + 1] = Perform(second[(k + 1) - 1], step, request)
      BY <1>3, <2>1 DEF IsRun
    <3> QED
      BY <2>1, <3>1
  <2>5. step.op \in {"Fetch", "Exercise"} => step.cid \in A
    <3> SUFFICES ASSUME step.op \in {"Fetch", "Exercise"}
                 PROVE  K[step.cid] = L[step.cid]
      BY <2>3
    <3>1. step.cid \in InputsOf(first[n].nodes) \/ step.cid \in New
      BY <1>1, <1>2, <2>1, UsedInputs
    <3> QED
      BY <1>5, <3>1 DEF Fresh
  <2>6. Accords(second[k], L, request)
    BY <1>4, <2>1
  <2> HIDE DEF step, n, A
  <2>7. A = {c \in Contracts : K[c] = L[c]}
    BY DEF A
  <2> QED
    BY <2>2, <2>3, <2>4, <2>5, <2>6, <2>7, BothGo
<1>8. \A k \in Nat : k \in Good
  <2> HIDE DEF Good
  <2> QED
    BY <1>6, <1>7, AllNaturals
<1>9. Abreast(first[n], second[n], A)
  <2>1. n \in Good
    <3> HIDE DEF Good
    <3> QED
      BY <1>1, <1>8
  <2> HIDE DEF A
  <2> QED
    BY <1>1, <2>1
<1> QED
  BY <1>5, <1>9

-----------------------------------------------------------------------------
\* What the nodes of an interpretation say it did, if nothing was rolled back.

Consumes(node) == node.kind = "Exercise" /\ node.consuming
Creates(node) == node.kind = "Create"

Tells(s, contracts) ==
  /\ \A i \in 1 .. Len(s.nodes) : Consumes(s.nodes[i]) =>
       s.now[s.nodes[i].cid] = "archived" /\ contracts[s.nodes[i].cid] # "archived"
  /\ \A c \in Contracts : s.now[c] = "archived" =>
       contracts[c] = "archived"
       \/ \E i \in 1 .. Len(s.nodes) : Consumes(s.nodes[i]) /\ s.nodes[i].cid = c
  /\ \A i, j \in 1 .. Len(s.nodes) :
       Consumes(s.nodes[i]) /\ Consumes(s.nodes[j]) /\ s.nodes[i].cid = s.nodes[j].cid => i = j
  /\ \A i \in 1 .. Len(s.nodes) : Creates(s.nodes[i]) => s.now[s.nodes[i].cid] # "absent"
  /\ \A c \in Contracts : s.now[c] # "absent" =>
       contracts[c] # "absent"
       \/ \E i \in 1 .. Len(s.nodes) : Creates(s.nodes[i]) /\ s.nodes[i].cid = c

\* A node of what was created is of a step before.
Traced(s, k, request) ==
  \A i \in 1 .. Len(s.nodes) : Creates(s.nodes[i]) =>
    \E j \in 1 .. k : /\ request.commands[j].op = "Create"
                      /\ request.commands[j].cid = s.nodes[i].cid

\* What a node does to its contract.
Does(node, was, state, before) ==
  \/ ~Consumes(node) /\ ~Creates(node) /\ state = was
  \/ /\ Consumes(node) /\ ~Creates(node)
     /\ was = "active" /\ state = "archived" /\ before # "archived"
  \/ /\ Creates(node) /\ ~Consumes(node)
     /\ was = "absent" /\ state = "active" /\ before = "absent"

Added(s, t, node) ==
  /\ Len(s.nodes) \in Nat /\ Len(t.nodes) = Len(s.nodes) + 1
  /\ t.nodes[Len(s.nodes) + 1] = node /\ node.cid \in Contracts
  /\ \A i \in 1 .. Len(s.nodes) : t.nodes[i] = s.nodes[i] /\ s.nodes[i].cid \in Contracts

SetAt(was, now, c, state) ==
  now[c] = state /\ \A d \in Contracts : d # c => now[d] = was[d]

\* What it takes for a node that is added to leave that so.
LEMMA TellsOn ==
  ASSUME NEW contracts \in Ledgers, NEW s, s.now \in Ledgers, Tells(s, contracts),
         NEW t, NEW node, Added(s, t, node),
         NEW state \in States, SetAt(s.now, t.now, node.cid, state),
         Does(node, s.now[node.cid], state, contracts[node.cid])
  PROVE  Tells(t, contracts)
<1> DEFINE n == Len(s.nodes) + 1  c == node.cid
<1>1. /\ n \in 1 .. Len(t.nodes) /\ 1 .. Len(s.nodes) \subseteq 1 .. Len(t.nodes)
      /\ \A i \in 1 .. Len(t.nodes) : i \in 1 .. Len(s.nodes) \/ i = n
      /\ \A i \in 1 .. Len(s.nodes) : i # n
  BY DEF Added
<1>2. /\ t.now[c] = state /\ \A d \in Contracts : d # c => t.now[d] = s.now[d]
      /\ s.now[c] \in States
  BY DEF Added, Ledgers, SetAt
<1>3. /\ t.nodes[n] = node /\ \A i \in 1 .. Len(s.nodes) : t.nodes[i] = s.nodes[i]
      /\ \A i \in 1 .. Len(s.nodes) : s.nodes[i].cid \in Contracts
  BY DEF Added
<1> HIDE DEF n
<1>4. \A i \in 1 .. Len(s.nodes) : Consumes(s.nodes[i]) =>
        s.now[s.nodes[i].cid] = "archived" /\ contracts[s.nodes[i].cid] # "archived"
  BY DEF Tells
<1>5. ASSUME NEW i \in 1 .. Len(t.nodes), Consumes(t.nodes[i])
      PROVE  t.now[t.nodes[i].cid] = "archived" /\ contracts[t.nodes[i].cid] # "archived"
  <2>1. CASE i = n
    BY <1>2, <1>3, <1>5, <2>1 DEF Does
  <2>2. CASE i \in 1 .. Len(s.nodes)
    BY <1>2, <1>3, <1>4, <1>5, <2>2 DEF Does
  <2> QED
    BY <1>1, <2>1, <2>2
<1>6. ASSUME NEW d \in Contracts, t.now[d] = "archived"
      PROVE  contracts[d] = "archived"
             \/ \E i \in 1 .. Len(t.nodes) : Consumes(t.nodes[i]) /\ t.nodes[i].cid = d
  <2>1. CASE s.now[d] = "archived"
    <3>1. contracts[d] = "archived"
          \/ \E i \in 1 .. Len(s.nodes) : Consumes(s.nodes[i]) /\ s.nodes[i].cid = d
      BY <2>1 DEF Tells
    <3> QED
      BY <1>1, <1>3, <3>1
  <2>2. CASE s.now[d] # "archived"
    <3>1. d = c /\ Consumes(node)
      BY <1>2, <1>6, <2>2 DEF Does
    <3> QED
      BY <1>1, <1>3, <3>1
  <2> QED
    BY <2>1, <2>2
<1>7. ASSUME NEW i \in 1 .. Len(t.nodes), NEW j \in 1 .. Len(t.nodes),
             Consumes(t.nodes[i]), Consumes(t.nodes[j]), t.nodes[i].cid = t.nodes[j].cid
      PROVE  i = j
  <2>1. ASSUME NEW k \in 1 .. Len(s.nodes), Consumes(s.nodes[k]), Consumes(node)
        PROVE  s.nodes[k].cid # c
    <3>1. s.now[c] = "active"
      BY <2>1 DEF Does
    <3> QED
      BY <1>4, <2>1, <3>1
  <2>2. CASE i \in 1 .. Len(s.nodes) /\ j \in 1 .. Len(s.nodes)
    BY <1>3, <1>7, <2>2 DEF Tells
  <2>3. CASE i = n /\ j \in 1 .. Len(s.nodes)
    BY <1>3, <1>7, <2>1, <2>3
  <2>4. CASE j = n /\ i \in 1 .. Len(s.nodes)
    BY <1>3, <1>7, <2>1, <2>4
  <2> QED
    BY <1>1, <2>2, <2>3, <2>4
<1>8. ASSUME NEW i \in 1 .. Len(t.nodes), Creates(t.nodes[i])
      PROVE  t.now[t.nodes[i].cid] # "absent"
  <2>1. CASE i = n
    BY <1>2, <1>3, <1>8, <2>1 DEF Does
  <2>2. CASE i \in 1 .. Len(s.nodes)
    <3>1. s.now[s.nodes[i].cid] # "absent" /\ t.nodes[i] = s.nodes[i]
      BY <1>3, <1>8, <2>2 DEF Tells
    <3> QED
      BY <1>2, <1>3, <2>2, <3>1 DEF Does
  <2> QED
    BY <1>1, <2>1, <2>2
<1>9. ASSUME NEW d \in Contracts, t.now[d] # "absent"
      PROVE  contracts[d] # "absent"
             \/ \E i \in 1 .. Len(t.nodes) : Creates(t.nodes[i]) /\ t.nodes[i].cid = d
  <2>1. CASE s.now[d] # "absent"
    <3>1. contracts[d] # "absent"
          \/ \E i \in 1 .. Len(s.nodes) : Creates(s.nodes[i]) /\ s.nodes[i].cid = d
      BY <2>1 DEF Tells
    <3> QED
      BY <1>1, <1>3, <3>1
  <2>2. CASE s.now[d] = "absent"
    <3>1. d = c /\ Creates(node)
      BY <1>2, <1>9, <2>2 DEF Does
    <3> QED
      BY <1>1, <1>3, <3>1
  <2> QED
    BY <2>1, <2>2
<1> QED
  BY <1>5, <1>6, <1>7, <1>8, <1>9 DEF Tells

LEMMA TellsStep ==
  ASSUME NEW request, WellFormed(request), NEW contracts \in Ledgers, Fresh(contracts),
         NEW k \in Nat, k + 1 \in 1 .. Len(request.commands),
         NEW step, step = request.commands[k + 1],
         NEW s, Accords(s, contracts, request), Tells(s, contracts), Traced(s, k, request),
         NEW t, Goes(s, t, step, request),
         \A i \in 1 .. Len(t.nodes) : t.nodes[i].kind # "Rollback"
  PROVE  Tells(t, contracts) /\ Traced(t, k + 1, request)
<1> DEFINE c == step.cid  n == Len(s.nodes) + 1
<1>1. /\ IsState(s) /\ IsSeq(s.nodes) /\ Len(s.nodes) \in Nat
      /\ s.now \in Ledgers /\ Later(contracts, s.now)
      /\ s.at \in 0 .. Len(s.nodes)
      /\ \A i \in 1 .. Len(s.nodes) : NodeAccords(s.nodes[i], i, contracts)
  BY DEF Accords, IsSeq
<1>2. /\ c \in Contracts /\ step.op \in Ops
      /\ step.op = "Create" => c \in New
      /\ Len(request.commands) \in Nat
  BY DEF WellFormed
<1>3. \A i \in 1 .. Len(s.nodes) : s.nodes[i].cid \in Contracts
  BY <1>1 DEF NodeAccords
<1> HIDE DEF c
<1>4. ASSUME NEW by, NEW now, NEW at, Adds(s, t, step, by, now, at)
      PROVE  /\ Len(t.nodes) = Len(s.nodes) + 1 /\ t.now = now
             /\ \A i \in 1 .. Len(s.nodes) : t.nodes[i] = s.nodes[i]
             /\ NodeIs(t.nodes[n], s, step, by)
             /\ t.nodes[n].cid = c
  <2>1. /\ Len(t.nodes) = Len(s.nodes) + 1 /\ t.now = now
        /\ \A i \in 1 .. Len(s.nodes) : t.nodes[i] = s.nodes[i]
        /\ t.nodes[n] = Node(s, step, by)
    BY <1>1, <1>4, AddsIs
  <2>2. NodeIs(t.nodes[n], s, step, by)
    BY <2>1, NodeFields
  <2> QED
    BY <2>1, <2>2 DEF NodeIs, c
<1>5. ASSUME NEW by, NEW now, NEW at, Adds(s, t, step, by, now, at),
             NEW state \in States, SetAt(s.now, now, c, state),
             Does(t.nodes[n], s.now[c], state, contracts[c])
      PROVE  Tells(t, contracts)
  <2> DEFINE node == t.nodes[n]
  <2>1. /\ Len(t.nodes) = Len(s.nodes) + 1 /\ t.now = now /\ node.cid = c
        /\ \A i \in 1 .. Len(s.nodes) : t.nodes[i] = s.nodes[i]
    BY <1>4, <1>5
  <2>2. Does(node, s.now[node.cid], state, contracts[node.cid])
    BY <1>5, <2>1
  <2>3. SetAt(s.now, t.now, node.cid, state)
    BY <1>5, <2>1
  <2>4. Added(s, t, node)
    BY <1>1, <1>2, <1>3, <2>1 DEF Added
  <2>5. s.now \in Ledgers
    BY <1>1
  <2> HIDE DEF node, n
  <2> QED
    BY <2>2, <2>3, <2>4, <2>5, TellsOn
<1>6. ASSUME NEW by, NEW now, NEW at, Adds(s, t, step, by, now, at)
      PROVE  Traced(t, k + 1, request)
  <2> SUFFICES ASSUME NEW i \in 1 .. Len(t.nodes), Creates(t.nodes[i])
               PROVE  \E j \in 1 .. (k + 1) : /\ request.commands[j].op = "Create"
                                              /\ request.commands[j].cid = t.nodes[i].cid
    BY DEF Traced
  <2>1. /\ Len(t.nodes) = Len(s.nodes) + 1
        /\ \A j \in 1 .. Len(s.nodes) : t.nodes[j] = s.nodes[j]
        /\ NodeIs(t.nodes[n], s, step, by)
    BY <1>4, <1>6
  <2>2. CASE i = n
    BY <2>1, <2>2 DEF NodeIs, Creates
  <2>3. CASE i \in 1 .. Len(s.nodes)
    BY <2>1, <2>3 DEF Traced
  <2>4. i \in 1 .. Len(s.nodes) \/ i = n
    BY <1>1, <2>1
  <2> QED
    BY <2>2, <2>3, <2>4
<1>7. s.now[c] \in States /\ SetAt(s.now, s.now, c, s.now[c])
  BY <1>1, <1>2 DEF Ledgers, SetAt
<1>8. CASE step.op = "Rollback" /\ Adds(s, t, step, By(s, request), s.now, Len(s.nodes) + 1)
  <2>1. Len(t.nodes) = Len(s.nodes) + 1 /\ t.nodes[n].kind = "Rollback"
    BY <1>4, <1>8 DEF NodeIs
  <2> QED
    BY <1>1, <2>1
<1>9. CASE step.op = "End" /\ t = Close(s)
  <2>1. t.now = s.now /\ t.nodes = s.nodes
    <3>1. CASE s.at = 0
      BY <1>1, <1>9, <3>1, CloseIs
    <3>2. CASE s.at # 0
      <4> DEFINE now == IF s.nodes[s.at].kind = "Rollback" THEN s.nodes[s.at].kept ELSE s.now
      <4>1. t = Then(s.before, now, s.error, s.nodes[s.at].parent, s.nodes)
        BY <1>1, <1>9, <3>2, CloseIs
      <4> HIDE DEF now
      <4>2. t.nodes = s.nodes /\ t.now = now
        BY <4>1, ThenIs
      <4>3. now = s.now
        BY <1>1, <3>2, <4>2 DEF now
      <4> QED
        BY <4>2, <4>3
    <3> QED
      BY <3>1, <3>2
  <2>2. Tells(t, contracts)
    BY <2>1 DEF Tells
  <2>3. Traced(t, k + 1, request)
    BY <2>1 DEF Traced
  <2> QED
    BY <2>2, <2>3
<1>10. CASE /\ step.op = "Create"
            /\ Adds(s, t, step, By(s, request), [s.now EXCEPT ![c] = "active"], s.at)
  <2> DEFINE node == t.nodes[n]
  <2>1. Creates(node) /\ ~Consumes(node)
    BY <1>4, <1>10 DEF NodeIs, Creates, Consumes
  <2>2. contracts[c] = "absent"
    BY <1>2, <1>10 DEF Fresh
  <2>3. ASSUME NEW i \in 1 .. Len(s.nodes), Creates(s.nodes[i])
        PROVE  s.nodes[i].cid # c
    <3>1. PICK j \in 1 .. k : /\ request.commands[j].op = "Create"
                              /\ request.commands[j].cid = s.nodes[i].cid
      BY <2>3 DEF Traced
    <3>2. j \in 1 .. Len(request.commands) /\ j # k + 1
      BY <1>2
    <3> QED
      BY <1>10, <3>1, <3>2 DEF WellFormed, c
  <2>4. s.now[c] = "absent"
    BY <1>2, <2>2, <2>3 DEF Tells
  <2> DEFINE now == [s.now EXCEPT ![c] = "active"]
  <2>5. "active" \in States /\ SetAt(s.now, now, c, "active")
    BY <1>1, <1>2 DEF States, Ledgers, SetAt
  <2> HIDE DEF now
  <2>6. Adds(s, t, step, By(s, request), now, s.at)
    BY <1>10 DEF now
  <2>7. Tells(t, contracts)
    BY <1>5, <2>1, <2>2, <2>4, <2>5, <2>6 DEF Does
  <2> QED
    BY <1>6, <2>6, <2>7
<1>11. CASE step.op = "Fetch" /\ Adds(s, t, step, By(s, request), s.now, s.at)
  <2> DEFINE node == t.nodes[n]
  <2>1. ~Creates(node) /\ ~Consumes(node)
    BY <1>4, <1>11 DEF NodeIs, Creates, Consumes
  <2>2. Tells(t, contracts)
    BY <1>5, <1>7, <1>11, <2>1 DEF Does
  <2> QED
    BY <1>6, <1>11, <2>2
<1>12. CASE /\ step.op = "Exercise" /\ Usable(s, c, request)
            /\ Adds(s, t, step, {Owner[c]},
                    [s.now EXCEPT ![c] = IF step.consuming THEN "archived" ELSE @],
                    Len(s.nodes) + 1)
  <2> DEFINE node == t.nodes[n]  state == IF step.consuming THEN "archived" ELSE s.now[c]
             now == [s.now EXCEPT ![c] = IF step.consuming THEN "archived" ELSE @]
  <2>1. ~Creates(node) /\ (Consumes(node) <=> step.consuming)
    <3>1. node.kind = "Exercise" /\ node.consuming = (step.op = "Exercise" /\ step.consuming)
      BY <1>4, <1>12 DEF NodeIs
    <3> QED
      BY <1>12, <3>1 DEF Creates, Consumes
  <2>2. s.now[c] = "active" /\ contracts[c] # "archived"
    BY <1>1, <1>2, <1>12 DEF Usable, Later
  <2>3. SetAt(s.now, now, c, state) /\ state \in States
    BY <1>1, <1>2, <1>7 DEF States, Ledgers, SetAt
  <2>4. Adds(s, t, step, {Owner[c]}, now, Len(s.nodes) + 1)
    BY <1>12
  <2>5. state = IF Consumes(node) THEN "archived" ELSE s.now[c]
    BY <2>1
  <2> HIDE DEF state, now
  <2>6. Tells(t, contracts)
    <3>1. CASE Consumes(node)
      BY <1>5, <2>1, <2>2, <2>3, <2>4, <2>5, <3>1 DEF Does
    <3>2. CASE ~Consumes(node)
      BY <1>5, <2>1, <2>3, <2>4, <2>5, <3>2 DEF Does
    <3> QED
      BY <3>1, <3>2
  <2> QED
    BY <1>6, <2>4, <2>6
<1> QED
  BY <1>8, <1>9, <1>10, <1>11, <1>12 DEF Goes, c

\* What an interpretation without an error or a rollback node did to each
\* contract, and that it archived none twice.
LEMMA NodesSay ==
  ASSUME NEW request \in Requests, NEW contracts \in Ledgers, Fresh(contracts),
         Outcome(request, contracts).error = <<>>,
         \A i \in 1 .. Len(Outcome(request, contracts).nodes) :
           Outcome(request, contracts).nodes[i].kind # "Rollback"
  PROVE  Tells(Outcome(request, contracts), contracts)
<1> DEFINE n == Len(request.commands)
<1>1. WellFormed(request) /\ n \in Nat
  BY RequestIs DEF WellFormed
<1>2. PICK after : Clean(request, contracts, after)
  BY CleanIs
<1>3. Outcome(request, contracts) = after[n]
  BY <1>2 DEF Clean, IsRun
<1> DEFINE Good == {k \in Nat : k <= n => /\ Tells(after[k], contracts)
                                          /\ Traced(after[k], k, request)}
<1>4. 0 \in Good
  <2>1. after[0] = Start(contracts)
    BY <1>2 DEF Clean, IsRun
  <2>2. after[0].nodes = <<>> /\ after[0].now = contracts
    BY <2>1, ThenIs DEF Start
  <2>3. Tells(after[0], contracts) /\ Traced(after[0], 0, request)
    BY <2>2 DEF Tells, Traced
  <2> QED
    BY <2>3
<1>5. ASSUME NEW k \in Nat, k \in Good
      PROVE  k + 1 \in Good
  <2> SUFFICES ASSUME k + 1 <= n
               PROVE  Tells(after[k + 1], contracts) /\ Traced(after[k + 1], k + 1, request)
    OBVIOUS
  <2> DEFINE step == request.commands[k + 1]
  <2>1. k + 1 \in 0 .. n /\ k + 1 \in 1 .. n
    BY <1>1
  <2>2. Tells(after[k], contracts) /\ Traced(after[k], k, request)
    BY <1>1, <1>5
  <2> HIDE DEF Good
  <2>3. /\ Accords(after[k], contracts, request)
        /\ Goes(after[k], after[k + 1], step, request)
    BY <1>1, <1>2, <2>1, CleanStep
  <2>4. \A i \in 1 .. Len(after[k + 1].nodes) : after[k + 1].nodes[i].kind # "Rollback"
    <3>1. Extends(after[k + 1], after[n])
      BY <1>1, <1>2, <2>1, CleanExtends
    <3>2. ASSUME NEW i \in 1 .. Len(after[k + 1].nodes)
          PROVE  after[k + 1].nodes[i].kind # "Rollback"
      <4>1. i \in 1 .. Len(after[n].nodes) /\ after[n].nodes[i] = after[k + 1].nodes[i]
        BY <3>1 DEF Extends
      <4> QED
        BY <1>3, <4>1
    <3> QED
      BY <3>2
  <2> QED
    BY <1>1, <2>1, <2>2, <2>3, <2>4, TellsStep
<1>6. \A k \in Nat : k \in Good
  <2> HIDE DEF Good
  <2> QED
    BY <1>4, <1>5, AllNaturals
<1>7. n \in Good
  <2> HIDE DEF Good
  <2> QED
    BY <1>1, <1>6
<1>8. Tells(after[n], contracts)
  BY <1>1, <1>7
<1> QED
  BY <1>3, <1>8

-----------------------------------------------------------------------------
\* The walk over a prepared transaction.

Turned(w, nodes) ==
  IF w.stack = <<>> THEN w
  ELSE LET Here == {n \in Range(nodes) : n.node_id = Head(w.stack)} \ Range(w.listed)
           node == CHOOSE n \in Here : TRUE
       IN  IF Here = {} THEN [w EXCEPT !.stack = Tail(@)]
           ELSE [stack |-> node.children \o Tail(w.stack), listed |-> Append(w.listed, node)]

Kids(nodes) == [i \in DOMAIN nodes |-> Len(nodes[i].children)]
Turns(stack, nodes) == Len(stack) + SumFunction(Kids(nodes))

IsWalk(stack, nodes, after) ==
  /\ after[0] = [stack |-> stack, listed |-> <<>>]
  /\ \A k \in 1 .. Turns(stack, nodes) : after[k] = Turned(after[k - 1], nodes)
  /\ walk(stack, nodes) = after[Turns(stack, nodes)].listed

LEMMA WalkIs ==
  ASSUME NEW stack, NEW nodes, Turns(stack, nodes) \in Nat
  PROVE  \E after : IsWalk(stack, nodes, after)
<1> DEFINE First == [stack |-> stack, listed |-> <<>>]
           Step(w) == Turned(w, nodes)
           Follows(n, f) == f = [k \in 0 .. n |-> IF k = 0 THEN First ELSE Step(f[k - 1])]
           Given == {n \in Nat : \E f : Follows(n, f)}
           turns == Turns(stack, nodes)
<1> HIDE DEF Step, First
<1>1. 0 \in Given
  <2>1. Follows(0, [k \in 0 .. 0 |-> First])
    OBVIOUS
  <2> QED
    BY <2>1
<1>2. ASSUME NEW n \in Nat, n \in Given
      PROVE  n + 1 \in Given
  <2>1. PICK f : Follows(n, f)
    BY <1>2
  <2> DEFINE g == [k \in 0 .. (n + 1) |-> IF k <= n THEN f[k] ELSE Step(f[n])]
  <2>2. g = [k \in 0 .. (n + 1) |-> g[k]]
    OBVIOUS
  <2>3. \A k \in 0 .. (n + 1) : g[k] = IF k = 0 THEN First ELSE Step(g[k - 1])
    BY <2>1
  <2>4. Follows(n + 1, g)
    <3> HIDE DEF g
    <3> QED
      BY <2>2, <2>3
  <2> HIDE DEF g, Follows
  <2> QED
    BY <2>4
<1>3. turns \in Given
  <2> HIDE DEF Given
  <2> QED
    BY <1>1, <1>2, AllNaturals
<1> DEFINE after == CHOOSE f : Follows(turns, f)
<1>4. Follows(turns, after)
  <2>1. \E f : Follows(turns, f)
    BY <1>3
  <2> HIDE DEF Follows
  <2> QED
    BY <2>1
<1>5. walk(stack, nodes) = after[turns].listed
  BY DEF walk, Step, First, Turned, Turns, Kids
<1> HIDE DEF after
<1>6. after[0] = First /\ \A k \in 1 .. turns : after[k] = Step(after[k - 1])
  <2>1. \A k \in 0 .. turns : after[k] = IF k = 0 THEN First ELSE Step(after[k - 1])
    BY <1>4
  <2>2. turns \in Nat
    OBVIOUS
  <2> HIDE DEF turns
  <2>3. 0 \in 0 .. turns /\ \A k \in 1 .. turns : k \in 0 .. turns /\ k # 0
    BY <2>2
  <2> QED
    BY <2>1, <2>3
<1> QED
  BY <1>5, <1>6 DEF Step, First, IsWalk

\* Nodes by id, and the ids under each.
IsForest(nodes, n) ==
  /\ n \in Nat /\ DOMAIN nodes = 1 .. n
  /\ \A i \in 1 .. n : nodes[i].node_id = i /\ nodes[i].children \in Seq(1 .. n)

LEMMA KidsTally ==
  ASSUME NEW nodes, NEW n, IsForest(nodes, n)
  PROVE  /\ IsTally(Kids(nodes), 1 .. n)
         /\ \A i \in 1 .. n : Kids(nodes)[i] = Len(nodes[i].children)
         /\ SumFunction(Kids(nodes)) = SumFunctionOnSet(Kids(nodes), 1 .. n)
<1>1. n \in Nat /\ DOMAIN nodes = 1 .. n
  BY DEF IsForest
<1>2. \A i \in 1 .. n : Kids(nodes)[i] = Len(nodes[i].children) /\ Len(nodes[i].children) \in Nat
  BY <1>1, LenProperties DEF IsForest, Kids
<1>3. Kids(nodes) = [i \in 1 .. n |-> Kids(nodes)[i]]
  BY <1>1 DEF Kids
<1>4. IsFiniteSet(1 .. n)
  BY <1>1, FS_Interval
<1> QED
  BY <1>2, <1>3, <1>4, SumOf DEF IsTally

\* A listing without repetition.
Lists(listed, nodes, n) ==
  /\ IsSeq(listed)
  /\ \A j \in 1 .. Len(listed) : \E i \in 1 .. n : listed[j] = nodes[i]
  /\ \A j, k \in 1 .. Len(listed) : listed[j] = listed[k] => j = k

\* Those not listed are still to come, and there are turns enough for them.
Unlisted(listed, nodes, n) == {i \in 1 .. n : nodes[i] \notin Range(listed)}

OnWalk(w, nodes, n, left) ==
  /\ w = [stack |-> w.stack, listed |-> w.listed]
  /\ w.stack \in Seq(1 .. n)
  /\ Lists(w.listed, nodes, n)
  /\ Unlisted(w.listed, nodes, n) \subseteq Range(w.stack)
  /\ w.stack # <<>> =>
       Len(w.stack) + SumFunctionOnSet(Kids(nodes), Unlisted(w.listed, nodes, n)) <= left

Skips(w) == [w EXCEPT !.stack = Tail(@)]
Takes(w, node) == [stack |-> node.children \o Tail(w.stack), listed |-> Append(w.listed, node)]

LEMMA HereIs ==
  ASSUME NEW nodes, NEW n, IsForest(nodes, n), NEW h \in 1 .. n, NEW w, w.stack # <<>>,
         Head(w.stack) = h
  PROVE  /\ nodes[h] \in Range(w.listed) => Turned(w, nodes) = Skips(w)
         /\ nodes[h] \notin Range(w.listed) => Turned(w, nodes) = Takes(w, nodes[h])
<1> DEFINE Here == {m \in Range(nodes) : m.node_id = Head(w.stack)} \ Range(w.listed)
<1>1. {m \in Range(nodes) : m.node_id = Head(w.stack)} = {nodes[h]}
  <2>1. DOMAIN nodes = 1 .. n /\ \A i \in 1 .. n : nodes[i].node_id = i
    BY DEF IsForest
  <2>2. nodes[h] \in Range(nodes) /\ nodes[h].node_id = h
    BY <2>1 DEF Range
  <2>3. ASSUME NEW m \in Range(nodes), m.node_id = h
        PROVE  m = nodes[h]
    <3>1. PICK i \in 1 .. n : m = nodes[i]
      BY <2>1 DEF Range
    <3> QED
      BY <2>1, <2>3, <3>1
  <2> QED
    BY <2>2, <2>3
<1>2. nodes[h] \in Range(w.listed) => Here = {}
  BY <1>1
<1>3. nodes[h] \notin Range(w.listed) => Here = {nodes[h]}
  BY <1>1
<1>4. Turned(w, nodes) =
        IF Here = {} THEN Skips(w) ELSE Takes(w, CHOOSE m \in Here : TRUE)
  BY DEF Turned, Skips, Takes
<1> HIDE DEF Here
<1>5. CASE nodes[h] \in Range(w.listed)
  BY <1>2, <1>4, <1>5
<1>6. CASE nodes[h] \notin Range(w.listed)
  <2>1. Here # {} /\ (CHOOSE m \in Here : TRUE) = nodes[h]
    BY <1>3, <1>6
  <2>2. Turned(w, nodes) = Takes(w, CHOOSE m \in Here : TRUE)
    BY <1>4, <2>1
  <2> QED
    BY <1>6, <2>1, <2>2
<1> QED
  BY <1>5, <1>6

LEMMA TailIs ==
  ASSUME NEW S, NEW s \in Seq(S), s # <<>>
  PROVE  /\ Head(s) \in S /\ Tail(s) \in Seq(S)
         /\ Len(s) \in Nat /\ Len(s) >= 1 /\ Len(Tail(s)) = Len(s) - 1
         /\ Range(s) \subseteq Range(Tail(s)) \cup {Head(s)}
<1>1. /\ Head(s) \in S /\ Tail(s) \in Seq(S) /\ Len(Tail(s)) = Len(s) - 1
      /\ \A i \in 1 .. Len(Tail(s)) : Tail(s)[i] = s[i + 1]
  BY HeadTailProperties
<1>2. Len(s) \in Nat /\ Len(s) # 0 /\ DOMAIN s = 1 .. Len(s) /\ Head(s) = s[1]
  BY LenProperties, EmptySeq
<1>3. DOMAIN Tail(s) = 1 .. Len(Tail(s))
  BY <1>1, LenProperties
<1>4. ASSUME NEW x \in Range(s), x # Head(s)
      PROVE  x \in Range(Tail(s))
  <2>1. PICK i \in 1 .. Len(s) : x = s[i]
    BY <1>2 DEF Range
  <2>2. i # 1
    BY <1>2, <1>4, <2>1
  <2>3. i - 1 \in 1 .. Len(Tail(s)) /\ (i - 1) + 1 = i
    BY <1>1, <1>2, <2>2
  <2>4. Tail(s)[i - 1] = x
    BY <1>1, <2>1, <2>3
  <2> QED
    BY <1>3, <2>3, <2>4 DEF Range
<1> QED
  BY <1>1, <1>2, <1>4

LEMMA ConcatIs ==
  ASSUME NEW S, NEW s \in Seq(S), NEW t \in Seq(S)
  PROVE  /\ s \o t \in Seq(S)
         /\ Len(s \o t) = Len(s) + Len(t)
         /\ Range(t) \subseteq Range(s \o t)
<1>1. /\ s \o t \in Seq(S) /\ Len(s \o t) = Len(s) + Len(t)
      /\ \A i \in 1 .. Len(s) + Len(t) :
           (s \o t)[i] = IF i <= Len(s) THEN s[i] ELSE t[i - Len(s)]
  BY ConcatProperties
<1>2. /\ Len(s) \in Nat /\ Len(t) \in Nat /\ DOMAIN t = 1 .. Len(t)
      /\ DOMAIN (s \o t) = 1 .. (Len(s) + Len(t))
  BY <1>1, LenProperties
<1>3. ASSUME NEW i \in 1 .. Len(t)
      PROVE  t[i] \in Range(s \o t)
  <2>1. i + Len(s) \in 1 .. Len(s) + Len(t) /\ ~(i + Len(s) <= Len(s)) /\ (i + Len(s)) - Len(s) = i
    BY <1>2
  <2>2. (s \o t)[i + Len(s)] = t[i]
    BY <1>1, <2>1
  <2> QED
    BY <1>2, <2>1, <2>2 DEF Range
<1>4. Range(t) \subseteq Range(s \o t)
  BY <1>2, <1>3 DEF Range
<1> QED
  BY <1>1, <1>4

LEMMA ListsAppend ==
  ASSUME NEW nodes, NEW n, NEW listed, Lists(listed, nodes, n), NEW h \in 1 .. n,
         nodes[h] \notin Range(listed)
  PROVE  Lists(Append(listed, nodes[h]), nodes, n)
<1> DEFINE node == nodes[h]  all == Append(listed, node)
<1>1. /\ IsSeq(all) /\ Len(listed) \in Nat /\ Len(all) = Len(listed) + 1
      /\ \A j \in 1 .. Len(listed) : all[j] = listed[j]
      /\ all[Len(listed) + 1] = node
  BY AppendIsSeq DEF Lists, IsSeq
<1>2. \A j \in 1 .. Len(listed) : listed[j] # node
  BY DEF Lists, IsSeq, Range
<1>3. \A j \in 1 .. Len(all) : j \in 1 .. Len(listed) \/ j = Len(listed) + 1
  BY <1>1
<1>4. \A j \in 1 .. Len(listed) : \E i \in 1 .. n : listed[j] = nodes[i]
  BY DEF Lists
<1>5. \A j, k \in 1 .. Len(listed) : listed[j] = listed[k] => j = k
  BY DEF Lists
<1> HIDE DEF all
<1>6. ASSUME NEW j \in 1 .. Len(all)
      PROVE  \E i \in 1 .. n : all[j] = nodes[i]
  BY <1>1, <1>3, <1>4
<1> HIDE DEF node
<1>7. ASSUME NEW j \in 1 .. Len(all), NEW k \in 1 .. Len(all), all[j] = all[k]
      PROVE  j = k
  BY <1>1, <1>2, <1>3, <1>5, <1>7
<1>8. Lists(all, nodes, n)
  BY <1>1, <1>6, <1>7 DEF Lists
<1> QED
  BY <1>8 DEF all, node

\* A turn takes an id off; a node listed puts those under it on, once.
LEMMA TurnOnWalk ==
  ASSUME NEW nodes, NEW n, IsForest(nodes, n), NEW w, NEW left \in Nat,
         OnWalk(w, nodes, n, left + 1)
  PROVE  OnWalk(Turned(w, nodes), nodes, n, left)
<1> DEFINE stack == w.stack  listed == w.listed  h == Head(stack)
           sum == SumFunctionOnSet(Kids(nodes), Unlisted(listed, nodes, n))
<1>1. /\ w = [stack |-> stack, listed |-> listed]
      /\ stack \in Seq(1 .. n) /\ Lists(listed, nodes, n)
      /\ Unlisted(listed, nodes, n) \subseteq Range(stack)
      /\ stack # <<>> => Len(stack) + sum <= left + 1
  BY DEF OnWalk
<1> SUFFICES ASSUME stack # <<>>
             PROVE  OnWalk(Turned(w, nodes), nodes, n, left)
  <2> SUFFICES ASSUME stack = <<>>
               PROVE  OnWalk(Turned(w, nodes), nodes, n, left)
    OBVIOUS
  <2>1. Turned(w, nodes) = w
    BY DEF Turned
  <2> QED
    BY <2>1 DEF OnWalk
<1>2. /\ h \in 1 .. n /\ Tail(stack) \in Seq(1 .. n)
      /\ Len(stack) \in Nat /\ Len(stack) >= 1 /\ Len(Tail(stack)) = Len(stack) - 1
      /\ Range(stack) \subseteq Range(Tail(stack)) \cup {h}
  BY <1>1, TailIs
<1>3. /\ IsTally(Kids(nodes), 1 .. n)
      /\ Kids(nodes)[h] = Len(nodes[h].children)
  BY <1>2, KidsTally
<1>4. Unlisted(listed, nodes, n) \in SUBSET (1 .. n)
  BY DEF Unlisted
<1>5. IsTally(Kids(nodes), Unlisted(listed, nodes, n))
  BY <1>3, <1>4, TallyWithin
<1>6. sum \in Nat
  BY <1>5, SumFacts
<1>7. CASE nodes[h] \in Range(listed)
  <2> DEFINE t == [stack |-> Tail(stack), listed |-> listed]
  <2>1. Turned(w, nodes) = Skips(w)
    BY <1>2, <1>7, HereIs
  <2>2. Turned(w, nodes) = t
    BY <1>1, <2>1 DEF Skips
  <2>3. h \notin Unlisted(listed, nodes, n)
    BY <1>7 DEF Unlisted
  <2>4. Unlisted(listed, nodes, n) \subseteq Range(Tail(stack))
    BY <1>1, <1>2, <2>3
  <2>5. Len(Tail(stack)) + sum <= left
    BY <1>1, <1>2, <1>6
  <2>6. t.stack = Tail(stack) /\ t.listed = listed /\ t = [stack |-> t.stack, listed |-> t.listed]
    OBVIOUS
  <2> HIDE DEF t
  <2>7. OnWalk(t, nodes, n, left)
    BY <1>1, <1>2, <2>4, <2>5, <2>6 DEF OnWalk
  <2> QED
    BY <2>2, <2>7
<1>8. CASE nodes[h] \notin Range(listed)
  <2> DEFINE kids == nodes[h].children  all == Append(listed, nodes[h])
             t == [stack |-> kids \o Tail(stack), listed |-> all]
             rest == SumFunctionOnSet(Kids(nodes), Unlisted(all, nodes, n))
  <2>1. Turned(w, nodes) = t
    <3>1. Turned(w, nodes) = Takes(w, nodes[h])
      BY <1>2, <1>8, HereIs
    <3> QED
      BY <3>1 DEF Takes
  <2>2. kids \in Seq(1 .. n) /\ Len(kids) \in Nat
    BY <1>2, LenProperties DEF IsForest
  <2>3. /\ kids \o Tail(stack) \in Seq(1 .. n)
        /\ Len(kids \o Tail(stack)) = Len(kids) + Len(Tail(stack))
        /\ Range(Tail(stack)) \subseteq Range(kids \o Tail(stack))
    BY <1>2, <2>2, ConcatIs
  <2>4. Lists(all, nodes, n)
    BY <1>1, <1>2, <1>8, ListsAppend
  <2>5. Unlisted(all, nodes, n) = Unlisted(listed, nodes, n) \ {h}
    <3>1. Range(all) = Range(listed) \cup {nodes[h]}
      BY <1>1, RangeOfAppend DEF Lists
    <3>2. \A i \in 1 .. n : nodes[i] = nodes[h] <=> i = h
      BY <1>2 DEF IsForest
    <3> HIDE DEF all, h
    <3> QED
      BY <3>1, <3>2 DEF Unlisted
  <2>6. h \in Unlisted(listed, nodes, n)
    BY <1>2, <1>8 DEF Unlisted
  <2>7. sum = Len(kids) + rest
    BY <1>3, <1>5, <2>5, <2>6, SumFacts
  <2>8. Unlisted(all, nodes, n) \subseteq Range(kids \o Tail(stack))
    BY <1>1, <1>2, <2>3, <2>5
  <2>9. rest \in Nat
    <3>1. Unlisted(all, nodes, n) \in SUBSET (1 .. n)
      BY DEF Unlisted
    <3> QED
      BY <1>3, <3>1, TallyWithin, SumFacts
  <2> HIDE DEF kids, rest, sum
  <2>10. Len(kids \o Tail(stack)) + rest <= left
    BY <1>1, <1>2, <1>6, <2>2, <2>3, <2>7, <2>9
  <2>11. /\ t.stack = kids \o Tail(stack) /\ t.listed = all
         /\ t = [stack |-> t.stack, listed |-> t.listed]
    OBVIOUS
  <2> HIDE DEF t, all
  <2>12. OnWalk(t, nodes, n, left)
    BY <2>3, <2>4, <2>8, <2>10, <2>11 DEF OnWalk, rest
  <2> QED
    BY <2>1, <2>12
<1> QED
  BY <1>7, <1>8

\* The walk from a stack that names every node lists each once.
LEMMA EachListed ==
  ASSUME NEW nodes, NEW n, IsForest(nodes, n), NEW stack \in Seq(1 .. n),
         1 .. n \subseteq Range(stack)
  PROVE  /\ Lists(walk(stack, nodes), nodes, n)
         /\ \A i \in 1 .. n : nodes[i] \in Range(walk(stack, nodes))
<1> DEFINE turns == Turns(stack, nodes)
<1>1. /\ IsTally(Kids(nodes), 1 .. n)
      /\ SumFunction(Kids(nodes)) = SumFunctionOnSet(Kids(nodes), 1 .. n)
  BY KidsTally
<1>2. Len(stack) \in Nat /\ SumFunctionOnSet(Kids(nodes), 1 .. n) \in Nat
  BY <1>1, SumFacts, LenProperties
<1>3. turns \in Nat /\ turns = Len(stack) + SumFunctionOnSet(Kids(nodes), 1 .. n)
  BY <1>1, <1>2 DEF Turns
<1>4. PICK after : IsWalk(stack, nodes, after)
  BY <1>3, WalkIs
<1> DEFINE Good == {k \in Nat : k <= turns => OnWalk(after[k], nodes, n, turns - k)}
<1>5. 0 \in Good
  <2> DEFINE w == after[0]
  <2>1. w = [stack |-> stack, listed |-> <<>>]
    BY <1>4 DEF IsWalk
  <2> HIDE DEF w
  <2>2. w.stack = stack /\ w.listed = <<>> /\ w = [stack |-> w.stack, listed |-> w.listed]
    BY <2>1
  <2>3. Range(<<>>) = {}
    BY DEF Range
  <2>4. Unlisted(w.listed, nodes, n) = 1 .. n
    BY <2>2, <2>3 DEF Unlisted
  <2>5. Lists(w.listed, nodes, n)
    BY <2>2, NoneIsSeq DEF Lists
  <2>6. Len(w.stack) + SumFunctionOnSet(Kids(nodes), Unlisted(w.listed, nodes, n)) <= turns - 0
    BY <1>2, <1>3, <2>2, <2>4
  <2>7. OnWalk(w, nodes, n, turns - 0)
    <3> HIDE DEF turns
    <3> QED
      BY <2>2, <2>4, <2>5, <2>6 DEF OnWalk
  <2> QED
    BY <2>7 DEF w
<1>6. ASSUME NEW k \in Nat, k \in Good
      PROVE  k + 1 \in Good
  <2> SUFFICES ASSUME k + 1 <= turns
               PROVE  OnWalk(after[k + 1], nodes, n, turns - (k + 1))
    OBVIOUS
  <2> DEFINE left == turns - (k + 1)
  <2>1. left \in Nat /\ turns - k = left + 1 /\ k + 1 \in 1 .. turns /\ (k + 1) - 1 = k
    BY <1>3
  <2>2. OnWalk(after[k], nodes, n, left + 1)
    BY <1>3, <1>6, <2>1
  <2>3. after[k + 1] = Turned(after[k], nodes)
    <3>1. after[k + 1] = Turned(after[(k + 1) - 1], nodes)
      BY <1>4, <2>1 DEF IsWalk
    <3> QED
      BY <2>1, <3>1
  <2> HIDE DEF left, Good, turns
  <2>4. OnWalk(after[k + 1], nodes, n, left)
    BY <2>1, <2>2, <2>3, TurnOnWalk
  <2> QED
    BY <2>4 DEF left
<1>7. turns \in Good
  <2>1. \A k \in Nat : k \in Good
    <3> HIDE DEF Good
    <3> QED
      BY <1>5, <1>6, AllNaturals
  <2> HIDE DEF Good
  <2> QED
    BY <1>3, <2>1
<1> DEFINE w == after[turns]
<1>8. OnWalk(w, nodes, n, 0)
  BY <1>3, <1>7
<1>9. walk(stack, nodes) = w.listed
  BY <1>4 DEF IsWalk
<1> HIDE DEF w
<1>10. w.stack = <<>>
  <2> DEFINE sum == SumFunctionOnSet(Kids(nodes), Unlisted(w.listed, nodes, n))
  <2>1. Unlisted(w.listed, nodes, n) \in SUBSET (1 .. n)
    BY DEF Unlisted
  <2>2. sum \in Nat
    BY <1>1, <2>1, TallyWithin, SumFacts
  <2>3. w.stack # <<>> => Len(w.stack) \in Nat /\ Len(w.stack) >= 1
    BY <1>8, TailIs DEF OnWalk
  <2>4. w.stack # <<>> => Len(w.stack) + sum <= 0
    BY <1>8 DEF OnWalk
  <2> HIDE DEF sum
  <2> QED
    BY <2>2, <2>3, <2>4
<1>11. Unlisted(w.listed, nodes, n) = {}
  <2>1. Range(<<>>) = {}
    BY DEF Range
  <2> QED
    BY <1>8, <1>10, <2>1 DEF OnWalk
<1> QED
  BY <1>8, <1>9, <1>11 DEF OnWalk, Unlisted

LEMMA SetToSeqIs ==
  ASSUME NEW T, NEW S \in SUBSET T, IsFiniteSet(S)
  PROVE  SetToSeq(S) \in Seq(T)
<1>1. Cardinality(S) \in Nat /\ ExistsBijection(1 .. Cardinality(S), S)
  BY FS_CardinalityType
<1>2. \E f \in [1 .. Cardinality(S) -> S] : IsInjective(f)
  BY <1>1 DEF ExistsBijection, Bijection, Injection
<1>3. SetToSeq(S) \in [1 .. Cardinality(S) -> S]
  BY <1>2 DEF SetToSeq
<1>4. \A i \in 1 .. Cardinality(S) : SetToSeq(S)[i] \in T
  BY <1>3
<1>5. [i \in 1 .. Cardinality(S) |-> SetToSeq(S)[i]] \in Seq(T)
  BY <1>1, <1>4, IsASeq
<1> QED
  BY <1>3, <1>5

\* The nodes of a prepared transaction are those of its interpretation.
LEMMA PreparedIs ==
  ASSUME NEW nodes, IsSeq(nodes), NEW tx, tx = Prepared(nodes), NEW n, n = Len(nodes)
  PROVE  /\ tx.roots \in Seq(1 .. n) /\ IsForest(tx.nodes, n)
         /\ \A i \in 1 .. n :
              /\ tx.nodes[i].kind = nodes[i].kind /\ tx.nodes[i].cid = nodes[i].cid
              /\ tx.nodes[i].consuming = nodes[i].consuming
         /\ tx.inputs = InputsOf(nodes)
<1> DEFINE Under(p) == SetToSeq({i \in DOMAIN nodes : nodes[i].parent = p})
           Cids(kinds) == {m.cid : m \in {x \in Range(nodes) : x.kind \in kinds}}
           all == [i \in DOMAIN nodes |->
                    [node_id |-> i, kind |-> nodes[i].kind, cid |-> nodes[i].cid,
                     consuming |-> nodes[i].consuming, children |-> Under(i)]]
<1>1. n \in Nat /\ DOMAIN nodes = 1 .. n
  BY DEF IsSeq
<1>2. ASSUME NEW p
      PROVE  Under(p) \in Seq(1 .. n)
  <2> DEFINE S == {i \in DOMAIN nodes : nodes[i].parent = p}
  <2>1. S \in SUBSET (1 .. n) /\ IsFiniteSet(1 .. n)
    BY <1>1, FS_Interval
  <2> HIDE DEF S
  <2>2. IsFiniteSet(S)
    BY <2>1, FS_Subset
  <2>3. SetToSeq(S) \in Seq(1 .. n)
    BY <2>1, <2>2, SetToSeqIs
  <2> QED
    BY <2>3 DEF S
<1>3. ASSUME NEW kinds
      PROVE  Cids(kinds) = CidsOf(nodes, kinds)
  BY <1>1 DEF Range, CidsOf
<1>4. tx = [roots |-> Under(0), nodes |-> all,
            inputs |-> Cids({"Exercise", "Fetch"}) \ Cids({"Create"})]
  BY DEF Prepared
<1> HIDE DEF Under, Cids
<1>5. \A i \in 1 .. n :
        all[i] = [node_id |-> i, kind |-> nodes[i].kind, cid |-> nodes[i].cid,
                  consuming |-> nodes[i].consuming, children |-> Under(i)]
  BY <1>1
<1>6. DOMAIN all = 1 .. n
  BY <1>1
<1> HIDE DEF all
<1>7. IsForest(all, n)
  BY <1>1, <1>2, <1>5, <1>6 DEF IsForest
<1>8. tx.roots = Under(0) /\ tx.nodes = all
      /\ tx.inputs = Cids({"Exercise", "Fetch"}) \ Cids({"Create"})
  BY <1>4
<1>9. tx.inputs = InputsOf(nodes)
  BY <1>3, <1>8 DEF InputsOf
<1>10. ASSUME NEW i \in 1 .. n
       PROVE  /\ tx.nodes[i].kind = nodes[i].kind /\ tx.nodes[i].cid = nodes[i].cid
              /\ tx.nodes[i].consuming = nodes[i].consuming
  <2>1. all[i] = [node_id |-> i, kind |-> nodes[i].kind, cid |-> nodes[i].cid,
                  consuming |-> nodes[i].consuming, children |-> Under(i)]
    BY <1>5
  <2>2. tx.nodes[i] = all[i]
    BY <1>8
  <2> QED
    BY <2>1, <2>2
<1>11. tx.roots \in Seq(1 .. n)
  BY <1>2, <1>8
<1>12. IsForest(tx.nodes, n)
  BY <1>7, <1>8
<1> QED
  BY <1>9, <1>10, <1>11, <1>12

LEMMA ListedIs ==
  ASSUME NEW tx, NEW n, tx.roots \in Seq(1 .. n), IsForest(tx.nodes, n)
  PROVE  /\ Lists(Listed(tx), tx.nodes, n)
         /\ \A i \in 1 .. n : tx.nodes[i] \in Range(Listed(tx))
<1> DEFINE ids == [i \in DOMAIN tx.nodes |-> tx.nodes[i].node_id]
           stack == tx.roots \o ids
<1>1. n \in Nat /\ ids = [i \in 1 .. n |-> i]
  BY DEF IsForest
<1>2. [i \in 1 .. n |-> i] \in Seq(1 .. n)
  BY <1>1, IsASeq
<1>3. Range([i \in 1 .. n |-> i]) = 1 .. n
  BY DEF Range
<1> HIDE DEF ids
<1>4. stack \in Seq(1 .. n) /\ Range(ids) \subseteq Range(stack)
  BY <1>1, <1>2, ConcatIs
<1>5. 1 .. n \subseteq Range(stack)
  BY <1>1, <1>3, <1>4
<1>6. Listed(tx) = walk(stack, tx.nodes)
  BY DEF Listed, ids
<1> HIDE DEF stack
<1> QED
  BY <1>4, <1>5, <1>6, EachListed

-----------------------------------------------------------------------------
\* What the effects reported say of the nodes.

Consumed(nodes) == {nodes[i].cid : i \in {j \in 1 .. Len(nodes) : Consumes(nodes[j])}}
Created(nodes) == {nodes[i].cid : i \in {j \in 1 .. Len(nodes) : Creates(nodes[j])}}

Distinct(nodes) ==
  \A i, j \in 1 .. Len(nodes) :
    Consumes(nodes[i]) /\ Consumes(nodes[j]) /\ nodes[i].cid = nodes[j].cid => i = j

Reports(e, nodes) ==
  /\ DOMAIN e.input_contracts = InputsOf(nodes)
  /\ e.created = Created(nodes)
  /\ e.consumed = Consumed(nodes)
  /\ \A c \in Created(nodes) \cup Consumed(nodes) : Stakeholders[c] \subseteq e.informees
  /\ e.counts.rollbacks = 0 => \A i \in 1 .. Len(nodes) : nodes[i].kind # "Rollback"
  /\ Distinct(nodes) => e.counts.archives = Cardinality(Consumed(nodes))

\* Each listed node is one of the transaction's, and each of those is listed.
Shows(listed, nodes, at) ==
  /\ IsSeq(listed)
  /\ at \in [1 .. Len(listed) -> 1 .. Len(nodes)]
  /\ \A j \in 1 .. Len(listed) :
       /\ listed[j].kind = nodes[at[j]].kind /\ listed[j].cid = nodes[at[j]].cid
       /\ listed[j].consuming = nodes[at[j]].consuming
  /\ \A j, k \in 1 .. Len(listed) : at[j] = at[k] => j = k
  /\ \A i \in 1 .. Len(nodes) : \E j \in 1 .. Len(listed) : at[j] = i

LEMMA ListedShows ==
  ASSUME NEW nodes, IsSeq(nodes)
  PROVE  \E at : Shows(Listed(Prepared(nodes)), nodes, at)
<1> DEFINE tx == Prepared(nodes)  n == Len(nodes)  listed == Listed(tx)
           at == [j \in 1 .. Len(listed) |-> listed[j].node_id]
<1>1. /\ tx.roots \in Seq(1 .. n) /\ IsForest(tx.nodes, n)
      /\ \A i \in 1 .. n :
           /\ tx.nodes[i].kind = nodes[i].kind /\ tx.nodes[i].cid = nodes[i].cid
           /\ tx.nodes[i].consuming = nodes[i].consuming
  BY PreparedIs
<1> HIDE DEF tx
<1>2. Lists(listed, tx.nodes, n) /\ \A i \in 1 .. n : tx.nodes[i] \in Range(listed)
  BY <1>1, ListedIs
<1> HIDE DEF listed
<1>3. IsSeq(listed) /\ DOMAIN listed = 1 .. Len(listed)
  BY <1>2 DEF Lists, IsSeq
<1>4. \A i \in 1 .. n : tx.nodes[i].node_id = i
  BY <1>1 DEF IsForest
<1>5. \A j \in 1 .. Len(listed) : at[j] \in 1 .. n /\ listed[j] = tx.nodes[at[j]]
  BY <1>2, <1>4 DEF Lists
<1>6. at = [j \in 1 .. Len(listed) |-> at[j]]
  OBVIOUS
<1> HIDE DEF at
<1>7. at \in [1 .. Len(listed) -> 1 .. n]
  BY <1>5, <1>6
<1>8. \A j \in 1 .. Len(listed) :
        /\ listed[j].kind = nodes[at[j]].kind /\ listed[j].cid = nodes[at[j]].cid
        /\ listed[j].consuming = nodes[at[j]].consuming
  BY <1>1, <1>5
<1>9. ASSUME NEW j \in 1 .. Len(listed), NEW k \in 1 .. Len(listed), at[j] = at[k]
      PROVE  j = k
  BY <1>2, <1>5, <1>9 DEF Lists
<1>10. ASSUME NEW i \in 1 .. n
       PROVE  \E j \in 1 .. Len(listed) : at[j] = i
  <2>1. PICK j \in 1 .. Len(listed) : listed[j] = tx.nodes[i]
    BY <1>2, <1>3 DEF Range
  <2>2. at[j] = i
    BY <1>4, <1>5, <2>1
  <2> QED
    BY <2>2
<1>11. Shows(listed, nodes, at)
  BY <1>3, <1>7, <1>8, <1>9, <1>10 DEF Shows
<1> QED
  BY <1>11 DEF listed, tx

LEMMA EffectsReport ==
  ASSUME NEW nodes, IsSeq(nodes)
  PROVE  Reports(effects_of(Prepared(nodes)), nodes)
<1> DEFINE tx == Prepared(nodes)  n == Len(nodes)  listed == Listed(tx)
           Kind(k) == {j \in DOMAIN listed : listed[j].kind = k}
           Consuming == {j \in Kind("Exercise") : listed[j].consuming}
           Cids(set) == {listed[j].cid : j \in set}
           e == effects_of(tx)
<1>1. PICK at : Shows(listed, nodes, at)
  BY ListedShows
<1>2. tx.inputs = InputsOf(nodes)
  BY PreparedIs
<1>3. /\ e.created = Cids(Kind("Create"))
      /\ e.counts.archives = Cardinality(Consuming)
      /\ e.counts.rollbacks = Cardinality(Kind("Rollback"))
      /\ e.informees = UNION {Stakeholders[listed[i].cid] : i \in DOMAIN listed \ Kind("Rollback")}
      /\ DOMAIN e.input_contracts = tx.inputs
      /\ e.consumed = Cids(Consuming)
  <2>1. e = Effects(tx, listed)
    BY DEF effects_of
  <2> HIDE DEF e, listed, tx
  <2> QED
    BY <2>1 DEF Effects
<1> HIDE DEF e, listed, tx
<1>4. DOMAIN listed = 1 .. Len(listed) /\ Len(listed) \in Nat
  BY <1>1 DEF Shows, IsSeq
<1>5. \A j \in 1 .. Len(listed) :
        /\ at[j] \in 1 .. n
        /\ listed[j].kind = nodes[at[j]].kind /\ listed[j].cid = nodes[at[j]].cid
        /\ listed[j].consuming = nodes[at[j]].consuming
  BY <1>1 DEF Shows
<1>6. \A i \in 1 .. n : \E j \in 1 .. Len(listed) : at[j] = i
  BY <1>1 DEF Shows
<1>7. \A j \in 1 .. Len(listed) :
        /\ j \in Kind("Create") <=> Creates(nodes[at[j]])
        /\ j \in Consuming <=> Consumes(nodes[at[j]])
        /\ j \in Kind("Rollback") <=> nodes[at[j]].kind = "Rollback"
  BY <1>4, <1>5 DEF Creates, Consumes
<1>8. /\ Kind("Create") \in SUBSET (1 .. Len(listed)) /\ Consuming \in SUBSET (1 .. Len(listed))
      /\ Kind("Rollback") \in SUBSET (1 .. Len(listed))
  BY <1>4
<1> DEFINE made == Kind("Create")  rolled == Kind("Rollback")
<1> HIDE DEF Kind, Consuming, made, rolled
<1>9. Cids(made) = Created(nodes)
  <2>1. ASSUME NEW c \in Cids(made)
        PROVE  c \in Created(nodes)
    <3>1. PICK j \in made : c = listed[j].cid
      OBVIOUS
    <3>2. j \in 1 .. Len(listed) /\ Creates(nodes[at[j]])
      BY <1>7, <1>8, <3>1 DEF made
    <3>3. at[j] \in 1 .. n /\ nodes[at[j]].cid = c
      BY <1>5, <3>1, <3>2
    <3> QED
      BY <3>2, <3>3 DEF Created
  <2>2. ASSUME NEW c \in Created(nodes)
        PROVE  c \in Cids(made)
    <3>1. PICK i \in 1 .. n : Creates(nodes[i]) /\ c = nodes[i].cid
      BY DEF Created
    <3>2. PICK j \in 1 .. Len(listed) : at[j] = i
      BY <1>6, <3>1
    <3>3. j \in made /\ listed[j].cid = c
      BY <1>5, <1>7, <3>1, <3>2 DEF made
    <3> QED
      BY <3>3
  <2> QED
    BY <2>1, <2>2
<1>10. Cids(Consuming) = Consumed(nodes)
  <2>1. ASSUME NEW c \in Cids(Consuming)
        PROVE  c \in Consumed(nodes)
    <3>1. PICK j \in Consuming : c = listed[j].cid
      OBVIOUS
    <3>2. j \in 1 .. Len(listed) /\ Consumes(nodes[at[j]])
      BY <1>7, <1>8, <3>1
    <3>3. at[j] \in 1 .. n /\ nodes[at[j]].cid = c
      BY <1>5, <3>1, <3>2
    <3> QED
      BY <3>2, <3>3 DEF Consumed
  <2>2. ASSUME NEW c \in Consumed(nodes)
        PROVE  c \in Cids(Consuming)
    <3>1. PICK i \in 1 .. n : Consumes(nodes[i]) /\ c = nodes[i].cid
      BY DEF Consumed
    <3>2. PICK j \in 1 .. Len(listed) : at[j] = i
      BY <1>6, <3>1
    <3>3. j \in Consuming /\ listed[j].cid = c
      BY <1>5, <1>7, <3>1, <3>2
    <3> QED
      BY <3>3
  <2> QED
    BY <2>1, <2>2
<1>11. IsFiniteSet(1 .. Len(listed))
  BY <1>4, FS_Interval
<1>12. IsFiniteSet(rolled) /\ IsFiniteSet(Consuming)
  BY <1>8, <1>11, FS_Subset DEF rolled
<1>13. ASSUME e.counts.rollbacks = 0
       PROVE  \A i \in 1 .. n : nodes[i].kind # "Rollback"
  <2>1. Cardinality(rolled) = 0
    BY <1>3, <1>13 DEF rolled
  <2>2. rolled = {}
    BY <1>12, <2>1, FS_EmptySet
  <2> QED
    BY <1>6, <1>7, <2>2 DEF rolled
<1>14. ASSUME Distinct(nodes)
       PROVE  e.counts.archives = Cardinality(Consumed(nodes))
  <2> DEFINE f == [j \in Consuming |-> listed[j].cid]
  <2>1. f \in [Consuming -> Cids(Consuming)]
    OBVIOUS
  <2>2. \A c \in Cids(Consuming) : \E j \in Consuming : f[j] = c
    OBVIOUS
  <2>3. ASSUME NEW j \in Consuming, NEW k \in Consuming, f[j] = f[k]
        PROVE  j = k
    <3>1. /\ j \in 1 .. Len(listed) /\ k \in 1 .. Len(listed)
          /\ Consumes(nodes[at[j]]) /\ Consumes(nodes[at[k]])
      BY <1>7, <1>8
    <3>2. /\ at[j] \in 1 .. n /\ at[k] \in 1 .. n
          /\ nodes[at[j]].cid = nodes[at[k]].cid
      BY <1>5, <2>3, <3>1
    <3>3. at[j] = at[k]
      BY <1>14, <3>1, <3>2 DEF Distinct
    <3> QED
      BY <1>1, <3>1, <3>3 DEF Shows
  <2> HIDE DEF f
  <2>4. f \in Bijection(Consuming, Cids(Consuming))
    BY <2>1, <2>2, <2>3 DEF Bijection, Injection, Surjection, IsInjective
  <2>5. Cardinality(Cids(Consuming)) = Cardinality(Consuming)
    <3> HIDE DEF Cids
    <3>1. ExistsBijection(Consuming, Cids(Consuming))
      BY <2>4 DEF ExistsBijection
    <3> QED
      BY <1>12, <3>1, FS_Bijection
  <2> QED
    BY <1>3, <1>10, <2>5
<1>15. ASSUME NEW c \in Created(nodes) \cup Consumed(nodes)
       PROVE  Stakeholders[c] \subseteq e.informees
  <2>1. PICK i \in 1 .. n : (Creates(nodes[i]) \/ Consumes(nodes[i])) /\ c = nodes[i].cid
    BY DEF Created, Consumed
  <2>2. PICK j \in 1 .. Len(listed) : at[j] = i
    BY <1>6, <2>1
  <2>3. j \notin rolled /\ listed[j].cid = c
    BY <1>5, <1>7, <2>1, <2>2 DEF rolled, Creates, Consumes
  <2>4. j \in DOMAIN listed \ rolled
    BY <1>4, <2>2, <2>3
  <2>5. e.informees = UNION {Stakeholders[listed[k].cid] : k \in DOMAIN listed \ rolled}
    BY <1>3 DEF rolled
  <2> QED
    BY <2>3, <2>4, <2>5
<1>16. e.created = Created(nodes) /\ e.consumed = Consumed(nodes)
  BY <1>3, <1>9, <1>10 DEF made
<1>17. Reports(e, nodes)
  BY <1>2, <1>3, <1>13, <1>14, <1>15, <1>16 DEF Reports
<1> QED
  BY <1>17 DEF e, tx

LEMMA ReportsAlike ==
  ASSUME NEW e, NEW s, NEW t, NEW A, Abreast(s, t, A), Reports(e, s.nodes)
  PROVE  Reports(e, t.nodes)
<1> DEFINE n == Len(s.nodes)  m == s.nodes  o == t.nodes
<1>1. /\ Len(t.nodes) = n
      /\ \A i \in 1 .. n : /\ m[i].kind = o[i].kind /\ m[i].cid = o[i].cid
                           /\ m[i].consuming = o[i].consuming
  BY DEF Abreast, Alike
<1>2. \A i \in 1 .. n : /\ Creates(m[i]) <=> Creates(o[i])
                        /\ Consumes(m[i]) <=> Consumes(o[i])
  BY <1>1 DEF Creates, Consumes
<1>3. ASSUME NEW kinds
      PROVE  CidsOf(m, kinds) = CidsOf(o, kinds)
  BY <1>1 DEF CidsOf
<1>4. InputsOf(m) = InputsOf(o)
  BY <1>3 DEF InputsOf
<1>5. Created(m) = Created(o) /\ Consumed(m) = Consumed(o)
  BY <1>1, <1>2 DEF Created, Consumed
<1>6. Distinct(m) <=> Distinct(o)
  BY <1>1, <1>2 DEF Distinct
<1> QED
  BY <1>1, <1>4, <1>5, <1>6 DEF Reports

\* What a submission from a ledger leaves, when it goes through.
Became(before, after, state) ==
  {c \in Contracts : before[c] # state /\ after[c] = state}
Made(before, after) == {c \in Contracts : before[c] = "absent" /\ after[c] # "absent"}

LEMMA TellsWhat ==
  ASSUME NEW request, NEW contracts, Fresh(contracts), NEW s, Accords(s, contracts, request),
         Tells(s, contracts)
  PROVE  /\ Distinct(s.nodes)
         /\ Created(s.nodes) = Made(contracts, s.now)
         /\ Consumed(s.nodes) = Became(contracts, s.now, "archived")
<1>1. \A i \in 1 .. Len(s.nodes) :
        /\ s.nodes[i].cid \in Contracts
        /\ Creates(s.nodes[i]) => contracts[s.nodes[i].cid] = "absent"
  BY DEF Accords, NodeAccords, Creates, Fresh
<1>2. Created(s.nodes) \subseteq Made(contracts, s.now)
  BY <1>1 DEF Tells, Created, Made
<1>3. ASSUME NEW c \in Made(contracts, s.now)
      PROVE  c \in Created(s.nodes)
  <2>1. c \in Contracts /\ contracts[c] = "absent" /\ s.now[c] # "absent"
    BY DEF Made
  <2>2. PICK i \in 1 .. Len(s.nodes) : Creates(s.nodes[i]) /\ s.nodes[i].cid = c
    BY <2>1 DEF Tells
  <2> QED
    BY <2>2 DEF Created
<1>4. Consumed(s.nodes) \subseteq Became(contracts, s.now, "archived")
  BY <1>1 DEF Tells, Consumed, Became
<1>5. ASSUME NEW c \in Became(contracts, s.now, "archived")
      PROVE  c \in Consumed(s.nodes)
  <2>1. c \in Contracts /\ contracts[c] # "archived" /\ s.now[c] = "archived"
    BY DEF Became
  <2>2. PICK i \in 1 .. Len(s.nodes) : Consumes(s.nodes[i]) /\ s.nodes[i].cid = c
    BY <2>1 DEF Tells
  <2> QED
    BY <2>2 DEF Consumed
<1>6. Distinct(s.nodes)
  BY DEF Tells, Distinct
<1> QED
  BY <1>2, <1>3, <1>4, <1>5, <1>6

AsReported(e, before, after) ==
  e.counts.rollbacks = 0 =>
    /\ e.created = Made(before, after)
    /\ e.consumed = Became(before, after, "archived")
    /\ e.counts.archives = Cardinality(Became(before, after, "archived"))
    /\ \A c \in Made(before, after) \cup Became(before, after, "archived") :
         Stakeholders[c] \subseteq e.informees

\* The effects of an interpretation are those of any other from a ledger that
\* holds the same inputs.
LEMMA EffectsOnward ==
  ASSUME NEW request \in Requests, NEW K \in Ledgers, Fresh(K), NEW L \in Ledgers, Fresh(L),
         Outcome(request, K).error = <<>>,
         NEW e, e = effects_of(Prepared(Outcome(request, K).nodes)),
         \A c \in DOMAIN e.input_contracts : L[c] = K[c]
  PROVE  /\ Outcome(request, L).error = <<>>
         /\ AsReported(e, L, Outcome(request, L).now)
<1> DEFINE s == Outcome(request, K)  t == Outcome(request, L)
<1>1. Accords(s, K, request) /\ Accords(t, L, request)
  BY OutcomeAccords
<1>2. Reports(e, s.nodes)
  BY <1>1, EffectsReport DEF Accords
<1>3. \A c \in InputsOf(s.nodes) : K[c] = L[c]
  BY <1>2 DEF Reports
<1>4. Abreast(s, t, {c \in Contracts : K[c] = L[c]})
  BY <1>3, SameCourse
<1>5. t.error = <<>>
  BY <1>4 DEF Abreast
<1>6. Reports(e, t.nodes)
  BY <1>2, <1>4, ReportsAlike
<1>7. ASSUME e.counts.rollbacks = 0
      PROVE  /\ Distinct(t.nodes)
             /\ Created(t.nodes) = Made(L, t.now)
             /\ Consumed(t.nodes) = Became(L, t.now, "archived")
  <2>1. \A i \in 1 .. Len(t.nodes) : t.nodes[i].kind # "Rollback"
    BY <1>6, <1>7 DEF Reports
  <2>2. Tells(t, L)
    BY <1>5, <2>1, NodesSay
  <2> QED
    BY <1>1, <2>2, TellsWhat
<1> HIDE DEF t
<1>8. AsReported(e, L, t.now)
  BY <1>6, <1>7 DEF Reports, AsReported
<1> QED
  BY <1>5, <1>8 DEF t

-----------------------------------------------------------------------------
\* The effects reported are of an interpretation of the ledger of the moment,
\* and the submission of another.

Effected ==
  \/ report.effects = <<>>
  \/ /\ sim.request \in Requests /\ since \in Ledgers /\ Fresh(since)
     /\ Outcome(sim.request, since).error = <<>>
     /\ report.effects = <<effects_of(Prepared(Outcome(sim.request, since).nodes))>>

SubmittedAt(s, request, before) ==
  LET outcome == Outcome(request, before) IN
  /\ s.before = before
  /\ outcome.error = <<>> => s.outcome = "committed" /\ s.after = outcome.now

Submitted ==
  submission # NoSubmission =>
    \E before \in Ledgers : Fresh(before) /\ SubmittedAt(submission, sim.request, before)

LEMMA EffectsSay ==
  ASSUME Effected, Submitted
  PROVE  EffectsCommitted
<1> SUFFICES ASSUME NEW e \in Range(report.effects), submission # NoSubmission,
                    \A c \in DOMAIN e.input_contracts : submission.before[c] = since[c]
             PROVE  /\ submission.outcome = "committed"
                    /\ AsReported(e, submission.before, submission.after)
  BY DEF EffectsCommitted, AsReported, Became, Made
<1>1. /\ sim.request \in Requests /\ since \in Ledgers /\ Fresh(since)
      /\ Outcome(sim.request, since).error = <<>>
      /\ report.effects = <<effects_of(Prepared(Outcome(sim.request, since).nodes))>>
  BY DEF Effected, Range
<1> DEFINE f == effects_of(Prepared(Outcome(sim.request, since).nodes))
<1>2. e = f
  <2>1. report.effects = <<f>>
    BY <1>1
  <2> HIDE DEF f
  <2> QED
    BY <2>1 DEF Range
<1>3. PICK before \in Ledgers :
        Fresh(before) /\ SubmittedAt(submission, sim.request, before)
  BY DEF Submitted
<1>4. submission.before = before
  BY <1>3 DEF SubmittedAt
<1>5. /\ Outcome(sim.request, before).error = <<>>
      /\ AsReported(e, before, Outcome(sim.request, before).now)
  BY <1>1, <1>2, <1>3, <1>4, EffectsOnward
<1> QED
  BY <1>3, <1>4, <1>5 DEF SubmittedAt

\* A step submits, or leaves the submission as it is.
LEMMA SubmitStep ==
  ASSUME Known, [Next]_vars
  PROVE  \/ submission' = submission
         \/ /\ sim.at = "reported" /\ submission = NoSubmission
            /\ UNCHANGED <<sim, since>>
            /\ SubmittedAt(submission', sim.request, ledger)
<1>1. ASSUME Submit
      PROVE  /\ sim.at = "reported" /\ submission = NoSubmission
             /\ UNCHANGED <<sim, since>>
             /\ SubmittedAt(submission', sim.request, ledger)
  <2> DEFINE outcome == Outcome(sim.request, ledger)
             kept == IF outcome.error = <<>> THEN outcome.now ELSE ledger
  <2>1. /\ sim.at = "reported" /\ submission = NoSubmission /\ UNCHANGED <<sim, since>>
        /\ submission' = [outcome |-> IF outcome.error = <<>> THEN "committed" ELSE "rejected",
                          before |-> ledger, after |-> kept]
    BY <1>1 DEF Submit
  <2> HIDE DEF outcome
  <2>2. /\ submission'.before = ledger
        /\ outcome.error = <<>> =>
             submission'.outcome = "committed" /\ submission'.after = outcome.now
    BY <2>1
  <2> QED
    BY <2>1, <2>2 DEF SubmittedAt, outcome
<1>2. ASSUME NEW r \in Requests, Unreachable(r) \/ on_prepared(r) \/ on_rejected(r)
      PROVE  submission' = submission
  BY <1>2 DEF Unreachable, on_prepared, on_rejected, Asked
<1>3. ASSUME lookup_contract
      PROVE  submission' = submission
  BY <1>3 DEF lookup_contract
<1>4. ASSUME NEW c \in Contracts, OthersCreate(c) \/ OthersArchive(c)
      PROVE  submission' = submission
  BY <1>4 DEF OthersCreate, OthersArchive
<1>5. ASSUME UNCHANGED vars
      PROVE  submission' = submission
  BY <1>5 DEF vars
<1> QED
  BY <1>1, <1>2, <1>3, <1>4, <1>5 DEF Next

\* What a report says would be committed is what a submission commits, if the
\* contracts reported as inputs are still as they were (model.rs on the effects;
\* prepared.rs effects_of), for every request and whatever others do meanwhile.
THEOREM EffectsCommittedHolds == Spec => []EffectsCommitted
<1>1. Init => Known /\ Effected /\ Submitted
  <2> SUFFICES ASSUME Init
               PROVE  Known /\ Effected /\ Submitted
    OBVIOUS
  <2>1. report = NoReport /\ submission = NoSubmission
    BY DEF Init, report
  <2> QED
    BY <2>1, InitKnown, NoReportIs DEF Effected, Submitted
<1>2. Known /\ Effected /\ Submitted /\ [Next]_vars => (Known /\ Effected /\ Submitted)'
  <2> SUFFICES ASSUME Known, Effected, Submitted, [Next]_vars
               PROVE  Known' /\ Effected' /\ Submitted'
    OBVIOUS
  <2>1. Known'
    BY NextKnown
  <2>2. ledger \in Ledgers /\ (submission = NoSubmission => Fresh(ledger))
    BY DEF Known, OnLedger
  <2>3. CASE Keeps
    <3>1. Effected'
      BY <2>3 DEF Keeps, Effected
    <3>2. Submitted'
      <4>1. CASE submission' = submission
        BY <2>3, <4>1 DEF Keeps, Submitted
      <4>2. CASE /\ sim.at = "reported" /\ submission = NoSubmission
                 /\ UNCHANGED <<sim, since>>
                 /\ SubmittedAt(submission', sim.request, ledger)
        BY <2>2, <4>2 DEF Submitted
      <4> QED
        BY <4>1, <4>2, SubmitStep
    <3> QED
      BY <2>1, <3>1, <3>2
  <2>4. ASSUME NEW r \in Requests, Answers(r)
        PROVE  Effected' /\ Submitted'
    <3>1. /\ sim.at = "idle" /\ since' = ledger /\ submission' = submission
          /\ sim'.request = r
      BY <2>4 DEF Answers, Asked
    <3>2. submission = NoSubmission
      BY <3>1 DEF Known, InCourse
    <3>3. Submitted'
      BY <3>1, <3>2 DEF Submitted
    <3>4. Effected'
      BY <2>2, <2>4, <3>1, <3>2 DEF Answers, Effected
    <3> QED
      BY <3>3, <3>4
  <2> QED
    BY <2>1, <2>3, <2>4, ReportStep
<1>3. Effected /\ Submitted => EffectsCommitted
  BY EffectsSay
<1> QED
  BY <1>1, <1>2, <1>3, PTL DEF Spec

=============================================================================
