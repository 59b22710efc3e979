------------------------------- MODULE Produce -------------------------------
(***************************************************************************)
(* From a request to a tree: the signing service reads the leaves of a     *)
(* publication (do_publish) or the positions of a custody report           *)
(* (do_custody), refuses what it cannot commit to, clamps negative         *)
(* balances into bad debt, and hands the leaves in ascending order to      *)
(* `publish` or `publish_v2`, which build the tree of SumTree and a proof  *)
(* for every leaf.                                                         *)
(*                                                                         *)
(* Names arrive as written: Trim gives the name without the white space    *)
(* around it.  A number above MaxAmount stands for every text              *)
(* parse_amount_18dp refuses.  A custody report's only map is `held`, and  *)
(* its assets are written without that prefix.                             *)
(***************************************************************************)
EXTENDS SumTree, FiniteSets, Functions

CONSTANTS
  Names,     \* names as written, of subjects and assets; trimmed ones too
  Trim,      \* [Names -> Names]
  ByteOrder, \* the names, ascending
  Blank,     \* the empty name
  SafeNames, \* those is_safe_name allows in a v2 leaf
  Requests

Before(m, n) ==
  \E i, j \in DOMAIN ByteOrder : i < j /\ ByteOrder[i] = m /\ ByteOrder[j] = n

ASSUME NameAssumption ==
  /\ Trim \in [Names -> Names] /\ \A n \in Names : Trim[Trim[n]] = Trim[n]
  /\ Blank \in Names /\ Trim[Blank] = Blank
  /\ Subjects \cup Assets \subseteq Names
  /\ \A S \in (SUBSET Names) \ {{}} : \E n \in S : \A m \in S : m = n \/ Before(m, n)
  /\ SafeNames \subseteq Assets

ASSUME RequestAssumption ==
  \A q \in Requests :
    /\ q.kind \in {"liabilities", "otherProfile", "custody"}
    /\ q.leaves \in Seq(Range(q.leaves)) /\ Len(q.leaves) <= MaxLeaves
    /\ \A i \in DOMAIN q.leaves :
         /\ Trim[q.leaves[i].who] \in Subjects \cup {Blank}
         /\ DOMAIN q.leaves[i].amounts \subseteq Names /\ IsFiniteSet(DOMAIN q.leaves[i].amounts)
         /\ \A n \in DOMAIN q.leaves[i].amounts :
              /\ Trim[n] \in Assets \cup {Blank}
              /\ q.leaves[i].amounts[n] \in [neg : BOOLEAN, n : Nat]
    /\ IsFiniteSet(DOMAIN q.badDebt)
    /\ \A n \in DOMAIN q.badDebt : n \in Names /\ Trim[n] \in Assets /\ q.badDebt[n] \in Nat
    /\ \A n \in DOMAIN q.prices : q.prices[n] \in Nat
    /\ q.kind = "custody" =>
         /\ q.badDebt = <<>> /\ q.prices = <<>>
         /\ \A i \in DOMAIN q.leaves : q.leaves[i].who \in Subjects

VARIABLES
  request,
  next,     \* the leaf to read next
  users,    \* subject -> amounts, as read so far
  badDebt,  \* name -> amount
  clamped   \* how many balances were negative

vars == <<treeVars, request, next, users, badDebt, clamped>>

-----------------------------------------------------------------------------

\* parse_amount_18dp accepts it, given no sign.
Parses(amount) == amount <= MaxAmount

\* An amount the tree can hold.
Clamp(amount) == IF amount.neg THEN 0 ELSE amount.n

Negative(amounts) == {n \in DOMAIN amounts : amounts[n].neg}

\* A leaf's assets, trimmed; of two names that are one when trimmed, the later
\* in byte order overwrites the earlier.
LastFor(amounts, a) ==
  CHOOSE n \in DOMAIN amounts :
    /\ Trim[n] = a
    /\ \A m \in DOMAIN amounts : Trim[m] = a => m = n \/ Before(m, n)
Balances(amounts) ==
  [a \in {Trim[n] : n \in DOMAIN amounts} |-> Clamp(amounts[LastFor(amounts, a)])]

\* What a leaf owes of an asset.
DebtOf(amounts, a) ==
  SumFunction([n \in {m \in Negative(amounts) : Trim[m] = a} |-> amounts[n].n])

\* Mutant of DebtAfter: only the first negative balance of an asset is noted.
DebtIfNew(amounts) ==
  LET fresh == {Trim[n] : n \in Negative(amounts)} \ DOMAIN badDebt
  IN  [a \in DOMAIN badDebt \cup fresh |->
         IF a \in DOMAIN badDebt THEN badDebt[a] ELSE DebtOf(amounts, a)]

\* Every negative balance of a leaf is added to the bad debt of its asset.
DebtAfter(amounts) ==
  [a \in DOMAIN badDebt \cup {Trim[n] : n \in Negative(amounts)} |->
     Of(badDebt, a) + DebtOf(amounts, a)]

Refuse == pc' = "failed" /\ UNCHANGED <<leaves, levels, callVars, running, spans>>

\* What do_publish refuses around its loop, and do_custody's empty snapshot: before
\* it, no leaves, another profile, a disclosed bad debt that does not parse; after
\* it, a mark price (or an excluded total) that does not parse.
RefuseRequest ==
  /\ pc = "intake" /\ leaves = <<>>
  /\ \/ next = 1 /\ (request.leaves = <<>> \/ request.kind = "otherProfile")
     \/ next = 1 /\ \E n \in DOMAIN request.badDebt : ~Parses(request.badDebt[n])
     \/ next > Len(request.leaves) /\ \E n \in DOMAIN request.prices : ~Parses(request.prices[n])
  /\ Refuse
  /\ UNCHANGED <<request, next, users, badDebt, clamped>>

Acceptable ==
  /\ request.kind # "otherProfile"
  /\ \A n \in DOMAIN request.badDebt : Parses(request.badDebt[n])

\* Mutant of TakeLeaf: a user id is compared as written.
TakeLeafAsWritten ==
  LET leaf == request.leaves[next] IN
  /\ pc = "intake" /\ request.kind = "liabilities" /\ Acceptable
  /\ next <= Len(request.leaves)
  /\ IF \/ leaf.who = Blank \/ leaf.who \in DOMAIN users
        \/ \E n \in DOMAIN leaf.amounts : Trim[n] = Blank \/ ~Parses(leaf.amounts[n].n)
        \/ \E a \in DOMAIN DebtAfter(leaf.amounts) : DebtAfter(leaf.amounts)[a] > MaxAmount
     THEN Refuse /\ UNCHANGED <<next, users, badDebt, clamped>>
     ELSE /\ users' = [u \in DOMAIN users \cup {Trim[leaf.who]} |->
                         IF u = Trim[leaf.who] THEN Balances(leaf.amounts) ELSE users[u]]
          /\ badDebt' = DebtAfter(leaf.amounts)
          /\ clamped' = clamped + Cardinality(Negative(leaf.amounts))
          /\ next' = next + 1
          /\ UNCHANGED treeVars
  /\ UNCHANGED request

\* One turn of do_publish's loop over the leaves of the request.
TakeLeaf ==
  LET leaf == request.leaves[next]
      user == Trim[leaf.who]
  IN
  /\ pc = "intake" /\ request.kind = "liabilities" /\ Acceptable
  /\ next <= Len(request.leaves)
  /\ IF \/ user = Blank \/ user \in DOMAIN users
        \/ \E n \in DOMAIN leaf.amounts : Trim[n] = Blank \/ ~Parses(leaf.amounts[n].n)
        \/ \E a \in DOMAIN DebtAfter(leaf.amounts) : DebtAfter(leaf.amounts)[a] > MaxAmount
     THEN Refuse /\ UNCHANGED <<next, users, badDebt, clamped>>
     ELSE /\ users' = [u \in DOMAIN users \cup {user} |->
                         IF u = user THEN Balances(leaf.amounts) ELSE users[u]]
          /\ badDebt' = DebtAfter(leaf.amounts)
          /\ clamped' = clamped + Cardinality(Negative(leaf.amounts))
          /\ next' = next + 1
          /\ UNCHANGED treeVars
  /\ UNCHANGED request

\* One turn of parse_holdings' loop over the contracts of a custody response: a
\* contract's one asset and amount are taken as written.
TakePosition ==
  LET leaf == request.leaves[next] IN
  /\ pc = "intake" /\ request.kind = "custody"
  /\ next <= Len(request.leaves)
  /\ IF \/ leaf.who \in DOMAIN users
        \/ \E n \in DOMAIN leaf.amounts : leaf.amounts[n].neg \/ ~Parses(leaf.amounts[n].n)
     THEN Refuse /\ UNCHANGED <<next, users>>
     ELSE /\ users' = [u \in DOMAIN users \cup {leaf.who} |->
                         IF u = leaf.who THEN [n \in DOMAIN leaf.amounts |-> leaf.amounts[n].n]
                         ELSE users[u]]
          /\ next' = next + 1
          /\ UNCHANGED treeVars
  /\ UNCHANGED <<request, badDebt, clamped>>

\* What positions add up to in an asset.
TotalOf(positions, a) == SumFunction([u \in DOMAIN positions |-> Of(positions[u], a)])

\* do_custody's totals, and the names leaf_hash_v2 refuses.
CustodyRefused ==
  /\ request.kind = "custody"
  /\ \/ \E a \in Names : TotalOf(users, a) > MaxAmount
     \/ \E u \in DOMAIN users : ~(DOMAIN users[u] \subseteq SafeNames)

AllRead ==
  /\ pc = "intake" /\ request.leaves # <<>> /\ Acceptable
  /\ next > Len(request.leaves)
  /\ \A n \in DOMAIN request.prices : Parses(request.prices[n])

Committed == {leaves[i].hash.subject : i \in DOMAIN leaves}

RefusePositions ==
  /\ AllRead /\ CustodyRefused
  /\ Refuse
  /\ UNCHANGED <<request, next, users, badDebt, clamped>>

\* The subjects in ascending order, as the map of users and the sorted positions
\* give them, each with its leaf.
CommitLeaf ==
  /\ AllRead /\ ~CustodyRefused
  /\ \E u \in DOMAIN users \ Committed :
       /\ \A v \in DOMAIN users \ Committed : v = u \/ Before(u, v)
       /\ AddLeaf(u, users[u])
  /\ UNCHANGED <<request, next, users, badDebt, clamped>>

\* Mutant of BuildTree: the last leaf may still be missing.
BuildEarly ==
  /\ pc = "intake" => AllRead /\ ~CustodyRefused
                      /\ Cardinality(DOMAIN users \ Committed) <= 1
  /\ Build
  /\ UNCHANGED <<request, next, users, badDebt, clamped>>

\* SumTree::build over all of them.
BuildTree ==
  /\ pc = "intake" => AllRead /\ ~CustodyRefused /\ DOMAIN users \subseteq Committed
  /\ Build
  /\ UNCHANGED <<request, next, users, badDebt, clamped>>

ProveLeaf == Prove /\ UNCHANGED <<request, next, users, badDebt, clamped>>
VerifyLeaf == Verify /\ UNCHANGED <<request, next, users, badDebt, clamped>>

Init ==
  /\ TreeInit
  /\ request \in Requests
  /\ next = 1
  /\ users = <<>>
  /\ badDebt = request.badDebt
  /\ clamped = 0

Respond == RefuseRequest \/ TakeLeaf \/ TakePosition \/ RefusePositions \/ CommitLeaf \/ BuildTree
Next == Respond \/ ProveLeaf \/ VerifyLeaf

\* The service runs a request to its end.
Spec == Init /\ [][Next]_vars /\ WF_vars(Respond)
-----------------------------------------------------------------------------

\* The balances of a request, and what they are called once read.
Entries ==
  UNION {{<<i, n>> : n \in DOMAIN request.leaves[i].amounts} : i \in DOMAIN request.leaves}
Amount(e) == request.leaves[e[1]].amounts[e[2]]
Read(n) == IF request.kind = "custody" THEN n ELSE Trim[n]
EntriesOf(a) == {e \in Entries : Read(e[2]) = a}
Asked(a) == SumFunction([e \in EntriesOf(a) |-> Clamp(Amount(e))])
Owed(a) == SumFunction([e \in {f \in EntriesOf(a) : Amount(f).neg} |-> Amount(e).n])

\* A subject has two entries for one asset.
Collides == \E e, f \in Entries : e # f /\ e[1] = f[1] /\ Read(e[2]) = Read(f[2])

TypeOK ==
  /\ TreeTypeOK
  /\ next \in 1..(Len(request.leaves) + 1)
  /\ clamped \in Nat
  /\ \A u \in DOMAIN users : u \in Names
  /\ DOMAIN badDebt \subseteq Names

\* The root totals of a report are the balances of the request, in whatever order
\* its leaves came, with negative ones as zero: nobody's balance is lost, counted
\* twice or moved to another asset between the request, the clamping, the sorting
\* and the tree.  Unless one subject has two entries for an asset.
NothingLost ==
  pc \in Done /\ ~Collides =>
    /\ \A a \in Assets : Of(Root.sums, a) = Asked(a)
    /\ DOMAIN Root.sums = {Read(e[2]) : e \in Entries}
    /\ Len(leaves) = Len(request.leaves)

\* What a map of bad debts has of an asset, under any spelling.
Disclosed(debts, a) == SumFunction([n \in {m \in DOMAIN debts : Trim[m] = a} |-> debts[n]])

\* Negative equity is surfaced, not netted: the bad debt disclosed for an asset,
\* under any spelling, is what the request disclosed plus every balance clamped.
DebtSurfaced ==
  pc \in Done =>
    /\ \A a \in Assets : Disclosed(badDebt, a) = Owed(a) + Disclosed(request.badDebt, a)
    /\ clamped = Cardinality({e \in Entries : Amount(e).neg})

\* A request the routes document as publishable.
WellFormed ==
  /\ request.kind # "otherProfile" /\ request.leaves # <<>>
  /\ \A i, j \in DOMAIN request.leaves :
       i # j => Read(request.leaves[i].who) # Read(request.leaves[j].who)
  /\ \A e \in Entries : Parses(Amount(e).n)
  /\ request.kind = "custody" =>
       \A e \in Entries : ~Amount(e).neg /\ e[2] \in SafeNames
  /\ request.kind = "liabilities" =>
       /\ \A i \in DOMAIN request.leaves : Trim[request.leaves[i].who] # Blank
       /\ \A e \in Entries : Trim[e[2]] # Blank
  /\ \A n \in DOMAIN request.badDebt : Parses(request.badDebt[n])
  /\ \A n \in DOMAIN request.prices : Parses(request.prices[n])

\* Exactly the well-formed requests whose totals fit are published: neither the
\* order of the entries nor the shape of the tree decides whether an amount
\* overflows.
PublishesExactly ==
  /\ pc \in Done => WellFormed
  /\ pc = "failed" =>
       \/ ~WellFormed
       \/ \E a \in Assets : Asked(a) > MaxAmount
       \/ \E n \in Names : Of(request.badDebt, n) + Owed(n) > MaxAmount

\* Every request is answered: reading, committing and building come to an end.
Answered == <>(pc \in Done \cup {"failed"})

\* "Duplicate assets are an error" (SPEC section 2).
DuplicatesRefused == pc \in Done => ~Collides
=============================================================================
