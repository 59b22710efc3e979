---------------------------- MODULE Publications ----------------------------
(***************************************************************************)
(* Publishing reports for one organisation in the hosted console           *)
(* (web/src/lib/publications.ts, signing-key.ts, custody.ts, the overview  *)
(* page and the settings actions), over its PostgreSQL schema              *)
(* (web/prisma/schema.prisma) and the signing service.                     *)
(*                                                                         *)
(* A request is a sequence of awaits: it loads the organisation, reads the *)
(* latest publication, asks the signing service, and stores the result in  *)
(* a transaction.  Requests interleave between any two awaits, and any of  *)
(* them can be cut off.  The database is modelled by what it guarantees:   *)
(* committed rows are visible, a unique index makes the later of two       *)
(* conflicting inserts wait for the earlier and then fail, and two NULLs   *)
(* never conflict.                                                         *)
(*                                                                         *)
(* Publications are named by their place in the order they commit; 0 is    *)
(* "no publication", the NULL of previousId.  A publication's anchor       *)
(* digest covers its random salts, so distinct publications have distinct  *)
(* digests and the number stands for the digest as well.  Snapshot times   *)
(* and ledger offsets are strings; a number is a string's place in string  *)
(* order, which is how the console and the verifiers compare them.         *)
(***************************************************************************)
EXTENDS Naturals, Sequences, FiniteSets

CONSTANTS
  Requests,   \* requests the console can be serving at once
  Parties,    \* publisher parties an admin may enter in Settings
  Keys,       \* signing keys the service may mint
  Cuts,       \* the cut points publishers give: a snapshot-time string and a
              \* ledger-offset string after padStart, by place in string order
  None,       \* NULL, and an unset field
  MaxStarted, \* bound: requests over a behaviour
  MaxLosses   \* bound: times the keystore is replaced

ASSUME NoneAssumption == None \notin Parties \cup Keys
ASSUME CutAssumption == Cuts \subseteq [snap : Nat, offset : Nat]
ASSUME BoundAssumption == MaxStarted \in Nat /\ MaxLosses \in Nat

VARIABLES
  party,      \* Organization.publisherParty
  recorded,   \* Organization.signingKeyHex
  pubs,       \* committed Publication rows, in commit order
  custody,    \* the keys committed CustodyReport rows are signed with
  req,        \* what each request is doing, with what it has read
  serviceKey, \* the key the signing service holds for the organisation
  clock,      \* the database clock, advanced by each insert
  started,    \* requests so far
  losses      \* times the keystore was replaced so far

vars == <<party, recorded, pubs, custody, req, serviceKey, clock, started, losses>>

Blank ==
  [pc |-> "idle", party |-> None, recorded |-> None, snap |-> 0, offset |-> 0,
   prev |-> 0, key |-> None, createdAt |-> 0]

Finish(r) == req' = [req EXCEPT ![r] = Blank]

\* findFirst ordered by createdAt, newest first: the latest committed row, or 0.
Latest ==
  IF pubs = <<>>
  THEN 0
  ELSE CHOOSE i \in DOMAIN pubs :
         \A j \in DOMAIN pubs : pubs[j].createdAt <= pubs[i].createdAt

\* Mutants of MovesForward: a rewound offset passes; a restated time passes.
MovesForwardInTimeOnly(snap, offset, i) == i = 0 \/ snap > pubs[i].snap
MovesForwardOrRestates(snap, offset, i) ==
  i = 0 \/ (snap >= pubs[i].snap /\ offset >= pubs[i].offset)

\* The check against the previous publication, in string order.
MovesForward(snap, offset, i) ==
  i = 0 \/ (snap > pubs[i].snap /\ offset >= pubs[i].offset)

\* assertSameSigningKey, against the key the request read when it loaded the
\* organisation.
SameSigningKey(r, key) == req[r].recorded \in {None, key}

\* Mutant of TakenBy: previousId is not unique.
NeverTaken(prev) == FALSE

\* A committed row already names this predecessor; NULLs never conflict.
TakenBy(prev) == prev # 0 /\ \E i \in DOMAIN pubs : pubs[i].prev = prev

\* An open transaction has inserted a row naming this predecessor.
HeldBy(prev) ==
  prev # 0 /\ \E other \in Requests : req[other].pc = "inserted" /\ req[other].prev = prev

-----------------------------------------------------------------------------

\* An organisation as the create action leaves it before it asks for a key.
Init ==
  /\ party \in Parties
  /\ recorded = None
  /\ pubs = <<>>
  /\ custody = {}
  /\ req = [r \in Requests |-> Blank]
  /\ serviceKey \in Keys
  /\ clock = 0
  /\ started = 0
  /\ losses = 0

\* A publish request is authorised and loads the organisation: its publisher
\* party and recorded key, as they are now.
Authorise(r, cut) ==
  /\ req[r].pc = "idle"
  /\ started < MaxStarted
  /\ started' = started + 1
  /\ req' = [req EXCEPT ![r] =
               [pc |-> "authorised", party |-> party, recorded |-> recorded, snap |-> cut.snap,
                offset |-> cut.offset, prev |-> 0, key |-> None, createdAt |-> 0]]
  /\ UNCHANGED <<party, recorded, pubs, custody, serviceKey, clock, losses>>

\* publishForOrg reads the previous publication and goes on if this one moves
\* forward, or refuses.
CheckPrevious(r) ==
  /\ req[r].pc = "authorised"
  /\ IF MovesForward(req[r].snap, req[r].offset, Latest)
     THEN req' = [req EXCEPT ![r].pc = "checked", ![r].prev = Latest]
     ELSE Finish(r)
  /\ UNCHANGED <<party, recorded, pubs, custody, serviceKey, clock, started, losses>>

\* Mutant of Sign: the key of the answer is not kept.
SignForgetsKey(r) ==
  /\ req[r].pc = "checked"
  /\ IF SameSigningKey(r, serviceKey)
     THEN req' = [req EXCEPT ![r].pc = "signed"]
     ELSE Finish(r)
  /\ UNCHANGED <<party, recorded, pubs, custody, serviceKey, clock, started, losses>>

\* The signing service signs the report and the anchor naming the predecessor
\* it was given; the answer is refused if its key is not the one recorded.
Sign(r) ==
  /\ req[r].pc = "checked"
  /\ IF SameSigningKey(r, serviceKey)
     THEN req' = [req EXCEPT ![r].pc = "signed", ![r].key = serviceKey]
     ELSE Finish(r)
  /\ UNCHANGED <<party, recorded, pubs, custody, serviceKey, clock, started, losses>>

\* Mutant of Insert: a conflict with a committed row is waited for as well.
InsertOrWait(r) ==
  /\ req[r].pc = "signed"
  /\ ~HeldBy(req[r].prev)
  /\ ~TakenBy(req[r].prev)
  /\ clock' = clock + 1
  /\ req' = [req EXCEPT ![r].pc = "inserted", ![r].createdAt = clock']
  /\ UNCHANGED <<party, recorded, pubs, custody, serviceKey, started, losses>>

\* Mutant of Insert: a conflict with an uncommitted row is not waited for.
InsertUnheld(r) ==
  /\ req[r].pc = "signed"
  /\ IF TakenBy(req[r].prev)
     THEN Finish(r) /\ UNCHANGED clock
     ELSE /\ clock' = clock + 1
          /\ req' = [req EXCEPT ![r].pc = "inserted", ![r].createdAt = clock']
  /\ UNCHANGED <<party, recorded, pubs, custody, serviceKey, started, losses>>

\* The transaction inserts the row and stamps its createdAt.  A row naming the
\* same predecessor makes it wait while uncommitted, and fail once committed.
Insert(r) ==
  /\ req[r].pc = "signed"
  /\ ~HeldBy(req[r].prev)
  /\ IF TakenBy(req[r].prev)
     THEN Finish(r) /\ UNCHANGED clock
     ELSE /\ clock' = clock + 1
          /\ req' = [req EXCEPT ![r].pc = "inserted", ![r].createdAt = clock']
  /\ UNCHANGED <<party, recorded, pubs, custody, serviceKey, started, losses>>

\* Mutant of Commit: the request is not told, and commits once more.
CommitAndRetry(r) ==
  /\ req[r].pc = "inserted"
  /\ Len(pubs) < MaxStarted
  /\ pubs' = Append(pubs, [snap |-> req[r].snap, offset |-> req[r].offset,
                           party |-> req[r].party, key |-> req[r].key,
                           prev |-> req[r].prev, createdAt |-> req[r].createdAt])
  /\ recorded' = req[r].key
  /\ UNCHANGED <<party, custody, req, serviceKey, clock, started, losses>>

\* The proofs are in, the organisation's key is recorded, and all of it commits.
Commit(r) ==
  /\ req[r].pc = "inserted"
  /\ pubs' = Append(pubs, [snap |-> req[r].snap, offset |-> req[r].offset,
                           party |-> req[r].party, key |-> req[r].key,
                           prev |-> req[r].prev, createdAt |-> req[r].createdAt])
  /\ recorded' = req[r].key
  /\ Finish(r)
  /\ UNCHANGED <<party, custody, serviceKey, clock, started, losses>>

\* A service error, a timeout of the transaction or the end of the process: the
\* request is over and what it had not committed is gone.
Abandon(r) ==
  /\ req[r].pc # "idle"
  /\ Finish(r)
  /\ UNCHANGED <<party, recorded, pubs, custody, serviceKey, clock, started, losses>>

\* The overview page, or the create action: the organisation has no recorded
\* key, so the service is asked for one.
AskForKey(r) ==
  /\ req[r].pc = "idle"
  /\ started < MaxStarted
  /\ recorded = None
  /\ started' = started + 1
  /\ req' = [req EXCEPT ![r].pc = "asking"]
  /\ UNCHANGED <<party, recorded, pubs, custody, serviceKey, clock, losses>>

KeyAnswered(r) ==
  /\ req[r].pc = "asking"
  /\ req' = [req EXCEPT ![r].pc = "answered", ![r].key = serviceKey]
  /\ UNCHANGED <<party, recorded, pubs, custody, serviceKey, clock, started, losses>>

\* The answer is written to the organisation, whatever is recorded by now.
RecordKey(r) ==
  /\ req[r].pc = "answered"
  /\ recorded' = req[r].key
  /\ Finish(r)
  /\ UNCHANGED <<party, pubs, custody, serviceKey, clock, started, losses>>

\* attestCustodyForOrg: the service signs a custody report, and it is stored.
AttestCustody(r) ==
  /\ req[r].pc = "idle"
  /\ started < MaxStarted
  /\ started' = started + 1
  /\ req' = [req EXCEPT ![r].pc = "attested", ![r].key = serviceKey]
  /\ UNCHANGED <<party, recorded, pubs, custody, serviceKey, clock, losses>>

StoreCustody(r) ==
  /\ req[r].pc = "attested"
  /\ custody' = custody \cup {req[r].key}
  /\ Finish(r)
  /\ UNCHANGED <<party, recorded, pubs, serviceKey, clock, started, losses>>

\* updateGeneralAction: an admin saves the settings form.
UpdateGeneral(p) ==
  /\ party' = p
  /\ UNCHANGED <<recorded, pubs, custody, req, serviceKey, clock, started, losses>>

\* The keystore is lost, or restored from some backup: the service's next
\* signature is under the key it then holds.
ReplaceKeystore(k) ==
  /\ losses < MaxLosses
  /\ serviceKey' = k
  /\ losses' = losses + 1
  /\ UNCHANGED <<party, recorded, pubs, custody, req, clock, started>>

Proceed(r) ==
  \/ CheckPrevious(r) \/ Sign(r) \/ Insert(r) \/ Commit(r)
  \/ KeyAnswered(r) \/ RecordKey(r) \/ StoreCustody(r)

Begin(r) ==
  \/ \E cut \in Cuts : Authorise(r, cut)
  \/ AskForKey(r)
  \/ AttestCustody(r)

Next ==
  \/ \E r \in Requests : Begin(r) \/ Proceed(r) \/ Abandon(r)
  \/ \E p \in Parties : UpdateGeneral(p)
  \/ \E k \in Keys : ReplaceKeystore(k)

Spec == Init /\ [][Next]_vars

\* Every await of a request in progress resolves: the console's event loop runs
\* it on.  Nothing has to be abandoned, and nobody has to begin.
FairSpec == Spec /\ \A r \in Requests : WF_vars(Proceed(r))

-----------------------------------------------------------------------------

PubType ==
  [snap : Nat, offset : Nat, party : Parties, key : Keys, prev : Nat, createdAt : Nat]

ReqType ==
  [pc : {"idle", "authorised", "checked", "signed", "inserted", "asking", "answered", "attested"},
   party : Parties \cup {None}, recorded : Keys \cup {None}, snap : Nat, offset : Nat,
   prev : Nat, key : Keys \cup {None}, createdAt : Nat]

\* A request that has got as far as publishing carries a complete publication,
\* and the predecessor it read is a row that was committed.
ReqOK(request) ==
  /\ request \in ReqType
  /\ request.prev \in {0} \cup DOMAIN pubs
  /\ request.pc \in {"authorised", "checked", "signed", "inserted"} =>
       [snap |-> request.snap, offset |-> request.offset] \in Cuts /\ request.party \in Parties
  /\ request.pc \in {"signed", "inserted", "answered", "attested"} => request.key \in Keys

\* Types: of the database, and of what each request carries from await to await.
TypeOK ==
  /\ party \in Parties
  /\ recorded \in Keys \cup {None}
  /\ pubs \in Seq(PubType)
  /\ custody \subseteq Keys
  /\ req \in [Requests -> ReqType]
  /\ \A r \in Requests : ReqOK(req[r])
  /\ serviceKey \in Keys
  /\ clock \in Nat /\ started \in Nat /\ losses \in Nat

\* No two stored publications name the same predecessor, however many requests
\* read the same latest publication and raced to follow it.
NoFork ==
  \A i, j \in DOMAIN pubs : pubs[i].prev = pubs[j].prev /\ pubs[i].prev # 0 => i = j

\* A publication that names a predecessor was stored after it, was created after
\* it, has a later snapshot time and an offset no lower, in string order, even
\* though all of that was checked against a row read several awaits before.
LinkAdvances ==
  \A i \in DOMAIN pubs :
    LET prev == pubs[i].prev IN
    prev # 0 =>
      /\ prev \in 1 .. i - 1
      /\ pubs[prev].createdAt < pubs[i].createdAt
      /\ pubs[prev].snap < pubs[i].snap
      /\ pubs[prev].offset <= pubs[i].offset

\* What a request read and checked stays true until it commits, across all its
\* awaits and whatever the others do: it still moves forward from its
\* predecessor; and once it has inserted, it is younger than its predecessor, no
\* older than the clock, and the only one to follow that predecessor.
ChecksStillHold ==
  /\ \A i \in DOMAIN pubs : pubs[i].createdAt <= clock
  /\ \A r \in Requests :
       LET prev == req[r].prev IN
       /\ req[r].pc \in {"checked", "signed", "inserted"} =>
            MovesForward(req[r].snap, req[r].offset, prev)
       /\ req[r].pc = "inserted" =>
            /\ req[r].createdAt <= clock
            /\ prev # 0 => pubs[prev].createdAt < req[r].createdAt
            /\ ~TakenBy(prev)
            /\ \A q \in Requests \ {r} :
                 req[q].pc = "inserted" /\ req[q].prev = prev => prev = 0

SingleGenesis == \A i, j \in DOMAIN pubs : pubs[i].prev = 0 /\ pubs[j].prev = 0 => i = j
SingleParty == \A i, j \in DOMAIN pubs : pubs[i].party = pubs[j].party

\* As long as two first publications have not both been stored, every later
\* publication names the one stored just before it, and createdAt, which the
\* history is served in the order of, agrees with the order of storing.
ChainInOrder ==
  SingleGenesis =>
    \A i \in DOMAIN pubs :
      /\ pubs[i].prev = i - 1
      /\ i > 1 => pubs[i - 1].createdAt < pubs[i].createdAt

\* anchor_report: the anchor of a stored publication.
AnchorOf(i) ==
  [digest |-> i, prev |-> pubs[i].prev, publisher |-> pubs[i].party,
   snapshot_time |-> pubs[i].snap, ledger_offset |-> pubs[i].offset]

\* anchors.json: the anchors of the stored publications, oldest createdAt first.
History ==
  LET order == CHOOSE f \in [DOMAIN pubs -> DOMAIN pubs] :
                 \A i, j \in DOMAIN pubs : i < j => pubs[f[i]].createdAt < pubs[f[j]].createdAt
  IN [i \in DOMAIN pubs |-> AnchorOf(order[i])]

\* Snapshot times are their places in the order of strings.
PlacedBefore(s, t) == s < t

Chain == INSTANCE AnchorChain WITH NoAnchor <- 0, Before <- PlacedBefore

\* What the console serves as the organisation's history passes the verifiers'
\* walk, unless two first publications were stored or the publisher party was
\* edited between publications.
HistoryVerifies == SingleGenesis /\ SingleParty => Chain!verify_chain(History).ok

\* The walk passes even if the publisher party was edited in between.
HistoryVerifiesWhateverParty == SingleGenesis => Chain!verify_chain(History).ok

\* "One anchor per publication, each naming the one before it by digest" (the
\* history page, en.json).
EachNamesTheOneBefore ==
  \A i \in DOMAIN pubs : History[i].prev = IF i = 1 THEN 0 ELSE History[i - 1].digest

\* Once an organisation has a recorded key, no report signed by another key is
\* stored: "a report signed by any other key is refused, and the operator
\* decides" (signing-key.ts).
OtherKeysRefused ==
  [][ /\ \A i \in DOMAIN pubs' \ DOMAIN pubs : recorded \in {None, pubs'[i].key}
      /\ \A key \in custody' \ custody : recorded \in {None, key} ]_vars

\* No request waits for ever: a transaction waiting for a conflicting one gets
\* its turn or its error when that one ends.
RequestsFinish == \A r \in Requests : req[r].pc # "idle" ~> req[r].pc = "idle"

\* The stored publications implement the abstract histories.
Abstract ==
  INSTANCE AnchorHistories
    WITH log <- [i \in DOMAIN pubs |-> [snap |-> pubs[i].snap, offset |-> pubs[i].offset,
                                         prev |-> pubs[i].prev]]
ImplementsHistories == Abstract!Spec
=============================================================================
