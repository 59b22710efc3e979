# Canton Assurance Layer in TLA+

This directory models the parts of the repository whose correctness depends on
order, on arithmetic and on structure: what a hosted console and a signing
service do when requests overlap, processes die and operators intervene; how a
request becomes a tree of sums whose root is published; what a reader may believe
of the documents that verify; and what a simulation says of a ledger that moves
on. Each module is written from the source; what is left is in the plan.

## The system

A *publisher* (a venue, a custodian, a fund) turns a balance file into a signed
report: a Merkle-sum tree of its customers' balances, a root, one proof per
customer, and an *anchor* that links the report to the one before it. Customers,
auditors and regulators verify what they are handed without trusting the server
it came from.

| Part | Source | State it keeps | Operations | What makes it correct |
|---|---|---|---|---|
| Signing service: keystore | `rust/solvency-service/src/keystore.rs` | one sealed seed file per organisation | `signer_for` (exists, mint, seal, unseal) | one organisation, one key; no half-written key; nobody signs with another's key |
| Signing service: intake | `rust/solvency-service/src/api.rs` | none | `do_publish`, `do_custody` | what is signed is what was submitted, after trimming and clamping |
| Console: publishing | `web/src/lib/publications.ts`, `signing-key.ts` | `Publication`, `Proof`, `Organization.signingKeyHex` | publish (form and API), record the key | one chain that moves forward, under one key |
| Console: custody and coverage | `web/src/lib/custody.ts`, `coverage.ts` | `CustodyReport`, `CoverageStatement` | attest custody, store and pair a statement | pairs that were meant for each other, under the same key |
| Console: members | `members/actions.ts`, `web/src/lib/rbac.ts` | `Membership`, `Invitation`, `AuditorGrant` | invite, change a role, remove, revoke, accept on a visit | an owner remains; no role above the giver's; revoked means out |
| Console: the rest | API keys, customers, portal, audit log, rate limiter | their tables; an in-memory counter | create, revoke, look up, count | a revoked key opens nothing; a customer sees their own proofs |
| Merkle-sum tree | `rust/solvency-merkle` | none (pure) | canonical balances, build, prove, verify | the root's sums are the leaves'; a proof verifies for its leaf only; sums do not overflow |
| Reports | `rust/solvency-report`: `produce`, `verify`, `document`, `digest`, `sign`, `profile`, `manifest` | none (pure) | produce, digest, verify | every check runs, in an order that makes the verdict meaningful |
| Anchor chain | `anchor.rs`, `ts/verifier/src/coverage.ts` | none (pure) | `anchor_report`, `verify_chain` | a dropped, forked or restated day shows |
| Statements over reports | `coverage.rs`, `assurance.rs`, `provenance.rs`, `group.rs`, `pack.rs` | none (pure) | verify a statement against reports | no level or coverage claimed that the evidence does not carry |
| Reserve attestation | `rust/reserve-attest` | none | reserves from a custody response | each contract counted once |
| Simulator | `rust/sim-core`, `sim-fee`, `sim-diagnose`, `sim-server`, `sim-cli` | none of its own; the ledger moves | prepare, read contracts, diagnose, estimate the fee | a diagnosis about the transaction that was prepared |
| Ledger contracts | `daml/solvency-anchor` | anchor contracts | create, disclose, audit | who sees an anchor only widens |
| Tools and pages | `solvency-cli`, `sim-cli`, `publish`, web components, offline verifiers | none | parse, print | presentation of the above |

How they interact: a console request loads rows through Prisma, calls the
signing service over HTTP, compares the key it answered with, and stores
everything in one transaction. The console serves stored anchors as
`anchors.json`, oldest `createdAt` first, and verifiers walk that array. The
signing service has no database: its only state is the keystore directory, and
`signer_for` runs on several worker threads without a lock. Nothing coordinates
two console requests except the indexes of PostgreSQL.

Hard to test, and so the subject of the properties: requests interleaving
between awaits; a crash between two file-system calls; a key or a role or a
previous publication that has changed since it was read; a request whose
outcome the caller never learns; sequences of permitted calls (a settings edit
between two publications, an invitation of a member) with an outcome no page
shows.

## Modules

| Module | Models | Kind |
|---|---|---|
| `Keystore` | `signer_for`, `seal`, `unseal`, crashes, operators | state machine |
| `KeystoreProofs` | types, seeds, half-written files, one key, refinement | proofs |
| `OrgKeys` | what the keystore promises | abstract specification |
| `Publications` | publishing, recording the key, custody attestation, settings | state machine |
| `AnchorHistories` | what the stored publications promise | abstract specification |
| `AnchorChain` | `verify_chain` | pure |
| `MCPublications` | cut points for TLC | instance |
| `PublicationsSafety` | types, chain, order, what is served, refinement | proofs |
| `Membership` | the members page and visits | state machine |
| `MembershipProofs` | types, owners, invitations, roles given | proofs |
| `SumTree` | `build`, `prove`, `verify_proof` | state machine of loops |
| `Produce` | `do_publish`, `do_custody` up to the tree | state machine over `SumTree` |
| `ProduceProofs` | the tree's totals, overflows and proofs of leaves; `Produce` implements `SumTree`; debts, refusals | proofs |
| `MCProduce` | requests for TLC | instance |
| `Documents` | what is published: reports, proofs, groups, anchors, packs | pure |
| `Verifiers` | every verifier, as its checks in order | pure |
| `VerifiersProofs` | roots and their leaves, proofs and folds, totals, what each verdict has seen, the calendar | proofs |
| `Conformance` | the golden documents, the corpus, a run over it | state machine |
| `Delivery` | a directory written by `publish`, read by `verify-pack` | state machine |
| `Readers` | publishers, altered documents, readers; composes the two above | state machine |
| `ReadersProofs` | what readers may believe, topic by topic; packs, deliveries, directories swept, runs that finish | proofs |
| `MCReaders` | topics, features, balance files for TLC | instance |
| `Simulator` | a simulation, the ledger, the submission | state machine |
| `SimulatorProofs` | contracts looked up, fees quoted, effects reported | proofs |
| `MCSimulator` | transactions and fees for TLC | instance |
| `Basics` | induction, sequences and sums over finite sets, for all proof modules that need them | lemmas |

`Publications` composes `AnchorChain` (the verdict on what the console serves; the order
of snapshot times is its operator parameter `Before`)
and implements `AnchorHistories`; `Keystore` implements `OrgKeys`; `Produce`
takes its steps on the tree from `SumTree` and is proved to implement it.
`Verifiers` is about `Documents`; `Readers` extends `Delivery` and `Conformance`
and takes one of their steps when its topic is theirs; histories in `Conformance`
and `Readers` go through `AnchorChain`, as the console's do.

### Keystore

A caller in progress is a process with a `pc`, because `keys`, `publish_route`
and `custody_route` call `signer_for` from concurrent worker threads. The steps
are the system calls: the existence test (`FindKey`, `MintSeed`), opening and
truncating the temporary file (`OpenTmp`), writing (`WriteTmp`), renaming
(`RenameTmp`), reading (`ReadKey`). The directory maps names to inodes, since
all callers of one organisation share `{org}.key.tmp`: a caller that has opened
it goes on writing into that inode after another caller has renamed it into
place. Sealing is symbolic: bytes open only under the KEK and for the
organisation they were sealed for. A write is one step, so a file is short or
whole; a crash keeps what was written. `mintedFor`, `answers` and `raced` are
history.

`Keystore.cfg`: two callers, two organisations, two KEKs, three seeds, two
faults. `OneKey`, `NoHalfKey` and the refinement hold for organisations whose
first uses have not overlapped; `SignsAsItself` holds always. Two callers are
enough for every overlap of two calls on one file; three seeds let a third first
use follow a raced pair or serve the other organisation; two faults let a crash
follow an operator's move or a loss. `KeystoreHalfKey.cfg` drops the proviso:
two first uses and one crash leave an organisation with a key file that never
opens, which the comment in `seal` rules out.

### Publications

A request carries what it has read: the publisher party and recorded key from
`Authorise`, the previous publication from `CheckPrevious`, the key of the
answer from `Sign`. `Insert` and `Commit` are the two ends of the transaction:
a row naming a predecessor waits for an uncommitted row naming the same one
(`HeldBy`), fails once one is committed (`TakenBy`), and two rows naming none do
not conflict. `Abandon` is every way a request ends early: a service error, the
two-minute limit of the transaction, the end of the process. The overview page
and the creation of the organisation ask the service for a key
(`AskForKey`, `KeyAnswered`, `RecordKey`), custody reports are attested and
stored (`AttestCustody`, `StoreCustody`), an admin saves the settings
(`UpdateGeneral`), and the keystore is replaced (`ReplaceKeystore`, external).

Snapshot times and offsets are places in string order, which is how the console
and both verifiers compare them.
`createdAt` is a clock that advances with every insert: two inserts in one
millisecond and a wall clock that steps back are not modelled. A publication's
number stands for its anchor's digest, which covers random salts.

- `Publications.cfg`: two requests at a time out of three, two parties, one
  keystore replacement by the same key, and four cuts that allow a chain of
  three, a rewound offset and two reports for one time. `NoFork`,
  `LinkAdvances`, `ChecksStillHold` and the refinement hold without proviso;
  `ChainInOrder` as long as two first publications have not been stored, and
  `HistoryVerifies` if, besides, the party was not edited. Three requests are
  the least that shows a fork behind a first publication.
- `RequestsFinish` assumes weak fairness of `Proceed`: a promise of a request in
  progress resolves. The console runs on an event loop, the HTTP client and the
  transaction have time limits, and the database releases a waiting insert when
  the transaction it waits for ends. Nothing is assumed of `Begin`, `Abandon` or
  the operators.
- `PublicationsRace.cfg`, `PublicationsParty.cfg`: each proviso of
  `HistoryVerifies` is needed. Two concurrent first publications are both
  stored; one settings edit makes the whole history fail for good.
- `PublicationsKey.cfg`: with two keys, documents signed by another key than the
  recorded one are stored, against the comment in `signing-key.ts`.

### Membership

Every query of the members page is a step: the caller's role (`Authorise`), the
account of an address (`LookUp`), the target's row (`ReadTarget`), the number of
owners (`CountOwners`), the write (`AddMember`, `WriteTarget`). Only the
acceptance of an invitation is a transaction (`Accept`). A request that loses
its row to another one fails, as `update` and `delete` by key do.

`Membership.cfg`: two requests at a time out of four, three people, two roles
and one invitation. Two roles suffice to give, lower and refuse; a third person
lets an owner be replaced while two others act. `OwnerKept` says an owner
remains unless one was lowered without a count of the owners that still stood
(`excused`, history). A count stands (`counted`) until another owner than the
one it was made for is lowered; whoever is added, raised, removed or accepted
meanwhile, it is enough. Three ways are left out, each enough for TLC to find
the organisation without an owner: the invitation of an owner, whose upsert
counts nothing; a request that read its target before somebody made an owner of
it; and two requests that both counted two. `MembershipLastOwner.cfg` drops the
proviso, with two requests at a time, which reaches all three; TLC prints the
shortest, the invitation. A caller lowered after being let in still acts, and a
removed member with a second invitation returns; the model exhibits both, no
document forbids them, and no property speaks of them.

### SumTree and Produce

`SumTree` turns the loops of the library into actions: a turn of `build` makes
one level (`BuildLevel`), a turn of `prove` climbs one (`ProveStep`), a turn of
`verify_proof` folds in one sibling (`FoldStep`). A hash is the term that was
hashed, so two nodes have one hash only if they are one node; a salt is its
subject's. The check of `checked_add` is a guard (`Fits`), and `MaxAmount`
stands for the largest `u128`. `running` and `spans` are history: what the first
leaves hold together, and which leaves lie below a node.

`Produce` is what comes before: a turn of `do_publish`'s loop (`TakeLeaf`) trims
the names, refuses what is blank, taken or no amount, clamps a negative balance
to zero and adds it to the bad debt; a turn of `parse_holdings` (`TakePosition`)
takes a contract as it is written, once. Then the leaves are committed in
ascending order and the tree is built. A number above `MaxAmount` stands for
every text that is no amount; a request is one record, and its two JSON maps are
functions from names as written. A custody leaf has a single map, `held`, whose
prefix is left out.

- `Produce.cfg`: every request of up to two leaves over eight balance maps (two
  spellings of an asset, two of a customer, blanks, negative, too large), books
  of three and five leaves in shuffled order, bad debt disclosed beforehand, and
  custody snapshots of up to two positions and of four. With `MaxAmount` 3, two
  balances overflow at the lowest level, at a higher one, or not at all. Three
  leaves promote a node once, five promote one through two levels.
  `NothingLost` excludes one case, a customer with two spellings of one asset.
- `Answered` assumes weak fairness of `Respond`: a request once accepted runs
  to its end on its worker thread, and nothing in it waits for another.
- `ProduceDuplicate.cfg` shows that the excluded case is published: the later
  spelling overwrites the earlier one's balance, while SPEC section 2 makes
  duplicate assets an error. Its requests have no negative balance (`Unclamped`),
  so that nothing is clamped and no debt discloses what is lost.

A comment in `do_publish` says SPEC section 4 requires ascending user ids. That
section asks for a stable order that should not be predictable from the
identifiers. The properties here hold in any order; what an order lets a
customer learn of another is not modelled, nor are proofs that `prove` did not
make.

### Documents and Verifiers

`Documents` makes what a publisher signs: a report over the leaves' tree with one
proof per leaf (`publish`), the same commitment for several audiences
(`publish_for_audiences`), a report over the roots of other reports
(`publish_group`), anchors and packs. `Verifiers` takes each verifier as the
sequence of its checks in the order the code makes them; `InOrder` gives the first
that fails, which is the error the code returns. A `?` or an early return is thus a
place in the sequence, and exchanging two checks changes verdicts.

A digest is the term that was digested, under its domain; a signature is the key
and the digest; `Garbled` is text that is not a signature, `<<>>` text that is
no hash. Timestamps are calendar fields with their tail (`Z`, a fraction, an offset),
read by `parses` and `parse` with the leap years of `instant.rs`. The trees here are computed
at once (`Levels`), where `SumTree` takes them turn by turn; that the two agree
is not stated as a refinement. `Height`, `Levels`, `prove` and `fold` are recursive
functions on heights, so that the proofs can reason about them.

### Conformance

`cases` holds every case `corpus_gen.rs` writes, cut from the golden documents of
`golden.rs`, each with the features it requires, the failure it expects, and the
verdict of the verifier it is run through. `RunCase` is one turn of the loop that
makes a compatibility statement, for each of the sixteen sets of features that leave
out some of `Partial`. `AsTheCorpusExpects`: each verdict is the failure the
corpus names, so a check missing or made too early shows. `defects`, which holds a
statement against the corpus, is not modelled: of a statement `build_statement`
made there is nothing for it to find.

### Delivery

`publish.rs` computes everything and then writes one file after another with
`fs::write`, which truncates (`TruncateFile`) and fills (`FillFile`); the index
comes last. A run may die anywhere (`CrashExport`), and a second run may write
into the same directory. `run_pack` reads the index (`ReadIndex`), lists the
directory (`ListMembers`), reads each file listed (`ReadMember`, in any order),
and compares (`CheckIndex`). If the index is right it goes on as `verify` over a
directory does, which may also begin by itself (`Sweep`): the report is loaded
(`LoadReport`), the directory listed again (`ListProofs`), each file read in the
order of names up to one that does not parse (`ReadProof`), and the verdict given
(`FinishSweep`). Writers may come between any two of these. What is swept after
an index was checked is thus what the directory holds by then, possibly of a
later run than the index: `pack.rs` verifies contents "once the delivery is known
to be the intended one", and nothing ties the two readings together.
`exports` and `whole` are history.

`DeliveredWhole`: the files `verify-pack` holds against the index are the output of
one run, byte for byte. `SweptOneRun`: the report a passing sweep loaded and the
proofs it read after it are of one run, though crashes mix runs on disk and
writers replace the files between the reads. `FinishedRunVerifies`: publishing
again repairs a directory, unless an earlier run left the proof of a customer who
is gone; the sweep then fails for good, because nothing is removed.

### Readers

Publishers issue documents and readers accept what verifies. A publisher may
print totals or a count that are not its tree's, start a chain over, fork it, or
disclose less than before; on the way a document may lose its manifest, have a
field exchanged or be combined with another day's. What a document was made from
is kept as history (`source`), and each property holds what the reader
believes against it.

| Topic | Documents | Property: a reader who accepts ... |
|---|---|---|
| inclusion | liability reports of two days, their proofs, dumps | `Committed`: ... a proof or a dump has amounts the publisher's source held, under totals that are its sums |
| group | entity reports, two entities' group reports, memberships | `ChainReaches`: ... a chain from a customer to a group has one unbroken line of reports |
| coverage | custody and liability reports, statements pairing them | `CoveredMeansHeld`: ... "covered" has positions and balances in the sources that bear it out, at times close enough |
| assurance | reports, attestations by several keys, provenance graphs | `NoOverClaim`: ... a level has the evidence that level needs, about that field of that report |
| history | anchored reports over three times, two of them in one second, and two offsets | `HistoryComplete`: ... a history has no gap, and each day is later than the one before as text, and in time unless the seconds are the same |
| disclosure | reports with manifests | `ReductionsOnRecord`: ... two reports sees every field that went from shown to not shown |

Which days are published for, at which times, and which books, are constants
(`Days`, `Snapshots`, `Amounts`), of which the module assumes only that a book is
not empty and its total is an amount, the tools refusing any other, and that
a timestamp has four digits for the year and two for each other field.

`verify_chain` compares snapshot times as text. Within a second the text does not
follow time: a report of 00.2Z followed by one of 00Z is accepted, the later
report being of the earlier instant. `parse` does not see it, as it drops fractions.
`HistoryComplete` says no more than the code keeps (`Later`); with `parse(s) <
parse(t)` alone TLC exhibits that restatement.

`Verification.cfg` runs all eight topics; a behaviour stays in the one it starts
with. Bounds: three issued documents where a chain of three or a fork needs them (group,
history, assurance), two where a mixture of two is the hazard; three acceptances
for coverage (two sides and the statement), one where the property is of a single
acceptance. Four balance files give two users, one, a duplicate (refused) and an
overflow (refused). Two runs are the least that mix, and one reader overlaps both.
`MaxAmount` leaves room for the golden totals; `One` is 4 because a quarter is
the least fraction the golden documents use. A system of readers may stop and the
bounds are reached, so deadlock is not checked; nothing is assumed to happen, and
no liveness is claimed.

### Simulator

The ledger is a state per contract that others change between any two steps
(`OthersCreate`, `OthersArchive`). `prepare` interprets the commands
(`Outcome`, external): they are a sequence of steps, in which an exercise or a
rollback stands before what it brings about and an "End" after it, and each step
(`Perform`) changes the contracts, adds a node, or ends it all with an error. The
participant gives the siblings of a node in some order, which no effect tells
apart. It answers with a transaction, a rejection or nothing
(`on_prepared`, `on_rejected`, `Unreachable`); a rejection's contracts are looked
up one call at a time (`lookup_contract`), each call seeing the ledger of its own moment
and putting a hint before the others (`Hinted`); then somebody
may submit the same request (`Submit`). `since` is the ledger the answer was of.

`EffectsCommitted`: if the input contracts are as they were, a simulated success
commits with the effects reported. `StatesHold`: what a lookup reports of a
contract holds although the rejection and the lookup saw different ledgers: an
archived contract stays so, and one that was not found and is active came in
between. `FeeAsScheduled`: the bracket loop of `sim-fee` is the sum of marginal
rates.

`Simulation.cfg`: three contracts, one of them the transaction's to create and one
its reader may not see; seven command bodies (nested exercises, a rollback, a
double consumption, a failing assertion that names more contracts than
`max_contract_lookups`), two sets of readers, three kinds of transfer whose
amounts lie inside, on and beyond the two fee steps. One simulation is enough:
`sim-core` keeps nothing from one to the next. The system may stop after the
report, so deadlock is not checked.

## Proofs

`PublicationsSafety` proves, for any sets of requests, parties, keys and cuts and
any bounds:

- `TypesHold`. `TypeOK` alone is not inductive: `Latest` chooses a row with the
  greatest `createdAt`, and that there is one is carried along (`HasLatest`)
  rather than derived from finiteness.
- `NoForkHolds`, `LinkAdvancesHolds`, `ChecksStillHoldHolds`, from the inductive
  invariant `Safe`. A stored row is only as good as what the request knew when
  it inserted, so the induction runs over the requests in progress:
  `ChecksStillHold` says that each still moves forward from the row it read, and
  that one that has inserted is younger than its predecessor, no older than the
  clock and the only one, committed or not, to name it. The steps that change
  one request and store nothing share one lemma (`AdvanceSafe`); `Insert` and
  `Commit` have their own.
- `ChainInOrderHolds`: short of two first publications, `Safe` leaves the last
  row as the only one that can be followed.
- `HistoryVerifiesHolds`. What the console serves is sorted by `createdAt`, and
  the sort is defined by a position for each row. A map of `1..n`
  into itself that increases is the identity (a least counterexample
  would have nowhere to go), so rows stored in order of `createdAt` are served
  as they were stored (`ServedAsStored`), and each names the one before it
  (`ChainVerifies`).
- `Refinement`: `Spec => ImplementsHistories`.

`KeystoreProofs` proves, for any sets of callers, organisations and KEKs and any
numbers of seeds and faults:

- `TypesHold` and `SignsAsItselfHolds`, from the invariant `Seeds`: every inode a
  name or a call refers to has been created, and every sealed file and every
  seed in a call or an answer was drawn for the organisation it stands under.
  The associated data of the seal makes the second part survive an operator
  moving a file.
- `NoHalfKeyHolds` and `OneKeyHolds`, from `Kept`, which adds what calls of an
  organisation that is not `raced` may rely on: names do not share inodes
  (`Apart`), an inode being written has no name of another organisation (`OwnInode`), one
  call at a time is minting (`OneMinting`) and while it does there is no key
  (`NoKeyYet`), what it renames is what it wrote (`OnTmp`), and every answer is
  the seed in the file (`Answered`). Both properties fail without the proviso,
  so the induction has to carry the exact moment two first uses overlap.
- `KeysRefinement`: `Spec => ImplementsOrgKeys`. The rename is the step that
  makes a key; everything before it is a stutter.

`MembershipProofs` proves, for any people, requests and roles:

- `MembershipTypesHold` and the three action properties (`RevokedStaysOutHolds`,
  `VisitKeepsRolesHolds`, `NoRoleAboveTheGiverHolds`) from `Sound`: what a
  request carries was compared with its caller's role when it was let in, an
  invitation never exceeds its sender's, and a visit's list is the visitor's.
- `OwnerKeptHolds` from `Owned`: where a count still stands there is an owner
  besides the target (`Standing`), through whatever others write.

`ProduceProofs` proves of `SumTree`, for any subjects and assets, any largest amount and any
number of leaves, what TLC sees up to five:

- `RootTotalsHold` and `OverflowOnlyHold`, from `Grown`. The totals of a tree are
  recursive in its height, so the induction does not compute them: it carries,
  for every node of the top level, the span of leaves below it and that the node
  holds what they hold together (`Carries`), a difference of two entries of
  `running`. Pairing neighbours joins neighbouring spans (`PairedCovers`), a
  promotion keeps one, and since `running` never goes down, two nodes that do
  not fit are part of a total that does not (`OverflowBelow`).
- `ProofsVerifyHold`, from `Walking` and `Folding`: the steps collected so far
  lead from the leaf to the node the climb has reached (`Leads`), so the fold of
  that leaf follows the same path upwards, while the fold of another leaf has
  another hash at every step, since a hash determines what was hashed
  (`StepInjective`).
- `TreeTypesHold`.

And, for any requests, names, amounts and bounds, every safety property of
`Produce`:

- That it implements `SumTree` (`ReportsAreTrees`): what was read is `u128`
  amounts of known names, and a leaf is committed to only when every refusal is
  behind (`Intake`). The three theorems then hold of reports (`ReportTotals`,
  `ReportOverflows`, `ReportProofs`).
- Sums over finite sets (`Basics`). A sum is a fold that takes the elements in an unknown
  order. `FoldGiven` shows that the fold exists, `FoldsAgree` that a smaller set
  has the same one, `SumRemoves` that any element may be taken first; from there
  the lemmas are those of arithmetic: `SumAlong` (a tally read along an injection
  is the same, if it misses only zeros), `SumPlus`, `SumDisjoint`, `SumWithin`.
  Their induction goes by cardinality (`AllFinite`).
- `NothingLostHolds`, `DebtSurfacedHolds`, `PublishesExactlyHolds` and `TypesHold`,
  from the inductive invariant `Books`, which says what each stage has of the
  request: `Taken`, that the users are the leaves read so far, one each, and that
  these passed the checks; `Noted`, that the debt under each name is what was
  disclosed and what the leaves read so far owe, and the count that of their
  negative balances; `Added`, that the history of the tree is the sum of what the
  subjects committed to hold, and that a request that failed was one that may be
  refused. The balances of the request and what the users hold are one
  tally read along `Source`, the entry a holding came from; two spellings of one
  asset are the only way for it to miss an entry (`TotalAsked`), which is why
  `NothingLost` excludes them and why an overflow is still one of the request's.
- It assumes that byte order has a last name in every set of names, that trimming
  twice is trimming once, and that requests are well-typed and finite.

`VerifiersProofs` is what the proofs about documents share, for any leaves, steps
and documents. Its inductions take the least counterexample (`LeastNatural`,
`AllNaturals`, in `Basics`), as no induction rule with an operator parameter can be used.

- The tree. A book's tree is a function from heights to levels (`IsTree`,
  `TreeOver`). `FoldReaches`: whatever siblings a proof gives, if it folds a leaf
  to a root then the leaf is in the book and the totals arrived at are the root's;
  walking down from the root, each hash determines the two below it, and a leaf's
  hash is under another domain than a node's. `RootTotals`: the root's total of an
  asset is the leaves' sum, carried up as a running total per level (`RunningUp`),
  because pairing neighbours takes every second entry of it. `ProveFolds`: the proof
  made for a leaf folds it to the root; the induction is up the tree, and a
  promotion adds no step and changes no node. `RootPins`: two books
  of one root are one sequence of leaves. Two trees of one root need not have the
  same height a priori, and a promoted node looks the same at several; the
  induction is over the sum of the two heights left (`NodesAgree`), with the first
  and last leaf below each node (`IsEnds`) to put the leaves in the same places.
- The verdicts. `InOrderOk`: a verifier that accepts has made all its checks and
  each has held. `VerifyHolds`, `VerifyV2Holds`, `MembershipHolds`, `ChainHolds`,
  `CoverageHolds`, `AssuranceHolds` and `LevelsRestOn` say what each has seen, and
  `DigestPins` that reports of one digest are one report, up to the manifest the
  v1 digest leaves out.
- The calendar. `WrittenEarlier`: of two timestamps that parse, the one earlier as
  text is of an earlier second or of the same. `CivilDays` and `EraArithmetic`
  reduce `days_from_civil` to the days before a year and before a month
  (`DaysBefore`, `MonthsBefore`); `MonthEnds` and `YearEnds` show that a month as
  long as `days_in_month` says ends where the next begins, leap years included
  (`YearLength`), so dates grow (`DatesGrow`), and the time of day stays within
  one (`EarlierDay`).

`ReadersProofs` proves the six properties of `Readers`, for any days, times, books,
keys and bounds and any number of documents issued, altered and mixed up. Each
topic has its invariant: what was issued, and why each thing the reader keeps was
accepted, namely that the verifier, which the theorem may now apply, said so.

| Theorem | Invariant | What the step from it needs |
|---|---|---|
| `CommittedHolds` | `Inclusions` | `DigestPins` finds the report the proof is of, `FoldReaches` the leaf in its book, `RootTotals` that the totals printed are the book's; `RootPins` that a dump that reproduces the root is the book in order |
| `ChainReachesHolds` | `Groups` | the same at both levels, and that the group's leaf has the identity in its hash, so the report entered is the one shown |
| `CoveredMeansHeldHolds` | `Sides` | the two sides' totals as their books' sums; the statement adds that one covers the other and that the times are close |
| `NoOverClaimHolds` | `Claims` | a signature is only made by its key, so each level leads back to evidence that was issued for that field and report |
| `HistoryCompleteHolds` | `Histories` | an anchor names its predecessor's digest, so a chain that verifies is a walk along what was issued, without a gap; `WrittenEarlier` makes of the order of texts one of seconds |
| `ReductionsOnRecordHolds` | `Disclosed` | both reports were accepted with their manifests, so the body agrees with what these say |

No property is weakened to be proved, and no alteration or misprint is excluded:
`Printed` and `Received` are in the way of each of them.

`ReadersProofs` also proves, for any balance files, times, salts, bounds and topics,
of the steps of `Delivery` in it:

- `PackPins`: files that pass under an index are those the index was made over,
  neither more nor fewer, since a digest determines what was digested.
- `OutputIs` and `RunIndexPins`: a run gives its files different names, the index
  last, so the index of a run pins the rest of it.
- `FromRunsHolds`, the inductive invariant: every file on disk is torn or some
  run's under that name (`OnDisk`), the run in progress writes its own files
  (`Writing`), and a reader past the listing holds a run's index and, once it has
  accepted, files that verify under it (`Reading`). Nothing relates the files on
  disk to one another: crashes and later runs mix them freely, and only the
  verifiers keep a mixture from being accepted.
- `DeliveredWholeHolds` and `SweptOneRunHolds`. The sweep has no index to go by,
  and reads files of any runs.
  A proof it passes names the digest of the report it loaded, so the run it is of
  made the same report (`DigestPins`) at the same time over the same root, hence
  of the same leaves in the same order (`RootPins`), and everything else in its
  output is computed from these (`SameReportSameRun`).
- `FinishedRunVerifiesHolds`, from `Standing`: while a run writes, each of its
  files is still to come or in place, and nothing else is in the directory but
  files of runs; once the last is written all are in place, until the next run
  begins. The rest is about one run's output (`RunVerifies`): its pack verifies
  against its own index (`OwnPackVerifies`), and each of its proofs against its
  report (`OwnProofVerifies`, with `ProveFolds`), so that a sweep finds nothing
  wrong (`NoneFails`).
- It assumes that different customers get proof files of different names
  (`NamesAssumption`: `proof_filename` appends a digest, of four bytes, to a name it had
  to change), that the order of salts is one of the customers given
  (`OrderAssumption`), that an export is a sequence of rows (`ExportsAssumption`),
  and that a garbled seed is not the seed (`SeedAssumption`).

`SimulatorProofs` proves the three properties of `Simulator`, for any contracts,
stakeholders, requests, fee schedules, prices and bounds on lookups:

- `StatesHoldHolds`, from `Known`. A contract goes from absent to active to
  archived and never back (`Later`), so what a lookup saw archived still is; a
  simulation under way knows which answer it had (`InCourse`): the contracts it
  names as not found were missing from `since` or hidden from those who asked, so
  one that is found active and visible was not there (`Looking`).
- `FeeAsScheduledHolds`, from `Priced`. The loop over the thresholds charges one
  block of units per step; the thresholds increase, so the steps it passes are the
  first ones, each unit of an amount lies in one block and has that block's rate, and
  the sum over units is the sum over blocks plus what is left above the last
  threshold. The change appended to a factory transfer adds a create fee and
  nothing else.
- `EffectsCommittedHolds`, from `Effected` and `Submitted`. It rests on four
  facts, each an induction:
  - `SameCourse`: two ledgers that agree on the input contracts take the same
    course. The interpretation of one is followed alongside that of the other
    (`BothGo`); they agree on every contract that either touches, since a contract
    that is touched is created by the transaction or is one of its inputs. That
    others create nothing the request creates is what `RequestAssumption` says of
    contract ids.
  - `NodesSay`: short of rollbacks, the contracts that changed are those that the
    nodes created or consumed, and no contract is consumed twice (`Tells`).
  - `EachListed`: the walk of a prepared transaction, whose order of siblings is
    unknown, lists every node, and none twice. What is still on the stack or
    under it covers what is not listed yet, and the number of turns is enough for
    every id ever pushed.
  - `EffectsReport`: hence the report's sets are the nodes' and its counts are
    the sets' sizes, the count of archives by the injection from listed nodes to
    contracts.
- It assumes what the module names: `RequestAssumption`, `ScheduleAssumption` and
  `LookupAssumption`.

Left to TLC:

- `RequestsFinish` and `Answered`: liveness under fairness.
- `AsTheCorpusExpects`: verdicts on given documents, which TLC computes.

All proofs rest on the assumptions on constants the modules name, and on hashes
and signatures being terms.

## Not modelled

The components marked so in `PROJECT.json`, with the reason. Within the modelled
ones:

- Publishing: what survives a power failure (nothing is synced), a clock that
  steps back, deletion of an organisation, the audit log and its separate write,
  how custody and coverage rows are stored and paired in the console, auditor
  grants, and the customer rows and grants linked on a visit. The key-change error
  tells the operator to clear the recorded key in Settings; no code of the console
  does, so the model has no such action either.
- Documents: the JSON they are written in and its malformations (a document that does
  not parse ends a run before any check), the schemas, the bytes of digests, and the
  TypeScript verifiers, a second implementation of the same checks.
- Tools: argument parsing, `verify-group` and `provenance` as commands, output.
- Simulator: traffic prices, the Scan client that fetches fee schedules, rounding
  of fees, the server's routes, rendering, and the wording of hints.

## Known divergences without a run

Met while modelling, and not shown by a run because the model abstracts from what
they turn on, or because no line of the repository promises otherwise:

- Times are compared as text in the console and in `verify_chain`:
  `10:00:00.5Z` precedes `10:00:00Z` as text and is later in time, so a day
  restated half a second earlier passes for an advance (`publications.ts:32`,
  `SPEC.md:641`). `Readers` has such days; `HistoryComplete` lets them pass, as the
  code does.
- The contents `verify-pack` sweeps are read from the directory again, after the
  index was checked: they may be a later run's (`pack.rs:82`).
- A sweep of a directory that holds only sibling documents and no proof exits 0,
  although `run.rs:97` refuses "a vacuous pass" when the directory is empty.
- `recompute` does not compare the number of leaves in a dump with the
  report's `leaf_count`, although `SPEC.md:804` says it verifies it. A shorter dump still
  gives another root.
- A proof left in the output directory by an earlier run, of a customer who has
  left, makes every later sweep of it fail.
- `establish` accepts a provenance graph that is unsigned and of any report
  (`assurance.rs:312`); `NoOverClaim` is stated accordingly.
- `verify_anchored_reports` compares as many pairs as the shorter list has, and
  only tests call it; `verify_pack` does not look for two entries of one name, nor at
  the report digest of the index.
- `verify_coverage`, `verify_membership`, `verify_assurance` and `verify_pack` do not check the algorithm
  a signature names, nor does `verify_coverage` check the profiles' rules or the
  manifests of the two reports.
- A manifest may be silent on a field the report carries; `required_leaf_maps`
  is checked per proof and not of a report. `ReductionsOnRecord` covers the
  fields a manifest names.
- `effects_of` counts what is under rollback nodes, where `model.rs` says "what
  would be committed"; `EffectsCommitted` leaves such transactions out.
- `CONTRACT_NOT_FOUND` is called not retryable, though another party may yet create the
  contract; the hint of an active contract suggests a missing reader when the
  contract came after the rejection.
- `sim-fee/src/lib.rs:44` adds two `u64` unchecked.

## Plan

1. Done: keystore, publishing, anchor chain, members; first proofs.
2. Done: `KeystoreProofs` and `MembershipProofs`.
3. Done: `SumTree` and `Produce`, with their proofs.
4. Done: `Documents`, `Verifiers`, `Conformance`, `Delivery`, `Readers`.
5. Done: `Simulator`, with its proofs.
6. Open: custody and coverage rows in the console, API keys, auditor grants,
   deletion of an organisation, the ledger contracts, power failure, a clock that
   steps back.
7. Done: every safety property of publishing, of the keystore, of members, of the
   tree, of `Produce`, of deliveries, of readers and of the simulator is proved, but for
   the verdicts on the corpus (`AsTheCorpusExpects`), and with them what roots, proofs,
   folds and the verifiers' verdicts establish for every document.
8. Open: that `Levels` of `Documents` and the turns of `SumTree` make one tree, as a
   refinement.
