------------------------------ MODULE Readers -------------------------------
(***************************************************************************)
(* Those who rely on the documents: customers, auditors, counterparties    *)
(* and implementers.  Publishers issue documents over time, honest in      *)
(* their trees and not always in what they print; a reader is handed any   *)
(* mixture of them, some altered on the way, and keeps what the verifiers  *)
(* accept.  What was issued keeps, as history, what it was made from, so   *)
(* that what a reader believes can be held against it.                     *)
(*                                                                         *)
(* A behaviour is of one topic: one sort of documents and the questions    *)
(* asked of them.  Running the corpus (Conformance) and reading a          *)
(* delivery (Delivery) are topics of their own.                            *)
(***************************************************************************)
EXTENDS Delivery, Conformance

CONSTANTS
  Topics,       \* the topics explored
  Snapshots,    \* timestamps: the snapshot time of each day
  Days,         \* the days published for, by topic
  Amounts,      \* the books published, by topic: an amount for each customer
  MaxIssued,    \* bound on the documents issued, by topic
  MaxAccepted   \* bound on what a reader keeps, by topic

\* The topics in which publishers issue.
Publishing == {"inclusion", "group", "coverage", "assurance", "history", "disclosure"}

\* Four digits for the year and two for each of the others, then a tail.
Largest(i) == IF i = 1 THEN 9999 ELSE 99
ASSUME SnapshotsAssumption ==
  \A day \in DOMAIN Snapshots :
    /\ \A i \in 1..6 : Snapshots[day][i] \in 0..Largest(i)
    /\ Snapshots[day][7] \in Range(Tails)

VARIABLES
  topic,
  issued,    \* documents in the order they were issued, with what they were made from
  accepted   \* what the reader has verified: what was checked, and over what

readersVars == <<topic, issued, accepted>>
vars == <<conformanceVars, deliveryVars, readersVars>>

-----------------------------------------------------------------------------
(* What publishers issue.                                                  *)

Meta(profile, day) ==
  [profile |-> profile, publisher |-> "publisher", snapshot_time |-> Snapshots[day],
   ledger_offset |-> day, mark_prices |-> Nothing, bad_debt |-> Nothing,
   house_accounts |-> 0, house_totals |-> Nothing, manifest |-> <<>>]

\* The balances of a day's customers, and the positions of a day's custody.
Book(day, amounts) ==
  [i \in DOMAIN amounts |-> [salt |-> leaf_salt(<<"salts", day>>, i), subject |-> i,
                             balances |-> [USDA |-> amounts[i]]]]
Positions(day, amounts) ==
  [i \in DOMAIN amounts |-> [salt |-> leaf_salt(<<"salts", day>>, i), subject |-> i,
                             maps |-> [held |-> [USDA |-> amounts[i]]]]]

\* What is printed may be other totals or another count than the tree's; the
\* publisher signs it, and issues proofs that name it.
Printed(r, print) ==
  CASE print = "as built" -> r
    [] print = "other totals" -> [r EXCEPT !.root_sums = [k \in DOMAIN @ |-> @[k] + 1]]
    [] print = "other count" -> [r EXCEPT !.leaf_count = @ - 1]

Issue(source, publication, print, key) ==
  LET r == Printed(publication.signed.report, print) IN
  [source |-> source,
   signed |-> SignedReport(r, key),
   proofs |-> [i \in DOMAIN publication.proofs |->
                 [publication.proofs[i] EXCEPT !.report_digest = report_digest(r)]]]

BookOf(meta, day, amounts, print, key) ==
  Issue(Book(day, amounts), publish(Book(day, amounts), meta, key), print, key)

PositionsOf(day, amounts, print) ==
  Issue(Positions(day, amounts),
        publish_v2(Positions(day, amounts), Meta("coverage.custody", day), Venue), print, Venue)

\* The totals again, leaf by leaf.
Sum(amounts) ==
  LET total[n \in 0..Len(amounts)] == IF n = 0 THEN 0 ELSE total[n - 1] + amounts[n]
  IN  total[Len(amounts)]

\* Nobody publishes an empty book, or one whose totals are no amounts.
ASSUME BooksAssumption ==
  \A t \in Publishing : \A amounts \in Amounts[t] :
    amounts \in Seq(Nat) /\ amounts # <<>> /\ Sum(amounts) <= MaxAmount

ASSUME DaysAssumption == \A t \in Publishing : Days[t] \subseteq DOMAIN Snapshots

Owed(book) == Sum([i \in DOMAIN book |-> book[i].balances.USDA])
Holding(positions) == Sum([i \in DOMAIN positions |-> positions[i].maps.held.USDA])

USDA == qualified("", "USDA")

-----------------------------------------------------------------------------
(* What reaches a reader: a document, or an alteration of it made after it *)
(* was signed; a proof may also be presented with another report than its  *)
(* own.                                                                    *)

Received(signed) ==
  {signed,
   [signed EXCEPT !.report.root_sums = [k \in DOMAIN @ |-> @[k] + 1]],
   [signed EXCEPT !.report.leaf_count = @ + 1]}
  \cup {[signed EXCEPT !.report.snapshot_time = time] : time \in Range(Snapshots)}

ReceivedProof(p, signed) ==
  {p,
   [p EXCEPT !.report_digest = report_digest(signed.report)],
   [p EXCEPT !.leaf.subject = 9]}
  \cup {[p EXCEPT !.steps = Tail(@)] : s \in Range(p.steps)}
  \cup {[p EXCEPT !.steps[1].on_left = ~@] : s \in Range(p.steps)}

Room == Cardinality(accepted) < MaxAccepted[topic]

Accept(fact) ==
  /\ accepted' = accepted \cup {fact}
  /\ UNCHANGED <<topic, issued, conformanceVars, deliveryVars>>

Add(document) ==
  /\ Len(issued) < MaxIssued[topic]
  /\ issued' = Append(issued, document)
  /\ UNCHANGED <<topic, accepted, conformanceVars, deliveryVars>>

-----------------------------------------------------------------------------
(* Inclusion: books and proofs of them, and the auditor's rebuilding of a  *)
(* tree from a dump of its leaves.                                         *)

IssueBook ==
  /\ topic = "inclusion"
  /\ \E day \in Days.inclusion, amounts \in Amounts.inclusion,
        print \in {"as built", "other totals", "other count"}, key \in {Venue, Stranger} :
       /\ key = Stranger => print = "as built"
       /\ Add(BookOf(Meta("solvency.liabilities", day), day, amounts, print, key))

AcceptProof ==
  /\ topic \in {"inclusion", "coverage"}
  /\ Room
  /\ \E i, j \in DOMAIN issued :
     \E signed \in Received(issued[i].signed) :
     \E q \in Range(issued[j].proofs) : \E p \in ReceivedProof(q, signed) :
       /\ p.format_version = "proof-v1"
       /\ verify(signed, p, Venue) = "Ok"
       /\ Accept([what |-> "proof", signed |-> signed, doc |-> p])

\* Mutant of run_recompute: the roots of the trees are not compared.
run_recompute_sums(dump, signed) ==
  LET root == Root([i \in DOMAIN dump |-> leaf_node(dump[i])]) IN
  dump # <<>> /\ SameTotals(root.sums, signed.report.root_sums)

\* recompute.rs: the tree of the dump, in its order, against what is printed.
\* Neither the signature nor the count is looked at.
run_recompute(dump, signed) ==
  LET root == Root([i \in DOMAIN dump |-> leaf_node(dump[i])]) IN
  /\ dump # <<>>
  /\ ~Overflows(root)
  /\ root.hash = signed.report.root_hash
  /\ SameTotals(root.sums, signed.report.root_sums)

Dumps(book) == {book, Front(book), Reverse(book)}

AcceptDump ==
  /\ topic = "inclusion"
  /\ Room
  /\ \E i, j \in DOMAIN issued : \E dump \in Dumps(issued[j].source) :
       /\ run_recompute(dump, issued[i].signed)
       /\ Accept([what |-> "dump", signed |-> issued[i].signed, doc |-> dump])

Facts(what) == {f \in accepted : f.what = what}

\* The books whose report, as printed, is this one.
BooksOf(signed) == {b \in Range(issued) : b.signed.report = signed.report}

\* A proof that verifies is of a leaf its publisher committed, against totals
\* that are the sums of all leaves, whatever was printed, altered, or presented
\* with another day's report (verify.rs verify).  A dump that reproduces a
\* report one proof of which verifies is the whole book: nobody left out or
\* added, in order (recompute.rs).
Committed ==
  topic = "inclusion" =>
    /\ \A f \in Facts("proof") :
         \E b \in BooksOf(f.signed) :
           /\ b.signed.signature.public_key = Venue
           /\ f.doc.leaf \in Range(b.source)
           /\ f.signed.report.root_sums[USDA] = Owed(b.source)
    /\ \A d \in Facts("dump"), f \in Facts("proof") :
         d.signed = f.signed => \E b \in BooksOf(f.signed) : d.doc = b.source

-----------------------------------------------------------------------------
(* Groups: a group report over what is said to be its entities' reports.   *)

IssueEntity ==
  /\ topic = "group"
  /\ \E day \in Days.group, amounts \in Amounts.group :
       Add(BookOf(Meta("solvency.liabilities", day), day, amounts, "as built", Custodian))

\* What a group enters for an entity: the root and totals of a report, or the
\* totals of another.
Entered(id, r, s) == [id |-> id, root_hash |-> r.root_hash, root_sums |-> s.root_sums]

\* A group report over the entities, with a membership for each of them.
GroupOf(entities, day, print) ==
  LET built == publish_group(entities, Meta("", day), Venue)
      r == Printed(built.signed.report, print)
  IN  [source |-> entities,
       signed |-> SignedReport(r, Venue),
       proofs |-> <<>>,
       memberships |-> [n \in DOMAIN built.memberships |->
                          [built.memberships[n] EXCEPT !.group_report_digest = report_digest(r)]]]

IssueGroup ==
  /\ topic = "group"
  /\ \E i, j \in DOMAIN issued, k \in DOMAIN issued, day \in Days.group,
        print \in {"as built", "other totals"} :
       /\ \A n \in {i, j, k} : issued[n].proofs # <<>>
       /\ LET entities == <<Entered("one", issued[i].signed.report, issued[j].signed.report),
                            Entered("two", issued[k].signed.report, issued[k].signed.report)>>
          IN
          /\ ~Overflows(Root([n \in DOMAIN entities |-> entity_leaf_node(entities[n])]))
          /\ Add(GroupOf(entities, day, print))

Relabelled(m) == {m, [m EXCEPT !.entity.id = "another"]}

AcceptChain ==
  /\ topic = "group"
  /\ Room
  /\ \E g, e \in DOMAIN issued :
       /\ issued[g].proofs = <<>> /\ issued[e].proofs # <<>>
       /\ \E m \in UNION {Relabelled(n) : n \in Range(issued[g].memberships)},
             p \in Range(issued[e].proofs) :
            /\ verify_chain(issued[g].signed, m, issued[e].signed, p, Venue, Custodian) = "Ok"
            /\ Accept([what |-> "chain", signed |-> issued[g].signed, doc |-> m,
                       entity |-> issued[e].signed, leaf |-> p.leaf])

\* From a customer to the group's totals: the leaf is in the entity's book, the
\* entity's totals are its leaves', the group entered that very report with
\* those totals, and prints the sum of what it entered (group.rs verify_chain).
ChainReaches ==
  topic = "group" =>
    \A f \in Facts("chain") :
      \E e \in BooksOf(f.entity), g \in BooksOf(f.signed) :
        /\ f.leaf \in Range(e.source)
        /\ f.doc.entity \in Range(g.source)
        /\ f.doc.entity.root_hash = e.signed.report.root_hash
        /\ f.doc.entity.root_sums[USDA] = Owed(e.source)
        /\ f.signed.report.root_sums[USDA] =
             Sum([n \in DOMAIN g.source |-> g.source[n].root_sums[USDA]])

-----------------------------------------------------------------------------
(* Coverage: what is held and what is owed, of about one time.             *)

IssueSide ==
  /\ topic = "coverage"
  /\ \E day \in Days.coverage, amounts \in Amounts.coverage,
        print \in {"as built", "other totals"} :
       \/ Add(BookOf(Meta("solvency.liabilities", day), day, amounts, print, Venue))
       \/ Add(PositionsOf(day, amounts, print))

IsCustody(b) == b.signed.report.profile = "coverage.custody"

AcceptHolding ==
  /\ topic = "coverage"
  /\ Room
  /\ \E i, j \in DOMAIN issued : \E p \in Range(issued[j].proofs) :
       /\ p.format_version = "proof-v2"
       /\ verify_v2(issued[i].signed, p, Venue) = "Ok"
       /\ Accept([what |-> "holding", signed |-> issued[i].signed, doc |-> p])

\* Anybody may pair two reports; the statement is not signed.
AcceptCoverage ==
  /\ topic = "coverage"
  /\ Room
  /\ \E i, j, k \in DOMAIN issued :
       LET held == issued[i].signed
           owed == issued[j].signed
           statement == [format_version |-> "coverage-v1",
                         custody_report_digest |-> report_digest(held.report),
                         liabilities_report_digest |-> report_digest(issued[k].signed.report)]
       IN
       /\ verify_coverage(held, owed, statement, Venue, Venue, SAME_RUN) = "Ok"
       /\ fully_covered(Outcome(held.report, owed.report))
       /\ Accept([what |-> "covered", signed |-> held, doc |-> owed])

\* Covered means held: once a proof of either report verified, what the
\* custodian's positions add up to is at least what the customers are owed, and
\* the two are of times at most the tolerance apart (coverage.rs with verify.rs).
CoveredMeansHeld ==
  topic = "coverage" =>
    \A c \in Facts("covered"), h \in Facts("holding"), p \in Facts("proof") :
      c.signed = h.signed /\ c.doc = p.signed =>
        \E held \in BooksOf(c.signed), owed \in BooksOf(c.doc) :
          /\ Holding(held.source) >= Owed(owed.source)
          /\ parse(held.signed.report.snapshot_time) - parse(owed.signed.report.snapshot_time)
               \in -SAME_RUN..SAME_RUN

-----------------------------------------------------------------------------
(* Assurance: levels declared for a report's fields, and the evidence      *)
(* others issue for them.                                                  *)

AssuranceLevels ==
  {"not-disclosed", "claimed-only", "cryptographically-verified", "ledger-derived",
   "issuer-attested", "third-party-attested"}

\* Whom the reader trusts, decided before any document is opened.
Trusted ==
  [publisher |-> Venue,
   attestors |-> [key \in {Custodian, Venue} |->
                    IF key = Custodian THEN "third-party" ELSE "issuer"]]

\* Reports first and one other document after them: no check looks at the order
\* of issue or at evidence for another level.
OnlyReports == topic = "assurance" /\ \A d \in Range(issued) : d.kind = "report"

IssueReport ==
  /\ OnlyReports
  /\ \E day \in Days.assurance, amounts \in Amounts.assurance,
        state \in {"Published", "Withheld"}, print \in {"as built", "other totals"} :
       LET m == [audience |-> "", fields |-> [f \in {"mark_prices"} |-> state]]
           meta == [Meta("solvency.liabilities", day) EXCEPT
                      !.manifest = <<m>>,
                      !.mark_prices = IF state = "Published" THEN [USDA |-> 5] ELSE Nothing]
       IN  Add([kind |-> "report", book |-> BookOf(meta, day, amounts, print, Venue)])

\* The reports issued so far, with their books.
Books == {d.book : d \in {e \in Range(issued) : e.kind = "report"}}

IssueAttestation ==
  /\ OnlyReports
  /\ \E b \in Books, field \in {"root_sums", "mark_prices"}, role \in {"issuer", "third-party"},
        key \in {Custodian, Venue, Stranger} :
       LET a == [format_version |-> "attestation-v1",
                 report_digest |-> report_digest(b.signed.report), field |-> field, role |-> role]
       IN  Add([kind |-> "attestation", key |-> key,
                doc |-> [attestation |-> a, signature |-> SignatureOf(key, attestation_digest(a))]])

\* The report on the ledger, and the graph its figures are said to come from.
IssueTrace ==
  /\ OnlyReports
  /\ \E b \in Books, field \in {"root_sums", "mark_prices"},
        kind \in {"participant", "off-ledger"} :
       Add([kind |-> "trace",
            anchor |-> anchor_report(b.signed, <<>>),
            graph |-> [format_version |-> "provenance-v1",
                       report_digest |-> report_digest(b.signed.report),
                       sources |-> <<[id |-> "source", kind |-> kind, basis |-> <<"basis">>]>>,
                       derivations |-> <<[field |-> field, sources |-> <<"source">>]>>]])

OfKind(kind) == {d \in Range(issued) : d.kind = kind}

\* As issued, with its role or its report exchanged, or under another's key.
ReceivedAttestation(a, signed) ==
  {a,
   [a EXCEPT !.attestation.role = IF @ = "issuer" THEN "third-party" ELSE "issuer"],
   [a EXCEPT !.attestation.report_digest = report_digest(signed.report)],
   [a EXCEPT !.signature.public_key = Custodian]}

\* At most one document of each kind is presented.
Evidences(signed) ==
  LET Optional(documents) == {<<>>} \cup {<<d>> : d \in documents}
      proofs == {b.proofs[1] : b \in Books}
      Attestations == UNION {ReceivedAttestation(d.doc, signed) : d \in OfKind("attestation")}
  IN  [proof : Optional(proofs),
       anchor : Optional({d.anchor : d \in OfKind("trace")}),
       provenance : Optional({d.graph : d \in OfKind("trace")}),
       attestations : {{}} \cup {{a} : a \in Attestations}]

AcceptLevel ==
  /\ topic = "assurance"
  /\ Room
  /\ \E b \in Books : \E evidence \in Evidences(b.signed), level \in AssuranceLevels,
        field \in {"root_sums", "mark_prices"} :
       LET statement == [format_version |-> "assurance-v1",
                         report_digest |-> report_digest(b.signed.report),
                         levels |-> [f \in {field} |-> level]]
       IN
       /\ verify_assurance(b.signed, statement, evidence, Trusted) = "Ok"
       /\ Accept([what |-> level, signed |-> b.signed, field |-> field])

\* Somebody trusted in that role attested to that field of that report.
AttestedTo(f, role) ==
  \E d \in OfKind("attestation") :
    /\ d.key \in DOMAIN Trusted.attestors /\ Trusted.attestors[d.key] = role
    /\ d.doc.attestation.role = role
    /\ d.doc.attestation.field = f.field
    /\ d.doc.attestation.report_digest = report_digest(f.signed.report)

\* What a level a reader accepts claims is so, of that field and that report,
\* whatever other days' evidence, altered evidence or strangers' attestations
\* came with it (assurance.rs establish, SPEC.md 16.1).  That the graph is of
\* that report is not among it: nothing binds the graph establish is given.
NoOverClaim ==
  topic = "assurance" =>
    /\ \A f \in Facts("cryptographically-verified") :
         /\ f.field = "root_sums"
         /\ \E b \in Books : b.signed = f.signed /\ f.signed.report.root_sums[USDA] = Owed(b.source)
    /\ \A f \in Facts("issuer-attested") : AttestedTo(f, "issuer")
    /\ \A f \in Facts("third-party-attested") : AttestedTo(f, "third-party")
    /\ \A f \in Facts("not-disclosed") :
         /\ f.signed.report.manifest[1].fields[f.field] = "Withheld"
         /\ ~carries_data(f.signed.report, f.field)
    /\ \A f \in Facts("ledger-derived") :
         /\ \E d \in OfKind("trace") : d.anchor.report_digest = report_digest(f.signed.report)
         /\ \E d \in OfKind("trace") :
              d.graph.derivations[1].field = f.field /\ d.graph.sources[1].kind = "participant"

-----------------------------------------------------------------------------
(* Histories: anchors, each naming the one before it, and the reports they *)
(* anchor.  A publisher may start over, fork, or restate a day.            *)

IssueAnchored ==
  /\ topic = "history"
  /\ \E day \in Days.history, amounts \in Amounts.history, offset \in 1..2,
        previous \in 0..Len(issued) :
       LET signed == BookOf([Meta("solvency.liabilities", day) EXCEPT !.ledger_offset = offset],
                            day, amounts, "as built", Venue).signed
       IN  Add([signed |-> signed,
                previous |-> previous,
                anchor |-> anchor_report(signed, IF previous = 0 THEN <<>>
                                                 ELSE <<issued[previous].anchor>>)])

\* A history of as many reports as anchors; both are told by where they were issued.
AcceptHistory ==
  /\ topic = "history"
  /\ Room
  /\ \E n \in 1..Len(issued) :
     \E as, rs \in [1..n -> DOMAIN issued] :
       LET history == [i \in 1..n |-> issued[as[i]].anchor] IN
       /\ Chain!verify_chain([i \in 1..n |-> Entry(history[i])]).ok
       /\ verify_anchored_reports(history, [i \in 1..n |-> issued[rs[i]].signed]) = "Ok"
       /\ Accept([what |-> "history", anchors |-> as, reports |-> rs])

\* Of two snapshot times: later as text and, where both parse, also in time or
\* else of the same second with another fraction of it.
Later(t, s) ==
  /\ TextBefore(s, t)
  /\ parses(s) /\ parses(t) => parse(s) < parse(t) \/ SameSecond(s, t)

\* A history a reader accepts starts where a publisher started and leaves out
\* nothing anchored in between; its reports are the ones anchored, never of an
\* earlier offset, and of later and later times; within one second the text
\* decides, in which 00.5Z stands before 00Z (anchor.rs verify_chain and
\* verify_anchored_reports).
HistoryComplete ==
  topic = "history" =>
    \A f \in Facts("history") : \A i \in DOMAIN f.anchors :
      LET Own(k) == issued[f.reports[k]].signed.report IN
      /\ Own(i) = issued[f.anchors[i]].signed.report
      /\ i = 1 => issued[f.anchors[1]].previous = 0
      /\ i > 1 => /\ issued[f.anchors[i]].previous # 0
                  /\ issued[issued[f.anchors[i]].previous].anchor = issued[f.anchors[i - 1]].anchor
                  /\ Later(Own(i).snapshot_time, Own(i - 1).snapshot_time)
                  /\ Own(i).ledger_offset >= Own(i - 1).ledger_offset

-----------------------------------------------------------------------------
(* Disclosure: manifests from one report to the next.                      *)

Manifests == {<<>>} \cup {<<[audience |-> "public", fields |-> f]>> :
                            f \in [{} -> {"Withheld"}]
                                  \cup [{"mark_prices"} -> {"Published", "Committed", "Withheld"}]}

IssueDisclosed ==
  /\ topic = "disclosure"
  /\ \E day \in Days.disclosure, amounts \in Amounts.disclosure,
        m \in Manifests, prices \in {Nothing, [USDA |-> 5]} :
       Add(BookOf([Meta("solvency.liabilities", day) EXCEPT !.manifest = m, !.mark_prices = prices],
                  day, amounts, "as built", Venue))

\* As signed, or with its manifest taken out or declared otherwise.
ReceivedDisclosed(signed) ==
  {signed, [signed EXCEPT !.report.manifest = <<>>]}
  \cup {[signed EXCEPT !.report.manifest[1].fields = [f \in DOMAIN @ |-> "Published"]] :
          m \in Range(signed.report.manifest)}

AcceptDisclosed ==
  /\ topic = "disclosure"
  /\ Room
  /\ \E i \in DOMAIN issued : \E signed \in ReceivedDisclosed(issued[i].signed) :
       LET p == [issued[i].proofs[1] EXCEPT !.report_digest = report_digest(signed.report)] IN
       /\ verify(signed, p, Venue) = "Ok"
       /\ Accept([what |-> "report", signed |-> signed, doc |-> p])

\* diff.rs: a report without a manifest is compared as one with an empty one.
manifest_of(signed) ==
  IF signed.report.manifest = <<>> THEN [fields |-> Nothing]
  ELSE [fields |-> signed.report.manifest[1].fields]

\* A field of the body that the earlier of two verified reports carried and its
\* manifest named, and the later one does not carry, is among the reductions
\* (manifest.rs: "a reduction between reports is on the record"; a field the
\* earlier manifest does not name goes unrecorded).
ReductionsOnRecord ==
  topic = "disclosure" =>
    \A e, l \in Facts("report") :
      parse(e.signed.report.snapshot_time) < parse(l.signed.report.snapshot_time) =>
        \A path \in DOMAIN manifest_of(e.signed).fields :
          carries_data(e.signed.report, path) /\ ~carries_data(l.signed.report, path) =>
            path \in Reductions(manifest_of(e.signed), manifest_of(l.signed))

-----------------------------------------------------------------------------

Init ==
  /\ topic \in Topics
  /\ issued = <<>>
  /\ accepted = {}
  /\ IF topic = "corpus" THEN CorpusInit ELSE supports = SUPPORTED /\ results = <<>>
  /\ DeliveryInit

RunCorpus == topic = "corpus" /\ RunCase /\ UNCHANGED <<deliveryVars, readersVars>>
Deliver == topic = "delivery" /\ DeliveryNext /\ UNCHANGED <<conformanceVars, readersVars>>

Next ==
  \/ RunCorpus
  \/ Deliver
  \/ IssueBook \/ AcceptProof \/ AcceptDump
  \/ IssueEntity \/ IssueGroup \/ AcceptChain
  \/ IssueSide \/ AcceptHolding \/ AcceptCoverage
  \/ IssueReport \/ IssueAttestation \/ IssueTrace \/ AcceptLevel
  \/ IssueAnchored \/ AcceptHistory
  \/ IssueDisclosed \/ AcceptDisclosed

Spec == Init /\ [][Next]_vars
=============================================================================
