--------------------------- MODULE ReadersProofs ----------------------------
(***************************************************************************)
(* What readers may believe of what verifiers accept, for any number of    *)
(* publishers' books, of documents issued and of documents kept.  For each *)
(* topic the invariant says what the documents issued were made from, and  *)
(* for what the reader kept that its verifier accepted it; that a root     *)
(* determines its leaves (RootPins) and adds them up (RootTotals) gives    *)
(* the rest.                                                               *)
(*                                                                         *)
(* Of what is delivered: a signed index pins the bytes of every other file *)
(* of its run (PackPins), a report's root the leaves and with them all its *)
(* run wrote (SameReportSameRun), and every file on disk, however runs     *)
(* crashed and overlapped, is that of a run (FromRuns).                    *)
(***************************************************************************)
EXTENDS Readers, VerifiersProofs

-----------------------------------------------------------------------------
\* A step is of the behaviour's topic, and the topic stays.

InclusionNext == IssueBook \/ AcceptProof \/ AcceptDump
GroupNext == IssueEntity \/ IssueGroup \/ AcceptChain
CoverageNext == IssueSide \/ AcceptProof \/ AcceptHolding \/ AcceptCoverage
AssuranceNext == IssueReport \/ IssueAttestation \/ IssueTrace \/ AcceptLevel
HistoryNext == IssueAnchored \/ AcceptHistory
DisclosureNext == IssueDisclosed \/ AcceptDisclosed

LEMMA TopicSteps ==
  ASSUME [Next]_vars
  PROVE  /\ topic = "inclusion" => InclusionNext \/ UNCHANGED readersVars
         /\ topic = "group" => GroupNext \/ UNCHANGED readersVars
         /\ topic = "coverage" => CoverageNext \/ UNCHANGED readersVars
         /\ topic = "assurance" => AssuranceNext \/ UNCHANGED readersVars
         /\ topic = "history" => HistoryNext \/ UNCHANGED readersVars
         /\ topic = "disclosure" => DisclosureNext \/ UNCHANGED readersVars
<1>1. CASE UNCHANGED vars
  BY <1>1 DEF vars
<1>2. CASE RunCorpus \/ Deliver
  BY <1>2 DEF RunCorpus, Deliver
<1>3. AcceptProof => topic = "inclusion" \/ topic = "coverage"
  BY DEF AcceptProof
<1>4. /\ IssueBook => topic = "inclusion"
      /\ AcceptDump => topic = "inclusion"
  BY DEF IssueBook, AcceptDump
<1>5. /\ IssueEntity => topic = "group"
      /\ IssueGroup => topic = "group"
      /\ AcceptChain => topic = "group"
  BY DEF IssueEntity, IssueGroup, AcceptChain
<1>6. /\ IssueSide => topic = "coverage"
      /\ AcceptHolding => topic = "coverage"
      /\ AcceptCoverage => topic = "coverage"
  BY DEF IssueSide, AcceptHolding, AcceptCoverage
<1>7. /\ IssueReport => topic = "assurance"
      /\ IssueAttestation => topic = "assurance"
      /\ IssueTrace => topic = "assurance"
      /\ AcceptLevel => topic = "assurance"
  BY DEF IssueReport, IssueAttestation, IssueTrace, AcceptLevel, OnlyReports
<1>8. /\ IssueAnchored => topic = "history"
      /\ AcceptHistory => topic = "history"
      /\ IssueDisclosed => topic = "disclosure"
      /\ AcceptDisclosed => topic = "disclosure"
  BY DEF IssueAnchored, AcceptHistory, IssueDisclosed, AcceptDisclosed
<1> QED
  BY <1>1, <1>2, <1>3, <1>4, <1>5, <1>6, <1>7, <1>8
     DEF Next, InclusionNext, GroupNext, CoverageNext, AssuranceNext, HistoryNext, DisclosureNext

LEMMA TopicStays == [Next]_vars => topic' = topic
<1> SUFFICES ASSUME [Next]_vars
             PROVE  topic' = topic
  OBVIOUS
<1>1. ASSUME NEW d, Add(d)
      PROVE  topic' = topic
  BY <1>1 DEF Add
<1>2. ASSUME NEW f, Accept(f)
      PROVE  topic' = topic
  BY <1>2 DEF Accept
<1>3. CASE UNCHANGED vars \/ RunCorpus \/ Deliver
  BY <1>3 DEF vars, readersVars, RunCorpus, Deliver
<1>4. CASE IssueBook \/ IssueEntity \/ IssueGroup
  <2>1. IssueGroup => \E d : Add(d)
    BY Zenon DEF IssueGroup
  <2> QED
    BY <1>1, <1>4, <2>1 DEF IssueBook, IssueEntity
<1>5. CASE IssueSide \/ IssueReport \/ IssueAttestation \/ IssueTrace
  BY <1>1, <1>5 DEF IssueSide, IssueReport, IssueAttestation, IssueTrace
<1>6. CASE IssueAnchored \/ IssueDisclosed
  BY <1>1, <1>6 DEF IssueAnchored, IssueDisclosed
<1>7. CASE AcceptProof \/ AcceptDump \/ AcceptChain \/ AcceptHolding \/ AcceptCoverage
  BY <1>2, <1>7 DEF AcceptProof, AcceptDump, AcceptChain, AcceptHolding, AcceptCoverage
<1>8. CASE AcceptLevel \/ AcceptHistory \/ AcceptDisclosed
  BY <1>2, <1>8 DEF AcceptLevel, AcceptHistory, AcceptDisclosed
<1> QED
  BY <1>3, <1>4, <1>5, <1>6, <1>7, <1>8 DEF Next

\* A document more, or a fact more.
Adds(d) == issued' = Append(issued, d) /\ accepted' = accepted /\ topic' = topic
Keeps(f) == accepted' = accepted \cup {f} /\ issued' = issued /\ topic' = topic

LEMMA AddAdds == ASSUME NEW d, Add(d) PROVE Adds(d)
BY DEF Add, Adds

LEMMA AcceptKeeps == ASSUME NEW f, Accept(f) PROVE Keeps(f)
BY DEF Accept, Keeps

\* What was issued stays where it was.
LEMMA StaysIssued ==
  ASSUME IsSeq(issued), NEW d, Adds(d)
  PROVE  /\ IsSeq(issued')
         /\ \A i \in DOMAIN issued : i \in DOMAIN issued' /\ issued'[i] = issued[i]
         /\ \A i \in DOMAIN issued' : i \in DOMAIN issued \/ issued'[i] = d
         /\ DOMAIN issued = 1 .. Len(issued) /\ Len(issued) \in Nat
         /\ DOMAIN issued' = 1 .. (Len(issued) + 1)
         /\ issued'[Len(issued) + 1] = d
<1> DEFINE more == Append(issued, d)
<1>1. issued' = more
  BY DEF Adds
<1>2. /\ IsSeq(more) /\ Len(more) = Len(issued) + 1
      /\ \A i \in 1 .. Len(issued) : more[i] = issued[i]
      /\ more[Len(issued) + 1] = d
  BY AppendIsSeq
<1> HIDE DEF more
<1>3. /\ Len(issued) \in Nat /\ DOMAIN issued = 1 .. Len(issued)
      /\ DOMAIN more = 1 .. (Len(issued) + 1)
  BY <1>2 DEF IsSeq
<1> QED
  BY <1>1, <1>2, <1>3

-----------------------------------------------------------------------------
(* Disclosure.                                                             *)

\* Every report kept was accepted with its manifest.
Disclosed ==
  topic = "disclosure" =>
    \A f \in Facts("report") : check_report_version_and_manifest(f.signed.report) = "Ok"

LEMMA DisclosedKept ==
  ASSUME Disclosed, [Next]_vars
  PROVE  Disclosed'
<1> SUFFICES ASSUME topic' = "disclosure", NEW f \in Facts("report")'
             PROVE  check_report_version_and_manifest(f.signed.report) = "Ok"
  BY DEF Disclosed
<1>1. CASE UNCHANGED readersVars
  BY <1>1 DEF Disclosed, Facts, readersVars
<1>2. CASE IssueDisclosed
  <2>1. accepted' = accepted /\ topic' = topic
    BY <1>2 DEF IssueDisclosed, Add
  <2> QED
    BY <2>1 DEF Disclosed, Facts
<1>3. CASE AcceptDisclosed
  <2>1. PICK signed, p : /\ verify(signed, p, Venue) = "Ok"
                         /\ Accept([what |-> "report", signed |-> signed, doc |-> p])
    BY <1>3 DEF AcceptDisclosed
  <2>2. check_report_version_and_manifest(signed.report) = "Ok"
    BY <2>1, VerifyHolds
  <2>3. f \in accepted \/ f.signed = signed
    BY <2>1 DEF Accept, Facts
  <2>4. topic = "disclosure" /\ f.what = "report"
    BY <2>1 DEF Accept, Facts
  <2> QED
    BY <2>2, <2>3, <2>4 DEF Disclosed, Facts
<1>4. topic = "disclosure"
  BY TopicStays
<1> QED
  BY <1>1, <1>2, <1>3, <1>4, TopicSteps DEF DisclosureNext

\* Of two reports that agree with their manifests, a field the earlier one
\* carried and declared and the later one does not carry is a reduction
\* (manifest.rs check_report_version_and_manifest, diff).
LEMMA Withdrawn ==
  ASSUME NEW e, NEW l, check_report_version_and_manifest(e.report) = "Ok",
         check_report_version_and_manifest(l.report) = "Ok",
         NEW path \in DOMAIN manifest_of(e).fields,
         carries_data(e.report, path), ~carries_data(l.report, path)
  PROVE  path \in Reductions(manifest_of(e), manifest_of(l))
<1>1. path \in REPORT_RESIDENT_FIELDS
  BY DEF carries_data, REPORT_RESIDENT_FIELDS
<1>2. manifest_of(e).fields[path] = "Published"
  <2>1. e.report.manifest # <<>>
    BY DEF manifest_of, Nothing
  <2>2. check_manifest_consistency(e.report, e.report.manifest[1]) = "Ok"
    BY <2>1 DEF check_report_version_and_manifest, Expect
  <2>3. Consistent(e.report, path, e.report.manifest[1].fields[path])
    BY <2>1, <2>2 DEF check_manifest_consistency, Expect, manifest_of
  <2> QED
    BY <1>1, <2>1, <2>3 DEF Consistent, manifest_of
<1>3. path \in DOMAIN manifest_of(l).fields => manifest_of(l).fields[path] # "Published"
  <2> SUFFICES ASSUME path \in DOMAIN manifest_of(l).fields
               PROVE  manifest_of(l).fields[path] # "Published"
    OBVIOUS
  <2>1. l.report.manifest # <<>>
    BY DEF manifest_of, Nothing
  <2>2. check_manifest_consistency(l.report, l.report.manifest[1]) = "Ok"
    BY <2>1 DEF check_report_version_and_manifest, Expect
  <2>3. Consistent(l.report, path, l.report.manifest[1].fields[path])
    BY <2>1, <2>2 DEF check_manifest_consistency, Expect, manifest_of
  <2> QED
    BY <1>1, <2>1, <2>3 DEF Consistent, manifest_of
<1> QED
  BY <1>2, <1>3 DEF Reductions

\* A field withdrawn between two verified reports is on the record, whatever was
\* published and altered on the way (manifest.rs).
THEOREM ReductionsOnRecordHolds == Spec => []ReductionsOnRecord
<1>1. Init => Disclosed
  BY DEF Init, Disclosed, Facts
<1>2. Disclosed /\ [Next]_vars => Disclosed'
  BY DisclosedKept
<1>3. Disclosed => ReductionsOnRecord
  BY Withdrawn DEF Disclosed, ReductionsOnRecord
<1> QED
  BY <1>1, <1>2, <1>3, PTL DEF Spec

-----------------------------------------------------------------------------
(* Histories.                                                              *)

\* A report as a publisher signs one, without a manifest.
Plain(r) == IsReport(r) /\ r.manifest = <<>> /\ r.format_version = "report-v1"

LEMMA PlainPins ==
  ASSUME NEW r, NEW s, Plain(r), Plain(s), report_digest(r) = report_digest(s)
  PROVE  r = s
BY DigestPins DEF Plain

\* A document of a history: a report, its anchor, and the document whose anchor
\* that one names.
AnchoredAt(d, docs) ==
  /\ Plain(d.signed.report)
  /\ \A k \in 1..6 : d.signed.report.snapshot_time[k] \in Nat
  /\ d.anchor.report_digest = report_digest(d.signed.report)
  /\ d.anchor.snapshot_time = d.signed.report.snapshot_time
  /\ d.anchor.ledger_offset = d.signed.report.ledger_offset
  /\ d.previous = 0 => d.anchor.prev_anchor = <<>>
  /\ d.previous # 0 => /\ d.previous \in DOMAIN docs
                       /\ d.anchor.prev_anchor = <<anchor_digest(docs[d.previous].anchor)>>

Numbered(f, n, docs) ==
  f.anchors \in [1 .. n -> DOMAIN docs] /\ f.reports \in [1 .. n -> DOMAIN docs]
AnchorsOf(f, n, docs) == [i \in 1 .. n |-> docs[f.anchors[i]].anchor]
ReportsOf(f, n, docs) == [i \in 1 .. n |-> docs[f.reports[i]].signed]

Followed(f, docs) ==
  \E n \in Nat :
    /\ Numbered(f, n, docs)
    /\ Chain!verify_chain([i \in 1 .. n |-> Entry(AnchorsOf(f, n, docs)[i])]).ok
    /\ verify_anchored_reports(AnchorsOf(f, n, docs), ReportsOf(f, n, docs)) = "Ok"

Histories ==
  topic = "history" =>
    /\ IsSeq(issued)
    /\ \A i \in DOMAIN issued : AnchoredAt(issued[i], issued)
    /\ \A f \in Facts("history") : Followed(f, issued)

\* What is so of the documents stays so of more of them.
LEMMA AnchoredStays ==
  ASSUME NEW docs, NEW more,
         \A i \in DOMAIN docs : i \in DOMAIN more /\ more[i] = docs[i]
  PROVE  /\ \A d : AnchoredAt(d, docs) => AnchoredAt(d, more)
         /\ \A f : Followed(f, docs) => Followed(f, more)
<1>1. ASSUME NEW d, AnchoredAt(d, docs)
      PROVE  AnchoredAt(d, more)
  BY <1>1 DEF AnchoredAt
<1>2. ASSUME NEW f, Followed(f, docs)
      PROVE  Followed(f, more)
  <2>1. PICK n \in Nat :
          /\ Numbered(f, n, docs)
          /\ Chain!verify_chain([i \in 1 .. n |-> Entry(AnchorsOf(f, n, docs)[i])]).ok
          /\ verify_anchored_reports(AnchorsOf(f, n, docs), ReportsOf(f, n, docs)) = "Ok"
    BY <1>2 DEF Followed
  <2>2. Numbered(f, n, more)
    BY <2>1 DEF Numbered
  <2>3. AnchorsOf(f, n, more) = AnchorsOf(f, n, docs) /\ ReportsOf(f, n, more) = ReportsOf(f, n, docs)
    BY <2>1 DEF Numbered, AnchorsOf, ReportsOf
  <2> QED
    BY <2>1, <2>2, <2>3 DEF Followed
<1> QED
  BY <1>1, <1>2

LEMMA MetaReport ==
  ASSUME NEW nodes, NEW profile, NEW meta
  PROVE  /\ IsReport(ReportOver(nodes, profile, meta))
         /\ ReportOver(nodes, profile, meta).snapshot_time = meta.snapshot_time
         /\ meta.manifest = <<>> => Plain(ReportOver(nodes, profile, meta))
BY DEF ReportOver, IsReport, Plain

\* What BookOf makes when it prints the tree as it is.
LEMMA BookAsBuilt ==
  ASSUME NEW meta, NEW day, NEW amounts, NEW key
  PROVE  \E nodes : BookOf(meta, day, amounts, "as built", key).signed
                      = SignedReport(ReportOver(nodes, meta.profile, meta), key)
BY DEF BookOf, Issue, Printed, publish, Publication, SignedReport

LEMMA SnapshotFields ==
  ASSUME NEW day \in DOMAIN Snapshots
  PROVE  \A k \in 1..6 : Snapshots[day][k] \in Nat
<1>1. \A k \in 1..6 : Snapshots[day][k] \in 0..Largest(k)
  BY SnapshotsAssumption
<1>2. \A k : \A n \in 0..Largest(k) : n \in Nat
  OBVIOUS
<1> QED
  BY <1>1, <1>2

LEMMA AnchoredIs ==
  ASSUME IssueAnchored
  PROVE  \E d : Adds(d) /\ AnchoredAt(d, issued)
<1>1. PICK day \in Days.history, amounts \in Amounts.history, offset \in 1..2,
           previous \in 0..Len(issued) :
        LET signed == BookOf([Meta("solvency.liabilities", day) EXCEPT !.ledger_offset = offset],
                             day, amounts, "as built", Venue).signed
        IN  Add([signed |-> signed,
                 previous |-> previous,
                 anchor |-> anchor_report(signed, IF previous = 0 THEN <<>>
                                                  ELSE <<issued[previous].anchor>>)])
  BY DEF IssueAnchored
<1> DEFINE meta == [Meta("solvency.liabilities", day) EXCEPT !.ledger_offset = offset]
           signed == BookOf(meta, day, amounts, "as built", Venue).signed
           before == IF previous = 0 THEN <<>> ELSE <<issued[previous].anchor>>
           d == [signed |-> signed, previous |-> previous, anchor |-> anchor_report(signed, before)]
<1>2. Adds(d)
  BY <1>1, AddAdds
<1>3. /\ meta.manifest = <<>>
      /\ \A k \in 1..6 : meta.snapshot_time[k] \in Nat
  <2>1. day \in DOMAIN Snapshots
    BY DaysAssumption DEF Publishing
  <2>2. \A k \in 1..6 : Snapshots[day][k] \in Nat
    BY <2>1, SnapshotFields
  <2>3. meta.snapshot_time = Snapshots[day] /\ meta.manifest = <<>>
    BY DEF Meta
  <2> QED
    BY <2>2, <2>3
<1>4. PICK nodes : signed = SignedReport(ReportOver(nodes, meta.profile, meta), Venue)
  <2> HIDE DEF meta
  <2> QED
    BY BookAsBuilt
<1>5. Plain(signed.report) /\ signed.report.snapshot_time = meta.snapshot_time
  <2>1. /\ Plain(ReportOver(nodes, meta.profile, meta))
        /\ ReportOver(nodes, meta.profile, meta).snapshot_time = meta.snapshot_time
    <3> HIDE DEF meta
    <3> QED
      BY <1>3, MetaReport
  <2>2. \A r : SignedReport(r, Venue).report = r
    BY DEF SignedReport
  <2>3. signed.report = ReportOver(nodes, meta.profile, meta)
    <3> HIDE DEF signed, meta
    <3> QED
      BY <1>4, <2>2
  <2> QED
    BY <2>1, <2>3
<1> HIDE DEF signed
<1>6. /\ d.anchor.report_digest = report_digest(d.signed.report)
      /\ d.anchor.snapshot_time = d.signed.report.snapshot_time
      /\ d.anchor.ledger_offset = d.signed.report.ledger_offset
      /\ d.anchor.prev_anchor = IF before = <<>> THEN <<>> ELSE <<anchor_digest(before[1])>>
  BY DEF anchor_report
<1>7. previous # 0 => previous \in DOMAIN issued
  OBVIOUS
<1>8. AnchoredAt(d, issued)
  BY <1>3, <1>5, <1>6, <1>7 DEF AnchoredAt
<1> QED
  BY <1>2, <1>8

LEMMA HistoriesKept ==
  ASSUME Histories, [Next]_vars
  PROVE  Histories'
<1> SUFFICES ASSUME topic' = "history"
             PROVE  /\ IsSeq(issued')
                    /\ \A i \in DOMAIN issued' : AnchoredAt(issued'[i], issued')
                    /\ \A f \in Facts("history")' : Followed(f, issued')
  BY DEF Histories
<1>1. topic = "history"
  BY TopicStays
<1>2. /\ IsSeq(issued) /\ \A i \in DOMAIN issued : AnchoredAt(issued[i], issued)
      /\ \A f \in Facts("history") : Followed(f, issued)
  BY <1>1 DEF Histories
<1>3. CASE UNCHANGED readersVars
  BY <1>2, <1>3 DEF Facts, readersVars
<1>4. CASE IssueAnchored
  <2>1. PICK d : Adds(d) /\ AnchoredAt(d, issued)
    BY <1>4, AnchoredIs
  <2>2. /\ IsSeq(issued')
        /\ \A i \in DOMAIN issued : i \in DOMAIN issued' /\ issued'[i] = issued[i]
        /\ \A i \in DOMAIN issued' : i \in DOMAIN issued \/ issued'[i] = d
    BY <1>2, <2>1, StaysIssued
  <2>3. /\ \A e : AnchoredAt(e, issued) => AnchoredAt(e, issued')
        /\ \A f : Followed(f, issued) => Followed(f, issued')
    BY <2>2, AnchoredStays
  <2>4. accepted' = accepted
    BY <2>1 DEF Adds
  <2>5. Facts("history")' = Facts("history")
    BY <2>4 DEF Facts
  <2> QED
    BY <1>2, <2>1, <2>2, <2>3, <2>5
<1>5. CASE AcceptHistory
  <2>1. PICK n \in 1..Len(issued) : \E as, rs \in [1..n -> DOMAIN issued] :
          LET history == [i \in 1..n |-> issued[as[i]].anchor] IN
          /\ Chain!verify_chain([i \in 1..n |-> Entry(history[i])]).ok
          /\ verify_anchored_reports(history, [i \in 1..n |-> issued[rs[i]].signed]) = "Ok"
          /\ Accept([what |-> "history", anchors |-> as, reports |-> rs])
    BY <1>5 DEF AcceptHistory
  <2>2. PICK as \in [1..n -> DOMAIN issued], rs \in [1..n -> DOMAIN issued] :
          LET history == [i \in 1..n |-> issued[as[i]].anchor] IN
          /\ Chain!verify_chain([i \in 1..n |-> Entry(history[i])]).ok
          /\ verify_anchored_reports(history, [i \in 1..n |-> issued[rs[i]].signed]) = "Ok"
          /\ Accept([what |-> "history", anchors |-> as, reports |-> rs])
    BY <2>1
  <2> DEFINE f == [what |-> "history", anchors |-> as, reports |-> rs]
  <2>3. n \in Nat
    BY <1>2 DEF IsSeq
  <2>4. /\ Numbered(f, n, issued)
        /\ AnchorsOf(f, n, issued) = [i \in 1..n |-> issued[as[i]].anchor]
        /\ ReportsOf(f, n, issued) = [i \in 1..n |-> issued[rs[i]].signed]
    BY DEF Numbered, AnchorsOf, ReportsOf
  <2>5. Followed(f, issued)
    BY <2>2, <2>3, <2>4 DEF Followed
  <2>6. Keeps(f)
    BY <2>2, AcceptKeeps
  <2> HIDE DEF f
  <2>7. issued' = issued /\ \A g \in Facts("history")' : g \in Facts("history") \/ g = f
    BY <2>6 DEF Keeps, Facts
  <2> QED
    BY <1>2, <2>5, <2>7
<1> QED
  BY <1>1, <1>3, <1>4, <1>5, TopicSteps DEF HistoryNext

\* Every anchor of a chain that verifies keeps the rules (anchor.rs verify_chain).
LEMMA ChainVerdicts ==
  ASSUME NEW history, DOMAIN history \subseteq Nat, Chain!verify_chain(history).ok,
         NEW i \in DOMAIN history
  PROVE  Chain!AnchorVerdict(history, i).ok
<1> DEFINE bad == {k \in DOMAIN history : ~Chain!AnchorVerdict(history, k).ok}
<1> SUFFICES ASSUME bad # {}
             PROVE  FALSE
  OBVIOUS
<1>1. \E k \in bad : \A j \in bad : k <= j
  <2>1. bad \in SUBSET Nat
    OBVIOUS
  <2> HIDE DEF bad
  <2> QED
    BY <2>1, LeastNatural
<1>2. (CHOOSE k \in bad : \A j \in bad : k <= j) \in bad
  <2> HIDE DEF bad
  <2> QED
    BY <1>1
<1>3. Chain!verify_chain(history) =
        Chain!AnchorVerdict(history, CHOOSE k \in bad : \A j \in bad : k <= j)
  BY DEF Chain!verify_chain
<1> QED
  BY <1>2, <1>3

LEMMA FollowedIs ==
  ASSUME NEW f, Followed(f, issued), \A k \in DOMAIN issued : AnchoredAt(issued[k], issued),
         NEW i \in DOMAIN f.anchors
  PROVE  LET Own(k) == issued[f.reports[k]].signed.report
             a == issued[f.anchors[i]] IN
         /\ Own(i) = a.signed.report
         /\ i = 1 => a.previous = 0
         /\ i > 1 => /\ a.previous # 0
                     /\ issued[a.previous].anchor = issued[f.anchors[i - 1]].anchor
                     /\ Later(Own(i).snapshot_time, Own(i - 1).snapshot_time)
                     /\ Own(i).ledger_offset >= Own(i - 1).ledger_offset
<1> DEFINE Own(k) == issued[f.reports[k]].signed.report
           At(k) == issued[f.anchors[k]]
<1>1. PICK n \in Nat :
        /\ Numbered(f, n, issued)
        /\ Chain!verify_chain([k \in 1 .. n |-> Entry(AnchorsOf(f, n, issued)[k])]).ok
        /\ verify_anchored_reports(AnchorsOf(f, n, issued), ReportsOf(f, n, issued)) = "Ok"
  BY DEF Followed
<1> DEFINE h == [k \in 1 .. n |-> Entry(AnchorsOf(f, n, issued)[k])]
<1>2. /\ DOMAIN f.anchors = 1 .. n /\ i \in 1 .. n
      /\ \A k \in 1 .. n : f.anchors[k] \in DOMAIN issued /\ f.reports[k] \in DOMAIN issued
  BY <1>1 DEF Numbered
<1>3. ASSUME NEW k \in 1 .. n
      PROVE  Own(k) = At(k).signed.report
  <2>1. AnchorsOf(f, n, issued)[k].report_digest
          = report_digest(ReportsOf(f, n, issued)[k].report)
    BY <1>1 DEF verify_anchored_reports, AnchorsOf, ReportsOf, Expect
  <2>2. At(k).anchor.report_digest = report_digest(Own(k))
    BY <2>1 DEF AnchorsOf, ReportsOf
  <2>3. AnchoredAt(At(k), issued) /\ AnchoredAt(issued[f.reports[k]], issued)
    BY <1>2
  <2> QED
    BY <2>2, <2>3, PlainPins DEF AnchoredAt
<1>4. ASSUME NEW k \in 1 .. n
      PROVE  /\ h[k].digest = anchor_digest(At(k).anchor)
             /\ \A e : At(k).anchor.prev_anchor = <<e>> => h[k].prev = e
             /\ At(k).anchor.prev_anchor = <<>> => h[k].prev = <<>>
             /\ h[k].snapshot_time = At(k).anchor.snapshot_time
             /\ h[k].ledger_offset = At(k).anchor.ledger_offset
  <2>1. h[k] = Entry(AnchorsOf(f, n, issued)[k])
    OBVIOUS
  <2>2. AnchorsOf(f, n, issued)[k] = At(k).anchor
    BY DEF AnchorsOf
  <2>3. h[k] = Entry(At(k).anchor)
    BY <2>1, <2>2
  <2> HIDE DEF h, At
  <2> DEFINE a == At(k).anchor
  <2>4. h[k] = Entry(a)
    BY <2>3
  <2> HIDE DEF a
  <2>5. /\ h[k].digest = anchor_digest(a)
        /\ h[k].snapshot_time = a.snapshot_time
        /\ h[k].ledger_offset = a.ledger_offset
    BY <2>4 DEF Entry
  <2>6. \A e : a.prev_anchor = <<e>> => h[k].prev = e
    BY <2>4 DEF Entry
  <2>7. a.prev_anchor = <<>> => h[k].prev = <<>>
    BY <2>4 DEF Entry
  <2> QED
    BY <2>5, <2>6, <2>7 DEF a
<1>5. Chain!AnchorVerdict(h, i).ok
  <2>1. DOMAIN h \subseteq Nat /\ i \in DOMAIN h /\ Chain!verify_chain(h).ok
    BY <1>1, <1>2
  <2> HIDE DEF h
  <2> QED
    BY <2>1, ChainVerdicts
<1> HIDE DEF h
<1>6. /\ i = 1 => h[i].prev = <<>>
      /\ i # 1 => /\ h[i].prev = h[i - 1].digest
                  /\ TextBefore(h[i - 1].snapshot_time, h[i].snapshot_time)
                  /\ h[i].ledger_offset >= h[i - 1].ledger_offset
  BY <1>5 DEF Chain!AnchorVerdict, Chain!Names, Chain!Advances, Chain!Ok, Chain!Failed
<1>7. \A a : anchor_digest(a) # <<>> /\ anchor_digest(a)[2] = a
  BY DEF anchor_digest
<1>8. AnchoredAt(At(i), issued)
  BY <1>2
<1>9. i = 1 => At(i).previous = 0
  <2> SUFFICES ASSUME i = 1, At(i).previous # 0
               PROVE  FALSE
    OBVIOUS
  <2>1. At(i).anchor.prev_anchor = <<anchor_digest(issued[At(i).previous].anchor)>>
    BY <1>8 DEF AnchoredAt
  <2>2. h[i].prev = anchor_digest(issued[At(i).previous].anchor)
    BY <1>2, <1>4, <2>1
  <2> QED
    BY <1>6, <1>7, <2>2
<1>10. ASSUME i > 1
       PROVE  /\ At(i).previous # 0
              /\ issued[At(i).previous].anchor = issued[f.anchors[i - 1]].anchor
              /\ Later(Own(i).snapshot_time, Own(i - 1).snapshot_time)
              /\ Own(i).ledger_offset >= Own(i - 1).ledger_offset
  <2>1. i - 1 \in 1 .. n /\ i # 1
    BY <1>2, <1>10
  <2>2. h[i].prev = anchor_digest(At(i - 1).anchor)
    BY <1>4, <1>6, <2>1
  <2>3. At(i).previous # 0
    BY <1>2, <1>4, <1>7, <1>8, <2>2 DEF AnchoredAt
  <2>4. At(i).anchor.prev_anchor = <<anchor_digest(issued[At(i).previous].anchor)>>
    BY <1>8, <2>3 DEF AnchoredAt
  <2>5. h[i].prev = anchor_digest(issued[At(i).previous].anchor)
    BY <1>2, <1>4, <2>4
  <2>6. issued[At(i).previous].anchor = At(i - 1).anchor
    BY <1>7, <2>2, <2>5
  <2>7. AnchoredAt(At(i - 1), issued)
    BY <1>2, <2>1
  <2>8. Own(i) = At(i).signed.report /\ Own(i - 1) = At(i - 1).signed.report
    BY <1>2, <1>3, <2>1
  <2>9. /\ h[i].snapshot_time = Own(i).snapshot_time
        /\ h[i].ledger_offset = Own(i).ledger_offset
    <3>1. /\ h[i].snapshot_time = At(i).anchor.snapshot_time
          /\ h[i].ledger_offset = At(i).anchor.ledger_offset
      BY <1>2, <1>4
    <3> HIDE DEF At
    <3>2. /\ At(i).anchor.snapshot_time = At(i).signed.report.snapshot_time
          /\ At(i).anchor.ledger_offset = At(i).signed.report.ledger_offset
      BY <1>8 DEF AnchoredAt
    <3> QED
      BY <2>8, <3>1, <3>2
  <2>10. /\ h[i - 1].snapshot_time = Own(i - 1).snapshot_time
         /\ h[i - 1].ledger_offset = Own(i - 1).ledger_offset
    <3>1. /\ h[i - 1].snapshot_time = At(i - 1).anchor.snapshot_time
          /\ h[i - 1].ledger_offset = At(i - 1).anchor.ledger_offset
      BY <1>4, <2>1
    <3> HIDE DEF At
    <3>2. /\ At(i - 1).anchor.snapshot_time = At(i - 1).signed.report.snapshot_time
          /\ At(i - 1).anchor.ledger_offset = At(i - 1).signed.report.ledger_offset
      BY <2>7 DEF AnchoredAt
    <3> QED
      BY <2>8, <3>1, <3>2
  <2>11. TextBefore(Own(i - 1).snapshot_time, Own(i).snapshot_time)
    BY <1>6, <2>1, <2>9, <2>10
  <2>12. Later(Own(i).snapshot_time, Own(i - 1).snapshot_time)
    <3>1. \A k \in 1..6 : Own(i - 1).snapshot_time[k] \in Nat /\ Own(i).snapshot_time[k] \in Nat
      BY <1>8, <2>7, <2>8 DEF AnchoredAt
    <3> HIDE DEF Own
    <3> QED
      BY <2>11, <3>1, WrittenEarlier DEF Later
  <2> QED
    BY <1>6, <2>1, <2>3, <2>6, <2>9, <2>10, <2>12
<1> QED
  BY <1>2, <1>3, <1>9, <1>10

\* An accepted history starts where its publisher started and leaves out nothing
\* anchored in between (anchor.rs verify_chain, verify_anchored_reports), however
\* publishers start over, fork or restate a day.
THEOREM HistoryCompleteHolds == Spec => []HistoryComplete
<1>1. Init => Histories
  BY NoneIsSeq DEF Init, Histories, Facts
<1>2. Histories /\ [Next]_vars => Histories'
  BY HistoriesKept
<1>3. Histories => HistoryComplete
  BY FollowedIs DEF Histories, HistoryComplete
<1> QED
  BY <1>1, <1>2, <1>3, PTL DEF Spec

-----------------------------------------------------------------------------
(* Books: what publishers commit to and what they print.                   *)

\* The leaf of a customer, whatever its fields.
IsLeaf(x) == x = [salt |-> x.salt, subject |-> x.subject, balances |-> x.balances]

NodesOf(source) == [i \in DOMAIN source |-> leaf_node(source[i])]

\* A report signed with the key it names.
Genuine(signed) ==
  /\ signed = [report |-> signed.report, signature |-> signed.signature]
  /\ signed.signature.value = <<signed.signature.public_key, report_digest(signed.report)>>
  /\ IsReport(signed.report)

\* A proof, of the format given, of a leaf of a sequence.
IsProof(q, format, source) ==
  /\ q = [format_version |-> q.format_version, report_digest |-> q.report_digest,
          leaf |-> q.leaf, steps |-> q.steps]
  /\ q.format_version = format
  /\ \E i \in DOMAIN source : q.leaf = source[i]
  /\ IsSeq(q.steps)

\* A report of a tree over these nodes, with its root and its keys.
OverNodes(printed, nodes) ==
  /\ printed.root_hash = Root(nodes).hash
  /\ DOMAIN printed.root_sums = DOMAIN Root(nodes).sums

IsBook(b) ==
  /\ IsSeq(b.source) /\ Len(b.source) >= 1
  /\ \A i \in 1 .. Len(b.source) : /\ IsLeaf(b.source[i])
                                   /\ b.source[i].balances = [USDA |-> b.source[i].balances.USDA]
                                   /\ b.source[i].balances.USDA \in Nat
  /\ Genuine(b.signed)
  /\ OverNodes(b.signed.report, NodesOf(b.source))
  /\ \A q \in Range(b.proofs) : IsProof(q, "proof-v1", b.source)

Prints == {"as built", "other totals", "other count"}

\* What is printed is no other root and no other keys.
LEMMA PrintedIs ==
  ASSUME NEW r, IsReport(r), NEW print \in Prints
  PROVE  LET p == Printed(r, print) IN
         /\ IsReport(p) /\ p.root_hash = r.root_hash /\ DOMAIN p.root_sums = DOMAIN r.root_sums
         /\ p.manifest = r.manifest /\ p.format_version = r.format_version
         /\ p.profile = r.profile /\ p.snapshot_time = r.snapshot_time
<1>1. CASE print = "as built"
  BY <1>1 DEF Printed
<1>2. CASE print = "other totals"
  BY <1>2 DEF Printed, IsReport
<1>3. CASE print = "other count"
  BY <1>3 DEF Printed, IsReport
<1> QED
  BY <1>1, <1>2, <1>3 DEF Prints

LEMMA SignedIs ==
  ASSUME NEW r, NEW key, IsReport(r)
  PROVE  /\ Genuine(SignedReport(r, key))
         /\ SignedReport(r, key).report = r
         /\ SignedReport(r, key).signature.public_key = key
BY DEF Genuine, SignedReport, SignatureOf, sign_digest

LEMMA ReportIs ==
  ASSUME NEW nodes, NEW profile, NEW meta
  PROVE  LET r == ReportOver(nodes, profile, meta) IN
         /\ IsReport(r) /\ OverNodes(r, nodes)
         /\ r.manifest = meta.manifest /\ r.profile = profile
         /\ r.snapshot_time = meta.snapshot_time
         /\ r.format_version = IF meta.manifest = <<>> THEN "report-v1" ELSE "report-v2"
BY DEF ReportOver, IsReport, OverNodes

\* The leaves of a day's customers.
LEMMA BookSource ==
  ASSUME NEW day, NEW amounts, amounts \in Seq(Nat), amounts # <<>>
  PROVE  LET source == Book(day, amounts) IN
         /\ IsSeq(source) /\ Len(source) >= 1 /\ DOMAIN source = 1 .. Len(source)
         /\ \A i \in 1 .. Len(source) : /\ IsLeaf(source[i])
                                        /\ source[i].balances = [USDA |-> source[i].balances.USDA]
                                        /\ source[i].balances.USDA \in Nat
<1> DEFINE source == Book(day, amounts)
<1>1. Len(amounts) \in Nat /\ Len(amounts) >= 1 /\ DOMAIN amounts = 1 .. Len(amounts)
  OBVIOUS
<1>2. source = [i \in 1 .. Len(amounts) |-> source[i]]
  BY <1>1 DEF Book
<1>3. IsSeq(source) /\ Len(source) = Len(amounts)
  <2> HIDE DEF source
  <2> QED
    BY <1>1, <1>2, FunctionIsSeq
<1>4. ASSUME NEW i \in 1 .. Len(amounts)
      PROVE  /\ IsLeaf(source[i])
             /\ source[i].balances = [USDA |-> source[i].balances.USDA]
             /\ source[i].balances.USDA \in Nat
  <2>1. amounts[i] \in Nat
    BY <1>1
  <2>2. source[i] = [salt |-> leaf_salt(<<"salts", day>>, i), subject |-> i,
                     balances |-> [USDA |-> amounts[i]]]
    BY <1>1 DEF Book
  <2> HIDE DEF source
  <2> QED
    BY <2>1, <2>2 DEF IsLeaf
<1> HIDE DEF source
<1> QED
  BY <1>1, <1>2, <1>3, <1>4 DEF source

LEMMA NodesOfIs ==
  ASSUME NEW source, IsSeq(source)
  PROVE  /\ IsSeq(NodesOf(source)) /\ Len(NodesOf(source)) = Len(source)
         /\ \A i \in 1 .. Len(source) : NodesOf(source)[i] = leaf_node(source[i])
         /\ \A i \in 1 .. Len(NodesOf(source)) : Leafy(NodesOf(source)[i])
<1> DEFINE nodes == NodesOf(source)
<1>1. Len(source) \in Nat /\ DOMAIN source = 1 .. Len(source)
  BY DEF IsSeq
<1>2. nodes = [i \in 1 .. Len(source) |-> leaf_node(source[i])]
  BY <1>1 DEF NodesOf
<1>3. nodes = [i \in 1 .. Len(source) |-> nodes[i]]
  BY <1>2
<1>4. IsSeq(nodes) /\ Len(nodes) = Len(source)
  <2> HIDE DEF nodes
  <2> QED
    BY <1>1, <1>3, FunctionIsSeq
<1>5. \A i \in 1 .. Len(source) : nodes[i] = leaf_node(source[i])
  BY <1>2
<1> HIDE DEF nodes
<1> QED
  BY <1>4, <1>5 DEF nodes, Leafy

\* What BookOf makes is a book, signed with its key over the report it prints.
Made(b, meta, print, key) ==
  /\ IsBook(b)
  /\ b.signed.signature.public_key = key
  /\ b.signed.report.manifest = meta.manifest
  /\ b.signed.report.profile = meta.profile
  /\ b.signed.report.snapshot_time = meta.snapshot_time
  /\ meta.manifest = <<>> => Plain(b.signed.report)
  /\ 1 \in DOMAIN b.proofs
  /\ print = "as built" => b.signed.report.root_sums = Root(NodesOf(b.source)).sums

LEMMA BookIsMade ==
  ASSUME NEW meta, NEW day, NEW amounts, amounts \in Seq(Nat), amounts # <<>>,
         NEW print \in Prints, NEW key
  PROVE  Made(BookOf(meta, day, amounts, print, key), meta, print, key)
<1> DEFINE source == Book(day, amounts)
           nodes == NodesOf(source)
           built == ReportOver(nodes, meta.profile, meta)
           made == publish(source, meta, key)
           r == Printed(built, print)
           b == BookOf(meta, day, amounts, print, key)
<1>1. /\ IsSeq(source) /\ Len(source) >= 1 /\ DOMAIN source = 1 .. Len(source)
      /\ \A i \in 1 .. Len(source) : /\ IsLeaf(source[i])
                                     /\ source[i].balances = [USDA |-> source[i].balances.USDA]
                                     /\ source[i].balances.USDA \in Nat
  BY BookSource
<1>2. IsSeq(nodes) /\ Len(nodes) >= 1
  <2> HIDE DEF source
  <2> QED
    BY <1>1, NodesOfIs
<1>3. /\ made.signed.report = built /\ DOMAIN made.proofs = DOMAIN source
      /\ \A i \in DOMAIN source :
           made.proofs[i] = [format_version |-> "proof-v1", report_digest |-> report_digest(built),
                             leaf |-> source[i], steps |-> prove(nodes, i)]
  <2> HIDE DEF source
  <2> QED
    BY DEF publish, Publication, SignedReport, NodesOf
<1>4. /\ IsReport(built) /\ OverNodes(built, nodes)
      /\ built.manifest = meta.manifest /\ built.profile = meta.profile
      /\ built.snapshot_time = meta.snapshot_time
      /\ built.format_version = IF meta.manifest = <<>> THEN "report-v1" ELSE "report-v2"
  <2> HIDE DEF nodes
  <2> QED
    BY ReportIs
<1>5. /\ IsReport(r) /\ r.root_hash = built.root_hash
      /\ DOMAIN r.root_sums = DOMAIN built.root_sums
      /\ r.manifest = built.manifest /\ r.format_version = built.format_version
      /\ r.profile = built.profile /\ r.snapshot_time = built.snapshot_time
  <2>1. IsReport(built)
    BY <1>4
  <2> HIDE DEF built
  <2> QED
    BY <2>1, PrintedIs
<1>6. /\ b.source = source /\ b.signed = SignedReport(r, key)
      /\ b.proofs = [i \in DOMAIN made.proofs |->
                       [made.proofs[i] EXCEPT !.report_digest = report_digest(r)]]
  <2>1. made.signed.report = built
    BY <1>3
  <2> HIDE DEF source, made, built
  <2> QED
    BY <2>1 DEF BookOf, Issue, source, made
<1> HIDE DEF source, nodes, built, made, r, b
<1>7. \A q \in Range(b.proofs) : IsProof(q, "proof-v1", b.source)
  <2> SUFFICES ASSUME NEW i \in DOMAIN source
               PROVE  IsProof([made.proofs[i] EXCEPT !.report_digest = report_digest(r)],
                              "proof-v1", source)
    BY <1>3, <1>6 DEF Range
  <2>1. IsSeq(prove(nodes, i))
    BY <1>2, ProveIsSeq
  <2>2. made.proofs[i] = [format_version |-> "proof-v1", report_digest |-> report_digest(built),
                          leaf |-> source[i], steps |-> prove(nodes, i)]
    BY <1>3
  <2> QED
    BY <2>1, <2>2 DEF IsProof
<1>8. /\ Genuine(b.signed) /\ b.signed.report = r /\ b.signed.signature.public_key = key
  BY <1>5, <1>6, SignedIs
<1>9. OverNodes(r, nodes)
  BY <1>4, <1>5 DEF OverNodes
<1>10. IsBook(b)
  <2>1. nodes = NodesOf(b.source)
    BY <1>6 DEF nodes
  <2> QED
    BY <1>1, <1>6, <1>7, <1>8, <1>9, <2>1 DEF IsBook
<1>11. meta.manifest = <<>> => Plain(r)
  BY <1>4, <1>5 DEF Plain
<1>12. 1 \in DOMAIN b.proofs
  BY <1>1, <1>3, <1>6
<1>13. print = "as built" => r.root_sums = Root(NodesOf(b.source)).sums
  <2>1. built.root_sums = Root(nodes).sums
    BY DEF built, ReportOver
  <2>2. print = "as built" => r = built
    BY DEF r, Printed
  <2> QED
    BY <1>6, <2>1, <2>2 DEF nodes
<1> QED
  BY <1>4, <1>5, <1>8, <1>10, <1>11, <1>12, <1>13 DEF b, Made

LEMMA BookIs ==
  ASSUME NEW meta, NEW day, NEW amounts, amounts \in Seq(Nat), amounts # <<>>,
         NEW print \in Prints, NEW key
  PROVE  LET b == BookOf(meta, day, amounts, print, key) IN
         /\ IsBook(b)
         /\ b.signed.signature.public_key = key
         /\ meta.manifest = <<>> => Plain(b.signed.report)
<1>1. PICK b : b = BookOf(meta, day, amounts, print, key)
  OBVIOUS
<1>2. Made(b, meta, print, key)
  BY <1>1, BookIsMade
<1> QED
  BY <1>1, <1>2 DEF Made

\* A total over a sequence of amounts is its running total at the end.
LEMMA SumIs ==
  ASSUME NEW amounts, IsSeq(amounts), \A i \in 1 .. Len(amounts) : amounts[i] \in Nat
  PROVE  \E t \in [0 .. Len(amounts) -> Nat] :
           /\ t[0] = 0
           /\ \A n \in 1 .. Len(amounts) : t[n] = t[n - 1] + amounts[n]
           /\ Sum(amounts) = t[Len(amounts)]
<1> DEFINE IsTotal(k, f) == f = [n \in 0 .. k |-> IF n = 0 THEN 0 ELSE f[n - 1] + amounts[n]]
           Given == {k \in Nat : \E f : IsTotal(k, f)}
<1>0. Len(amounts) \in Nat
  BY DEF IsSeq
<1>1. 0 \in Given
  <2>1. IsTotal(0, [n \in 0 .. 0 |-> 0])
    OBVIOUS
  <2> QED
    BY <2>1
<1>2. ASSUME NEW k \in Nat, k \in Given
      PROVE  k + 1 \in Given
  <2>1. PICK f : IsTotal(k, f)
    BY <1>2
  <2> DEFINE v == [n \in 0 .. (k + 1) |-> IF n <= k THEN f[n] ELSE f[k] + amounts[k + 1]]
  <2>2. v = [n \in 0 .. (k + 1) |-> v[n]]
    OBVIOUS
  <2>3. \A n \in 0 .. (k + 1) : v[n] = IF n = 0 THEN 0 ELSE v[n - 1] + amounts[n]
    BY <2>1
  <2>4. IsTotal(k + 1, v)
    <3> HIDE DEF v
    <3> QED
      BY <2>2, <2>3
  <2> HIDE DEF v, IsTotal
  <2> QED
    BY <2>4
<1>3. Len(amounts) \in Given
  <2> HIDE DEF Given
  <2> QED
    BY <1>0, <1>1, <1>2, AllNaturals
<1> DEFINE t == CHOOSE f : IsTotal(Len(amounts), f)
<1>4. IsTotal(Len(amounts), t)
  <2>1. \E f : IsTotal(Len(amounts), f)
    BY <1>3
  <2> HIDE DEF IsTotal
  <2> QED
    BY <2>1
<1>5. Sum(amounts) = t[Len(amounts)]
  BY DEF Sum
<1> HIDE DEF t
<1>6. /\ t[0] = 0 /\ DOMAIN t = 0 .. Len(amounts)
      /\ \A n \in 1 .. Len(amounts) : t[n] = t[n - 1] + amounts[n]
  BY <1>0, <1>4
<1> DEFINE Good == {n \in Nat : n \in 0 .. Len(amounts) => t[n] \in Nat}
<1>7. 0 \in Good
  BY <1>6
<1>8. ASSUME NEW n \in Nat, n \in Good
      PROVE  n + 1 \in Good
  <2> SUFFICES ASSUME n + 1 \in 0 .. Len(amounts)
               PROVE  t[n + 1] \in Nat
    OBVIOUS
  <2>1. n + 1 \in 1 .. Len(amounts) /\ (n + 1) - 1 = n /\ n \in 0 .. Len(amounts)
    BY <1>0
  <2>2. t[n + 1] = t[(n + 1) - 1] + amounts[n + 1]
    BY <1>6, <2>1
  <2> QED
    BY <1>8, <2>1, <2>2
<1>9. \A n \in Nat : n \in Good
  <2> HIDE DEF Good
  <2> QED
    BY <1>7, <1>8, AllNaturals
<1>10. \A n \in 0 .. Len(amounts) : t[n] \in Nat
  BY <1>0, <1>9
<1>11. t \in [0 .. Len(amounts) -> Nat]
  BY <1>0, <1>4, <1>6, <1>10
<1> QED
  BY <1>5, <1>6, <1>11

\* What the root of a tree has of a key is what its nodes hold of it, added up.
LEMMA TreeTotals ==
  ASSUME NEW nodes, IsSeq(nodes), Len(nodes) >= 1, NEW key,
         NEW amounts, IsSeq(amounts), Len(amounts) = Len(nodes),
         \A i \in 1 .. Len(nodes) : /\ key \in DOMAIN nodes[i].sums
                                    /\ Of(nodes[i].sums, key) = amounts[i]
                                    /\ amounts[i] \in Nat
  PROVE  key \in DOMAIN Root(nodes).sums /\ Of(Root(nodes).sums, key) = Sum(amounts)
<1>1. PICK t \in [0 .. Len(amounts) -> Nat] :
        /\ t[0] = 0
        /\ \A n \in 1 .. Len(amounts) : t[n] = t[n - 1] + amounts[n]
        /\ Sum(amounts) = t[Len(amounts)]
  BY SumIs
<1>2. Running(nodes, key, t)
  BY <1>1 DEF Running
<1>3. Totalled(nodes, key, Sum(amounts))
  BY <1>1, <1>2 DEF Totalled
<1>4. Of(Root(nodes).sums, key) = Sum(amounts)
  BY <1>3, RootTotals
<1>5. key \in DOMAIN Root(nodes).sums
  BY RootKeys
<1> QED
  BY <1>4, <1>5

\* The root of a book's tree has its customers' balances added up.
LEMMA BookTotals ==
  ASSUME NEW source, IsSeq(source), Len(source) >= 1,
         \A i \in 1 .. Len(source) : /\ source[i].balances = [USDA |-> source[i].balances.USDA]
                                     /\ source[i].balances.USDA \in Nat
  PROVE  /\ USDA \in DOMAIN Root(NodesOf(source)).sums
         /\ Of(Root(NodesOf(source)).sums, USDA) = Owed(source)
         /\ Owed(source) \in Nat
<1>1. Len(source) \in Nat /\ DOMAIN source = 1 .. Len(source)
  BY DEF IsSeq
<1>2. PICK nodes : nodes = NodesOf(source)
  OBVIOUS
<1>3. PICK amounts : amounts = [i \in DOMAIN source |-> source[i].balances.USDA]
  OBVIOUS
<1>4. /\ IsSeq(nodes) /\ Len(nodes) = Len(source)
      /\ \A i \in 1 .. Len(source) : nodes[i] = leaf_node(source[i])
  BY <1>2, NodesOfIs
<1>5. IsSeq(amounts) /\ Len(amounts) = Len(source)
  <2>1. amounts = [i \in 1 .. Len(source) |-> amounts[i]]
    BY <1>1, <1>3
  <2> QED
    BY <1>1, <2>1, FunctionIsSeq
<1>6. ASSUME NEW i \in 1 .. Len(source)
      PROVE  /\ USDA \in DOMAIN nodes[i].sums /\ Of(nodes[i].sums, USDA) = amounts[i]
             /\ amounts[i] \in Nat
  <2>1. amounts[i] = source[i].balances.USDA
    BY <1>1, <1>3
  <2>2. /\ nodes[i].sums = Flattened("", source[i].balances)
        /\ source[i].balances = [USDA |-> amounts[i]]
    BY <1>4, <2>1, LeafNode
  <2>3. /\ USDA \in DOMAIN Flattened("", [USDA |-> amounts[i]])
        /\ Flattened("", [USDA |-> amounts[i]])[USDA] = amounts[i]
    BY DEF Flattened, USDA, qualified
  <2> QED
    BY <2>1, <2>2, <2>3 DEF Of
<1>7. Owed(source) = Sum(amounts)
  BY <1>3 DEF Owed
<1>8. USDA \in DOMAIN Root(nodes).sums /\ Of(Root(nodes).sums, USDA) = Sum(amounts)
  BY <1>4, <1>5, <1>6, TreeTotals
<1>9. Sum(amounts) \in Nat
  <2>1. PICK t \in [0 .. Len(amounts) -> Nat] : Sum(amounts) = t[Len(amounts)]
    BY <1>4, <1>5, <1>6, SumIs
  <2> QED
    BY <1>1, <1>4, <1>5, <2>1
<1> QED
  BY <1>2, <1>7, <1>8, <1>9

LEMMA TailIsSeq ==
  ASSUME NEW s, IsSeq(s), s # <<>>
  PROVE  IsSeq(Tail(s)) /\ Len(Tail(s)) = Len(s) - 1
<1> DEFINE S == {s[i] : i \in 1 .. Len(s)}
<1>1. \A i \in 1 .. Len(s) : s[i] \in S
  OBVIOUS
<1> HIDE DEF S
<1>2. [i \in 1 .. Len(s) |-> s[i]] \in Seq(S)
  BY <1>1, IsASeq DEF IsSeq
<1>3. s \in Seq(S)
  BY <1>2 DEF IsSeq
<1>4. Tail(s) \in Seq(S) /\ Len(Tail(s)) = Len(s) - 1
  BY <1>3, HeadTailProperties
<1> QED
  BY <1>4, SeqIs

\* An alteration leaves the signature, the manifest and the version.
LEMMA ReceivedIs ==
  ASSUME NEW signed, Genuine(signed), NEW s \in Received(signed)
  PROVE  /\ s.signature = signed.signature /\ IsReport(s.report)
         /\ s.report.manifest = signed.report.manifest
         /\ s.report.format_version = signed.report.format_version
         /\ s.report.profile = signed.report.profile
<1> DEFINE r == signed.report
<1>1. signed = [report |-> r, signature |-> signed.signature] /\ IsReport(r)
  BY DEF Genuine
<1>2. CASE s = signed
  BY <1>1, <1>2
<1>3. CASE s = [signed EXCEPT !.report.root_sums = [k \in DOMAIN @ |-> @[k] + 1]]
  <2>1. s = [report |-> [r EXCEPT !.root_sums = [k \in DOMAIN @ |-> @[k] + 1]],
             signature |-> signed.signature]
    BY <1>1, <1>3
  <2> QED
    BY <1>1, <2>1 DEF IsReport
<1>4. CASE s = [signed EXCEPT !.report.leaf_count = @ + 1]
  <2>1. s = [report |-> [r EXCEPT !.leaf_count = @ + 1], signature |-> signed.signature]
    BY <1>1, <1>4
  <2> QED
    BY <1>1, <2>1 DEF IsReport
<1>5. CASE \E time \in Range(Snapshots) : s = [signed EXCEPT !.report.snapshot_time = time]
  <2>1. PICK time : s = [signed EXCEPT !.report.snapshot_time = time]
    BY <1>5
  <2>2. s = [report |-> [r EXCEPT !.snapshot_time = time], signature |-> signed.signature]
    BY <1>1, <2>1
  <2> QED
    BY <1>1, <2>2 DEF IsReport
<1> QED
  BY <1>2, <1>3, <1>4, <1>5 DEF Received

\* So does one of a proof with its format, its leaf's fields and that its steps
\* are a sequence.
LEMMA ReceivedProofIs ==
  ASSUME NEW q, NEW format, NEW source, IsProof(q, format, source),
         \A i \in DOMAIN source : IsLeaf(source[i]),
         NEW signed, NEW p \in ReceivedProof(q, signed)
  PROVE  p.format_version = format /\ IsLeaf(p.leaf) /\ Len(p.steps) \in Nat
<1>1. /\ q = [format_version |-> q.format_version, report_digest |-> q.report_digest,
              leaf |-> q.leaf, steps |-> q.steps]
      /\ q.format_version = format /\ IsLeaf(q.leaf)
      /\ IsSeq(q.steps) /\ Len(q.steps) \in Nat
  BY DEF IsProof, IsSeq
<1>2. CASE p = q \/ p = [q EXCEPT !.report_digest = report_digest(signed.report)]
  BY <1>1, <1>2
<1>3. CASE p = [q EXCEPT !.leaf.subject = 9]
  <2>1. p = [format_version |-> q.format_version, report_digest |-> q.report_digest,
             leaf |-> [q.leaf EXCEPT !.subject = 9], steps |-> q.steps]
    BY <1>1, <1>3
  <2>2. IsLeaf([q.leaf EXCEPT !.subject = 9])
    BY <1>1 DEF IsLeaf
  <2> QED
    BY <1>1, <2>1, <2>2
<1>4. CASE \E s \in Range(q.steps) : p = [q EXCEPT !.steps = Tail(@)]
  <2>1. p = [q EXCEPT !.steps = Tail(@)] /\ q.steps # <<>>
    BY <1>4 DEF Range
  <2>2. p = [format_version |-> q.format_version, report_digest |-> q.report_digest,
             leaf |-> q.leaf, steps |-> Tail(q.steps)]
    BY <1>1, <2>1
  <2>3. Len(Tail(q.steps)) \in Nat
    BY <1>1, <2>1, TailIsSeq
  <2> QED
    BY <1>1, <2>2, <2>3
<1>5. CASE \E s \in Range(q.steps) : p = [q EXCEPT !.steps[1].on_left = ~@]
  <2> DEFINE u == [q.steps EXCEPT ![1].on_left = ~@]
  <2>1. p = [format_version |-> q.format_version, report_digest |-> q.report_digest,
             leaf |-> q.leaf, steps |-> u]
    BY <1>1, <1>5
  <2>2. u = [i \in 1 .. Len(q.steps) |-> u[i]]
    BY <1>1 DEF IsSeq
  <2> HIDE DEF u
  <2>3. Len(u) \in Nat
    BY <1>1, <2>2, FunctionIsSeq
  <2> QED
    BY <1>1, <2>1, <2>3
<1> QED
  BY <1>2, <1>3, <1>4, <1>5 DEF ReceivedProof

\* The hash of a leaf covers all its fields.
LEMMA LeafNodePins ==
  ASSUME NEW x, NEW y, IsLeaf(x), IsLeaf(y), leaf_node(x) = leaf_node(y)
  PROVE  x = y
<1>1. leaf_node(x).hash[2] = x.salt /\ leaf_node(x).hash[3] = x.subject
      /\ leaf_node(x).hash[4] = x.balances
  BY LeafNode
<1>2. leaf_node(y).hash[2] = y.salt /\ leaf_node(y).hash[3] = y.subject
      /\ leaf_node(y).hash[4] = y.balances
  BY LeafNode
<1>3. x.salt = y.salt /\ x.subject = y.subject /\ x.balances = y.balances
  BY <1>1, <1>2
<1> QED
  BY <1>3 DEF IsLeaf

\* A leaf that folds to the root of a book's tree is the book's, and the totals
\* reached are the balances added up.
LEMMA FoldMeans ==
  ASSUME NEW b, IsBook(b), NEW leaf, IsLeaf(leaf), NEW steps, Len(steps) \in Nat,
         NEW expected, NEW trusted, NEW signed, signed.report = b.signed.report,
         Proves(signed, leaf_node(leaf), steps, expected, trusted)
  PROVE  leaf \in Range(b.source) /\ signed.report.root_sums[USDA] = Owed(b.source)
<1> DEFINE nodes == NodesOf(b.source)
           r == b.signed.report
           folded == fold(leaf_node(leaf), steps)
<1>1. /\ IsSeq(b.source) /\ Len(b.source) >= 1
      /\ \A i \in 1 .. Len(b.source) :
           /\ IsLeaf(b.source[i])
           /\ b.source[i].balances = [USDA |-> b.source[i].balances.USDA]
           /\ b.source[i].balances.USDA \in Nat
      /\ r.root_hash = Root(nodes).hash /\ DOMAIN r.root_sums = DOMAIN Root(nodes).sums
  BY DEF IsBook, OverNodes
<1>2. /\ IsSeq(nodes) /\ Len(nodes) = Len(b.source)
      /\ \A i \in 1 .. Len(b.source) : nodes[i] = leaf_node(b.source[i])
      /\ \A i \in 1 .. Len(nodes) : Leafy(nodes[i])
  BY <1>1, NodesOfIs
<1>3. folded.hash = r.root_hash /\ SameTotals(folded.sums, r.root_sums)
  BY DEF Proves
<1>4. USDA \in DOMAIN Root(nodes).sums /\ Of(Root(nodes).sums, USDA) = Owed(b.source)
  BY <1>1, BookTotals
<1>5. (\E i \in 1 .. Len(nodes) : nodes[i] = leaf_node(leaf)) /\ folded.sums = Root(nodes).sums
  <2>1. Leafy(leaf_node(leaf))
    BY DEF Leafy
  <2>2. folded.hash = Root(nodes).hash
    BY <1>1, <1>3
  <2> HIDE DEF nodes
  <2> QED
    BY <1>1, <1>2, <2>1, <2>2, FoldReaches
<1>6. PICK i \in 1 .. Len(nodes) : nodes[i] = leaf_node(leaf)
  BY <1>5
<1> HIDE DEF nodes, folded
<1>7. leaf_node(b.source[i]) = leaf_node(leaf) /\ IsLeaf(b.source[i]) /\ i \in DOMAIN b.source
  BY <1>1, <1>2, <1>6 DEF IsSeq
<1>8. b.source[i] = leaf
  BY <1>7, LeafNodePins
<1>9. Of(r.root_sums, USDA) = Of(Root(nodes).sums, USDA) /\ USDA \in DOMAIN r.root_sums
  BY <1>1, <1>3, <1>4, <1>5 DEF SameTotals
<1> QED
  BY <1>4, <1>7, <1>8, <1>9 DEF Of, Range

\* A proof that verifies against what may be an alteration of a book's report is
\* of one of its leaves, and the report is as signed, with totals that are its
\* customers' balances added up.
LEMMA ProofMeans ==
  ASSUME NEW b, IsBook(b), Plain(b.signed.report), NEW s \in Received(b.signed),
         NEW p, verify(s, p, Venue) = "Ok", IsLeaf(p.leaf), Len(p.steps) \in Nat
  PROVE  /\ s.report = b.signed.report
         /\ b.signed.signature.public_key = Venue
         /\ p.leaf \in Range(b.source)
         /\ s.report.root_sums[USDA] = Owed(b.source)
<1>1. Proves(s, leaf_node(p.leaf), p.steps, p.report_digest, Venue)
  BY VerifyHolds
<1>2. s.report = b.signed.report /\ b.signed.signature.public_key = Venue
  <2>1. Genuine(b.signed)
    BY DEF IsBook
  <2>2. /\ s.signature = b.signed.signature /\ IsReport(s.report)
        /\ s.report.manifest = b.signed.report.manifest
        /\ s.report.format_version = b.signed.report.format_version
    BY <2>1, ReceivedIs
  <2>3. Plain(s.report)
    BY <2>2 DEF Plain
  <2>4. /\ b.signed.signature.public_key = Venue
        /\ b.signed.signature.value[2] = report_digest(s.report)
        /\ b.signed.signature.value[2] = report_digest(b.signed.report)
    BY <1>1, <2>1, <2>2 DEF Proves, Genuine
  <2> QED
    BY <2>3, <2>4, PlainPins
<1> QED
  BY <1>1, <1>2, FoldMeans

-----------------------------------------------------------------------------
(* Inclusion.                                                              *)

\* A dump is a sequence of the customers' leaves, in some order and not always
\* all of them.
LEMMA DumpIs ==
  ASSUME NEW source, IsSeq(source), Len(source) >= 1,
         \A i \in 1 .. Len(source) : IsLeaf(source[i]),
         NEW dump \in Dumps(source), dump # <<>>
  PROVE  IsSeq(dump) /\ Len(dump) >= 1 /\ \A i \in 1 .. Len(dump) : IsLeaf(dump[i])
<1> DEFINE S == {x \in {source[i] : i \in 1 .. Len(source)} : IsLeaf(x)}
<1>1. Len(source) \in Nat /\ \A i \in 1 .. Len(source) : source[i] \in S
  BY DEF IsSeq
<1>2. \A x \in S : IsLeaf(x)
  OBVIOUS
<1> HIDE DEF S
<1>3. CASE dump = source
  BY <1>3
<1>4. CASE dump = Front(source)
  <2>1. dump = SubSeq(source, 1, Len(source) - 1)
    BY <1>4 DEF Front
  <2>2. dump \in Seq(S)
    BY <1>1, <2>1, SubSeqProperties
  <2> QED
    BY <1>2, <2>2, SeqIs
<1>5. CASE dump = Reverse(source)
  <2>1. dump = [i \in 1 .. Len(source) |-> source[(Len(source) - i) + 1]]
    BY <1>5 DEF Reverse
  <2>2. \A i \in 1 .. Len(source) : source[(Len(source) - i) + 1] \in S
    BY <1>1
  <2>3. dump = [i \in 1 .. Len(source) |-> dump[i]]
    BY <2>1
  <2>4. IsSeq(dump) /\ Len(dump) = Len(source)
    BY <1>1, <2>3, FunctionIsSeq
  <2> QED
    BY <1>2, <2>1, <2>2, <2>4
<1> QED
  BY <1>3, <1>4, <1>5 DEF Dumps

\* A dump that rebuilds the root of a book's tree is the book.
LEMMA DumpMeans ==
  ASSUME NEW b, IsBook(b), NEW c, IsBook(c), NEW dump \in Dumps(c.source),
         NEW signed, signed.report = b.signed.report, run_recompute(dump, signed)
  PROVE  dump = b.source
<1> DEFINE A == NodesOf(dump)
           B == NodesOf(b.source)
<1>1. dump # <<>> /\ Root(A).hash = signed.report.root_hash
  BY DEF run_recompute, NodesOf
<1>2. /\ IsSeq(b.source) /\ Len(b.source) >= 1
      /\ \A i \in 1 .. Len(b.source) : IsLeaf(b.source[i])
      /\ signed.report.root_hash = Root(B).hash
  BY DEF IsBook, OverNodes
<1>3. /\ IsSeq(c.source) /\ Len(c.source) >= 1
      /\ \A i \in 1 .. Len(c.source) : IsLeaf(c.source[i])
  BY DEF IsBook
<1>4. IsSeq(dump) /\ Len(dump) >= 1 /\ \A i \in 1 .. Len(dump) : IsLeaf(dump[i])
  BY <1>1, <1>3, DumpIs
<1>5. /\ IsSeq(A) /\ Len(A) = Len(dump) /\ \A i \in 1 .. Len(dump) : A[i] = leaf_node(dump[i])
      /\ \A i \in 1 .. Len(A) : Leafy(A[i])
  BY <1>4, NodesOfIs
<1>6. /\ IsSeq(B) /\ Len(B) = Len(b.source)
      /\ \A i \in 1 .. Len(b.source) : B[i] = leaf_node(b.source[i])
      /\ \A i \in 1 .. Len(B) : Leafy(B[i])
  BY <1>2, NodesOfIs
<1>7. A = B
  <2>1. Root(A).hash = Root(B).hash
    BY <1>1, <1>2
  <2> HIDE DEF A, B
  <2> QED
    BY <1>2, <1>4, <1>5, <1>6, <2>1, RootPins
<1> HIDE DEF A, B
<1>8. Len(dump) = Len(b.source)
  BY <1>5, <1>6, <1>7
<1>9. \A i \in 1 .. Len(dump) : dump[i] = b.source[i]
  BY <1>2, <1>4, <1>5, <1>6, <1>7, <1>8, LeafNodePins
<1> QED
  BY <1>2, <1>4, <1>8, <1>9 DEF IsSeq

\* Why the reader keeps a proof: a report issued, altered or not, and the verdict.
Verified(f, docs) ==
  /\ \E i \in DOMAIN docs : f.signed \in Received(docs[i].signed)
  /\ verify(f.signed, f.doc, Venue) = "Ok"
  /\ IsLeaf(f.doc.leaf) /\ Len(f.doc.steps) \in Nat

\* Why the auditor keeps a dump.
Rebuilt(f, docs) ==
  /\ \E i \in DOMAIN docs : f.doc \in Dumps(docs[i].source)
  /\ run_recompute(f.doc, f.signed)

Inclusions ==
  topic = "inclusion" =>
    /\ IsSeq(issued)
    /\ \A i \in DOMAIN issued : IsBook(issued[i]) /\ Plain(issued[i].signed.report)
    /\ \A f \in Facts("proof") : Verified(f, issued)
    /\ \A f \in Facts("dump") : Rebuilt(f, issued)

LEMMA VerifiedStays ==
  ASSUME NEW docs, NEW more,
         \A i \in DOMAIN docs : i \in DOMAIN more /\ more[i] = docs[i]
  PROVE  /\ \A f : Verified(f, docs) => Verified(f, more)
         /\ \A f : Rebuilt(f, docs) => Rebuilt(f, more)
<1>1. ASSUME NEW f, Verified(f, docs)
      PROVE  Verified(f, more)
  BY <1>1 DEF Verified
<1>2. ASSUME NEW f, Rebuilt(f, docs)
      PROVE  Rebuilt(f, more)
  BY <1>2 DEF Rebuilt
<1> QED
  BY <1>1, <1>2

LEMMA BookIssued ==
  ASSUME IssueBook
  PROVE  \E b : Adds(b) /\ IsBook(b) /\ Plain(b.signed.report)
<1>1. PICK day \in Days.inclusion, amounts \in Amounts.inclusion,
           print \in {"as built", "other totals", "other count"}, key \in {Venue, Stranger} :
        Add(BookOf(Meta("solvency.liabilities", day), day, amounts, print, key))
  BY DEF IssueBook
<1> DEFINE meta == Meta("solvency.liabilities", day)
<1>2. meta.manifest = <<>> /\ print \in Prints
  BY DEF Meta, Prints
<1>3. amounts \in Seq(Nat) /\ amounts # <<>>
  BY BooksAssumption DEF Publishing
<1> HIDE DEF meta
<1>4. LET b == BookOf(meta, day, amounts, print, key) IN IsBook(b) /\ Plain(b.signed.report)
  BY <1>2, <1>3, BookIs
<1> QED
  BY <1>1, <1>4, AddAdds DEF meta

\* An alteration keeps the format.
LEMMA OtherFormat ==
  ASSUME NEW q, NEW format, NEW source, IsProof(q, format, source),
         NEW signed, NEW p \in ReceivedProof(q, signed)
  PROVE  p.format_version = format
<1>1. /\ q = [format_version |-> q.format_version, report_digest |-> q.report_digest,
              leaf |-> q.leaf, steps |-> q.steps]
      /\ q.format_version = format
  BY DEF IsProof
<1>2. CASE p = q \/ p = [q EXCEPT !.report_digest = report_digest(signed.report)]
  BY <1>1, <1>2
<1>3. CASE p = [q EXCEPT !.leaf.subject = 9]
  BY <1>1, <1>3
<1>4. CASE \E s \in Range(q.steps) : p = [q EXCEPT !.steps = Tail(@)]
  BY <1>1, <1>4
<1>5. CASE \E s \in Range(q.steps) : p = [q EXCEPT !.steps[1].on_left = ~@]
  BY <1>1, <1>5
<1> QED
  BY <1>2, <1>3, <1>4, <1>5 DEF ReceivedProof

\* A proof kept was handed over with one of the documents.
LEMMA ProofAccepted ==
  ASSUME AcceptProof,
         \A j \in DOMAIN issued :
           \/ IsBook(issued[j])
           \/ \A q \in Range(issued[j].proofs) : IsProof(q, "proof-v2", issued[j].source)
  PROVE  \E f : Keeps(f) /\ f.what = "proof" /\ Verified(f, issued)
<1>1. PICK i \in DOMAIN issued, j \in DOMAIN issued : \E signed \in Received(issued[i].signed) :
        \E q \in Range(issued[j].proofs) : \E p \in ReceivedProof(q, signed) :
          /\ p.format_version = "proof-v1"
          /\ verify(signed, p, Venue) = "Ok"
          /\ Accept([what |-> "proof", signed |-> signed, doc |-> p])
  BY DEF AcceptProof
<1>2. PICK signed \in Received(issued[i].signed), q \in Range(issued[j].proofs) :
        \E p \in ReceivedProof(q, signed) :
          /\ p.format_version = "proof-v1"
          /\ verify(signed, p, Venue) = "Ok"
          /\ Accept([what |-> "proof", signed |-> signed, doc |-> p])
  BY <1>1
<1>3. PICK p \in ReceivedProof(q, signed) :
          /\ p.format_version = "proof-v1"
          /\ verify(signed, p, Venue) = "Ok"
          /\ Accept([what |-> "proof", signed |-> signed, doc |-> p])
  BY <1>2
<1>4. CASE IsBook(issued[j])
  <2> DEFINE source == issued[j].source
  <2>1. IsProof(q, "proof-v1", source) /\ \A k \in DOMAIN source : IsLeaf(source[k])
    BY <1>4 DEF IsBook, IsSeq
  <2>2. IsLeaf(p.leaf) /\ Len(p.steps) \in Nat
    <3> HIDE DEF source
    <3> QED
      BY <2>1, ReceivedProofIs
  <2> DEFINE f == [what |-> "proof", signed |-> signed, doc |-> p]
  <2>3. Verified(f, issued)
    BY <1>3, <2>2 DEF Verified
  <2> QED
    BY <1>3, <2>3, AcceptKeeps
<1>5. CASE IsProof(q, "proof-v2", issued[j].source)
  <2>1. p.format_version = "proof-v2"
    BY <1>5, OtherFormat
  <2> QED
    BY <1>3, <2>1
<1> QED
  BY <1>4, <1>5

LEMMA InclusionsKept ==
  ASSUME Inclusions, [Next]_vars
  PROVE  Inclusions'
<1> SUFFICES ASSUME topic' = "inclusion"
             PROVE  /\ IsSeq(issued')
                    /\ \A i \in DOMAIN issued' : IsBook(issued'[i]) /\ Plain(issued'[i].signed.report)
                    /\ \A f \in Facts("proof")' : Verified(f, issued')
                    /\ \A f \in Facts("dump")' : Rebuilt(f, issued')
  BY DEF Inclusions
<1>1. topic = "inclusion"
  BY TopicStays
<1>2. /\ IsSeq(issued)
      /\ \A i \in DOMAIN issued : IsBook(issued[i]) /\ Plain(issued[i].signed.report)
      /\ \A f \in Facts("proof") : Verified(f, issued)
      /\ \A f \in Facts("dump") : Rebuilt(f, issued)
  BY <1>1 DEF Inclusions
<1>3. CASE UNCHANGED readersVars
  BY <1>2, <1>3 DEF Facts, readersVars
<1>4. CASE IssueBook
  <2>1. PICK b : Adds(b) /\ IsBook(b) /\ Plain(b.signed.report)
    BY <1>4, BookIssued
  <2>2. /\ IsSeq(issued')
        /\ \A i \in DOMAIN issued : i \in DOMAIN issued' /\ issued'[i] = issued[i]
        /\ \A i \in DOMAIN issued' : i \in DOMAIN issued \/ issued'[i] = b
    BY <1>2, <2>1, StaysIssued
  <2>3. /\ \A f : Verified(f, issued) => Verified(f, issued')
        /\ \A f : Rebuilt(f, issued) => Rebuilt(f, issued')
    BY <2>2, VerifiedStays
  <2>4. \A what : Facts(what)' = Facts(what)
    BY <2>1 DEF Adds, Facts
  <2> QED
    BY <1>2, <2>1, <2>2, <2>3, <2>4
<1>5. CASE AcceptProof
  <2>1. PICK f : Keeps(f) /\ f.what = "proof" /\ Verified(f, issued)
    BY <1>2, <1>5, ProofAccepted
  <2>2. /\ issued' = issued
        /\ \A g \in Facts("proof")' : g \in Facts("proof") \/ g = f
        /\ \A g \in Facts("dump")' : g \in Facts("dump")
    BY <2>1 DEF Keeps, Facts
  <2> QED
    BY <1>2, <2>1, <2>2
<1>6. CASE AcceptDump
  <2>1. PICK i \in DOMAIN issued, j \in DOMAIN issued : \E dump \in Dumps(issued[j].source) :
          /\ run_recompute(dump, issued[i].signed)
          /\ Accept([what |-> "dump", signed |-> issued[i].signed, doc |-> dump])
    BY <1>6 DEF AcceptDump
  <2>2. PICK dump \in Dumps(issued[j].source) :
          /\ run_recompute(dump, issued[i].signed)
          /\ Accept([what |-> "dump", signed |-> issued[i].signed, doc |-> dump])
    BY <2>1
  <2> DEFINE f == [what |-> "dump", signed |-> issued[i].signed, doc |-> dump]
  <2>3. Keeps(f) /\ f.what = "dump" /\ Rebuilt(f, issued)
    BY <2>2, AcceptKeeps DEF Rebuilt
  <2> HIDE DEF f
  <2>4. /\ issued' = issued
        /\ \A g \in Facts("dump")' : g \in Facts("dump") \/ g = f
        /\ \A g \in Facts("proof")' : g \in Facts("proof")
    BY <2>3 DEF Keeps, Facts
  <2> QED
    BY <1>2, <2>3, <2>4
<1> QED
  BY <1>1, <1>3, <1>4, <1>5, <1>6, TopicSteps DEF InclusionNext

\* What an accepted proof and an accepted dump establish.
LEMMA VerifiedMeans ==
  ASSUME NEW f, Verified(f, issued),
         \A i \in DOMAIN issued : IsBook(issued[i]) /\ Plain(issued[i].signed.report)
  PROVE  \E b \in BooksOf(f.signed) :
           /\ IsBook(b)
           /\ b.signed.signature.public_key = Venue
           /\ f.doc.leaf \in Range(b.source)
           /\ f.signed.report.root_sums[USDA] = Owed(b.source)
<1>1. PICK i \in DOMAIN issued : f.signed \in Received(issued[i].signed)
  BY DEF Verified
<1>2. issued[i] \in Range(issued) /\ IsBook(issued[i]) /\ Plain(issued[i].signed.report)
  BY DEF Range
<1>3. /\ f.signed.report = issued[i].signed.report
      /\ issued[i].signed.signature.public_key = Venue
      /\ f.doc.leaf \in Range(issued[i].source)
      /\ f.signed.report.root_sums[USDA] = Owed(issued[i].source)
  BY <1>1, <1>2, ProofMeans DEF Verified
<1> QED
  BY <1>2, <1>3 DEF BooksOf

LEMMA RebuiltMeans ==
  ASSUME NEW d, Rebuilt(d, issued), \A i \in DOMAIN issued : IsBook(issued[i]),
         NEW b \in BooksOf(d.signed), IsBook(b)
  PROVE  d.doc = b.source
<1>1. PICK i \in DOMAIN issued : d.doc \in Dumps(issued[i].source)
  BY DEF Rebuilt
<1>2. IsBook(issued[i]) /\ run_recompute(d.doc, d.signed) /\ d.signed.report = b.signed.report
  BY DEF Rebuilt, BooksOf
<1> QED
  BY <1>1, <1>2, DumpMeans

\* A proof that verifies is of a leaf its publisher committed, against totals that
\* are all leaves' (verify.rs verify), and a dump that reproduces such a report is
\* the whole book in order (recompute.rs run_recompute), whatever was printed,
\* altered or presented with another day's report.
THEOREM CommittedHolds == Spec => []Committed
<1>1. Init => Inclusions
  BY NoneIsSeq DEF Init, Inclusions, Facts
<1>2. Inclusions /\ [Next]_vars => Inclusions'
  BY InclusionsKept
<1>3. Inclusions => Committed
  <2> SUFFICES ASSUME Inclusions, topic = "inclusion"
               PROVE  Committed
    BY DEF Committed
  <2>1. /\ \A i \in DOMAIN issued : IsBook(issued[i]) /\ Plain(issued[i].signed.report)
        /\ \A f \in Facts("proof") : Verified(f, issued)
        /\ \A f \in Facts("dump") : Rebuilt(f, issued)
    BY DEF Inclusions
  <2>2. ASSUME NEW f \in Facts("proof")
        PROVE  \E b \in BooksOf(f.signed) :
                 /\ IsBook(b)
                 /\ b.signed.signature.public_key = Venue
                 /\ f.doc.leaf \in Range(b.source)
                 /\ f.signed.report.root_sums[USDA] = Owed(b.source)
    BY <2>1, VerifiedMeans
  <2>3. ASSUME NEW d \in Facts("dump"), NEW f \in Facts("proof"), d.signed = f.signed
        PROVE  \E b \in BooksOf(f.signed) : d.doc = b.source
    BY <2>1, <2>2, <2>3, RebuiltMeans
  <2> QED
    BY <2>2, <2>3 DEF Committed
<1> QED
  BY <1>1, <1>2, <1>3, PTL DEF Spec

-----------------------------------------------------------------------------
(* Coverage.                                                               *)

HeldKey == qualified("held", "USDA")

NodesOfV2(source) == [i \in DOMAIN source |-> leaf_node_v2(source[i])]

\* The positions of a day's custody, under a signed report over their tree.
IsCustodied(b) ==
  /\ IsSeq(b.source) /\ Len(b.source) >= 1
  /\ \A i \in 1 .. Len(b.source) :
       /\ b.source[i].maps = [held |-> [USDA |-> b.source[i].maps.held.USDA]]
       /\ b.source[i].maps.held.USDA \in Nat
  /\ Genuine(b.signed)
  /\ OverNodes(b.signed.report, NodesOfV2(b.source))
  /\ \A q \in Range(b.proofs) : IsProof(q, "proof-v2", b.source)

LEMMA NodesOfV2Is ==
  ASSUME NEW source, IsSeq(source)
  PROVE  /\ IsSeq(NodesOfV2(source)) /\ Len(NodesOfV2(source)) = Len(source)
         /\ \A i \in 1 .. Len(source) : NodesOfV2(source)[i] = leaf_node_v2(source[i])
         /\ \A i \in 1 .. Len(NodesOfV2(source)) : Leafy(NodesOfV2(source)[i])
<1> DEFINE nodes == NodesOfV2(source)
<1>1. Len(source) \in Nat /\ DOMAIN source = 1 .. Len(source)
  BY DEF IsSeq
<1>2. nodes = [i \in 1 .. Len(source) |-> leaf_node_v2(source[i])]
  BY <1>1 DEF NodesOfV2
<1>3. nodes = [i \in 1 .. Len(source) |-> nodes[i]]
  BY <1>2
<1>4. IsSeq(nodes) /\ Len(nodes) = Len(source)
  <2> HIDE DEF nodes
  <2> QED
    BY <1>1, <1>3, FunctionIsSeq
<1>5. \A i \in 1 .. Len(source) : nodes[i] = leaf_node_v2(source[i])
  BY <1>2
<1> HIDE DEF nodes
<1> QED
  BY <1>4, <1>5 DEF nodes, Leafy

\* The root of a custodian's tree has its positions added up.
LEMMA HoldingTotals ==
  ASSUME NEW source, IsSeq(source), Len(source) >= 1,
         \A i \in 1 .. Len(source) :
           /\ source[i].maps = [held |-> [USDA |-> source[i].maps.held.USDA]]
           /\ source[i].maps.held.USDA \in Nat
  PROVE  /\ HeldKey \in DOMAIN Root(NodesOfV2(source)).sums
         /\ Of(Root(NodesOfV2(source)).sums, HeldKey) = Holding(source)
<1>1. Len(source) \in Nat /\ DOMAIN source = 1 .. Len(source)
  BY DEF IsSeq
<1>2. PICK nodes : nodes = NodesOfV2(source)
  OBVIOUS
<1>3. PICK amounts : amounts = [i \in DOMAIN source |-> source[i].maps.held.USDA]
  OBVIOUS
<1>4. /\ IsSeq(nodes) /\ Len(nodes) = Len(source)
      /\ \A i \in 1 .. Len(source) : nodes[i] = leaf_node_v2(source[i])
  BY <1>2, NodesOfV2Is
<1>5. IsSeq(amounts) /\ Len(amounts) = Len(source)
  <2>1. amounts = [i \in 1 .. Len(source) |-> amounts[i]]
    BY <1>1, <1>3
  <2> QED
    BY <1>1, <2>1, FunctionIsSeq
<1>6. ASSUME NEW i \in 1 .. Len(source)
      PROVE  /\ HeldKey \in DOMAIN nodes[i].sums /\ Of(nodes[i].sums, HeldKey) = amounts[i]
             /\ amounts[i] \in Nat
  <2>1. amounts[i] = source[i].maps.held.USDA
    BY <1>1, <1>3
  <2>2. source[i].maps = [held |-> [USDA |-> amounts[i]]]
    BY <2>1
  <2>3. PICK leaf : leaf = source[i]
    OBVIOUS
  <2>4. leaf_node_v2(leaf).sums =
          [key \in UNION {{qualified(m, a) : a \in DOMAIN leaf.maps[m]} : m \in DOMAIN leaf.maps}
             |-> leaf.maps[key[1]][key[2]]]
    BY DEF leaf_node_v2
  <2>5. PICK maps : maps = leaf.maps
    OBVIOUS
  <2>6. /\ "held" \in DOMAIN maps /\ "USDA" \in DOMAIN maps["held"]
        /\ maps["held"]["USDA"] = amounts[i]
    BY <2>2, <2>3, <2>5
  <2>7. HeldKey \in UNION {{qualified(m, a) : a \in DOMAIN maps[m]} : m \in DOMAIN maps}
    BY <2>6 DEF HeldKey
  <2>8. HeldKey[1] = "held" /\ HeldKey[2] = "USDA"
    BY DEF HeldKey, qualified
  <2>9. /\ HeldKey \in DOMAIN leaf_node_v2(leaf).sums
        /\ leaf_node_v2(leaf).sums[HeldKey] = maps[HeldKey[1]][HeldKey[2]]
    BY <2>4, <2>5, <2>7
  <2>10. nodes[i] = leaf_node_v2(leaf)
    BY <1>4, <2>3
  <2> QED
    BY <2>1, <2>6, <2>8, <2>9, <2>10 DEF Of
<1>7. Holding(source) = Sum(amounts)
  BY <1>3 DEF Holding
<1>8. HeldKey \in DOMAIN Root(nodes).sums /\ Of(Root(nodes).sums, HeldKey) = Sum(amounts)
  BY <1>4, <1>5, <1>6, TreeTotals
<1> QED
  BY <1>2, <1>7, <1>8

LEMMA PositionsSource ==
  ASSUME NEW day, NEW amounts, amounts \in Seq(Nat), amounts # <<>>
  PROVE  LET source == Positions(day, amounts) IN
         /\ IsSeq(source) /\ Len(source) >= 1 /\ DOMAIN source = 1 .. Len(source)
         /\ \A i \in 1 .. Len(source) :
              /\ source[i].maps = [held |-> [USDA |-> source[i].maps.held.USDA]]
              /\ source[i].maps.held.USDA \in Nat
<1> DEFINE source == Positions(day, amounts)
<1>1. Len(amounts) \in Nat /\ Len(amounts) >= 1 /\ DOMAIN amounts = 1 .. Len(amounts)
  OBVIOUS
<1>2. source = [i \in 1 .. Len(amounts) |-> source[i]]
  BY <1>1 DEF Positions
<1>3. IsSeq(source) /\ Len(source) = Len(amounts)
  <2> HIDE DEF source
  <2> QED
    BY <1>1, <1>2, FunctionIsSeq
<1>4. ASSUME NEW i \in 1 .. Len(amounts)
      PROVE  /\ source[i].maps = [held |-> [USDA |-> source[i].maps.held.USDA]]
             /\ source[i].maps.held.USDA \in Nat
  <2>1. amounts[i] \in Nat
    BY <1>1
  <2>2. source[i] = [salt |-> leaf_salt(<<"salts", day>>, i), subject |-> i,
                     maps |-> [held |-> [USDA |-> amounts[i]]]]
    BY <1>1 DEF Positions
  <2> HIDE DEF source
  <2> QED
    BY <2>1, <2>2
<1> HIDE DEF source
<1> QED
  BY <1>1, <1>2, <1>3, <1>4 DEF source

LEMMA PositionsAre ==
  ASSUME NEW day, NEW amounts, amounts \in Seq(Nat), amounts # <<>>, NEW print \in Prints
  PROVE  LET b == PositionsOf(day, amounts, print) IN
         /\ IsCustodied(b)
         /\ Plain(b.signed.report)
         /\ b.signed.report.profile = "coverage.custody"
         /\ b.signed.report.snapshot_time = Snapshots[day]
<1> DEFINE source == Positions(day, amounts)
           nodes == NodesOfV2(source)
           meta == Meta("coverage.custody", day)
           built == ReportOver(nodes, meta.profile, meta)
           made == publish_v2(source, meta, Venue)
           r == Printed(built, print)
           b == PositionsOf(day, amounts, print)
<1>0. /\ meta.manifest = <<>> /\ meta.profile = "coverage.custody"
      /\ meta.snapshot_time = Snapshots[day]
  BY DEF Meta
<1>1. /\ IsSeq(source) /\ Len(source) >= 1 /\ DOMAIN source = 1 .. Len(source)
      /\ \A i \in 1 .. Len(source) :
           /\ source[i].maps = [held |-> [USDA |-> source[i].maps.held.USDA]]
           /\ source[i].maps.held.USDA \in Nat
  BY PositionsSource
<1> HIDE DEF meta
<1>2. IsSeq(nodes) /\ Len(nodes) >= 1
  <2> HIDE DEF source
  <2> QED
    BY <1>1, NodesOfV2Is
<1>3. /\ made.signed.report = built /\ DOMAIN made.proofs = DOMAIN source
      /\ \A i \in DOMAIN source :
           made.proofs[i] = [format_version |-> "proof-v2", report_digest |-> report_digest(built),
                             leaf |-> source[i], steps |-> prove(nodes, i)]
  <2> HIDE DEF source
  <2> QED
    BY DEF publish_v2, Publication, SignedReport, NodesOfV2
<1>4. /\ IsReport(built) /\ OverNodes(built, nodes)
      /\ built.manifest = meta.manifest /\ built.profile = meta.profile
      /\ built.snapshot_time = meta.snapshot_time
      /\ built.format_version = IF meta.manifest = <<>> THEN "report-v1" ELSE "report-v2"
  <2> HIDE DEF nodes
  <2> QED
    BY ReportIs
<1>5. /\ IsReport(r) /\ r.root_hash = built.root_hash
      /\ DOMAIN r.root_sums = DOMAIN built.root_sums
      /\ r.manifest = built.manifest /\ r.format_version = built.format_version
      /\ r.profile = built.profile /\ r.snapshot_time = built.snapshot_time
  <2>1. IsReport(built)
    BY <1>4
  <2> HIDE DEF built
  <2> QED
    BY <2>1, PrintedIs
<1>6. /\ b.source = source /\ b.signed = SignedReport(r, Venue)
      /\ b.proofs = [i \in DOMAIN made.proofs |->
                       [made.proofs[i] EXCEPT !.report_digest = report_digest(r)]]
  <2>1. made.signed.report = built
    BY <1>3
  <2> HIDE DEF source, made, built
  <2> QED
    BY <2>1 DEF PositionsOf, Issue, source, made, meta
<1> HIDE DEF source, nodes, built, made, r, b
<1>7. \A q \in Range(b.proofs) : IsProof(q, "proof-v2", b.source)
  <2> SUFFICES ASSUME NEW i \in DOMAIN source
               PROVE  IsProof([made.proofs[i] EXCEPT !.report_digest = report_digest(r)],
                              "proof-v2", source)
    BY <1>3, <1>6 DEF Range
  <2>1. IsSeq(prove(nodes, i))
    BY <1>2, ProveIsSeq
  <2>2. made.proofs[i] = [format_version |-> "proof-v2", report_digest |-> report_digest(built),
                          leaf |-> source[i], steps |-> prove(nodes, i)]
    BY <1>3
  <2> QED
    BY <2>1, <2>2 DEF IsProof
<1>8. Genuine(b.signed) /\ b.signed.report = r
  BY <1>5, <1>6, SignedIs
<1>9. OverNodes(r, nodes)
  BY <1>4, <1>5 DEF OverNodes
<1>10. IsCustodied(b)
  <2>1. nodes = NodesOfV2(b.source)
    BY <1>6 DEF nodes
  <2> QED
    BY <1>1, <1>6, <1>7, <1>8, <1>9, <2>1 DEF IsCustodied
<1>11. Plain(r)
  BY <1>0, <1>4, <1>5 DEF Plain
<1> QED
  BY <1>0, <1>4, <1>5, <1>8, <1>10, <1>11 DEF b

\* The seconds of a timestamp are a number.
LEMMA ParseIsInt ==
  ASSUME NEW t, \A i \in 1 .. 6 : t[i] \in Nat
  PROVE  parse(t) \in Int
<1>1. ASSUME NEW y, NEW m, NEW d, y \in Int, m \in Int, d \in Int
      PROVE  days_from_civil(y, m, d) \in Int
  <2> DEFINE z == IF m <= 2 THEN y - 1 ELSE y
             era == (IF z >= 0 THEN z ELSE z - 399) \div 400
             yoe == z - era * 400
             doy == (153 * ((m + 9) % 12) + 2) \div 5 + d - 1
  <2>1. z \in Int
    BY <1>1
  <2>2. era \in Int
    <3> HIDE DEF z
    <3> QED
      BY <2>1
  <2>3. yoe \in Int
    <3> HIDE DEF z, era
    <3> QED
      BY <2>1, <2>2
  <2>4. doy \in Int
    BY <1>1
  <2>5. era * 146097 + yoe * 365 + yoe \div 4 - yoe \div 100 + doy - 719468 \in Int
    <3> HIDE DEF era, yoe, doy
    <3> QED
      BY <2>2, <2>3, <2>4
  <2> QED
    BY <2>5 DEF days_from_civil
<1>2. Epoch \in Int
  BY <1>1 DEF Epoch
<1>3. /\ t[1] \in Nat /\ t[2] \in Nat /\ t[3] \in Nat
      /\ t[4] \in Nat /\ t[5] \in Nat /\ t[6] \in Nat
  OBVIOUS
<1>4. days_from_civil(t[1], t[2], t[3]) \in Int
  <2>1. t[1] \in Int /\ t[2] \in Int /\ t[3] \in Int
    BY <1>3
  <2> QED
    BY <1>1, <2>1, Zenon
<1> QED
  BY <1>2, <1>3, <1>4 DEF parse

\* Two times no further apart than the tolerance.
LEMMA SkewBounds ==
  ASSUME NEW a, NEW b, parse(a) \in Int, parse(b) \in Int, skew(a, b) <= SAME_RUN
  PROVE  parse(a) - parse(b) \in -SAME_RUN .. SAME_RUN
<1>1. parse(a) - parse(b) <= SAME_RUN /\ -SAME_RUN <= parse(a) - parse(b)
  BY DEF skew, SAME_RUN
<1> QED
  BY <1>1 DEF SAME_RUN

\* One of the two sides, of a known day.
IsSide(b) ==
  /\ Plain(b.signed.report)
  /\ \E day \in DOMAIN Snapshots : b.signed.report.snapshot_time = Snapshots[day]
  /\ \/ IsBook(b) /\ b.signed.report.profile = "solvency.liabilities"
     \/ IsCustodied(b) /\ b.signed.report.profile = "coverage.custody"

\* Why the reader keeps a holding, and a pairing.
Holds(f, docs) ==
  /\ \E i \in DOMAIN docs : f.signed = docs[i].signed
  /\ verify_v2(f.signed, f.doc, Venue) = "Ok"
  /\ Len(f.doc.steps) \in Nat
Paired(f, docs) ==
  /\ \E i, j \in DOMAIN docs : f.signed = docs[i].signed /\ f.doc = docs[j].signed
  /\ \E statement : verify_coverage(f.signed, f.doc, statement, Venue, Venue, SAME_RUN) = "Ok"
  /\ fully_covered(Outcome(f.signed.report, f.doc.report))

Sides ==
  topic = "coverage" =>
    /\ IsSeq(issued)
    /\ \A i \in DOMAIN issued : IsSide(issued[i])
    /\ \A f \in Facts("proof") : Verified(f, issued)
    /\ \A f \in Facts("holding") : Holds(f, issued)
    /\ \A f \in Facts("covered") : Paired(f, issued)

LEMMA SideStays ==
  ASSUME NEW docs, NEW more,
         \A i \in DOMAIN docs : i \in DOMAIN more /\ more[i] = docs[i]
  PROVE  /\ \A f : Holds(f, docs) => Holds(f, more)
         /\ \A f : Paired(f, docs) => Paired(f, more)
<1>1. ASSUME NEW f, Holds(f, docs)
      PROVE  Holds(f, more)
  BY <1>1 DEF Holds
<1>2. ASSUME NEW f, Paired(f, docs)
      PROVE  Paired(f, more)
  <2>1. PICK i \in DOMAIN docs, j \in DOMAIN docs :
          f.signed = docs[i].signed /\ f.doc = docs[j].signed
    BY <1>2 DEF Paired
  <2>2. f.signed = more[i].signed /\ f.doc = more[j].signed
        /\ i \in DOMAIN more /\ j \in DOMAIN more
    BY <2>1
  <2> QED
    BY <1>2, <2>2 DEF Paired
<1> QED
  BY <1>1, <1>2

LEMMA LiabilitiesAre ==
  ASSUME NEW day, NEW amounts, amounts \in Seq(Nat), amounts # <<>>,
         NEW print, print \in Prints, NEW key
  PROVE  LET b == BookOf(Meta("solvency.liabilities", day), day, amounts, print, key) IN
         /\ IsBook(b)
         /\ Plain(b.signed.report)
         /\ b.signed.report.profile = "solvency.liabilities"
         /\ b.signed.report.snapshot_time = Snapshots[day]
<1> DEFINE meta == Meta("solvency.liabilities", day)
           b == BookOf(meta, day, amounts, print, key)
<1>1. /\ meta.manifest = <<>> /\ meta.profile = "solvency.liabilities"
      /\ meta.snapshot_time = Snapshots[day]
  BY DEF Meta
<1>2. Made(b, meta, print, key)
  <2> HIDE DEF meta
  <2> QED
    BY BookIsMade
<1> HIDE DEF b, meta
<1>3. /\ IsBook(b) /\ Plain(b.signed.report) /\ b.signed.report.profile = "solvency.liabilities"
      /\ b.signed.report.snapshot_time = Snapshots[day]
  BY <1>1, <1>2 DEF Made
<1> QED
  BY <1>3 DEF b, meta

LEMMA SideIssued ==
  ASSUME IssueSide
  PROVE  \E b : Adds(b) /\ IsSide(b)
<1>1. PICK day \in Days.coverage, amounts \in Amounts.coverage,
           print \in {"as built", "other totals"} :
        \/ Add(BookOf(Meta("solvency.liabilities", day), day, amounts, print, Venue))
        \/ Add(PositionsOf(day, amounts, print))
  BY DEF IssueSide
<1>2. amounts \in Seq(Nat) /\ amounts # <<>> /\ print \in Prints /\ day \in DOMAIN Snapshots
  BY BooksAssumption, DaysAssumption DEF Publishing, Prints
<1> DEFINE meta == Meta("solvency.liabilities", day)
<1>3. CASE Add(BookOf(meta, day, amounts, print, Venue))
  <2>2. amounts \in Seq(Nat) /\ amounts # <<>> /\ print \in Prints
    BY <1>2
  <2>3. LET b == BookOf(meta, day, amounts, print, Venue) IN IsSide(b)
    BY <1>2, <2>2, LiabilitiesAre DEF IsSide
  <2> QED
    BY <1>3, <2>3, AddAdds
<1>4. CASE Add(PositionsOf(day, amounts, print))
  <2>2. PICK b : b = PositionsOf(day, amounts, print)
    OBVIOUS
  <2>3. /\ IsCustodied(b) /\ Plain(b.signed.report)
        /\ b.signed.report.profile = "coverage.custody"
        /\ b.signed.report.snapshot_time = Snapshots[day]
    BY <1>2, <2>2, PositionsAre
  <2> QED
    BY <1>2, <1>4, <2>2, <2>3, AddAdds DEF IsSide
<1> QED
  BY <1>1, <1>3, <1>4

LEMMA HoldingAccepted ==
  ASSUME AcceptHolding, \A i \in DOMAIN issued : IsSide(issued[i])
  PROVE  \E f : Keeps(f) /\ f.what = "holding" /\ Holds(f, issued)
<1>1. PICK i \in DOMAIN issued, j \in DOMAIN issued : \E p \in Range(issued[j].proofs) :
        /\ p.format_version = "proof-v2"
        /\ verify_v2(issued[i].signed, p, Venue) = "Ok"
        /\ Accept([what |-> "holding", signed |-> issued[i].signed, doc |-> p])
  BY DEF AcceptHolding
<1>2. PICK p \in Range(issued[j].proofs) :
        /\ p.format_version = "proof-v2"
        /\ verify_v2(issued[i].signed, p, Venue) = "Ok"
        /\ Accept([what |-> "holding", signed |-> issued[i].signed, doc |-> p])
  BY <1>1
<1>3. Len(p.steps) \in Nat
  <2>1. IsSeq(p.steps)
    BY <1>2 DEF IsSide, IsBook, IsCustodied, IsProof
  <2> QED
    BY <2>1 DEF IsSeq
<1> DEFINE f == [what |-> "holding", signed |-> issued[i].signed, doc |-> p]
<1>4. Holds(f, issued) /\ f.what = "holding"
  BY <1>2, <1>3 DEF Holds
<1> QED
  BY <1>2, <1>4, AcceptKeeps

LEMMA CoverageAccepted ==
  ASSUME AcceptCoverage
  PROVE  \E f : Keeps(f) /\ f.what = "covered" /\ Paired(f, issued)
<1>1. PICK i \in DOMAIN issued, j \in DOMAIN issued, k \in DOMAIN issued :
        LET held == issued[i].signed
            owed == issued[j].signed
            statement == [format_version |-> "coverage-v1",
                          custody_report_digest |-> report_digest(held.report),
                          liabilities_report_digest |-> report_digest(issued[k].signed.report)]
        IN
        /\ verify_coverage(held, owed, statement, Venue, Venue, SAME_RUN) = "Ok"
        /\ fully_covered(Outcome(held.report, owed.report))
        /\ Accept([what |-> "covered", signed |-> held, doc |-> owed])
  BY DEF AcceptCoverage
<1> DEFINE f == [what |-> "covered", signed |-> issued[i].signed, doc |-> issued[j].signed]
<1>2. Paired(f, issued) /\ f.what = "covered" /\ Accept(f)
  BY <1>1 DEF Paired
<1> QED
  BY <1>2, AcceptKeeps

LEMMA SidesKept ==
  ASSUME Sides, [Next]_vars
  PROVE  Sides'
<1> SUFFICES ASSUME topic' = "coverage"
             PROVE  /\ IsSeq(issued')
                    /\ \A i \in DOMAIN issued' : IsSide(issued'[i])
                    /\ \A f \in Facts("proof")' : Verified(f, issued')
                    /\ \A f \in Facts("holding")' : Holds(f, issued')
                    /\ \A f \in Facts("covered")' : Paired(f, issued')
  BY DEF Sides
<1>1. topic = "coverage"
  BY TopicStays
<1>2. /\ IsSeq(issued)
      /\ \A i \in DOMAIN issued : IsSide(issued[i])
      /\ \A f \in Facts("proof") : Verified(f, issued)
      /\ \A f \in Facts("holding") : Holds(f, issued)
      /\ \A f \in Facts("covered") : Paired(f, issued)
  BY <1>1 DEF Sides
<1>3. CASE UNCHANGED readersVars
  BY <1>2, <1>3 DEF Facts, readersVars
<1>4. CASE IssueSide
  <2>1. PICK b : Adds(b) /\ IsSide(b)
    BY <1>4, SideIssued
  <2>2. /\ IsSeq(issued')
        /\ \A i \in DOMAIN issued : i \in DOMAIN issued' /\ issued'[i] = issued[i]
        /\ \A i \in DOMAIN issued' : i \in DOMAIN issued \/ issued'[i] = b
    BY <1>2, <2>1, StaysIssued
  <2>3. /\ \A f : Verified(f, issued) => Verified(f, issued')
        /\ \A f : Holds(f, issued) => Holds(f, issued')
        /\ \A f : Paired(f, issued) => Paired(f, issued')
    BY <2>2, VerifiedStays, SideStays
  <2>4. \A what : Facts(what)' = Facts(what)
    BY <2>1 DEF Adds, Facts
  <2> QED
    BY <1>2, <2>1, <2>2, <2>3, <2>4
<1>5. ASSUME NEW f, Keeps(f),
             \/ f.what = "proof" /\ Verified(f, issued)
             \/ f.what = "holding" /\ Holds(f, issued)
             \/ f.what = "covered" /\ Paired(f, issued)
      PROVE  /\ IsSeq(issued')
             /\ \A i \in DOMAIN issued' : IsSide(issued'[i])
             /\ \A g \in Facts("proof")' : Verified(g, issued')
             /\ \A g \in Facts("holding")' : Holds(g, issued')
             /\ \A g \in Facts("covered")' : Paired(g, issued')
  <2>1. issued' = issued
    BY <1>5 DEF Keeps
  <2>2. \A what : \A g \in Facts(what)' : g \in Facts(what) \/ (g = f /\ f.what = what)
    BY <1>5 DEF Keeps, Facts
  <2> QED
    BY <1>2, <1>5, <2>1, <2>2
<1>6. CASE AcceptProof
  <2>1. \A j \in DOMAIN issued :
          \/ IsBook(issued[j])
          \/ \A q \in Range(issued[j].proofs) : IsProof(q, "proof-v2", issued[j].source)
    BY <1>2 DEF IsSide, IsCustodied
  <2>2. PICK f : Keeps(f) /\ f.what = "proof" /\ Verified(f, issued)
    BY <1>6, <2>1, ProofAccepted
  <2> QED
    BY <1>5, <2>2
<1>7. CASE AcceptHolding
  BY <1>2, <1>5, <1>7, HoldingAccepted
<1>8. CASE AcceptCoverage
  BY <1>5, <1>8, CoverageAccepted
<1> QED
  BY <1>1, <1>3, <1>4, <1>6, <1>7, <1>8, TopicSteps DEF CoverageNext

\* The liabilities side of a pairing a proof of which verified.
LEMMA OwedMeans ==
  ASSUME NEW f, Verified(f, issued), \A i \in DOMAIN issued : IsSide(issued[i]),
         f.signed.report.profile = "solvency.liabilities"
  PROVE  \E b \in BooksOf(f.signed) :
           /\ IsSide(b)
           /\ USDA \in DOMAIN f.signed.report.root_sums
           /\ f.signed.report.root_sums[USDA] = Owed(b.source)
<1>1. PICK i \in DOMAIN issued : f.signed \in Received(issued[i].signed)
  BY DEF Verified
<1>2. PICK b : b = issued[i]
  OBVIOUS
<1>3. b \in Range(issued) /\ IsSide(b) /\ f.signed \in Received(b.signed)
  BY <1>1, <1>2 DEF Range
<1>4. Genuine(b.signed)
  BY <1>3 DEF IsSide, IsBook, IsCustodied
<1>5. f.signed.report.profile = b.signed.report.profile
  BY <1>3, <1>4, ReceivedIs
<1>6. IsBook(b) /\ Plain(b.signed.report)
  BY <1>3, <1>5 DEF IsSide
<1>7. /\ f.signed.report = b.signed.report
      /\ f.signed.report.root_sums[USDA] = Owed(b.source)
  BY <1>3, <1>6, ProofMeans DEF Verified
<1>8. USDA \in DOMAIN b.signed.report.root_sums
  <2>1. USDA \in DOMAIN Root(NodesOf(b.source)).sums
    BY <1>6, BookTotals DEF IsBook
  <2> QED
    BY <1>6, <2>1 DEF IsBook, OverNodes
<1> QED
  BY <1>3, <1>7, <1>8 DEF BooksOf

\* The custody side of a pairing a holding of which verified.
LEMMA HoldsMeans ==
  ASSUME NEW f, Holds(f, issued), \A i \in DOMAIN issued : IsSide(issued[i]),
         f.signed.report.profile = "coverage.custody"
  PROVE  \E b \in BooksOf(f.signed) :
           /\ IsSide(b)
           /\ Of(f.signed.report.root_sums, HeldKey) = Holding(b.source)
<1>1. PICK i \in DOMAIN issued : f.signed = issued[i].signed
  BY DEF Holds
<1>2. PICK b : b = issued[i]
  OBVIOUS
<1>3. b \in Range(issued) /\ IsSide(b) /\ f.signed = b.signed
  BY <1>1, <1>2 DEF Range
<1>4. IsCustodied(b)
  BY <1>3 DEF IsSide
<1>5. PICK nodes : nodes = NodesOfV2(b.source)
  OBVIOUS
<1>6. PICK leaf : leaf = leaf_node_v2(f.doc.leaf)
  OBVIOUS
<1>7. /\ IsSeq(b.source) /\ Len(b.source) >= 1
      /\ \A k \in 1 .. Len(b.source) :
           /\ b.source[k].maps = [held |-> [USDA |-> b.source[k].maps.held.USDA]]
           /\ b.source[k].maps.held.USDA \in Nat
      /\ b.signed.report.root_hash = Root(nodes).hash
  BY <1>4, <1>5 DEF IsCustodied, OverNodes
<1>8. /\ IsSeq(nodes) /\ Len(nodes) >= 1 /\ \A k \in 1 .. Len(nodes) : Leafy(nodes[k])
  BY <1>5, <1>7, NodesOfV2Is
<1>9. Of(Root(nodes).sums, HeldKey) = Holding(b.source) /\ HeldKey \in DOMAIN Root(nodes).sums
  BY <1>5, <1>7, HoldingTotals
<1>10. Proves(f.signed, leaf, f.doc.steps, f.doc.report_digest, Venue)
  BY <1>6, VerifyV2Holds DEF Holds
<1>11. /\ fold(leaf, f.doc.steps).hash = Root(nodes).hash
       /\ SameTotals(fold(leaf, f.doc.steps).sums, b.signed.report.root_sums)
  BY <1>3, <1>7, <1>10 DEF Proves
<1>12. fold(leaf, f.doc.steps).sums = Root(nodes).sums
  <2>1. Leafy(leaf) /\ Len(f.doc.steps) \in Nat
    BY <1>6 DEF Leafy, Holds
  <2> QED
    BY <1>8, <1>11, <2>1, FoldReaches
<1>13. Of(b.signed.report.root_sums, HeldKey) = Of(Root(nodes).sums, HeldKey)
  BY <1>9, <1>11, <1>12 DEF SameTotals
<1> QED
  BY <1>3, <1>9, <1>13 DEF BooksOf

\* Covered means held: once a proof of either report verified, the custodian's
\* positions add up to at least what the customers are owed, and the two are of
\* times at most the tolerance apart (coverage.rs with verify.rs), whatever was
\* printed and whichever reports were paired.
THEOREM CoveredMeansHeldHolds == Spec => []CoveredMeansHeld
<1>1. Init => Sides
  BY NoneIsSeq DEF Init, Sides, Facts
<1>2. Sides /\ [Next]_vars => Sides'
  BY SidesKept
<1>3. Sides => CoveredMeansHeld
  <2> SUFFICES ASSUME Sides, topic = "coverage",
                      NEW c \in Facts("covered"), NEW h \in Facts("holding"),
                      NEW p \in Facts("proof"), c.signed = h.signed, c.doc = p.signed
               PROVE  \E held \in BooksOf(c.signed), owed \in BooksOf(c.doc) :
                        /\ Holding(held.source) >= Owed(owed.source)
                        /\ parse(held.signed.report.snapshot_time)
                             - parse(owed.signed.report.snapshot_time) \in -SAME_RUN..SAME_RUN
    BY DEF CoveredMeansHeld
  <2>1. /\ \A i \in DOMAIN issued : IsSide(issued[i])
        /\ Verified(p, issued) /\ Holds(h, issued) /\ Paired(c, issued)
    BY DEF Sides
  <2>2. PICK statement :
          verify_coverage(c.signed, c.doc, statement, Venue, Venue, SAME_RUN) = "Ok"
    BY <2>1 DEF Paired
  <2>3. /\ c.signed.report.profile = "coverage.custody"
        /\ c.doc.report.profile = "solvency.liabilities"
        /\ skew(c.signed.report.snapshot_time, c.doc.report.snapshot_time) <= SAME_RUN
    BY <2>2, CoverageHolds
  <2>4. PICK held \in BooksOf(c.signed) :
          /\ IsSide(held)
          /\ Of(c.signed.report.root_sums, HeldKey) = Holding(held.source)
    BY <2>1, <2>3, HoldsMeans
  <2>5. PICK owed \in BooksOf(c.doc) :
          /\ IsSide(owed)
          /\ USDA \in DOMAIN c.doc.report.root_sums
          /\ c.doc.report.root_sums[USDA] = Owed(owed.source)
    BY <2>1, <2>3, OwedMeans
  <2>6. Of(c.signed.report.root_sums, HeldKey) >= c.doc.report.root_sums[USDA]
    <3> DEFINE outcome == Outcome(c.signed.report, c.doc.report)
    <3>1. "USDA" \in AssetsIn(c.doc.report, "")
      <4>1. USDA[1] = "" /\ USDA[2] = "USDA"
        BY DEF USDA, qualified
      <4>2. USDA \in {k \in DOMAIN c.doc.report.root_sums : k[1] = ""}
        BY <2>5, <4>1
      <4> QED
        BY <4>1, <4>2 DEF AssetsIn
    <3>2. /\ "USDA" \in DOMAIN outcome
          /\ outcome["USDA"].held = Of(c.signed.report.root_sums, HeldKey)
          /\ outcome["USDA"].owed = c.doc.report.root_sums[USDA]
      BY <3>1 DEF Outcome, HeldKey, USDA, qualified
    <3>3. fully_covered(outcome)
      BY <2>1 DEF Paired
    <3> HIDE DEF outcome
    <3> QED
      BY <3>2, <3>3 DEF fully_covered
  <2>7. /\ held.signed.report = c.signed.report /\ owed.signed.report = c.doc.report
    BY DEF BooksOf
  <2>8. ASSUME NEW b, IsSide(b)
        PROVE  parse(b.signed.report.snapshot_time) \in Int
    <3>1. PICK day \in DOMAIN Snapshots : b.signed.report.snapshot_time = Snapshots[day]
      BY <2>8 DEF IsSide
    <3>2. \A i \in 1 .. 6 : b.signed.report.snapshot_time[i] \in Nat
      BY <3>1, SnapshotFields
    <3> QED
      BY <3>2, ParseIsInt
  <2>9. parse(held.signed.report.snapshot_time) - parse(owed.signed.report.snapshot_time)
          \in -SAME_RUN..SAME_RUN
    <3>1. /\ parse(held.signed.report.snapshot_time) \in Int
          /\ parse(owed.signed.report.snapshot_time) \in Int
      BY <2>4, <2>5, <2>8
    <3>2. skew(held.signed.report.snapshot_time, owed.signed.report.snapshot_time) <= SAME_RUN
      BY <2>3, <2>7
    <3> QED
      BY <3>1, <3>2, SkewBounds
  <2>10. Holding(held.source) >= Owed(owed.source)
    BY <2>4, <2>5, <2>6
  <2> QED
    BY <2>9, <2>10
<1> QED
  BY <1>1, <1>2, <1>3, PTL DEF Spec

-----------------------------------------------------------------------------
(* Groups.                                                                 *)

\* What a group enters for an entity.
IsEntity(x) == x = [id |-> x.id, root_hash |-> x.root_hash, root_sums |-> x.root_sums]

NodesOfEntities(source) == [i \in DOMAIN source |-> entity_leaf_node(source[i])]

IsEntities(source) ==
  /\ IsSeq(source) /\ Len(source) >= 1
  /\ \A i \in 1 .. Len(source) : /\ IsEntity(source[i])
                                 /\ USDA \in DOMAIN source[i].root_sums
                                 /\ source[i].root_sums[USDA] \in Nat

IsMember(m) ==
  /\ m = [format_version |-> m.format_version, group_report_digest |-> m.group_report_digest,
          entity |-> m.entity, steps |-> m.steps]
  /\ IsEntity(m.entity) /\ IsSeq(m.steps)

\* A signed report over the tree of what a group entered, with memberships.
IsGroup(g) ==
  /\ IsEntities(g.source)
  /\ OverNodes(g.signed.report, NodesOfEntities(g.source))
  /\ g.proofs = <<>>
  /\ \A m \in Range(g.memberships) : IsMember(m)

LEMMA NodesOfEntitiesIs ==
  ASSUME NEW source, IsSeq(source)
  PROVE  /\ IsSeq(NodesOfEntities(source)) /\ Len(NodesOfEntities(source)) = Len(source)
         /\ \A i \in 1 .. Len(source) : NodesOfEntities(source)[i] = entity_leaf_node(source[i])
         /\ \A i \in 1 .. Len(NodesOfEntities(source)) : Leafy(NodesOfEntities(source)[i])
<1> DEFINE nodes == NodesOfEntities(source)
<1>1. Len(source) \in Nat /\ DOMAIN source = 1 .. Len(source)
  BY DEF IsSeq
<1>2. nodes = [i \in 1 .. Len(source) |-> entity_leaf_node(source[i])]
  BY <1>1 DEF NodesOfEntities
<1>3. nodes = [i \in 1 .. Len(source) |-> nodes[i]]
  BY <1>2
<1>4. IsSeq(nodes) /\ Len(nodes) = Len(source)
  <2> HIDE DEF nodes
  <2> QED
    BY <1>1, <1>3, FunctionIsSeq
<1>5. \A i \in 1 .. Len(source) : nodes[i] = entity_leaf_node(source[i])
  BY <1>2
<1> HIDE DEF nodes
<1> QED
  BY <1>4, <1>5 DEF nodes, Leafy

\* The root of a group's tree has its entities' totals added up.
LEMMA GroupTotals ==
  ASSUME NEW source, IsEntities(source)
  PROVE  /\ USDA \in DOMAIN Root(NodesOfEntities(source)).sums
         /\ Of(Root(NodesOfEntities(source)).sums, USDA)
              = Sum([n \in DOMAIN source |-> source[n].root_sums[USDA]])
<1>1. /\ IsSeq(source) /\ Len(source) >= 1
      /\ Len(source) \in Nat /\ DOMAIN source = 1 .. Len(source)
  BY DEF IsEntities, IsSeq
<1>2. PICK nodes : nodes = NodesOfEntities(source)
  OBVIOUS
<1>3. PICK amounts : amounts = [n \in DOMAIN source |-> source[n].root_sums[USDA]]
  OBVIOUS
<1>4. /\ IsSeq(nodes) /\ Len(nodes) = Len(source)
      /\ \A i \in 1 .. Len(source) : nodes[i] = entity_leaf_node(source[i])
  BY <1>1, <1>2, NodesOfEntitiesIs
<1>5. IsSeq(amounts) /\ Len(amounts) = Len(source)
  <2>1. amounts = [i \in 1 .. Len(source) |-> amounts[i]]
    BY <1>1, <1>3
  <2> QED
    BY <1>1, <2>1, FunctionIsSeq
<1>6. ASSUME NEW i \in 1 .. Len(source)
      PROVE  /\ USDA \in DOMAIN nodes[i].sums /\ Of(nodes[i].sums, USDA) = amounts[i]
             /\ amounts[i] \in Nat
  <2>1. /\ amounts[i] = source[i].root_sums[USDA] /\ amounts[i] \in Nat
        /\ USDA \in DOMAIN source[i].root_sums
    BY <1>1, <1>3 DEF IsEntities
  <2>2. nodes[i].sums = source[i].root_sums
    BY <1>4, EntityNode
  <2> QED
    BY <2>1, <2>2 DEF Of
<1>7. USDA \in DOMAIN Root(nodes).sums /\ Of(Root(nodes).sums, USDA) = Sum(amounts)
  BY <1>1, <1>4, <1>5, <1>6, TreeTotals
<1> QED
  BY <1>2, <1>3, <1>7

\* What GroupOf makes.
LEMMA GroupIs ==
  ASSUME NEW entities, IsEntities(entities), NEW day, NEW print, print \in Prints
  PROVE  IsGroup(GroupOf(entities, day, print))
<1> DEFINE meta == Meta("", day)
           nodes == NodesOfEntities(entities)
           over == ReportOver(nodes, "solvency.group", meta)
           built == publish_group(entities, meta, Venue)
           r == Printed(over, print)
           g == GroupOf(entities, day, print)
<1>1. /\ IsSeq(entities) /\ Len(entities) >= 1 /\ DOMAIN entities = 1 .. Len(entities)
      /\ \A i \in DOMAIN entities : IsEntity(entities[i])
  BY DEF IsEntities, IsSeq
<1>2. IsSeq(nodes) /\ Len(nodes) >= 1
  BY <1>1, NodesOfEntitiesIs
<1>3. /\ built.signed.report = over /\ DOMAIN built.memberships = DOMAIN entities
      /\ \A i \in DOMAIN entities :
           built.memberships[i] = [format_version |-> "membership-v1",
                                   group_report_digest |-> report_digest(over),
                                   entity |-> entities[i], steps |-> prove(nodes, i)]
  <2> HIDE DEF meta
  <2> QED
    BY DEF publish_group, SignedReport, NodesOfEntities
<1>4. IsReport(over) /\ OverNodes(over, nodes)
  <2> HIDE DEF nodes, meta
  <2> QED
    BY ReportIs
<1>5. /\ g.source = entities /\ g.signed = SignedReport(r, Venue) /\ g.proofs = <<>>
      /\ g.memberships = [n \in DOMAIN built.memberships |->
                            [built.memberships[n] EXCEPT !.group_report_digest = report_digest(r)]]
  <2>1. built.signed.report = over
    BY <1>3
  <2> HIDE DEF built, over
  <2> QED
    BY <2>1 DEF GroupOf, built
<1> HIDE DEF nodes, over, built, r, g
<1>6. r.root_hash = over.root_hash /\ DOMAIN r.root_sums = DOMAIN over.root_sums
  BY <1>4, PrintedIs DEF r
<1>7. g.signed.report = r
  BY <1>5 DEF SignedReport
<1>8. OverNodes(g.signed.report, nodes)
  BY <1>4, <1>6, <1>7 DEF OverNodes
<1>9. ASSUME NEW m \in Range(g.memberships)
      PROVE  IsMember(m)
  <2>1. PICK n \in DOMAIN entities :
          m = [built.memberships[n] EXCEPT !.group_report_digest = report_digest(r)]
    BY <1>3, <1>5 DEF Range
  <2>2. IsSeq(prove(nodes, n)) /\ IsEntity(entities[n])
    BY <1>1, <1>2, ProveIsSeq
  <2>3. built.memberships[n] = [format_version |-> "membership-v1",
                                group_report_digest |-> report_digest(over),
                                entity |-> entities[n], steps |-> prove(nodes, n)]
    BY <1>3
  <2>4. m = [format_version |-> "membership-v1", group_report_digest |-> report_digest(r),
             entity |-> entities[n], steps |-> prove(nodes, n)]
    BY <2>1, <2>3
  <2> QED
    BY <2>2, <2>4 DEF IsMember
<1>10. IsGroup(g)
  BY <1>5, <1>8, <1>9 DEF IsGroup, nodes
<1> QED
  BY <1>10 DEF g

\* An entity's book, or a group's.
IsUnit(b) ==
  \/ IsBook(b) /\ b.proofs # <<>> /\ b.signed.report.root_sums[USDA] \in Nat
  \/ IsGroup(b)

\* Why the reader keeps a chain: two documents issued, and the verdict.
Linked(f, docs) ==
  /\ \E g, e \in DOMAIN docs :
       /\ docs[g].proofs = <<>> /\ f.signed = docs[g].signed
       /\ docs[e].proofs # <<>> /\ f.entity = docs[e].signed
  /\ \E p : /\ verify_chain(f.signed, f.doc, f.entity, p, Venue, Custodian) = "Ok"
            /\ f.leaf = p.leaf /\ IsLeaf(p.leaf) /\ Len(p.steps) \in Nat
  /\ IsEntity(f.doc.entity) /\ Len(f.doc.steps) \in Nat

Groups ==
  topic = "group" =>
    /\ IsSeq(issued)
    /\ \A i \in DOMAIN issued : IsUnit(issued[i])
    /\ \A f \in Facts("chain") : Linked(f, issued)

LEMMA ChainStays ==
  ASSUME NEW docs, NEW more,
         \A i \in DOMAIN docs : i \in DOMAIN more /\ more[i] = docs[i],
         NEW f, Linked(f, docs)
  PROVE  Linked(f, more)
<1>1. PICK g \in DOMAIN docs, e \in DOMAIN docs :
        /\ docs[g].proofs = <<>> /\ f.signed = docs[g].signed
        /\ docs[e].proofs # <<>> /\ f.entity = docs[e].signed
  BY DEF Linked
<1>2. /\ g \in DOMAIN more /\ more[g].proofs = <<>> /\ f.signed = more[g].signed
      /\ e \in DOMAIN more /\ more[e].proofs # <<>> /\ f.entity = more[e].signed
  BY <1>1
<1> QED
  BY <1>2 DEF Linked

LEMMA EntityIssued ==
  ASSUME IssueEntity
  PROVE  \E b : Adds(b) /\ IsUnit(b)
<1>1. PICK day \in Days.group, amounts \in Amounts.group :
        Add(BookOf(Meta("solvency.liabilities", day), day, amounts, "as built", Custodian))
  BY DEF IssueEntity
<1>2. PICK meta : meta = Meta("solvency.liabilities", day)
  OBVIOUS
<1>3. PICK b : b = BookOf(meta, day, amounts, "as built", Custodian)
  OBVIOUS
<1>4. amounts \in Seq(Nat) /\ amounts # <<>> /\ "as built" \in Prints
  BY BooksAssumption DEF Publishing, Prints
<1>5. Made(b, meta, "as built", Custodian)
  BY <1>3, <1>4, BookIsMade
<1>6. IsBook(b) /\ b.proofs # <<>> /\ b.signed.report.root_sums = Root(NodesOf(b.source)).sums
  <2>1. 1 \in DOMAIN b.proofs
    BY <1>5 DEF Made
  <2>2. b.proofs # <<>>
    BY <2>1
  <2> QED
    BY <1>5, <2>2 DEF Made
<1>7. /\ USDA \in DOMAIN Root(NodesOf(b.source)).sums
      /\ Of(Root(NodesOf(b.source)).sums, USDA) \in Nat
  BY <1>6, BookTotals DEF IsBook
<1>8. IsUnit(b)
  BY <1>6, <1>7 DEF IsUnit, Of
<1> QED
  BY <1>1, <1>2, <1>3, <1>8, AddAdds

\* What a group enters are the roots and totals of books.
LEMMA EnteredAre ==
  ASSUME NEW a, NEW b, NEW c, IsUnit(a), IsUnit(b), IsUnit(c),
         a.proofs # <<>>, b.proofs # <<>>, c.proofs # <<>>
  PROVE  IsEntities(<<Entered("one", a.signed.report, b.signed.report),
                      Entered("two", c.signed.report, c.signed.report)>>)
<1>1. ASSUME NEW u, IsUnit(u), u.proofs # <<>>
      PROVE  /\ USDA \in DOMAIN u.signed.report.root_sums
             /\ u.signed.report.root_sums[USDA] \in Nat
  <2>1. IsBook(u) /\ u.signed.report.root_sums[USDA] \in Nat
    BY <1>1 DEF IsUnit, IsGroup
  <2>2. USDA \in DOMAIN Root(NodesOf(u.source)).sums
    BY <2>1, BookTotals DEF IsBook
  <2> QED
    BY <2>1, <2>2 DEF IsBook, OverNodes
<1>2. ASSUME NEW id, NEW r, NEW s,
             USDA \in DOMAIN s.root_sums /\ s.root_sums[USDA] \in Nat
      PROVE  LET x == Entered(id, r, s) IN
             IsEntity(x) /\ USDA \in DOMAIN x.root_sums /\ x.root_sums[USDA] \in Nat
  BY <1>2 DEF Entered, IsEntity
<1>3. PICK x : x = Entered("one", a.signed.report, b.signed.report)
  OBVIOUS
<1>4. PICK y : y = Entered("two", c.signed.report, c.signed.report)
  OBVIOUS
<1>5. /\ IsEntity(x) /\ USDA \in DOMAIN x.root_sums /\ x.root_sums[USDA] \in Nat
      /\ IsEntity(y) /\ USDA \in DOMAIN y.root_sums /\ y.root_sums[USDA] \in Nat
  BY <1>1, <1>2, <1>3, <1>4
<1>6. IsSeq(<<x, y>>) /\ Len(<<x, y>>) = 2 /\ <<x, y>>[1] = x /\ <<x, y>>[2] = y
  <2>1. <<x, y>> \in Seq({x, y})
    OBVIOUS
  <2> QED
    BY <2>1, SeqIs
<1>7. IsEntities(<<x, y>>)
  BY <1>5, <1>6 DEF IsEntities
<1> QED
  BY <1>3, <1>4, <1>7

LEMMA GroupIssued ==
  ASSUME IssueGroup, \A i \in DOMAIN issued : IsUnit(issued[i])
  PROVE  \E b : Adds(b) /\ IsUnit(b)
<1>1. PICK i \in DOMAIN issued, j \in DOMAIN issued, k \in DOMAIN issued, day \in Days.group,
           print \in {"as built", "other totals"} :
        /\ issued[i].proofs # <<>> /\ issued[j].proofs # <<>> /\ issued[k].proofs # <<>>
        /\ Add(GroupOf(<<Entered("one", issued[i].signed.report, issued[j].signed.report),
                         Entered("two", issued[k].signed.report, issued[k].signed.report)>>,
                       day, print))
  BY DEF IssueGroup
<1>2. PICK entities :
        entities = <<Entered("one", issued[i].signed.report, issued[j].signed.report),
                     Entered("two", issued[k].signed.report, issued[k].signed.report)>>
  OBVIOUS
<1>3. IsEntities(entities)
  BY <1>1, <1>2, EnteredAre
<1>4. print \in Prints
  BY DEF Prints
<1>5. IsGroup(GroupOf(entities, day, print))
  BY <1>3, <1>4, GroupIs
<1> QED
  BY <1>1, <1>2, <1>5, AddAdds DEF IsUnit

LEMMA ChainAccepted ==
  ASSUME AcceptChain, \A i \in DOMAIN issued : IsUnit(issued[i])
  PROVE  \E f : Keeps(f) /\ f.what = "chain" /\ Linked(f, issued)
<1>1. PICK g \in DOMAIN issued, e \in DOMAIN issued :
        /\ issued[g].proofs = <<>> /\ issued[e].proofs # <<>>
        /\ \E m \in UNION {Relabelled(n) : n \in Range(issued[g].memberships)},
              p \in Range(issued[e].proofs) :
             /\ verify_chain(issued[g].signed, m, issued[e].signed, p, Venue, Custodian) = "Ok"
             /\ Accept([what |-> "chain", signed |-> issued[g].signed, doc |-> m,
                        entity |-> issued[e].signed, leaf |-> p.leaf])
  BY DEF AcceptChain
<1>2. PICK m \in UNION {Relabelled(n) : n \in Range(issued[g].memberships)},
           p \in Range(issued[e].proofs) :
             /\ verify_chain(issued[g].signed, m, issued[e].signed, p, Venue, Custodian) = "Ok"
             /\ Accept([what |-> "chain", signed |-> issued[g].signed, doc |-> m,
                        entity |-> issued[e].signed, leaf |-> p.leaf])
  BY <1>1
<1>3. IsLeaf(p.leaf) /\ Len(p.steps) \in Nat
  <2>1. IsBook(issued[e])
    BY <1>1 DEF IsUnit, IsGroup
  <2>2. IsProof(p, "proof-v1", issued[e].source)
    BY <1>2, <2>1 DEF IsBook
  <2>3. /\ \A k \in DOMAIN issued[e].source : IsLeaf(issued[e].source[k])
    BY <2>1 DEF IsBook, IsSeq
  <2> QED
    BY <2>2, <2>3 DEF IsProof, IsSeq
<1>4. IsEntity(m.entity) /\ Len(m.steps) \in Nat
  <2>1. PICK n \in Range(issued[g].memberships) : m \in Relabelled(n)
    BY <1>2
  <2>2. \A x \in Range(issued[g].memberships) : IsMember(x)
    <3>1. IsGroup(issued[g])
      BY <1>1 DEF IsUnit
    <3> QED
      BY <3>1 DEF IsGroup
  <2>3. IsMember(n)
    BY <2>2
  <2>4. CASE m = n
    BY <2>3, <2>4 DEF IsMember, IsSeq
  <2>5. CASE m = [n EXCEPT !.entity.id = "another"]
    <3>1. m = [format_version |-> n.format_version, group_report_digest |-> n.group_report_digest,
               entity |-> [n.entity EXCEPT !.id = "another"], steps |-> n.steps]
      BY <2>3, <2>5 DEF IsMember
    <3>2. IsEntity([n.entity EXCEPT !.id = "another"])
      BY <2>3 DEF IsMember, IsEntity
    <3> QED
      BY <2>3, <3>1, <3>2 DEF IsMember, IsSeq
  <2> QED
    BY <2>1, <2>4, <2>5 DEF Relabelled
<1> DEFINE f == [what |-> "chain", signed |-> issued[g].signed, doc |-> m,
                 entity |-> issued[e].signed, leaf |-> p.leaf]
<1>5. Linked(f, issued) /\ f.what = "chain"
  BY <1>1, <1>2, <1>3, <1>4 DEF Linked
<1> QED
  BY <1>2, <1>5, AcceptKeeps

LEMMA ChainsKept ==
  ASSUME Groups, [Next]_vars
  PROVE  Groups'
<1> SUFFICES ASSUME topic' = "group"
             PROVE  /\ IsSeq(issued')
                    /\ \A i \in DOMAIN issued' : IsUnit(issued'[i])
                    /\ \A f \in Facts("chain")' : Linked(f, issued')
  BY DEF Groups
<1>1. topic = "group"
  BY TopicStays
<1>2. /\ IsSeq(issued)
      /\ \A i \in DOMAIN issued : IsUnit(issued[i])
      /\ \A f \in Facts("chain") : Linked(f, issued)
  BY <1>1 DEF Groups
<1>3. CASE UNCHANGED readersVars
  BY <1>2, <1>3 DEF Facts, readersVars
<1>4. ASSUME NEW b, Adds(b), IsUnit(b)
      PROVE  /\ IsSeq(issued')
             /\ \A i \in DOMAIN issued' : IsUnit(issued'[i])
             /\ \A f \in Facts("chain")' : Linked(f, issued')
  <2>1. /\ IsSeq(issued')
        /\ \A i \in DOMAIN issued : i \in DOMAIN issued' /\ issued'[i] = issued[i]
        /\ \A i \in DOMAIN issued' : i \in DOMAIN issued \/ issued'[i] = b
    BY <1>2, <1>4, StaysIssued
  <2>2. \A f : Linked(f, issued) => Linked(f, issued')
    BY <2>1, ChainStays
  <2>3. Facts("chain")' = Facts("chain")
    BY <1>4 DEF Adds, Facts
  <2> QED
    BY <1>2, <1>4, <2>1, <2>2, <2>3
<1>5. CASE IssueEntity
  BY <1>4, <1>5, EntityIssued
<1>6. CASE IssueGroup
  BY <1>2, <1>4, <1>6, GroupIssued
<1>7. CASE AcceptChain
  <2>1. PICK f : Keeps(f) /\ f.what = "chain" /\ Linked(f, issued)
    BY <1>2, <1>7, ChainAccepted
  <2>2. issued' = issued /\ \A g \in Facts("chain")' : g \in Facts("chain") \/ g = f
    BY <2>1 DEF Keeps, Facts
  <2> QED
    BY <1>2, <2>1, <2>2
<1> QED
  BY <1>1, <1>3, <1>5, <1>6, <1>7, TopicSteps DEF GroupNext

\* A membership that verifies is of an entity the group entered, and the group's
\* totals are its entities' added up.
LEMMA MemberMeans ==
  ASSUME NEW g, IsGroup(g), NEW m, IsEntity(m.entity), Len(m.steps) \in Nat,
         verify_membership(g.signed, m, Venue) = "Ok"
  PROVE  /\ m.entity \in Range(g.source)
         /\ USDA \in DOMAIN m.entity.root_sums
         /\ g.signed.report.root_sums[USDA]
              = Sum([n \in DOMAIN g.source |-> g.source[n].root_sums[USDA]])
<1>1. PICK nodes : nodes = NodesOfEntities(g.source)
  OBVIOUS
<1>2. PICK leaf : leaf = entity_leaf_node(m.entity)
  OBVIOUS
<1>3. PICK total : total = Sum([n \in DOMAIN g.source |-> g.source[n].root_sums[USDA]])
  OBVIOUS
<1>4. /\ IsSeq(g.source) /\ Len(g.source) >= 1 /\ IsEntities(g.source)
      /\ \A i \in 1 .. Len(g.source) : /\ IsEntity(g.source[i])
                                       /\ USDA \in DOMAIN g.source[i].root_sums
      /\ g.signed.report.root_hash = Root(nodes).hash
      /\ DOMAIN g.signed.report.root_sums = DOMAIN Root(nodes).sums
  BY <1>1 DEF IsGroup, IsEntities, OverNodes
<1>5. /\ IsSeq(nodes) /\ Len(nodes) = Len(g.source)
      /\ \A i \in 1 .. Len(g.source) : nodes[i] = entity_leaf_node(g.source[i])
      /\ \A i \in 1 .. Len(nodes) : Leafy(nodes[i])
  BY <1>1, <1>4, NodesOfEntitiesIs
<1>6. USDA \in DOMAIN Root(nodes).sums /\ Of(Root(nodes).sums, USDA) = total
  BY <1>1, <1>3, <1>4, GroupTotals
<1>7. Proves(g.signed, leaf, m.steps, m.group_report_digest, Venue)
  BY <1>2, MembershipHolds
<1>8. /\ fold(leaf, m.steps).hash = Root(nodes).hash
      /\ SameTotals(fold(leaf, m.steps).sums, g.signed.report.root_sums)
  BY <1>4, <1>7 DEF Proves
<1>9. (\E i \in 1 .. Len(nodes) : nodes[i] = leaf) /\ fold(leaf, m.steps).sums = Root(nodes).sums
  <2>1. Leafy(leaf)
    BY <1>2 DEF Leafy
  <2> QED
    BY <1>4, <1>5, <1>8, <2>1, FoldReaches
<1>10. PICK i \in 1 .. Len(nodes) : nodes[i] = leaf
  BY <1>9
<1>11. /\ entity_leaf_node(g.source[i]) = entity_leaf_node(m.entity) /\ IsEntity(g.source[i])
       /\ i \in DOMAIN g.source /\ USDA \in DOMAIN g.source[i].root_sums
  BY <1>2, <1>4, <1>5, <1>10 DEF IsSeq
<1>12. g.source[i] = m.entity
  <2>1. /\ entity_leaf_node(g.source[i]).hash[2] = g.source[i].id
        /\ entity_leaf_node(g.source[i]).hash[3] = g.source[i].root_hash
        /\ entity_leaf_node(g.source[i]).hash[4] = g.source[i].root_sums
    BY EntityNode
  <2>2. /\ entity_leaf_node(m.entity).hash[2] = m.entity.id
        /\ entity_leaf_node(m.entity).hash[3] = m.entity.root_hash
        /\ entity_leaf_node(m.entity).hash[4] = m.entity.root_sums
    BY EntityNode
  <2>3. /\ g.source[i].id = m.entity.id /\ g.source[i].root_hash = m.entity.root_hash
        /\ g.source[i].root_sums = m.entity.root_sums
    BY <1>11, <2>1, <2>2
  <2> QED
    BY <1>11, <2>3 DEF IsEntity
<1>13. Of(g.signed.report.root_sums, USDA) = total /\ USDA \in DOMAIN g.signed.report.root_sums
  BY <1>4, <1>6, <1>8, <1>9 DEF SameTotals
<1> QED
  BY <1>3, <1>11, <1>12, <1>13 DEF Of, Range

\* From a customer to the group's totals (group.rs verify_chain): the leaf is in
\* the entity's book, the entity's totals are its leaves', the group entered that
\* report with those totals, and prints the sum of what it entered, whatever it
\* printed or mixed up and however a membership was relabelled.
THEOREM ChainReachesHolds == Spec => []ChainReaches
<1>1. Init => Groups
  BY NoneIsSeq DEF Init, Groups, Facts
<1>2. Groups /\ [Next]_vars => Groups'
  BY ChainsKept
<1>3. Groups => ChainReaches
  <2> SUFFICES ASSUME Groups, topic = "group", NEW f \in Facts("chain")
               PROVE  \E e \in BooksOf(f.entity), g \in BooksOf(f.signed) :
                        /\ f.leaf \in Range(e.source)
                        /\ f.doc.entity \in Range(g.source)
                        /\ f.doc.entity.root_hash = e.signed.report.root_hash
                        /\ f.doc.entity.root_sums[USDA] = Owed(e.source)
                        /\ f.signed.report.root_sums[USDA] =
                             Sum([n \in DOMAIN g.source |-> g.source[n].root_sums[USDA]])
    BY DEF ChainReaches
  <2>1. Linked(f, issued) /\ \A i \in DOMAIN issued : IsUnit(issued[i])
    BY DEF Groups
  <2>2. PICK gi \in DOMAIN issued, ei \in DOMAIN issued :
          /\ issued[gi].proofs = <<>> /\ f.signed = issued[gi].signed
          /\ issued[ei].proofs # <<>> /\ f.entity = issued[ei].signed
    BY <2>1 DEF Linked
  <2>3. PICK g : g = issued[gi]
    OBVIOUS
  <2>4. PICK e : e = issued[ei]
    OBVIOUS
  <2>5. /\ g \in BooksOf(f.signed) /\ e \in BooksOf(f.entity)
        /\ f.signed = g.signed /\ f.entity = e.signed
    BY <2>2, <2>3, <2>4 DEF BooksOf, Range
  <2>6. IsGroup(g) /\ IsBook(e)
    BY <2>1, <2>2, <2>3, <2>4 DEF IsUnit, IsGroup
  <2>7. PICK p : /\ verify_chain(f.signed, f.doc, f.entity, p, Venue, Custodian) = "Ok"
                 /\ f.leaf = p.leaf /\ IsLeaf(p.leaf) /\ Len(p.steps) \in Nat
    BY <2>1 DEF Linked
  <2>8. /\ verify(f.entity, p, Custodian) = "Ok"
        /\ verify_membership(f.signed, f.doc, Venue) = "Ok"
        /\ f.doc.entity.root_hash = f.entity.report.root_hash
        /\ SameTotals(f.doc.entity.root_sums, f.entity.report.root_sums)
    BY <2>7, ChainHolds
  <2>9. f.leaf \in Range(e.source) /\ f.entity.report.root_sums[USDA] = Owed(e.source)
    <3>1. Proves(f.entity, leaf_node(p.leaf), p.steps, p.report_digest, Custodian)
      BY <2>8, VerifyHolds
    <3>2. f.entity.report = e.signed.report
      BY <2>5
    <3> QED
      BY <2>6, <2>7, <3>1, <3>2, FoldMeans
  <2>10. /\ f.doc.entity \in Range(g.source)
         /\ USDA \in DOMAIN f.doc.entity.root_sums
         /\ f.signed.report.root_sums[USDA] =
              Sum([n \in DOMAIN g.source |-> g.source[n].root_sums[USDA]])
    <3>1. IsEntity(f.doc.entity) /\ Len(f.doc.steps) \in Nat
      BY <2>1 DEF Linked
    <3>2. verify_membership(g.signed, f.doc, Venue) = "Ok"
      BY <2>5, <2>8
    <3> QED
      BY <2>5, <2>6, <3>1, <3>2, MemberMeans
  <2>11. USDA \in DOMAIN f.entity.report.root_sums
    <3>1. USDA \in DOMAIN Root(NodesOf(e.source)).sums
      BY <2>6, BookTotals DEF IsBook
    <3> QED
      BY <2>5, <2>6, <3>1 DEF IsBook, OverNodes
  <2>12. f.doc.entity.root_sums[USDA] = Owed(e.source)
    BY <2>8, <2>9, <2>10, <2>11 DEF SameTotals, Of
  <2>13. f.doc.entity.root_hash = e.signed.report.root_hash
    BY <2>5, <2>8
  <2> QED
    BY <2>5, <2>9, <2>10, <2>12, <2>13
<1> QED
  BY <1>1, <1>2, <1>3, PTL DEF Spec

-----------------------------------------------------------------------------
(* Assurance.                                                              *)

\* A report issued with its book, an attestation its key signed, or a graph of one
\* source and one derivation.
IsReported(d) ==
  /\ IsBook(d.book) /\ 1 \in DOMAIN d.book.proofs
  /\ \E m : d.book.signed.report.manifest = <<m>>
IsAttested(d) ==
  /\ d.doc = [attestation |-> d.doc.attestation, signature |-> d.doc.signature]
  /\ d.doc.attestation = [format_version |-> d.doc.attestation.format_version,
                          report_digest |-> d.doc.attestation.report_digest,
                          field |-> d.doc.attestation.field, role |-> d.doc.attestation.role]
  /\ d.doc.signature = [algorithm |-> d.doc.signature.algorithm,
                        public_key |-> d.doc.signature.public_key,
                        value |-> d.doc.signature.value]
  /\ d.doc.signature.value = <<d.key, attestation_digest(d.doc.attestation)>>
IsTraced(d) ==
  \E source, derivation :
    /\ d.graph.sources = <<source>> /\ source.kind \in {"participant", "off-ledger"}
    /\ d.graph.derivations = <<derivation>>

IsEvidence(d) ==
  \/ d.kind = "report" /\ IsReported(d)
  \/ d.kind = "attestation" /\ IsAttested(d)
  \/ d.kind = "trace" /\ IsTraced(d)

LEMMA ReportIssued ==
  ASSUME IssueReport
  PROVE  \E d : Adds(d) /\ IsEvidence(d)
<1>1. PICK day \in Days.assurance, amounts \in Amounts.assurance,
           state \in {"Published", "Withheld"}, print \in {"as built", "other totals"} :
        LET m == [audience |-> "", fields |-> [f \in {"mark_prices"} |-> state]]
            meta == [Meta("solvency.liabilities", day) EXCEPT
                       !.manifest = <<m>>,
                       !.mark_prices = IF state = "Published" THEN [USDA |-> 5] ELSE Nothing]
        IN  Add([kind |-> "report", book |-> BookOf(meta, day, amounts, print, Venue)])
  BY DEF IssueReport
<1>2. PICK m : m = [audience |-> "", fields |-> [f \in {"mark_prices"} |-> state]]
  OBVIOUS
<1>3. PICK meta : meta = [Meta("solvency.liabilities", day) EXCEPT
                            !.manifest = <<m>>,
                            !.mark_prices = IF state = "Published" THEN [USDA |-> 5] ELSE Nothing]
  OBVIOUS
<1>4. meta.manifest = <<m>>
  BY <1>3 DEF Meta
<1>5. amounts \in Seq(Nat) /\ amounts # <<>> /\ print \in Prints
  BY BooksAssumption DEF Publishing, Prints
<1>6. PICK b : b = BookOf(meta, day, amounts, print, Venue)
  OBVIOUS
<1>7. Made(b, meta, print, Venue)
  BY <1>5, <1>6, BookIsMade
<1>8. IsBook(b) /\ 1 \in DOMAIN b.proofs /\ b.signed.report.manifest = <<m>>
  BY <1>4, <1>7 DEF Made
<1>9. PICK d : d = [kind |-> "report", book |-> b]
  OBVIOUS
<1>10. IsEvidence(d)
  BY <1>8, <1>9 DEF IsEvidence, IsReported
<1> QED
  BY <1>1, <1>2, <1>3, <1>6, <1>9, <1>10, AddAdds

LEMMA AttestationIssued ==
  ASSUME IssueAttestation
  PROVE  \E d : Adds(d) /\ IsEvidence(d)
<1>1. PICK b \in Books, field \in {"root_sums", "mark_prices"}, role \in {"issuer", "third-party"},
           key \in {Custodian, Venue, Stranger} :
        LET a == [format_version |-> "attestation-v1",
                  report_digest |-> report_digest(b.signed.report), field |-> field, role |-> role]
        IN  Add([kind |-> "attestation", key |-> key,
                 doc |-> [attestation |-> a, signature |-> SignatureOf(key, attestation_digest(a))]])
  BY DEF IssueAttestation
<1>2. PICK a : a = [format_version |-> "attestation-v1",
                    report_digest |-> report_digest(b.signed.report), field |-> field,
                    role |-> role]
  OBVIOUS
<1>3. PICK d : d = [kind |-> "attestation", key |-> key,
                    doc |-> [attestation |-> a,
                             signature |-> SignatureOf(key, attestation_digest(a))]]
  OBVIOUS
<1>4. IsAttested(d) /\ d.kind = "attestation"
  BY <1>2, <1>3 DEF IsAttested, SignatureOf, sign_digest
<1> QED
  BY <1>1, <1>2, <1>3, <1>4, AddAdds DEF IsEvidence

LEMMA TraceIssued ==
  ASSUME IssueTrace
  PROVE  \E d : Adds(d) /\ IsEvidence(d)
<1>1. PICK b \in Books, field \in {"root_sums", "mark_prices"},
           kind \in {"participant", "off-ledger"} :
        Add([kind |-> "trace",
             anchor |-> anchor_report(b.signed, <<>>),
             graph |-> [format_version |-> "provenance-v1",
                        report_digest |-> report_digest(b.signed.report),
                        sources |-> <<[id |-> "source", kind |-> kind, basis |-> <<"basis">>]>>,
                        derivations |-> <<[field |-> field, sources |-> <<"source">>]>>]])
  BY DEF IssueTrace
<1>2. PICK d :
        d = [kind |-> "trace",
             anchor |-> anchor_report(b.signed, <<>>),
             graph |-> [format_version |-> "provenance-v1",
                        report_digest |-> report_digest(b.signed.report),
                        sources |-> <<[id |-> "source", kind |-> kind, basis |-> <<"basis">>]>>,
                        derivations |-> <<[field |-> field, sources |-> <<"source">>]>>]]
  OBVIOUS
<1>3. IsTraced(d) /\ d.kind = "trace"
  <2>1. /\ d.graph.sources = <<[id |-> "source", kind |-> kind, basis |-> <<"basis">>]>>
        /\ d.graph.derivations = <<[field |-> field, sources |-> <<"source">>]>>
        /\ d.kind = "trace"
    BY <1>2
  <2> QED
    BY <2>1 DEF IsTraced
<1> QED
  BY <1>1, <1>2, <1>3, AddAdds DEF IsEvidence

\* What is presented as evidence was issued, or is an attestation altered.
LEMMA EvidencesAre ==
  ASSUME NEW signed, NEW evidence \in Evidences(signed)
  PROVE  /\ \A p \in Range(evidence.proof) : \E b \in Books : p = b.proofs[1]
         /\ \A a \in Range(evidence.anchor) : \E d \in OfKind("trace") : a = d.anchor
         /\ \A g \in Range(evidence.provenance) : \E d \in OfKind("trace") : g = d.graph
         /\ \A a \in evidence.attestations :
              \E d \in OfKind("attestation") : a \in ReceivedAttestation(d.doc, signed)
<1> DEFINE Optional(documents) == {<<>>} \cup {<<d>> : d \in documents}
           shown == {b.proofs[1] : b \in Books}
           named == {d.anchor : d \in OfKind("trace")}
           drawn == {d.graph : d \in OfKind("trace")}
           given == UNION {ReceivedAttestation(d.doc, signed) : d \in OfKind("attestation")}
<1>1. /\ evidence.proof \in Optional(shown)
      /\ evidence.anchor \in Optional(named)
      /\ evidence.provenance \in Optional(drawn)
      /\ evidence.attestations \in {{}} \cup {{a} : a \in given}
  BY DEF Evidences
<1>2. ASSUME NEW S, NEW s \in Optional(S), NEW x \in Range(s)
      PROVE  x \in S
  BY DEF Range
<1>3. /\ \A p \in Range(evidence.proof) : p \in shown
      /\ \A a \in Range(evidence.anchor) : a \in named
      /\ \A g \in Range(evidence.provenance) : g \in drawn
  <2> HIDE DEF Optional, shown, named, drawn
  <2> QED
    BY <1>1, <1>2
<1>4. \A a \in evidence.attestations : a \in given
  <2> HIDE DEF given
  <2> QED
    BY <1>1
<1> QED
  BY <1>3, <1>4

\* A signature that verifies is of the attestation as its key made it.
LEMMA AttestedMeans ==
  ASSUME NEW d, IsAttested(d), NEW signed, NEW a \in ReceivedAttestation(d.doc, signed),
         NEW body, NEW field, Attests(a, body, field, Trusted)
  PROVE  /\ d.key \in DOMAIN Trusted.attestors
         /\ Trusted.attestors[d.key] = a.attestation.role
         /\ d.doc.attestation.role = a.attestation.role
         /\ d.doc.attestation.field = field
         /\ d.doc.attestation.report_digest = report_digest(body)
<1> DEFINE value == d.doc.signature.value
<1>1. /\ d.doc = [attestation |-> d.doc.attestation, signature |-> d.doc.signature]
      /\ d.doc.signature = [algorithm |-> d.doc.signature.algorithm,
                            public_key |-> d.doc.signature.public_key, value |-> value]
      /\ value = <<d.key, attestation_digest(d.doc.attestation)>>
  BY DEF IsAttested
<1>2. a.signature.value = value
  <2>1. CASE a = d.doc
    BY <2>1
  <2>2. CASE a = [d.doc EXCEPT !.attestation.role =
                    IF @ = "issuer" THEN "third-party" ELSE "issuer"]
    BY <1>1, <2>2
  <2>3. CASE a = [d.doc EXCEPT !.attestation.report_digest = report_digest(signed.report)]
    BY <1>1, <2>3
  <2>4. CASE a = [d.doc EXCEPT !.signature.public_key = Custodian]
    BY <1>1, <2>4
  <2> QED
    BY <2>1, <2>2, <2>3, <2>4 DEF ReceivedAttestation
<1>3. /\ a.attestation.field = field
      /\ a.attestation.report_digest = report_digest(body)
      /\ a.signature.public_key \in DOMAIN Trusted.attestors
      /\ Trusted.attestors[a.signature.public_key] = a.attestation.role
      /\ verify_signature(a.signature.public_key, attestation_digest(a.attestation),
                          a.signature.value) = "Ok"
  BY DEF Attests
<1>4. a.signature.value = <<a.signature.public_key, attestation_digest(a.attestation)>>
  <2>1. Expect(a.signature.value
                 = sign_digest(a.signature.public_key, attestation_digest(a.attestation)),
               "BadSignature") = "Ok"
    BY <1>3, AllHold DEF verify_signature
  <2> QED
    BY <2>1 DEF Expect, sign_digest
<1>5. d.key = a.signature.public_key /\ d.doc.attestation = a.attestation
  <2>1. <<d.key, attestation_digest(d.doc.attestation)>>
          = <<a.signature.public_key, attestation_digest(a.attestation)>>
    BY <1>1, <1>2, <1>4
  <2>2. attestation_digest(d.doc.attestation) = attestation_digest(a.attestation)
    BY <2>1
  <2>3. d.doc.attestation = a.attestation
    BY <2>2 DEF attestation_digest
  <2> QED
    BY <2>1, <2>3
<1> QED
  BY <1>3, <1>5

\* A graph of one source and one derivation that derives a field from the ledger.
LEMMA TracedMeans ==
  ASSUME NEW d, IsTraced(d), NEW field, derives_from_ledger(d.graph, field)
  PROVE  d.graph.derivations[1].field = field /\ d.graph.sources[1].kind = "participant"
<1> DEFINE of == {i \in DOMAIN d.graph.derivations : d.graph.derivations[i].field = field}
<1>1. PICK source, derivation :
        /\ d.graph.sources = <<source>> /\ source.kind \in {"participant", "off-ledger"}
        /\ d.graph.derivations = <<derivation>>
  BY DEF IsTraced
<1>2. LedgerSources(d.graph, field) # {}
  BY DEF derives_from_ledger
<1>3. of # {}
  BY <1>2 DEF LedgerSources
<1>4. d.graph.derivations[1].field = field
  BY <1>1, <1>3
<1>5. \E s \in Range(d.graph.sources) : on_ledger(s.kind)
  BY <1>2, <1>3 DEF LedgerSources
<1>6. on_ledger(source.kind)
  BY <1>1, <1>5 DEF Range
<1> QED
  BY <1>1, <1>4, <1>6 DEF on_ledger

\* What the levels kept rest on, in what was issued.
BooksIn(docs) == {d.book : d \in {e \in Range(docs) : e.kind = "report"}}
KindIn(docs, kind) == {d \in Range(docs) : d.kind = kind}
VouchedFor(f, role, docs) ==
  \E d \in KindIn(docs, "attestation") :
    /\ d.key \in DOMAIN Trusted.attestors /\ Trusted.attestors[d.key] = role
    /\ d.doc.attestation.role = role
    /\ d.doc.attestation.field = f.field
    /\ d.doc.attestation.report_digest = report_digest(f.signed.report)
Backed(f, docs) ==
  /\ f.what = "cryptographically-verified" =>
       /\ f.field = "root_sums"
       /\ \E b \in BooksIn(docs) :
            b.signed = f.signed /\ f.signed.report.root_sums[USDA] = Owed(b.source)
  /\ f.what = "issuer-attested" => VouchedFor(f, "issuer", docs)
  /\ f.what = "third-party-attested" => VouchedFor(f, "third-party", docs)
  /\ f.what = "not-disclosed" =>
       /\ f.signed.report.manifest[1].fields[f.field] = "Withheld"
       /\ ~carries_data(f.signed.report, f.field)
  /\ f.what = "ledger-derived" =>
       /\ \E d \in KindIn(docs, "trace") : d.anchor.report_digest = report_digest(f.signed.report)
       /\ \E d \in KindIn(docs, "trace") :
            d.graph.derivations[1].field = f.field /\ d.graph.sources[1].kind = "participant"

Claims ==
  topic = "assurance" =>
    /\ IsSeq(issued)
    /\ \A i \in DOMAIN issued : IsEvidence(issued[i])
    /\ \A f \in accepted : Backed(f, issued)

LEMMA BackedStays ==
  ASSUME NEW docs, NEW more, Range(docs) \subseteq Range(more), NEW f, Backed(f, docs)
  PROVE  Backed(f, more)
<1>1. BooksIn(docs) \subseteq BooksIn(more) /\ \A kind : KindIn(docs, kind) \subseteq KindIn(more, kind)
  BY DEF BooksIn, KindIn
<1>2. \A role : VouchedFor(f, role, docs) => VouchedFor(f, role, more)
  BY <1>1 DEF VouchedFor
<1> QED
  BY <1>1, <1>2 DEF Backed

\* A level that verifies is backed by what was issued.
LEMMA LevelBacked ==
  ASSUME \A i \in DOMAIN issued : IsEvidence(issued[i]),
         NEW b \in Books, NEW evidence \in Evidences(b.signed), NEW level, NEW field,
         level \in establish(b.signed, evidence, Trusted, field)
  PROVE  Backed([what |-> level, signed |-> b.signed, field |-> field], issued)
<1> DEFINE f == [what |-> level, signed |-> b.signed, field |-> field]
<1>1. /\ Books = BooksIn(issued) /\ \A kind : OfKind(kind) = KindIn(issued, kind)
  BY DEF Books, BooksIn, OfKind, KindIn
<1>2. /\ \A c \in Books : IsReported([book |-> c])
      /\ \A d \in OfKind("attestation") : IsAttested(d)
      /\ \A d \in OfKind("trace") : IsTraced(d)
  <2>1. ASSUME NEW d \in Range(issued)
        PROVE  IsEvidence(d)
    BY DEF Range
  <2>2. ASSUME NEW c \in Books
        PROVE  IsReported([book |-> c])
    <3>1. PICK d \in Range(issued) : d.kind = "report" /\ c = d.book
      BY DEF Books
    <3>2. IsReported(d)
      BY <2>1, <3>1 DEF IsEvidence
    <3> QED
      BY <3>1, <3>2 DEF IsReported
  <2> QED
    BY <2>1, <2>2 DEF OfKind, IsEvidence
<1>3. /\ \A p \in Range(evidence.proof) : \E c \in Books : p = c.proofs[1]
      /\ \A a \in Range(evidence.anchor) : \E d \in OfKind("trace") : a = d.anchor
      /\ \A g \in Range(evidence.provenance) : \E d \in OfKind("trace") : g = d.graph
      /\ \A a \in evidence.attestations :
           \E d \in OfKind("attestation") : a \in ReceivedAttestation(d.doc, b.signed)
  BY EvidencesAre
<1>4. /\ level = "not-disclosed" => withheld(b.signed.report, field)
      /\ level = "cryptographically-verified" =>
           /\ field = "root_sums"
           /\ \E p \in Range(evidence.proof) : verify(b.signed, p, Trusted.publisher) = "Ok"
      /\ level = "ledger-derived" =>
           /\ \E a \in Range(evidence.anchor) : anchors(b.signed.report, a)
           /\ \E g \in Range(evidence.provenance) : derives_from_ledger(g, field)
      /\ level \in {"issuer-attested", "third-party-attested"} =>
           \E a \in evidence.attestations :
             Attests(a, b.signed.report, field, Trusted) /\ level = AttestedLevel(a.attestation.role)
  BY LevelsRestOn
<1>5. ASSUME level = "cryptographically-verified"
      PROVE  field = "root_sums" /\ b.signed.report.root_sums[USDA] = Owed(b.source)
  <2>1. PICK p \in Range(evidence.proof) : verify(b.signed, p, Venue) = "Ok"
    BY <1>4, <1>5 DEF Trusted
  <2>2. PICK c \in Books : p = c.proofs[1]
    BY <1>3
  <2>3. IsBook(c) /\ 1 \in DOMAIN c.proofs /\ IsBook(b)
    BY <1>2 DEF IsReported
  <2>4. IsProof(p, "proof-v1", c.source)
    BY <2>2, <2>3 DEF IsBook, Range
  <2>5. IsLeaf(p.leaf) /\ Len(p.steps) \in Nat
    <3>1. \A k \in DOMAIN c.source : IsLeaf(c.source[k])
      BY <2>3 DEF IsBook, IsSeq
    <3> QED
      BY <2>4, <3>1 DEF IsProof, IsSeq
  <2>6. Proves(b.signed, leaf_node(p.leaf), p.steps, p.report_digest, Venue)
    BY <2>1, VerifyHolds
  <2>7. b.signed.report.root_sums[USDA] = Owed(b.source)
    BY <2>3, <2>5, <2>6, FoldMeans
  <2> QED
    BY <1>4, <1>5, <2>7
<1>6. ASSUME level \in {"issuer-attested", "third-party-attested"}
      PROVE  /\ level = "issuer-attested" => VouchedFor(f, "issuer", issued)
             /\ level = "third-party-attested" => VouchedFor(f, "third-party", issued)
  <2>1. PICK a \in evidence.attestations :
          Attests(a, b.signed.report, field, Trusted) /\ level = AttestedLevel(a.attestation.role)
    BY <1>4, <1>6
  <2>2. PICK d \in OfKind("attestation") : a \in ReceivedAttestation(d.doc, b.signed)
    BY <1>3
  <2>3. /\ d.key \in DOMAIN Trusted.attestors
        /\ Trusted.attestors[d.key] = a.attestation.role
        /\ d.doc.attestation.role = a.attestation.role
        /\ d.doc.attestation.field = field
        /\ d.doc.attestation.report_digest = report_digest(b.signed.report)
    <3>1. IsAttested(d)
      BY <1>2
    <3>2. PICK signed : signed = b.signed
      OBVIOUS
    <3>3. PICK body : body = b.signed.report
      OBVIOUS
    <3>4. a \in ReceivedAttestation(d.doc, signed) /\ Attests(a, body, field, Trusted)
      BY <2>1, <2>2, <3>2, <3>3
    <3>5. /\ d.key \in DOMAIN Trusted.attestors
          /\ Trusted.attestors[d.key] = a.attestation.role
          /\ d.doc.attestation.role = a.attestation.role
          /\ d.doc.attestation.field = field
          /\ d.doc.attestation.report_digest = report_digest(body)
      BY <3>1, <3>4, AttestedMeans
    <3> QED
      BY <3>3, <3>5
  <2>4. VouchedFor(f, a.attestation.role, issued)
    BY <1>1, <2>3 DEF VouchedFor
  <2>5. a.attestation.role \in {"issuer", "third-party"}
    BY <2>3 DEF Trusted
  <2>6. /\ level = "issuer-attested" => a.attestation.role = "issuer"
        /\ level = "third-party-attested" => a.attestation.role = "third-party"
    BY <2>1, <2>5 DEF AttestedLevel
  <2> QED
    BY <2>4, <2>6
<1>7. ASSUME level = "not-disclosed"
      PROVE  /\ b.signed.report.manifest[1].fields[field] = "Withheld"
             /\ ~carries_data(b.signed.report, field)
  <2>1. withheld(b.signed.report, field)
    BY <1>4, <1>7
  <2>2. PICK m : b.signed.report.manifest = <<m>>
    BY <1>2 DEF IsReported
  <2> QED
    BY <2>1, <2>2 DEF withheld
<1>8. ASSUME level = "ledger-derived"
      PROVE  /\ \E d \in OfKind("trace") : d.anchor.report_digest = report_digest(b.signed.report)
             /\ \E d \in OfKind("trace") :
                  d.graph.derivations[1].field = field /\ d.graph.sources[1].kind = "participant"
  <2>1. PICK a \in Range(evidence.anchor) : anchors(b.signed.report, a)
    BY <1>4, <1>8
  <2>2. PICK g \in Range(evidence.provenance) : derives_from_ledger(g, field)
    BY <1>4, <1>8
  <2>3. \E d \in OfKind("trace") : d.anchor.report_digest = report_digest(b.signed.report)
    BY <1>3, <2>1 DEF anchors
  <2>4. PICK d \in OfKind("trace") : g = d.graph
    BY <1>3
  <2>5. d.graph.derivations[1].field = field /\ d.graph.sources[1].kind = "participant"
    BY <1>2, <2>2, <2>4, TracedMeans
  <2> QED
    BY <2>3, <2>5
<1>9. Backed(f, issued)
  BY <1>1, <1>5, <1>6, <1>7, <1>8 DEF Backed
<1> QED
  BY <1>9

LEMMA LevelAccepted ==
  ASSUME AcceptLevel, \A i \in DOMAIN issued : IsEvidence(issued[i])
  PROVE  \E f : Keeps(f) /\ Backed(f, issued)
<1>1. PICK b \in Books : \E evidence \in Evidences(b.signed), level \in AssuranceLevels,
           field \in {"root_sums", "mark_prices"} :
        LET statement == [format_version |-> "assurance-v1",
                          report_digest |-> report_digest(b.signed.report),
                          levels |-> [f \in {field} |-> level]]
        IN
        /\ verify_assurance(b.signed, statement, evidence, Trusted) = "Ok"
        /\ Accept([what |-> level, signed |-> b.signed, field |-> field])
  BY DEF AcceptLevel
<1>2. PICK evidence \in Evidences(b.signed), level \in AssuranceLevels,
           field \in {"root_sums", "mark_prices"} :
        LET statement == [format_version |-> "assurance-v1",
                          report_digest |-> report_digest(b.signed.report),
                          levels |-> [f \in {field} |-> level]]
        IN
        /\ verify_assurance(b.signed, statement, evidence, Trusted) = "Ok"
        /\ Accept([what |-> level, signed |-> b.signed, field |-> field])
  BY <1>1
<1>3. PICK statement : statement = [format_version |-> "assurance-v1",
                                    report_digest |-> report_digest(b.signed.report),
                                    levels |-> [f \in {field} |-> level]]
  OBVIOUS
<1>4. verify_assurance(b.signed, statement, evidence, Trusted) = "Ok"
  BY <1>2, <1>3
<1>5. \A g \in DOMAIN statement.levels :
        statement.levels[g] \in establish(b.signed, evidence, Trusted, g)
  BY <1>4, AssuranceHolds
<1>6. field \in DOMAIN statement.levels /\ statement.levels[field] = level
  BY <1>3
<1>7. level \in establish(b.signed, evidence, Trusted, field)
  BY <1>5, <1>6
<1> DEFINE f == [what |-> level, signed |-> b.signed, field |-> field]
<1>8. Backed(f, issued)
  BY <1>7, LevelBacked
<1>9. Keeps(f)
  BY <1>2, AcceptKeeps
<1> QED
  BY <1>8, <1>9

LEMMA ClaimsKept ==
  ASSUME Claims, [Next]_vars
  PROVE  Claims'
<1> SUFFICES ASSUME topic' = "assurance"
             PROVE  /\ IsSeq(issued')
                    /\ \A i \in DOMAIN issued' : IsEvidence(issued'[i])
                    /\ \A f \in accepted' : Backed(f, issued')
  BY DEF Claims
<1>1. topic = "assurance"
  BY TopicStays
<1>2. /\ IsSeq(issued)
      /\ \A i \in DOMAIN issued : IsEvidence(issued[i])
      /\ \A f \in accepted : Backed(f, issued)
  BY <1>1 DEF Claims
<1>3. CASE UNCHANGED readersVars
  BY <1>2, <1>3 DEF readersVars
<1>4. ASSUME NEW d, Adds(d), IsEvidence(d)
      PROVE  /\ IsSeq(issued')
             /\ \A i \in DOMAIN issued' : IsEvidence(issued'[i])
             /\ \A f \in accepted' : Backed(f, issued')
  <2>1. /\ IsSeq(issued')
        /\ \A i \in DOMAIN issued : i \in DOMAIN issued' /\ issued'[i] = issued[i]
        /\ \A i \in DOMAIN issued' : i \in DOMAIN issued \/ issued'[i] = d
    BY <1>2, <1>4, StaysIssued
  <2>2. Range(issued) \subseteq Range(issued')
    BY <2>1 DEF Range
  <2>3. \A f : Backed(f, issued) => Backed(f, issued')
    BY <2>2, BackedStays
  <2>4. accepted' = accepted
    BY <1>4 DEF Adds
  <2> QED
    BY <1>2, <1>4, <2>1, <2>3, <2>4
<1>5. CASE IssueReport
  BY <1>4, <1>5, ReportIssued
<1>6. CASE IssueAttestation
  BY <1>4, <1>6, AttestationIssued
<1>7. CASE IssueTrace
  BY <1>4, <1>7, TraceIssued
<1>8. CASE AcceptLevel
  <2>1. PICK f : Keeps(f) /\ Backed(f, issued)
    BY <1>2, <1>8, LevelAccepted
  <2>2. issued' = issued /\ accepted' = accepted \cup {f}
    BY <2>1 DEF Keeps
  <2> QED
    BY <1>2, <2>1, <2>2
<1> QED
  BY <1>1, <1>3, <1>5, <1>6, <1>7, <1>8, TopicSteps DEF AssuranceNext

\* What a level a reader accepts claims is so, of that field and that report
\* (assurance.rs establish, SPEC.md 16.1), whatever other days' evidence, altered
\* evidence or strangers' attestations came with it.
THEOREM NoOverClaimHolds == Spec => []NoOverClaim
<1>1. Init => Claims
  BY NoneIsSeq DEF Init, Claims
<1>2. Claims /\ [Next]_vars => Claims'
  BY ClaimsKept
<1>3. Claims => NoOverClaim
  <2> SUFFICES ASSUME Claims, topic = "assurance"
               PROVE  NoOverClaim
    BY DEF NoOverClaim
  <2>1. \A f \in accepted : Backed(f, issued)
    BY DEF Claims
  <2>2. /\ Books = BooksIn(issued) /\ \A kind : OfKind(kind) = KindIn(issued, kind)
        /\ \A f, role : AttestedTo(f, role) <=> VouchedFor(f, role, issued)
    BY DEF Books, BooksIn, OfKind, KindIn, AttestedTo, VouchedFor
  <2>3. \A what : \A f \in Facts(what) : Backed(f, issued) /\ f.what = what
    BY <2>1 DEF Facts
  <2>4. ASSUME NEW f \in Facts("cryptographically-verified")
        PROVE  /\ f.field = "root_sums"
               /\ \E b \in Books :
                    b.signed = f.signed /\ f.signed.report.root_sums[USDA] = Owed(b.source)
    BY <2>2, <2>3 DEF Backed
  <2>5. /\ \A f \in Facts("issuer-attested") : AttestedTo(f, "issuer")
        /\ \A f \in Facts("third-party-attested") : AttestedTo(f, "third-party")
    BY <2>2, <2>3 DEF Backed
  <2>6. ASSUME NEW f \in Facts("not-disclosed")
        PROVE  /\ f.signed.report.manifest[1].fields[f.field] = "Withheld"
               /\ ~carries_data(f.signed.report, f.field)
    BY <2>3 DEF Backed
  <2>7. ASSUME NEW f \in Facts("ledger-derived")
        PROVE  /\ \E d \in OfKind("trace") : d.anchor.report_digest = report_digest(f.signed.report)
               /\ \E d \in OfKind("trace") :
                    d.graph.derivations[1].field = f.field /\ d.graph.sources[1].kind = "participant"
    BY <2>2, <2>3 DEF Backed
  <2> QED
    BY <2>4, <2>5, <2>6, <2>7 DEF NoOverClaim
<1> QED
  BY <1>1, <1>2, <1>3, PTL DEF Spec
-----------------------------------------------------------------------------
\* A delivery that verifies has the files the index names, with the bytes it
\* names, and no other (pack.rs verify_pack).
LEMMA PackPins ==
  ASSUME NEW signed, NEW trusted, NEW content, NEW got,
         DOMAIN signed.pack.entries = DOMAIN content,
         \A n \in DOMAIN content : signed.pack.entries[n] = member_digest(content[n]),
         DOMAIN content \subseteq Range(FileNames),
         FileNames \in Seq(Range(FileNames)),
         verify_pack(signed, trusted, got) = "Ok"
  PROVE  DOMAIN got = DOMAIN content /\ \A n \in DOMAIN content : got[n] = content[n]
<1> DEFINE entries == signed.pack.entries
           Checked(name) ==
             InOrder(<<Expect(name # PathName, "UnsafeName"),
                       Expect(name \in DOMAIN got, "Missing"),
                       Expect(/\ name \in DOMAIN got
                              /\ entries[name] = member_digest(got[name]), "Altered")>>)
           each == [i \in DOMAIN FileNames |-> IF FileNames[i] \in DOMAIN entries
                                               THEN Checked(FileNames[i]) ELSE "Ok"]
<1>1. InOrder(each) = "Ok" /\ Expect(DOMAIN got \subseteq DOMAIN entries, "Unlisted") = "Ok"
  <2> DEFINE version == expect_version(signed.pack.format_version, "pack-v1")
             known == Expect(signed.signature.public_key = trusted, "UnknownSigner")
             genuine == Expect(verify_signature(trusted, pack_digest(signed.pack),
                                                signed.signature.value) = "Ok", "BadSignature")
             listed == Expect(DOMAIN got \subseteq DOMAIN entries, "Unlisted")
  <2>1. InOrder(<<version, known, genuine, InOrder(each), listed>>) = "Ok"
    BY DEF verify_pack
  <2> HIDE DEF version, known, genuine, each, listed
  <2>2. InOrder(each) = "Ok" /\ listed = "Ok"
    BY <2>1, AllFiveHold
  <2> QED
    BY <2>2 DEF listed
<1>2. DOMAIN got \subseteq DOMAIN content
  BY <1>1 DEF Expect
<1>3. ASSUME NEW n \in DOMAIN content
      PROVE  n \in DOMAIN got /\ got[n] = content[n]
  <2>1. PICK i \in DOMAIN FileNames : FileNames[i] = n
    BY DEF Range
  <2>2. each[i] = "Ok"
    <3>1. DOMAIN each \subseteq Nat /\ i \in DOMAIN each
      OBVIOUS
    <3> HIDE DEF each
    <3> QED
      BY <1>1, <3>1, InOrderOk
  <2>3. Checked(n) = "Ok"
    <3> HIDE DEF Checked
    <3> QED
      BY <2>1, <2>2
  <2>4. Expect(n \in DOMAIN got /\ entries[n] = member_digest(got[n]), "Altered") = "Ok"
    BY <2>3, AllHold
  <2>5. n \in DOMAIN got /\ member_digest(content[n]) = member_digest(got[n])
    BY <2>4 DEF Expect
  <2> QED
    BY <2>5 DEF member_digest
<1> QED
  BY <1>2, <1>3

-----------------------------------------------------------------------------
\* The output of a run: files of different names, the index last.

Names == Range(FileNames)
IndexName == "pack.json"

LEMMA ByNameGives ==
  ASSUME NEW files, \A i, j \in DOMAIN files : files[i].name = files[j].name => i = j
  PROVE  /\ DOMAIN ByName(files) = {files[i].name : i \in DOMAIN files}
         /\ \A i \in DOMAIN files : ByName(files)[files[i].name] = files[i].bytes
<1>1. DOMAIN ByName(files) = {files[i].name : i \in DOMAIN files}
  BY DEF ByName, Range
<1>2. ASSUME NEW i \in DOMAIN files
      PROVE  ByName(files)[files[i].name] = files[i].bytes
  <2> DEFINE n == files[i].name
             f == CHOOSE g \in Range(files) : g.name = n
  <2>1. files[i] \in Range(files)
    BY DEF Range
  <2>2. f \in Range(files) /\ f.name = n
    BY <2>1
  <2>3. PICK j \in DOMAIN files : f = files[j]
    BY <2>2 DEF Range
  <2>4. f = files[i]
    BY <2>2, <2>3
  <2>5. ByName(files)[n] = f.bytes
    BY <2>1 DEF ByName
  <2> QED
    BY <2>4, <2>5
<1> QED
  BY <1>1, <1>2

LEMMA ProofsOf ==
  ASSUME NEW given, NEW meta, NEW key
  PROVE  /\ DOMAIN publish(given, meta, key).proofs = DOMAIN given
         /\ \A i \in DOMAIN given : publish(given, meta, key).proofs[i].leaf = given[i]
BY DEF publish, Publication

\* One leaf for each customer.
LEMMA LeavesOf ==
  ASSUME NEW rows \in Exports, NEW time \in Times
  PROVE  LET given == read_balances(rows, time) IN
         /\ \E n \in Nat : DOMAIN given = 1 .. n
         /\ \A i \in DOMAIN given : given[i].subject \in Customers
         /\ \A i, j \in DOMAIN given : given[i].subject = given[j].subject => i = j
<1> DEFINE Users == {r.user : r \in Range(rows)}
           users == SaltOrder[time][Users]
           given == read_balances(rows, time)
<1>1. Users \in SUBSET Customers
  BY DEF Customers
<1>2. users \in Seq(Users) /\ \A i, j \in DOMAIN users : users[i] = users[j] => i = j
  <2> HIDE DEF Users
  <2> QED
    BY <1>1, OrderAssumption
<1>3. DOMAIN given = DOMAIN users /\ \A i \in DOMAIN users : given[i].subject = users[i]
  BY DEF read_balances
<1>4. /\ Len(users) \in Nat /\ DOMAIN users = 1 .. Len(users)
      /\ \A i \in DOMAIN users : users[i] \in Customers
  <2> HIDE DEF users, Users
  <2> QED
    BY <1>1, <1>2
<1> HIDE DEF users, given, Users
<1>5. /\ \E n \in Nat : DOMAIN given = 1 .. n
      /\ \A i \in DOMAIN given : given[i].subject \in Customers
      /\ \A i, j \in DOMAIN given : given[i].subject = given[j].subject => i = j
  BY <1>2, <1>3, <1>4
<1> QED
  BY <1>5 DEF given

LEMMA TwoAndMore ==
  ASSUME NEW a, NEW b, NEW n \in Nat, NEW more, DOMAIN more = 1 .. n,
         more = [i \in 1 .. n |-> more[i]]
  PROVE  LET all == <<a, b>> \o more IN
         /\ all \in Seq(Range(all))
         /\ Len(all) = n + 2
         /\ all[1] = a /\ all[2] = b
         /\ \A i \in 3 .. (n + 2) : all[i] = more[i - 2]
<1> DEFINE S == {a, b} \cup {more[i] : i \in 1 .. n}
           all == <<a, b>> \o more
<1>1. <<a, b>> \in Seq(S) /\ more \in Seq(S) /\ Len(more) = n
  <2>1. more \in [1 .. n -> S]
    OBVIOUS
  <2> HIDE DEF S
  <2> QED
    BY <2>1 DEF S
<1> HIDE DEF S
<1>2. all \in Seq(S) /\ Len(all) = n + 2
  BY <1>1
<1>3. all[1] = a /\ all[2] = b /\ \A i \in 3 .. (n + 2) : all[i] = more[i - 2]
  BY <1>1
<1> HIDE DEF all
<1>4. all \in Seq(Range(all))
  BY <1>2 DEF Range
<1> QED
  BY <1>2, <1>3, <1>4 DEF all

\* A run's files: the members under names of their own, then an index that gives
\* the digest of each of them (publish.rs main).
IsOutput(files, content, signed) ==
  /\ files = Append(content, file(IndexName, "pack", signed))
  /\ content \in Seq(Range(content))
  /\ \A i \in DOMAIN content : content[i].name \in Names \ {IndexName, PathName}
  /\ \A i, j \in DOMAIN content : content[i].name = content[j].name => i = j
  /\ signed.pack.entries = [n \in DOMAIN ByName(content) |-> member_digest(ByName(content)[n])]
  /\ signed.pack.format_version = "pack-v1"
  /\ signed.signature = SignatureOf(Seed, pack_digest(signed.pack))

LEMMA OutputIs ==
  ASSUME NEW rows \in Exports, NEW time \in Times
  PROVE  \E content, signed : IsOutput(Output(rows, time), content, signed)
<1> DEFINE meta == [profile |-> "solvency.liabilities", publisher |-> "publisher",
                    snapshot_time |-> time, ledger_offset |-> 1, mark_prices |-> Nothing,
                    bad_debt |-> Nothing, house_accounts |-> 0, house_totals |-> Nothing,
                    manifest |-> <<>>]
           given == read_balances(rows, time)
           published == publish(given, meta, Seed)
           reported == file("report.json", "report", published.signed)
           anchored == file("anchor.json", "anchor", anchor_report(published.signed, <<>>))
           more == [i \in DOMAIN published.proofs |->
                      file(proof_filename(published.proofs[i].leaf.subject), "proof",
                           published.proofs[i])]
           content == <<reported, anchored>> \o more
           signed == build_pack(meta.publisher, time, report_digest(published.signed.report),
                                content, Seed).signed
<1>1. Output(rows, time) = Append(content, file(IndexName, "pack", signed))
  BY DEF Output, IndexName
<1>2. signed.pack.entries =
        [n \in DOMAIN ByName(content) |-> member_digest(ByName(content)[n])]
  BY DEF build_pack
<1>13. /\ signed.pack.format_version = "pack-v1"
       /\ signed.signature = SignatureOf(Seed, pack_digest(signed.pack))
  BY DEF build_pack
<1> HIDE DEF signed
<1>3. PICK n \in Nat : DOMAIN given = 1 .. n
  BY LeavesOf
<1>4. /\ DOMAIN more = 1 .. n
      /\ \A i \in 1 .. n : more[i].name = proof_filename(given[i].subject)
  <2>1. DOMAIN published.proofs = 1 .. n /\ \A i \in 1 .. n : published.proofs[i].leaf = given[i]
    BY <1>3, ProofsOf
  <2> HIDE DEF given, published
  <2> QED
    BY <2>1 DEF file
<1>5. /\ \A i \in 1 .. n :
           more[i].name \in Names \ {"report.json", "anchor.json", IndexName, PathName}
      /\ \A i, j \in 1 .. n : more[i].name = more[j].name => i = j
  <2> HIDE DEF given, more
  <2>1. /\ \A i \in 1 .. n : given[i].subject \in Customers
        /\ \A i, j \in 1 .. n : given[i].subject = given[j].subject => i = j
    BY <1>3, LeavesOf DEF given
  <2> QED
    BY <1>4, <2>1, NamesAssumption DEF Names, IndexName
<1>6. more = [i \in 1 .. n |-> more[i]]
  BY <1>4
<1>7. /\ reported.name = "report.json" /\ anchored.name = "anchor.json"
      /\ {"report.json", "anchor.json"} \subseteq Names \ {IndexName, PathName}
  BY NamesAssumption DEF file, Names, IndexName
<1> HIDE DEF more, reported, anchored
<1>8. /\ content \in Seq(Range(content)) /\ Len(content) = n + 2
      /\ content[1] = reported /\ content[2] = anchored
      /\ \A i \in 3 .. (n + 2) : content[i] = more[i - 2]
  BY <1>4, <1>6, TwoAndMore
<1> HIDE DEF content
<1>9. DOMAIN content = 1 .. (n + 2)
  BY <1>8
<1>10. ASSUME NEW i \in 3 .. (n + 2)
       PROVE  content[i] = more[i - 2] /\ i - 2 \in 1 .. n
  BY <1>8
<1>11. ASSUME NEW i \in DOMAIN content
       PROVE  content[i].name \in Names \ {IndexName, PathName}
  BY <1>5, <1>7, <1>8, <1>9, <1>10
<1>12. ASSUME NEW i \in DOMAIN content, NEW j \in DOMAIN content,
              content[i].name = content[j].name
       PROVE  i = j
  <2>1. ASSUME NEW k \in DOMAIN content, k \in 3 .. (n + 2)
        PROVE  content[k].name \notin {"report.json", "anchor.json"}
    BY <1>5, <1>10, <2>1
  <2>2. CASE i \in 3 .. (n + 2) /\ j \in 3 .. (n + 2)
    <3>1. i - 2 = j - 2
      BY <1>5, <1>10, <1>12, <2>2
    <3> QED
      BY <2>2, <3>1
  <2>3. CASE ~(i \in 3 .. (n + 2) /\ j \in 3 .. (n + 2))
    BY <1>7, <1>8, <1>9, <1>12, <2>1, <2>3
  <2> QED
    BY <2>2, <2>3
<1>14. IsOutput(Output(rows, time), content, signed)
  BY <1>1, <1>2, <1>8, <1>11, <1>12, <1>13 DEF IsOutput
<1> QED
  BY <1>14

\* What a run writes, by name.
Runs == {ByName(Output(rows, time)) : rows \in Exports, time \in Times}

LEMMA RunFiles ==
  ASSUME NEW rows \in Exports, NEW time \in Times
  PROVE  LET files == Output(rows, time) IN
         /\ files \in Seq(Range(files)) /\ files # <<>>
         /\ \A i, j \in DOMAIN files : files[i].name = files[j].name => i = j
         /\ \A i \in DOMAIN files : files[i].name \in Names
<1> DEFINE files == Output(rows, time)
<1>0. PICK content, signed : IsOutput(Output(rows, time), content, signed)
  BY OutputIs
<1>1. /\ Output(rows, time) = Append(content, file(IndexName, "pack", signed))
      /\ content \in Seq(Range(content))
      /\ \A i \in DOMAIN content : content[i].name \in Names \ {IndexName, PathName}
      /\ \A i, j \in DOMAIN content : content[i].name = content[j].name => i = j
      /\ signed.pack.entries =
           [n \in DOMAIN ByName(content) |-> member_digest(ByName(content)[n])]
  BY <1>0 DEF IsOutput
<1> DEFINE index == file(IndexName, "pack", signed)
<1>2. index.name = IndexName /\ IndexName \in Names
  BY NamesAssumption DEF file, Names, IndexName
<1> HIDE DEF index, files
<1>3. /\ Len(content) \in Nat /\ DOMAIN content = 1 .. Len(content)
      /\ DOMAIN files = 1 .. (Len(content) + 1)
      /\ \A i \in DOMAIN content : files[i] = content[i]
      /\ files[Len(content) + 1] = index
  <2>1. files = Append(content, index) /\ content \in Seq(Range(content))
    BY <1>1 DEF index, files
  <2> QED
    BY <2>1
<1>4. files \in Seq(Range(files)) /\ files # <<>>
  <2> DEFINE S == Range(content) \cup {index}
  <2>1. files = Append(content, index) /\ content \in Seq(S) /\ index \in S
    <3>1. content \in Seq(Range(content)) /\ Range(content) \subseteq S
      BY <1>1
    <3> HIDE DEF S
    <3> QED
      BY <1>1, <3>1 DEF index, files, S
  <2>2. files \in Seq(S) /\ Len(files) \in Nat /\ DOMAIN files = 1 .. Len(files)
    <3> HIDE DEF S
    <3> QED
      BY <2>1
  <2>3. \A i \in 1 .. Len(files) : files[i] \in Range(files)
    BY <2>2 DEF Range
  <2>4. files \in [1 .. Len(files) -> Range(files)]
    <3> HIDE DEF S
    <3> QED
      BY <2>2, <2>3
  <2>5. files # <<>>
    BY <1>3
  <2> QED
    BY <2>2, <2>4, <2>5
<1>5. ASSUME NEW i \in DOMAIN files
      PROVE  i \in DOMAIN content \/ i = Len(content) + 1
  BY <1>3
<1>6. \A i, j \in DOMAIN files : files[i].name = files[j].name => i = j
  BY <1>1, <1>2, <1>3, <1>5
<1>7. \A i \in DOMAIN files : files[i].name \in Names
  BY <1>1, <1>2, <1>3, <1>5
<1> QED
  BY <1>4, <1>6, <1>7 DEF files

\* The index of a run gives the digest of each of its other files, under the
\* publisher's signature.
IsIndex(e, signed) ==
  /\ IndexName \in DOMAIN e /\ e[IndexName] = <<"pack", signed>>
  /\ DOMAIN e \ {IndexName} \subseteq Names \ {PathName}
  /\ signed.pack.entries = [n \in DOMAIN e \ {IndexName} |-> member_digest(e[n])]
  /\ signed.pack.format_version = "pack-v1"
  /\ signed.signature = SignatureOf(Seed, pack_digest(signed.pack))

LEMMA RunIndex ==
  ASSUME NEW rows \in Exports, NEW time \in Times
  PROVE  \E signed : IsIndex(ByName(Output(rows, time)), signed)
<1> DEFINE files == Output(rows, time)
           e == ByName(files)
<1>1. PICK content, signed : IsOutput(files, content, signed)
  BY OutputIs
<1>2. /\ files = Append(content, file(IndexName, "pack", signed))
      /\ content \in Seq(Range(content))
      /\ \A i \in DOMAIN content : content[i].name \in Names \ {IndexName, PathName}
      /\ \A i, j \in DOMAIN content : content[i].name = content[j].name => i = j
      /\ signed.pack.entries =
           [n \in DOMAIN ByName(content) |-> member_digest(ByName(content)[n])]
      /\ signed.pack.format_version = "pack-v1"
      /\ signed.signature = SignatureOf(Seed, pack_digest(signed.pack))
  BY <1>1 DEF IsOutput
<1> DEFINE index == file(IndexName, "pack", signed)
           last == Len(content) + 1
<1>3. index.name = IndexName /\ index.bytes = <<"pack", signed>>
  BY DEF file
<1>4. \A i, j \in DOMAIN files : files[i].name = files[j].name => i = j
  BY RunFiles
<1> HIDE DEF files
<1>5. /\ DOMAIN content = 1 .. Len(content) /\ Len(content) \in Nat
      /\ DOMAIN files = 1 .. last
      /\ \A i \in DOMAIN content : files[i] = content[i]
      /\ files[last] = index
  <2>1. files = Append(content, index) /\ content \in Seq(Range(content))
    BY <1>2
  <2> HIDE DEF index
  <2> QED
    BY <2>1
<1>6. /\ DOMAIN e = {files[i].name : i \in DOMAIN files}
      /\ \A i \in DOMAIN files : e[files[i].name] = files[i].bytes
  BY <1>4, ByNameGives
<1>7. /\ DOMAIN ByName(content) = {content[i].name : i \in DOMAIN content}
      /\ \A i \in DOMAIN content : ByName(content)[content[i].name] = content[i].bytes
  BY <1>2, ByNameGives
<1> HIDE DEF index, e
<1>8. IndexName \in DOMAIN e /\ e[IndexName] = <<"pack", signed>>
  BY <1>3, <1>5, <1>6
<1>9. /\ DOMAIN ByName(content) = DOMAIN e \ {IndexName}
      /\ \A n \in DOMAIN e \ {IndexName} : ByName(content)[n] = e[n]
  <2>1. \A i \in DOMAIN files : i \in DOMAIN content \/ i = last
    BY <1>5
  <2>2. \A i \in DOMAIN content :
          i \in DOMAIN files /\ files[i] = content[i] /\ content[i].name # IndexName
    BY <1>2, <1>5
  <2>3. ASSUME NEW n \in DOMAIN ByName(content)
        PROVE  n \in DOMAIN e \ {IndexName}
    <3>1. PICK i \in DOMAIN content : n = content[i].name
      BY <1>7
    <3> QED
      BY <1>6, <2>2, <3>1
  <2>4. ASSUME NEW n \in DOMAIN e \ {IndexName}
        PROVE  n \in DOMAIN ByName(content) /\ ByName(content)[n] = e[n]
    <3>1. PICK i \in DOMAIN files : n = files[i].name
      BY <1>6
    <3>2. i \in DOMAIN content
      BY <1>3, <1>5, <2>1, <3>1
    <3> QED
      BY <1>6, <1>7, <2>2, <3>1, <3>2
  <2> QED
    BY <2>3, <2>4
<1>10. ASSUME NEW n \in DOMAIN e \ {IndexName}
       PROVE  n \in Names \ {PathName}
  <2>1. PICK i \in DOMAIN content : n = content[i].name
    BY <1>7, <1>9
  <2> QED
    BY <1>2, <2>1
<1>11. IsIndex(e, signed)
  BY <1>2, <1>8, <1>9, <1>10 DEF IsIndex
<1> QED
  BY <1>11 DEF e, files

\* A delivery that verifies against the index of a run is what that run wrote.
LEMMA RunIndexPins ==
  ASSUME NEW e \in Runs, NEW got,
         got = [n \in DOMAIN got |-> got[n]],
         verify_pack(e[IndexName][2], Seed, got) = "Ok"
  PROVE  IndexName \in DOMAIN e /\ got = Without(e, IndexName)
<1>1. PICK signed : IsIndex(e, signed)
  BY RunIndex DEF Runs
<1> DEFINE content == Without(e, IndexName)
<1>2. /\ IndexName \in DOMAIN e /\ e[IndexName][2] = signed
      /\ DOMAIN content \subseteq Range(FileNames)
      /\ DOMAIN signed.pack.entries = DOMAIN content
      /\ \A n \in DOMAIN content : signed.pack.entries[n] = member_digest(content[n])
  BY <1>1 DEF IsIndex, Without, Names
<1>3. content = [n \in DOMAIN content |-> content[n]]
  BY DEF Without
<1>4. FileNames \in Seq(Range(FileNames))
  BY NamesAssumption
<1> HIDE DEF content
<1>5. DOMAIN got = DOMAIN content /\ \A n \in DOMAIN content : got[n] = content[n]
  BY <1>2, <1>4, PackPins
<1> QED
  BY <1>2, <1>3, <1>5 DEF content

-----------------------------------------------------------------------------
\* Where everything on disk, and everything read from it, comes from.

Files == UNION {Range(Output(rows, time)) : rows \in Exports, time \in Times}

OfRun(name, bytes) ==
  \E i \in DOMAIN exports : name \in DOMAIN exports[i] /\ bytes = exports[i][name]

\* The run in progress writes its own files.
Writing ==
  /\ exports \in Seq(Runs)
  /\ todo \in Seq(Files)
  /\ todo # <<>> => exports # <<>>
  /\ \A i \in DOMAIN todo :
       /\ todo[i].name \in DOMAIN Last(exports)
       /\ todo[i].bytes = Last(exports)[todo[i].name]
  /\ torn => todo # <<>> /\ Head(todo).name \in DOMAIN disk

OnDisk ==
  /\ disk = [n \in DOMAIN disk |-> disk[n]]
  /\ \A n \in DOMAIN disk : disk[n] = Torn \/ OfRun(n, disk[n])

\* What verify-pack goes on with once its index is checked.
IndexChecked == reader.at \in {"report", "proofs", "sweep"} \/ Passed

IsReader(r) ==
  /\ r = [index |-> r.index, got |-> r.got, report |-> r.report, swept |-> r.swept,
          left |-> r.left, at |-> r.at, exit |-> r.exit]
  /\ r.got = [n \in DOMAIN r.got |-> r.got[n]]

Reading ==
  /\ IsReader(reader)
  /\ reader.index # <<>> => OfRun(IndexName, reader.index)
  /\ reader.index # <<>> /\ IndexChecked => verify_pack(reader.index[2], Seed, reader.got) = "Ok"
  /\ reader.at \in {"proofs", "sweep"} \/ Passed => OfRun("report.json", reader.report)
  /\ \A n \in DOMAIN reader.swept : reader.swept[n] = Torn \/ OfRun(n, reader.swept[n])
  /\ Passed => sweep_exit(reader.report, reader.swept, Seed) = EXIT_OK
  /\ reader.at = "sweep" => reader.left \subseteq DOMAIN disk

FromRuns == Writing /\ OnDisk /\ Reading

LEMMA FromRunsInit == DeliveryInit => FromRuns
<1> SUFFICES ASSUME DeliveryInit
             PROVE  FromRuns
  OBVIOUS
<1>1. /\ exports = <<>> /\ todo = <<>> /\ torn = FALSE
      /\ disk = [n \in {} |-> Torn] /\ reader = NoReader
  BY DEF DeliveryInit
<1>2. Writing
  BY <1>1 DEF Writing
<1>3. OnDisk
  BY <1>1 DEF OnDisk
<1>4. Reading
  BY <1>1 DEF Reading, IsReader, IndexChecked, Passed, NoReader, EXIT_OK
<1> QED
  BY <1>2, <1>3, <1>4 DEF FromRuns

\* What was of a run stays so.
LEMMA StaysOfRun ==
  ASSUME exports \in Seq(Runs), NEW e, exports' = Append(exports, e),
         NEW n, NEW b, OfRun(n, b)
  PROVE  OfRun(n, b)'
<1>1. PICK i \in DOMAIN exports : n \in DOMAIN exports[i] /\ b = exports[i][n]
  BY DEF OfRun
<1>2. i \in DOMAIN exports' /\ exports'[i] = exports[i]
  BY <1>1
<1> QED
  BY <1>1, <1>2 DEF OfRun

LEMMA BeginKeeps ==
  ASSUME FromRuns, NEW rows \in Exports, NEW time \in Times, BeginExport(rows, time)
  PROVE  FromRuns'
<1> DEFINE files == Output(rows, time)
           e == ByName(files)
<1>1. /\ todo' = files /\ exports' = Append(exports, e)
      /\ UNCHANGED <<disk, torn, reader>> /\ todo = <<>>
  BY DEF BeginExport
<1>2. /\ files \in Seq(Range(files)) /\ files # <<>>
      /\ \A i, j \in DOMAIN files : files[i].name = files[j].name => i = j
  BY RunFiles
<1>3. /\ DOMAIN e = {files[i].name : i \in DOMAIN files}
      /\ \A i \in DOMAIN files : e[files[i].name] = files[i].bytes
  <2> HIDE DEF files
  <2> QED
    BY <1>2, ByNameGives
<1>4. e \in Runs /\ Range(files) \subseteq Files
  BY DEF Runs, Files
<1> HIDE DEF files, e
<1>5. exports \in Seq(Runs)
  BY DEF FromRuns, Writing
<1>6. exports' \in Seq(Runs) /\ exports' # <<>> /\ Last(exports') = e
  BY <1>1, <1>4, <1>5 DEF Last
<1>7. files \in Seq(Files)
  BY <1>2, <1>4
<1>8. Writing'
  BY <1>1, <1>3, <1>6, <1>7 DEF FromRuns, Writing
<1>9. OnDisk'
  BY <1>1, <1>5, StaysOfRun DEF FromRuns, OnDisk
<1>10. Reading'
  BY <1>1, <1>5, StaysOfRun DEF FromRuns, Reading, IndexChecked, Passed
<1> QED
  BY <1>8, <1>9, <1>10 DEF FromRuns

LEMMA WriteKeeps ==
  ASSUME FromRuns, TruncateFile \/ FillFile \/ CrashExport
  PROVE  FromRuns'
<1>1. exports' = exports /\ reader' = reader
  BY DEF TruncateFile, FillFile, CrashExport
<1>2. \A n, b : OfRun(n, b)' <=> OfRun(n, b)
  BY <1>1 DEF OfRun
<1>3. DOMAIN disk \subseteq DOMAIN disk' => Reading'
  BY <1>1, <1>2 DEF FromRuns, Reading, IndexChecked, Passed
<1>4. CASE TruncateFile
  <2>1. Writing'
    BY <1>1, <1>4 DEF FromRuns, Writing, TruncateFile
  <2>2. OnDisk'
    BY <1>2, <1>4 DEF FromRuns, OnDisk, TruncateFile
  <2>3. DOMAIN disk \subseteq DOMAIN disk'
    BY <1>4 DEF TruncateFile
  <2> QED
    BY <1>3, <2>1, <2>2, <2>3 DEF FromRuns
<1>5. CASE FillFile
  <2> DEFINE next == Head(todo)
  <2>1. /\ todo \in Seq(Files) /\ todo # <<>> /\ exports \in Seq(Runs) /\ exports # <<>>
        /\ next.name \in DOMAIN disk
        /\ disk = [n \in DOMAIN disk |-> disk[n]]
        /\ disk' = [disk EXCEPT ![next.name] = next.bytes]
        /\ todo' = Tail(todo) /\ torn' = FALSE
    BY <1>5 DEF FromRuns, Writing, OnDisk, FillFile
  <2>2. 1 \in DOMAIN todo /\ next = todo[1]
    BY <2>1
  <2>3. Len(exports) \in DOMAIN exports
    BY <2>1
  <2>4. OfRun(next.name, next.bytes)
    BY <2>2, <2>3 DEF FromRuns, Writing, OfRun, Last
  <2>5. Writing'
    <3>1. /\ todo' \in Seq(Files)
          /\ \A i \in DOMAIN todo' : i + 1 \in DOMAIN todo /\ todo'[i] = todo[i + 1]
      BY <2>1
    <3> QED
      BY <1>1, <2>1, <3>1 DEF FromRuns, Writing
  <2> HIDE DEF next
  <2>6. OnDisk'
    BY <1>2, <2>1, <2>4 DEF FromRuns, OnDisk
  <2>7. DOMAIN disk \subseteq DOMAIN disk'
    BY <2>1
  <2> QED
    BY <1>3, <2>5, <2>6, <2>7 DEF FromRuns
<1>6. CASE CrashExport
  <2>1. Writing'
    BY <1>1, <1>6 DEF FromRuns, Writing, CrashExport
  <2>2. OnDisk'
    BY <1>2, <1>6 DEF FromRuns, OnDisk, CrashExport
  <2>3. disk' = disk
    BY <1>6 DEF CrashExport
  <2> QED
    BY <1>3, <2>1, <2>2, <2>3 DEF FromRuns
<1> QED
  BY <1>4, <1>5, <1>6

\* What a reader does leaves the directory and the runs as they are.
LEMMA ReadersTouchNothing ==
  ASSUME FromRuns, UNCHANGED <<disk, todo, torn, exports>>, Reading'
  PROVE  FromRuns'
<1>1. \A n, b : OfRun(n, b)' <=> OfRun(n, b)
  BY DEF OfRun
<1> QED
  BY <1>1 DEF FromRuns, Writing, OnDisk

LEMMA PackReadKeeps ==
  ASSUME FromRuns, ReadIndex \/ ListMembers \/ ReadMember \/ CheckIndex
  PROVE  FromRuns'
<1>1. UNCHANGED <<disk, todo, torn, exports>>
  BY DEF ReadIndex, ListMembers, ReadMember, CheckIndex
<1>2. \A n, b : OfRun(n, b)' <=> OfRun(n, b)
  BY <1>1 DEF OfRun
<1>3. Reading
  BY DEF FromRuns
<1> SUFFICES Reading'
  BY <1>1, ReadersTouchNothing
<1>4. CASE ReadIndex
  <2>1. OfRun(IndexName, disk["pack.json"])
    BY <1>4 DEF FromRuns, OnDisk, ReadIndex, IndexName
  <2>2. /\ IsReader(reader') /\ reader'.index = disk["pack.json"]
        /\ reader'.at = "list" /\ DOMAIN reader'.swept = {}
    BY <1>4 DEF ReadIndex, NoReader, IsReader
  <2> QED
    BY <1>2, <2>1, <2>2 DEF Reading, IndexChecked, Passed
<1>5. CASE ListMembers
  <2>1. /\ IsReader(reader') /\ reader'.at = "read" /\ reader'.index = reader.index
        /\ reader'.swept = reader.swept
    BY <1>3, <1>5 DEF ListMembers, Reading, IsReader
  <2> QED
    BY <1>2, <1>3, <2>1 DEF Reading, IndexChecked, Passed
<1>6. CASE ReadMember
  <2>1. PICK n \in reader.left :
          reader' = [reader EXCEPT
                       !.left = @ \ {n},
                       !.got = [m \in DOMAIN @ \cup {n} |-> IF m = n THEN disk[n] ELSE @[m]]]
    BY <1>6 DEF ReadMember
  <2>2. reader'.got = [m \in DOMAIN reader.got \cup {n} |->
                         IF m = n THEN disk[n] ELSE reader.got[m]]
    BY <1>3, <2>1 DEF Reading, IsReader
  <2>3. /\ IsReader(reader') /\ reader'.at = "read" /\ reader'.index = reader.index
        /\ reader'.swept = reader.swept
    BY <1>3, <1>6, <2>1, <2>2 DEF ReadMember, Reading, IsReader
  <2> QED
    BY <1>2, <1>3, <2>3 DEF Reading, IndexChecked, Passed
<1>7. CASE CheckIndex
  <2>1. CASE verify_pack(reader.index[2], Seed, reader.got) = "Ok"
    <3>1. reader' = [reader EXCEPT !.at = "report"]
      BY <1>7, <2>1 DEF CheckIndex
    <3>2. /\ IsReader(reader') /\ reader'.at = "report" /\ reader'.index = reader.index
          /\ reader'.got = reader.got /\ reader'.swept = reader.swept
      BY <1>3, <3>1 DEF Reading, IsReader
    <3> QED
      BY <1>2, <1>3, <2>1, <3>2 DEF Reading, Passed
  <2>2. CASE verify_pack(reader.index[2], Seed, reader.got) # "Ok"
    <3>1. reader' = [NoReader EXCEPT !.exit = EXIT_VERIFICATION_FAILED]
      BY <1>7, <2>2 DEF CheckIndex
    <3>2. /\ IsReader(reader') /\ reader'.at = "idle" /\ reader'.exit = 1
          /\ reader'.index = <<>> /\ DOMAIN reader'.swept = {}
      BY <3>1 DEF NoReader, IsReader, EXIT_VERIFICATION_FAILED
    <3> QED
      BY <3>2 DEF Reading, IndexChecked, Passed, EXIT_OK
  <2> QED
    BY <2>1, <2>2
<1> QED
  BY <1>4, <1>5, <1>6, <1>7

LEMMA SweepKeeps ==
  ASSUME FromRuns, Sweep \/ LoadReport \/ ListProofs \/ ReadProof \/ FinishSweep
  PROVE  FromRuns'
<1>1. UNCHANGED <<disk, todo, torn, exports>>
  BY DEF Sweep, LoadReport, ListProofs, ReadProof, FinishSweep
<1>2. \A n, b : OfRun(n, b)' <=> OfRun(n, b)
  BY <1>1 DEF OfRun
<1>3. Reading
  BY DEF FromRuns
<1> SUFFICES Reading'
  BY <1>1, ReadersTouchNothing
<1>4. CASE Sweep
  <2>1. /\ IsReader(reader') /\ reader'.index = <<>> /\ reader'.at = "report"
        /\ DOMAIN reader'.swept = {}
    BY <1>4 DEF Sweep, NoReader, IsReader
  <2> QED
    BY <1>2, <2>1 DEF Reading, Passed
<1>5. CASE LoadReport
  <2>1. CASE "report.json" \in DOMAIN disk /\ disk["report.json"] # Torn
    <3>1. OfRun("report.json", disk["report.json"])
      BY <2>1 DEF FromRuns, OnDisk
    <3>2. /\ reader.at = "report"
          /\ reader' = [reader EXCEPT !.report = disk["report.json"], !.at = "proofs"]
      BY <1>5, <2>1 DEF LoadReport
    <3>3. /\ IsReader(reader') /\ reader'.at = "proofs" /\ reader'.index = reader.index
          /\ reader'.got = reader.got /\ reader'.swept = reader.swept
          /\ reader'.report = disk["report.json"]
      BY <1>3, <3>2 DEF Reading, IsReader
    <3> QED
      BY <1>2, <1>3, <3>1, <3>2, <3>3 DEF Reading, IndexChecked, Passed
  <2>2. CASE ~("report.json" \in DOMAIN disk /\ disk["report.json"] # Torn)
    <3>1. reader' = [reader EXCEPT !.at = "idle", !.exit = EXIT_USAGE_OR_IO]
      BY <1>5, <2>2 DEF LoadReport
    <3>2. /\ IsReader(reader') /\ reader'.at = "idle" /\ reader'.exit = 2
          /\ reader'.index = reader.index /\ reader'.swept = reader.swept
      BY <1>3, <3>1 DEF Reading, IsReader, EXIT_USAGE_OR_IO
    <3> QED
      BY <1>2, <1>3, <3>2 DEF Reading, IndexChecked, Passed, EXIT_OK
  <2> QED
    BY <2>1, <2>2
<1>6. CASE ListProofs
  <2>1. /\ IsReader(reader') /\ reader.at = "proofs" /\ reader'.at = "sweep"
        /\ reader'.index = reader.index /\ reader'.got = reader.got
        /\ reader'.report = reader.report /\ reader'.swept = reader.swept
        /\ reader'.left = DOMAIN disk
    BY <1>3, <1>6 DEF ListProofs, Reading, IsReader
  <2> QED
    BY <1>1, <1>2, <1>3, <2>1 DEF Reading, IndexChecked, Passed
<1>7. CASE ReadProof
  <2>1. PICK i \in DOMAIN FileNames :
          /\ FileNames[i] \in reader.left
          /\ reader' = [reader EXCEPT
                          !.left = @ \ {FileNames[i]},
                          !.swept = [m \in DOMAIN @ \cup {FileNames[i]} |->
                                       IF m = FileNames[i] THEN disk[FileNames[i]] ELSE @[m]]]
    BY <1>7 DEF ReadProof
  <2> DEFINE n == FileNames[i]
  <2>2. n \in DOMAIN disk /\ (disk[n] = Torn \/ OfRun(n, disk[n]))
    BY <1>3, <1>7, <2>1 DEF ReadProof, Reading, FromRuns, OnDisk
  <2>3. /\ IsReader(reader') /\ reader.at = "sweep" /\ reader'.at = "sweep"
        /\ reader'.index = reader.index /\ reader'.got = reader.got
        /\ reader'.report = reader.report /\ reader'.left \subseteq reader.left
        /\ reader'.swept = [m \in DOMAIN reader.swept \cup {n} |->
                              IF m = n THEN disk[n] ELSE reader.swept[m]]
    BY <1>3, <1>7, <2>1 DEF ReadProof, Reading, IsReader
  <2> HIDE DEF n
  <2>4. \A m \in DOMAIN reader'.swept : reader'.swept[m] = Torn \/ OfRun(m, reader'.swept[m])
    BY <1>3, <2>2, <2>3 DEF Reading
  <2> QED
    BY <1>1, <1>2, <1>3, <2>3, <2>4 DEF Reading, IndexChecked, Passed
<1>8. CASE FinishSweep
  <2>1. /\ reader.at = "sweep"
        /\ reader' = [reader EXCEPT !.at = "idle",
                                   !.exit = sweep_exit(reader.report, reader.swept, Seed)]
    BY <1>8 DEF FinishSweep
  <2>2. /\ IsReader(reader') /\ reader'.at = "idle"
        /\ reader'.exit = sweep_exit(reader.report, reader.swept, Seed)
        /\ reader'.index = reader.index /\ reader'.got = reader.got
        /\ reader'.report = reader.report /\ reader'.swept = reader.swept
    BY <1>3, <2>1 DEF Reading, IsReader
  <2> QED
    BY <1>2, <1>3, <2>1, <2>2 DEF Reading, IndexChecked, Passed
<1> QED
  BY <1>4, <1>5, <1>6, <1>7, <1>8

\* Only a delivery's own actions touch it, whatever the topic.
LEMMA OtherTopics == Next => Deliver \/ UNCHANGED deliveryVars
<1> SUFFICES ASSUME Next, ~Deliver
             PROVE  UNCHANGED deliveryVars
  OBVIOUS
<1>1. ASSUME NEW document, Add(document)
      PROVE  UNCHANGED deliveryVars
  BY <1>1 DEF Add
<1>2. ASSUME NEW fact, Accept(fact)
      PROVE  UNCHANGED deliveryVars
  BY <1>2 DEF Accept
<1> HIDE DEF deliveryVars
<1>3. CASE RunCorpus
  BY <1>3 DEF RunCorpus
<1>4. CASE IssueBook \/ IssueEntity \/ IssueGroup
  <2>1. IssueGroup => \E document : Add(document)
    BY Zenon DEF IssueGroup
  <2> QED
    BY <1>1, <1>4, <2>1 DEF IssueBook, IssueEntity
<1>5. CASE IssueSide
  BY <1>1, <1>5 DEF IssueSide
<1>6. CASE IssueReport \/ IssueAttestation \/ IssueTrace
  BY <1>1, <1>6 DEF IssueReport, IssueAttestation, IssueTrace
<1>7. CASE IssueAnchored \/ IssueDisclosed
  BY <1>1, <1>7 DEF IssueAnchored, IssueDisclosed
<1>8. CASE AcceptProof \/ AcceptDump \/ AcceptChain
  BY <1>2, <1>8 DEF AcceptProof, AcceptDump, AcceptChain
<1>9. CASE AcceptHolding \/ AcceptCoverage \/ AcceptLevel
  BY <1>2, <1>9 DEF AcceptHolding, AcceptCoverage, AcceptLevel
<1>10. CASE AcceptHistory \/ AcceptDisclosed
  BY <1>2, <1>10 DEF AcceptHistory, AcceptDisclosed
<1> QED
  BY <1>3, <1>4, <1>5, <1>6, <1>7, <1>8, <1>9, <1>10 DEF Next

LEMMA FromRunsKept == FromRuns /\ [Next]_vars => FromRuns'
<1> SUFFICES ASSUME FromRuns, [Next]_vars
             PROVE  FromRuns'
  OBVIOUS
<1>1. CASE Deliver
  <2>1. DeliveryNext
    BY <1>1 DEF Deliver
  <2> QED
    BY <2>1, BeginKeeps, WriteKeeps, PackReadKeeps, SweepKeeps DEF DeliveryNext
<1>2. CASE UNCHANGED deliveryVars
  BY <1>2 DEF deliveryVars, FromRuns, Writing, OnDisk, Reading, IndexChecked, Passed, OfRun
<1>3. vars' = vars => UNCHANGED deliveryVars
  BY DEF vars
<1> QED
  BY <1>1, <1>2, <1>3, OtherTopics

\* Everything on disk is of some run, and an accepted delivery verifies against
\* the index of one, however runs crash and overlap with readers
\* (bin/publish.rs main, run.rs run_pack).
THEOREM FromRunsHolds == Spec => []FromRuns
<1>1. Init => FromRuns
  BY FromRunsInit DEF Init
<1> QED
  BY <1>1, FromRunsKept, PTL DEF Spec

\* A delivery verify-pack accepts is byte for byte what one run wrote (pack.rs
\* verify_pack), whatever the balances, the times and the number of runs.
THEOREM DeliveredWholeHolds == Spec => []DeliveredWhole
<1>1. ASSUME FromRuns
      PROVE  DeliveredWhole
  <2> SUFFICES ASSUME reader.index # <<>>, IndexChecked
               PROVE  \E i \in DOMAIN exports :
                        /\ reader.got = Without(exports[i], "pack.json")
                        /\ reader.index = exports[i]["pack.json"]
    BY DEF DeliveredWhole, IndexChecked
  <2>1. /\ OfRun(IndexName, reader.index)
        /\ verify_pack(reader.index[2], Seed, reader.got) = "Ok"
        /\ reader.got = [n \in DOMAIN reader.got |-> reader.got[n]]
        /\ exports \in Seq(Runs)
    BY <1>1 DEF FromRuns, Writing, Reading, IsReader
  <2>2. PICK i \in DOMAIN exports :
          IndexName \in DOMAIN exports[i] /\ reader.index = exports[i][IndexName]
    BY <2>1 DEF OfRun
  <2>3. exports[i] \in Runs
    BY <2>1, <2>2
  <2>4. reader.got = Without(exports[i], IndexName)
    BY <2>1, <2>2, <2>3, RunIndexPins
  <2> QED
    BY <2>2, <2>4 DEF IndexName
<1> QED
  BY <1>1, FromRunsHolds, PTL

-----------------------------------------------------------------------------
\* A report on disk and the proofs that verify against it are of one run.

MetaAt(time) ==
  [profile |-> "solvency.liabilities", publisher |-> "publisher",
   snapshot_time |-> time, ledger_offset |-> 1, mark_prices |-> Nothing,
   bad_debt |-> Nothing, house_accounts |-> 0, house_totals |-> Nothing,
   manifest |-> <<>>]

Published(rows, time) == publish(read_balances(rows, time), MetaAt(time), Seed)

\* The report of a run comes first, its proofs are those it published, and no file
\* is empty.
LEMMA OutputKinds ==
  ASSUME NEW rows \in Exports, NEW time \in Times
  PROVE  LET files == Output(rows, time) IN
         /\ 1 \in DOMAIN files
         /\ files[1] = file("report.json", "report", Published(rows, time).signed)
         /\ \A i \in DOMAIN files : files[i].bytes[1] = "proof" =>
              \E k \in DOMAIN Published(rows, time).proofs :
                files[i].bytes = <<"proof", Published(rows, time).proofs[k]>>
         /\ \A i \in DOMAIN files : files[i].bytes # Torn
<1> DEFINE given == read_balances(rows, time)
           published == Published(rows, time)
           reported == file("report.json", "report", published.signed)
           anchored == file("anchor.json", "anchor", anchor_report(published.signed, <<>>))
           more == [i \in DOMAIN published.proofs |->
                      file(proof_filename(published.proofs[i].leaf.subject), "proof",
                           published.proofs[i])]
           content == <<reported, anchored>> \o more
           signed == build_pack("publisher", time, report_digest(published.signed.report),
                                content, Seed).signed
           index == file("pack.json", "pack", signed)
           files == Output(rows, time)
<1>1. files = Append(content, index)
  BY DEF Output, Published, MetaAt
<1>2. PICK n \in Nat : DOMAIN given = 1 .. n
  BY LeavesOf
<1>3. DOMAIN published.proofs = 1 .. n
  <2> HIDE DEF given
  <2> QED
    BY <1>2, ProofsOf DEF Published, given
<1> HIDE DEF given, published, signed, files
<1>4. /\ DOMAIN more = 1 .. n /\ more = [i \in 1 .. n |-> more[i]]
      /\ \A i \in 1 .. n : more[i].bytes = <<"proof", published.proofs[i]>>
  BY <1>3 DEF file
<1>5. /\ reported.bytes[1] = "report" /\ anchored.bytes[1] = "anchor"
      /\ index.bytes[1] = "pack"
      /\ reported.bytes # Torn /\ anchored.bytes # Torn /\ index.bytes # Torn
      /\ \A i \in 1 .. n : more[i].bytes # Torn
  BY <1>4 DEF file, Torn
<1> HIDE DEF more, reported, anchored, index
<1>6. /\ content \in Seq(Range(content)) /\ Len(content) = n + 2
      /\ content[1] = reported /\ content[2] = anchored
      /\ \A i \in 3 .. (n + 2) : content[i] = more[i - 2]
  BY <1>4, TwoAndMore
<1> HIDE DEF content
<1>7. /\ DOMAIN files = 1 .. (n + 3)
      /\ \A i \in 1 .. (n + 2) : files[i] = content[i]
      /\ files[n + 3] = index
  BY <1>1, <1>6
<1>8. ASSUME NEW i \in DOMAIN files, files[i].bytes[1] = "proof"
      PROVE  \E k \in DOMAIN published.proofs : files[i].bytes = <<"proof", published.proofs[k]>>
  <2>1. i \in 3 .. (n + 2)
    BY <1>5, <1>6, <1>7, <1>8
  <2>2. i - 2 \in 1 .. n /\ files[i] = more[i - 2]
    BY <1>6, <1>7, <2>1
  <2> QED
    BY <1>3, <1>4, <2>2
<1>9. 1 \in DOMAIN files /\ files[1] = reported
  BY <1>6, <1>7
<1>10. ASSUME NEW i \in DOMAIN files
       PROVE  files[i].bytes # Torn
  <2>1. CASE i \in 3 .. (n + 2)
    <3>1. i - 2 \in 1 .. n /\ files[i] = more[i - 2]
      BY <1>6, <1>7, <2>1
    <3> QED
      BY <1>5, <3>1
  <2>2. CASE i \notin 3 .. (n + 2)
    BY <1>5, <1>6, <1>7, <2>2
  <2> QED
    BY <2>1, <2>2
<1> QED
  BY <1>8, <1>9, <1>10 DEF files, published, reported

\* The same of a run's files by name.
LEMMA RunKinds ==
  ASSUME NEW rows \in Exports, NEW time \in Times
  PROVE  LET e == ByName(Output(rows, time)) IN
         /\ "report.json" \in DOMAIN e
         /\ e["report.json"] = <<"report", Published(rows, time).signed>>
         /\ \A n \in DOMAIN e : e[n][1] = "proof" =>
              \E k \in DOMAIN Published(rows, time).proofs :
                e[n] = <<"proof", Published(rows, time).proofs[k]>>
         /\ \A n \in DOMAIN e : e[n] # Torn
<1> DEFINE files == Output(rows, time)
           e == ByName(files)
           published == Published(rows, time)
<1>1. /\ 1 \in DOMAIN files
      /\ files[1] = file("report.json", "report", published.signed)
      /\ \A i \in DOMAIN files : files[i].bytes[1] = "proof" =>
           \E k \in DOMAIN published.proofs : files[i].bytes = <<"proof", published.proofs[k]>>
      /\ \A i \in DOMAIN files : files[i].bytes # Torn
  BY OutputKinds
<1>2. \A i, j \in DOMAIN files : files[i].name = files[j].name => i = j
  BY RunFiles
<1> HIDE DEF files, published
<1>3. /\ DOMAIN e = {files[i].name : i \in DOMAIN files}
      /\ \A i \in DOMAIN files : e[files[i].name] = files[i].bytes
  BY <1>2, ByNameGives
<1>4. files[1].name = "report.json" /\ files[1].bytes = <<"report", published.signed>>
  BY <1>1 DEF file
<1> HIDE DEF e
<1>5. "report.json" \in DOMAIN e /\ e["report.json"] = <<"report", published.signed>>
  BY <1>1, <1>3, <1>4
<1>6. ASSUME NEW n \in DOMAIN e, e[n][1] = "proof"
      PROVE  \E k \in DOMAIN published.proofs : e[n] = <<"proof", published.proofs[k]>>
  <2>1. PICK i \in DOMAIN files : n = files[i].name
    BY <1>3
  <2>2. e[n] = files[i].bytes
    BY <1>3, <2>1
  <2> QED
    BY <1>1, <1>6, <2>2
<1>7. \A n \in DOMAIN e : e[n] # Torn
  BY <1>1, <1>3
<1> QED
  BY <1>5, <1>6, <1>7 DEF e, files, published

\* A run's report, and what each of its proofs is bound to.
LEMMA ReportOf ==
  ASSUME NEW rows \in Exports, NEW time \in Times
  PROVE  LET stated == Published(rows, time).signed.report
             given == read_balances(rows, time)
             nodes == [i \in DOMAIN given |-> leaf_node(given[i])]
         IN  /\ IsReport(stated) /\ stated.manifest = <<>>
             /\ stated.format_version = "report-v1"
             /\ stated.snapshot_time = time
             /\ stated.root_hash = Root(nodes).hash
             /\ stated.leaf_count = Len(nodes)
             /\ DOMAIN Published(rows, time).proofs = DOMAIN given
             /\ \A k \in DOMAIN given :
                  Published(rows, time).proofs[k].report_digest = report_digest(stated)
<1> DEFINE given == read_balances(rows, time)
           nodes == [i \in DOMAIN given |-> leaf_node(given[i])]
           meta == MetaAt(time)
           stated == ReportOver(nodes, "solvency.liabilities", meta)
<1>1. meta.profile = "solvency.liabilities" /\ meta.manifest = <<>> /\ meta.snapshot_time = time
  BY DEF MetaAt
<1>2. Published(rows, time) =
        Publication(given, nodes, "proof-v1", "solvency.liabilities", meta, Seed)
  BY <1>1 DEF Published, publish
<1> HIDE DEF given, nodes, meta
<1>3. /\ Published(rows, time).signed.report = stated
      /\ DOMAIN Published(rows, time).proofs = DOMAIN given
      /\ \A k \in DOMAIN given :
           Published(rows, time).proofs[k].report_digest = report_digest(stated)
  BY <1>2 DEF Publication, SignedReport
<1>4. /\ IsReport(stated) /\ stated.manifest = <<>>
      /\ stated.format_version = "report-v1"
      /\ stated.snapshot_time = time
      /\ stated.root_hash = Root(nodes).hash
      /\ stated.leaf_count = Len(nodes)
  BY <1>1 DEF ReportOver, IsReport
<1> HIDE DEF stated
<1> QED
  BY <1>3, <1>4 DEF given, nodes

LEMMA LeavesAre ==
  ASSUME NEW rows \in Exports, NEW time \in Times
  PROVE  LET given == read_balances(rows, time) IN
         /\ given = [i \in DOMAIN given |-> given[i]]
         /\ \A i \in DOMAIN given :
              given[i] = [salt |-> given[i].salt, subject |-> given[i].subject,
                          balances |-> given[i].balances]
BY DEF read_balances

\* Two runs whose reports are one wrote the same files: the root pins the leaves,
\* and all else is computed from them and from the time.
LEMMA SameReportSameRun ==
  ASSUME NEW rows \in Exports, NEW time \in Times, NEW rows2 \in Exports, NEW time2 \in Times,
         Published(rows, time).signed.report = Published(rows2, time2).signed.report,
         DOMAIN Published(rows2, time2).proofs # {}
  PROVE  Output(rows, time) = Output(rows2, time2)
<1> DEFINE given == read_balances(rows, time)
           given2 == read_balances(rows2, time2)
           nodes == [i \in DOMAIN given |-> leaf_node(given[i])]
           nodes2 == [i \in DOMAIN given2 |-> leaf_node(given2[i])]
<1>1. PICK n \in Nat : DOMAIN given = 1 .. n
  BY LeavesOf
<1>2. PICK n2 \in Nat : DOMAIN given2 = 1 .. n2
  BY LeavesOf
<1>3. time = time2 /\ Root(nodes).hash = Root(nodes2).hash /\ Len(nodes) = Len(nodes2)
  <2>1. /\ Published(rows, time).signed.report.snapshot_time = time
        /\ Published(rows, time).signed.report.root_hash = Root(nodes).hash
        /\ Published(rows, time).signed.report.leaf_count = Len(nodes)
    BY ReportOf
  <2>2. /\ Published(rows2, time2).signed.report.snapshot_time = time2
        /\ Published(rows2, time2).signed.report.root_hash = Root(nodes2).hash
        /\ Published(rows2, time2).signed.report.leaf_count = Len(nodes2)
    BY ReportOf
  <2> HIDE DEF nodes, nodes2
  <2> QED
    BY <2>1, <2>2
<1>4. DOMAIN given2 # {}
  BY ReportOf
<1>5. /\ given = [i \in DOMAIN given |-> given[i]]
      /\ given2 = [i \in DOMAIN given2 |-> given2[i]]
      /\ \A i \in DOMAIN given :
           given[i] = [salt |-> given[i].salt, subject |-> given[i].subject,
                       balances |-> given[i].balances]
      /\ \A i \in DOMAIN given2 :
           given2[i] = [salt |-> given2[i].salt, subject |-> given2[i].subject,
                        balances |-> given2[i].balances]
  BY LeavesAre
<1> HIDE DEF given, given2
<1>6. IsSeq(nodes) /\ Len(nodes) = n
  <2>1. nodes = [i \in 1 .. n |-> nodes[i]]
    BY <1>1
  <2> HIDE DEF nodes
  <2> QED
    BY <2>1, FunctionIsSeq
<1>7. IsSeq(nodes2) /\ Len(nodes2) = n2
  <2>1. nodes2 = [i \in 1 .. n2 |-> nodes2[i]]
    BY <1>2
  <2> HIDE DEF nodes2
  <2> QED
    BY <2>1, FunctionIsSeq
<1>8. n = n2 /\ n >= 1
  BY <1>2, <1>3, <1>4, <1>6, <1>7
<1>9. /\ \A i \in 1 .. n : Leafy(nodes[i])
      /\ \A i \in 1 .. n : Leafy(nodes2[i])
  BY <1>1, <1>2, <1>8 DEF Leafy
<1>10. nodes = nodes2
  <2> HIDE DEF nodes, nodes2
  <2> QED
    BY <1>3, <1>6, <1>7, <1>8, <1>9, RootPins
<1>11. ASSUME NEW i \in 1 .. n
       PROVE  given[i] = given2[i]
  <2>1. leaf_node(given[i]).hash = leaf_node(given2[i]).hash
    <3>1. nodes[i] = leaf_node(given[i]) /\ nodes2[i] = leaf_node(given2[i])
      BY <1>1, <1>2, <1>8
    <3> HIDE DEF nodes, nodes2
    <3> QED
      BY <1>10, <3>1
  <2>2. /\ given[i].salt = given2[i].salt /\ given[i].subject = given2[i].subject
        /\ given[i].balances = given2[i].balances
    BY <2>1 DEF leaf_node
  <2> QED
    BY <1>1, <1>2, <1>5, <1>8, <2>2
<1>12. given = given2
  BY <1>1, <1>2, <1>5, <1>8, <1>11
<1> QED
  BY <1>3, <1>12 DEF Output, given, given2

\* A proof that verifies against a run's report is of a run that wrote the same.
LEMMA ProofOfSameRun ==
  ASSUME NEW rows \in Exports, NEW time \in Times, NEW rows2 \in Exports, NEW time2 \in Times,
         NEW k \in DOMAIN Published(rows2, time2).proofs,
         verify(Published(rows, time).signed, Published(rows2, time2).proofs[k], Seed) = "Ok"
  PROVE  Output(rows, time) = Output(rows2, time2)
<1> DEFINE stated == Published(rows, time).signed.report
           stated2 == Published(rows2, time2).signed.report
           shown == Published(rows2, time2).proofs[k]
<1>1. report_digest(stated) = shown.report_digest
  BY VerifyHolds DEF Proves
<1>2. /\ IsReport(stated) /\ stated.manifest = <<>>
      /\ IsReport(stated2) /\ stated2.manifest = <<>>
      /\ shown.report_digest = report_digest(stated2)
  <2>1. IsReport(stated) /\ stated.manifest = <<>>
    BY ReportOf
  <2>2. IsReport(stated2) /\ stated2.manifest = <<>>
    BY ReportOf
  <2>3. shown.report_digest = report_digest(stated2)
    <3>1. DOMAIN Published(rows2, time2).proofs = DOMAIN read_balances(rows2, time2)
      BY ReportOf
    <3>2. \A m \in DOMAIN read_balances(rows2, time2) :
            Published(rows2, time2).proofs[m].report_digest
              = report_digest(Published(rows2, time2).signed.report)
      BY ReportOf
    <3>3. k \in DOMAIN read_balances(rows2, time2)
      BY <3>1
    <3> QED
      BY <3>2, <3>3
  <2> HIDE DEF stated, stated2, shown
  <2> QED
    BY <2>1, <2>2, <2>3
<1> HIDE DEF stated, stated2, shown
<1>3. stated = stated2
  BY <1>1, <1>2, DigestPins
<1> QED
  BY <1>3, SameReportSameRun DEF stated, stated2

\* What a sweep has seen when it exits with 0 (run.rs run).
LEMMA SweepHolds ==
  ASSUME NEW loaded, NEW files, NEW trusted, sweep_exit(loaded, files, trusted) = EXIT_OK
  PROVE  /\ \A n \in DOMAIN files : files[n] # Torn
         /\ \A n \in Proofs(files) : verify(loaded[2], files[n][2], trusted) = "Ok"
BY DEF sweep_exit, Unreadable, EXIT_OK, EXIT_USAGE_OR_IO, EXIT_VERIFICATION_FAILED

\* What a sweep that passes has read is of one run, report and proofs (run.rs run,
\* publish.rs main), for any exports, times and number of runs.
THEOREM SweptOneRunHolds == Spec => []SweptOneRun
<1>1. ASSUME FromRuns
      PROVE  SweptOneRun
  <2> DEFINE loaded == reader.report
             swept == reader.swept
  <2> SUFFICES ASSUME Passed
               PROVE  \E i \in DOMAIN exports :
                        /\ "report.json" \in DOMAIN exports[i]
                        /\ loaded = exports[i]["report.json"]
                        /\ \A n \in Proofs(swept) :
                             n \in DOMAIN exports[i] /\ swept[n] = exports[i][n]
    BY DEF SweptOneRun
  <2>1. /\ OfRun("report.json", loaded)
        /\ sweep_exit(loaded, swept, Seed) = EXIT_OK
        /\ \A n \in DOMAIN swept : swept[n] = Torn \/ OfRun(n, swept[n])
    BY <1>1 DEF FromRuns, Reading
  <2> HIDE DEF loaded, swept
  <2>2. /\ \A n \in Proofs(swept) : verify(loaded[2], swept[n][2], Seed) = "Ok"
        /\ \A n \in DOMAIN swept : OfRun(n, swept[n])
    BY <2>1, SweepHolds
  <2>3. exports \in Seq(Runs)
    BY <1>1 DEF FromRuns, Writing
  <2>4. PICK i \in DOMAIN exports :
          "report.json" \in DOMAIN exports[i] /\ loaded = exports[i]["report.json"]
    BY <2>1 DEF OfRun
  <2>5. PICK rows \in Exports : \E time \in Times : exports[i] = ByName(Output(rows, time))
    BY <2>3, <2>4 DEF Runs
  <2>6. PICK time \in Times : exports[i] = ByName(Output(rows, time))
    BY <2>5
  <2>7. loaded[2] = Published(rows, time).signed
    BY <2>4, <2>6, RunKinds
  <2>8. ASSUME NEW n \in Proofs(swept)
        PROVE  n \in DOMAIN exports[i] /\ swept[n] = exports[i][n]
    <3>1. n \in DOMAIN swept /\ swept[n][1] = "proof"
      BY DEF Proofs
    <3>2. PICK j \in DOMAIN exports : n \in DOMAIN exports[j] /\ swept[n] = exports[j][n]
      BY <2>2, <3>1 DEF OfRun
    <3>3. PICK rows2 \in Exports : \E t \in Times : exports[j] = ByName(Output(rows2, t))
      BY <2>3, <3>2 DEF Runs
    <3>4. PICK time2 \in Times : exports[j] = ByName(Output(rows2, time2))
      BY <3>3
    <3>5. PICK k \in DOMAIN Published(rows2, time2).proofs :
            swept[n] = <<"proof", Published(rows2, time2).proofs[k]>>
      BY <3>1, <3>2, <3>4, RunKinds
    <3>6. verify(Published(rows, time).signed, Published(rows2, time2).proofs[k], Seed) = "Ok"
      <4>1. swept[n][2] = Published(rows2, time2).proofs[k]
        BY <3>5
      <4> QED
        BY <2>2, <2>7, <4>1
    <3>7. exports[j] = exports[i]
      BY <2>6, <3>4, <3>6, ProofOfSameRun
    <3> QED
      BY <3>2, <3>7
  <2> QED
    BY <2>4, <2>8
<1> QED
  BY <1>1, FromRunsHolds, PTL

-----------------------------------------------------------------------------
\* A verifier whose checks all hold accepts, and those of a run's own files do.

LEMMA NoneFails ==
  ASSUME NEW checks, \A i \in DOMAIN checks : checks[i] = "Ok"
  PROVE  InOrder(checks) = "Ok"
BY DEF InOrder

LEMMA SealedByOwn ==
  ASSUME NEW digest
  PROVE  /\ verify_signature(Seed, digest, sign_digest(Seed, digest)) = "Ok"
         /\ check_signature(digest, SignatureOf(Seed, digest), Seed) = "Ok"
<1> DEFINE checks == <<Expect(Seed # Garbled, "Malformed"),
                       Expect(sign_digest(Seed, digest) # <<>>, "Malformed"),
                       Expect(sign_digest(Seed, digest) = sign_digest(Seed, digest),
                              "BadSignature")>>
<1>1. sign_digest(Seed, digest) # <<>>
  BY DEF sign_digest
<1>2. \A i \in DOMAIN checks : checks[i] = "Ok"
  BY <1>1, SeedAssumption DEF Expect
<1>3. InOrder(checks) = "Ok"
  <2> HIDE DEF checks
  <2> QED
    BY <1>2, NoneFails
<1>4. verify_signature(Seed, digest, sign_digest(Seed, digest)) = "Ok"
  BY <1>3 DEF verify_signature
<1> DEFINE signature == SignatureOf(Seed, digest)
           both == <<Expect(signature.public_key = Seed, "UnknownSigner"),
                     verify_signature(Seed, digest, signature.value)>>
<1>5. signature.public_key = Seed /\ signature.value = sign_digest(Seed, digest)
  BY DEF SignatureOf
<1>6. \A i \in DOMAIN both : both[i] = "Ok"
  <2> HIDE DEF signature
  <2> QED
    BY <1>4, <1>5 DEF Expect
<1>7. InOrder(both) = "Ok"
  <2> HIDE DEF both
  <2> QED
    BY <1>6, NoneFails
<1> QED
  BY <1>4, <1>7 DEF check_signature

\* A run's own files are what its index names (pack.rs verify_pack).
LEMMA OwnPackVerifies ==
  ASSUME NEW e, NEW signed, IsIndex(e, signed)
  PROVE  verify_pack(signed, Seed, Without(e, IndexName)) = "Ok"
<1> DEFINE content == Without(e, IndexName)
           entries == signed.pack.entries
           Checked(name) ==
             InOrder(<<Expect(name # PathName, "UnsafeName"),
                       Expect(name \in DOMAIN content, "Missing"),
                       Expect(/\ name \in DOMAIN content
                              /\ entries[name] = member_digest(content[name]), "Altered")>>)
           each == [i \in DOMAIN FileNames |-> IF FileNames[i] \in DOMAIN entries
                                               THEN Checked(FileNames[i]) ELSE "Ok"]
<1>1. /\ DOMAIN content \subseteq Names \ {PathName}
      /\ DOMAIN entries = DOMAIN content
      /\ \A n \in DOMAIN content : entries[n] = member_digest(content[n])
      /\ signed.pack.format_version = "pack-v1"
      /\ signed.signature = SignatureOf(Seed, pack_digest(signed.pack))
  BY DEF IsIndex, Without
<1> HIDE DEF content, entries
<1>2. ASSUME NEW name \in DOMAIN entries
      PROVE  Checked(name) = "Ok"
  <2> DEFINE checks == <<Expect(name # PathName, "UnsafeName"),
                         Expect(name \in DOMAIN content, "Missing"),
                         Expect(/\ name \in DOMAIN content
                                /\ entries[name] = member_digest(content[name]), "Altered")>>
  <2>1. \A i \in DOMAIN checks : checks[i] = "Ok"
    BY <1>1 DEF Expect
  <2>2. InOrder(checks) = "Ok"
    <3> HIDE DEF checks
    <3> QED
      BY <2>1, NoneFails
  <2> QED
    BY <2>2
<1>3. InOrder(each) = "Ok"
  <2>1. \A i \in DOMAIN each : each[i] = "Ok"
    <3> HIDE DEF Checked
    <3> QED
      BY <1>2
  <2> HIDE DEF each
  <2> QED
    BY <2>1, NoneFails
<1> DEFINE version == expect_version(signed.pack.format_version, "pack-v1")
           known == Expect(signed.signature.public_key = Seed, "UnknownSigner")
           genuine == Expect(verify_signature(Seed, pack_digest(signed.pack),
                                              signed.signature.value) = "Ok", "BadSignature")
           listed == Expect(DOMAIN content \subseteq DOMAIN entries, "Unlisted")
           all == <<version, known, genuine, InOrder(each), listed>>
<1>4. version = "Ok" /\ known = "Ok" /\ listed = "Ok"
  BY <1>1 DEF expect_version, Expect, SignatureOf
<1>5. genuine = "Ok"
  <2>1. signed.signature.value = sign_digest(Seed, pack_digest(signed.pack))
    BY <1>1 DEF SignatureOf
  <2>2. verify_signature(Seed, pack_digest(signed.pack), signed.signature.value) = "Ok"
    BY <2>1, SealedByOwn
  <2> QED
    BY <2>2 DEF Expect
<1>6. \A i \in DOMAIN all : all[i] = "Ok"
  <2> HIDE DEF version, known, genuine, listed, each
  <2> QED
    BY <1>3, <1>4, <1>5
<1>7. InOrder(all) = "Ok"
  <2> HIDE DEF all
  <2> QED
    BY <1>6, NoneFails
<1> QED
  BY <1>7 DEF verify_pack, content, entries

\* What publish states of leaves it was given, and what it makes of each.
LEMMA PublishedIs ==
  ASSUME NEW rows \in Exports, NEW time \in Times
  PROVE  LET given == read_balances(rows, time)
             nodes == [i \in DOMAIN given |-> leaf_node(given[i])]
             stated == Published(rows, time).signed.report
             proofs == Published(rows, time).proofs
         IN  /\ stated.format_version = "report-v1" /\ stated.manifest = <<>>
             /\ stated.profile = "solvency.liabilities"
             /\ stated.root_hash = Root(nodes).hash /\ stated.root_sums = Root(nodes).sums
             /\ Published(rows, time).signed.signature
                  = SignatureOf(Seed, report_digest(stated))
             /\ DOMAIN proofs = DOMAIN given
             /\ \A i \in DOMAIN given :
                  /\ proofs[i].format_version = "proof-v1"
                  /\ proofs[i].leaf = given[i]
                  /\ proofs[i].report_digest = report_digest(stated)
                  /\ proofs[i].steps = prove(nodes, i)
<1> DEFINE given == read_balances(rows, time)
           nodes == [i \in DOMAIN given |-> leaf_node(given[i])]
           meta == MetaAt(time)
           stated == ReportOver(nodes, "solvency.liabilities", meta)
<1>1. meta.profile = "solvency.liabilities" /\ meta.manifest = <<>>
  BY DEF MetaAt
<1>2. Published(rows, time) =
        Publication(given, nodes, "proof-v1", "solvency.liabilities", meta, Seed)
  BY <1>1 DEF Published, publish
<1> HIDE DEF given, nodes, meta
<1>3. /\ Published(rows, time).signed.report = stated
      /\ Published(rows, time).signed.signature = SignatureOf(Seed, report_digest(stated))
      /\ DOMAIN Published(rows, time).proofs = DOMAIN given
      /\ \A i \in DOMAIN given :
           /\ Published(rows, time).proofs[i].format_version = "proof-v1"
           /\ Published(rows, time).proofs[i].leaf = given[i]
           /\ Published(rows, time).proofs[i].report_digest = report_digest(stated)
           /\ Published(rows, time).proofs[i].steps = prove(nodes, i)
  BY <1>2 DEF Publication, SignedReport
<1>4. /\ stated.format_version = "report-v1" /\ stated.manifest = <<>>
      /\ stated.profile = "solvency.liabilities"
      /\ stated.root_hash = Root(nodes).hash /\ stated.root_sums = Root(nodes).sums
  BY <1>1 DEF ReportOver
<1> HIDE DEF stated
<1> QED
  BY <1>3, <1>4 DEF given, nodes

\* Every customer of a file that reads has a leaf, and a leaf says what they hold.
LEMMA ReadableLeaves ==
  ASSUME NEW rows \in Exports, NEW time \in Times, Readable(rows)
  PROVE  LET given == read_balances(rows, time) IN
         /\ \E n \in Nat \ {0} : DOMAIN given = 1 .. n
         /\ \A i \in DOMAIN given :
              given[i].salt # <<>> /\ \E asset : asset \in DOMAIN given[i].balances
<1> DEFINE Users == {r.user : r \in Range(rows)}
           users == SaltOrder[time][Users]
           given == read_balances(rows, time)
<1>1. Users \in SUBSET Customers
  BY DEF Customers
<1>2. rows[1] \in Range(rows) /\ rows[1].user \in Users
  <2>1. rows # <<>> /\ rows \in Seq(Range(rows))
    BY ExportsAssumption DEF Readable
  <2>2. 1 \in DOMAIN rows
    BY <2>1
  <2> QED
    BY <2>2 DEF Range
<1>3. users \in Seq(Users) /\ Users \subseteq Range(users)
  <2> HIDE DEF Users
  <2> QED
    BY <1>1, OrderAssumption
<1>4. /\ DOMAIN given = DOMAIN users
      /\ \A i \in DOMAIN users :
           /\ given[i].salt = leaf_salt(<<Seed, time>>, users[i])
           /\ DOMAIN given[i].balances =
                {r.asset : r \in {s \in Range(rows) : s.user = users[i]}}
  BY DEF read_balances
<1>5. ASSUME NEW i \in DOMAIN users
      PROVE  \E r \in Range(rows) : r.user = users[i]
  <2>1. users[i] \in Users
    <3> HIDE DEF users, Users
    <3> QED
      BY <1>3
  <2> QED
    BY <2>1
<1> HIDE DEF users, given, Users
<1>6. Len(users) \in Nat /\ DOMAIN users = 1 .. Len(users)
  BY <1>3
<1>7. Len(users) # 0
  <2>1. PICK i \in DOMAIN users : users[i] = rows[1].user
    BY <1>2, <1>3 DEF Range
  <2> QED
    BY <1>6, <2>1
<1>8. ASSUME NEW i \in DOMAIN given
      PROVE  given[i].salt # <<>> /\ \E asset : asset \in DOMAIN given[i].balances
  <2>1. PICK r \in Range(rows) : r.user = users[i]
    BY <1>4, <1>5
  <2>2. r.asset \in DOMAIN given[i].balances
    BY <1>4, <2>1
  <2>3. given[i].salt # <<>>
    BY <1>4 DEF leaf_salt
  <2> QED
    BY <2>2, <2>3
<1>9. \E n \in Nat \ {0} : DOMAIN given = 1 .. n
  BY <1>4, <1>6, <1>7
<1> QED
  BY <1>8, <1>9 DEF given

\* A liabilities report with totals is of its profile.
LEMMA CustomerKind ==
  ASSUME NEW stated, stated.profile = "solvency.liabilities", NEW key,
         key \in DOMAIN stated.root_sums
  PROVE  expect_leaf_kind(stated, "Customer") = "Ok"
<1>1. /\ stated.profile \in DOMAIN REGISTRY
      /\ REGISTRY[stated.profile] = Rules("Customer", {"root_sums"}, "", "", {}, {})
  BY DEF REGISTRY
<1> DEFINE rules == REGISTRY[stated.profile]
<1>2. /\ rules.leaf = "Customer" /\ rules.required_aggregates = {"root_sums"}
      /\ rules.covering = "" /\ rules.unanimous_maps = {}
  <2>1. rules = Rules("Customer", {"root_sums"}, "", "", {}, {})
    BY <1>1
  <2> HIDE DEF rules
  <2> QED
    BY <2>1 DEF Rules
<1> HIDE DEF rules
<1>3. \A aggregate \in rules.required_aggregates : Aggregated(stated, aggregate)
  BY <1>2 DEF Aggregated
<1> DEFINE holds == /\ stated.profile \in DOMAIN REGISTRY
                    /\ \A aggregate \in rules.required_aggregates : Aggregated(stated, aggregate)
                    /\ rules.covering # "" => Covers(stated, rules.covering, rules.covered)
                    /\ \A map \in rules.unanimous_maps : Unanimous(stated, map)
<1>4. holds
  BY <1>1, <1>2, <1>3
<1>5. validate(stated) = Expect(holds, "Profile")
  BY DEF validate, rules
<1>6. validate(stated) = "Ok"
  <2> HIDE DEF holds
  <2> QED
    BY <1>4, <1>5 DEF Expect
<1> DEFINE kind == Expect(stated.profile \in DOMAIN REGISTRY
                          /\ REGISTRY[stated.profile].leaf = "Customer", "Profile")
           both == <<validate(stated), kind>>
<1>7. kind = "Ok"
  BY <1>1, <1>2 DEF Expect, rules
<1>8. \A i \in DOMAIN both : both[i] = "Ok"
  <2> HIDE DEF kind
  <2> QED
    BY <1>6, <1>7
<1>9. InOrder(both) = "Ok"
  <2> HIDE DEF both
  <2> QED
    BY <1>8, NoneFails
<1> QED
  BY <1>9 DEF expect_leaf_kind

\* A run's guards: the file reads, and its totals are amounts.
Begins(rows, time) ==
  /\ Readable(rows)
  /\ ~Overflows(Root([i \in DOMAIN read_balances(rows, time) |->
                        leaf_node(read_balances(rows, time)[i])]))

\* The tree over a run's leaves.
LEMMA RunTree ==
  ASSUME NEW rows \in Exports, NEW time \in Times, Begins(rows, time)
  PROVE  LET given == read_balances(rows, time)
             nodes == [i \in DOMAIN given |-> leaf_node(given[i])]
         IN  /\ IsSeq(nodes) /\ Len(nodes) >= 1 /\ DOMAIN given = 1 .. Len(nodes)
             /\ \A i \in 1 .. Len(nodes) : Leafy(nodes[i]) /\ nodes[i] = leaf_node(given[i])
             /\ Root(nodes).hash # <<>> /\ ~Overflows(Root(nodes))
             /\ \E key : key \in DOMAIN Root(nodes).sums
<1> DEFINE given == read_balances(rows, time)
           nodes == [i \in DOMAIN given |-> leaf_node(given[i])]
<1>1. PICK n \in Nat \ {0} : DOMAIN given = 1 .. n
  BY ReadableLeaves DEF Begins
<1>2. PICK asset : asset \in DOMAIN given[1].balances
  BY <1>1, ReadableLeaves DEF Begins
<1>3. ~Overflows(Root(nodes))
  BY DEF Begins
<1> HIDE DEF given
<1>4. \A i \in 1 .. n : nodes[i] = leaf_node(given[i])
  BY <1>1
<1>5. IsSeq(nodes) /\ Len(nodes) = n
  <2>1. nodes = [i \in 1 .. n |-> nodes[i]]
    BY <1>1
  <2> HIDE DEF nodes
  <2> QED
    BY <2>1, FunctionIsSeq
<1>6. \A i \in 1 .. n : Leafy(nodes[i])
  BY <1>4 DEF Leafy
<1>7. qualified("", asset) \in DOMAIN nodes[1].sums
  <2>2. 1 \in 1 .. n
    OBVIOUS
  <2>3. nodes[1] = leaf_node(given[1])
    BY <1>4, <2>2
  <2> HIDE DEF nodes
  <2>1. nodes[1].sums = Flattened("", given[1].balances)
    BY <2>3, LeafNode
  <2> QED
    BY <1>2, <2>1 DEF Flattened
<1> HIDE DEF nodes
<1>8. 1 \in 1 .. Len(nodes) /\ Len(nodes) >= 1
  BY <1>5
<1>9. qualified("", asset) \in DOMAIN Root(nodes).sums
  BY <1>5, <1>7, <1>8, RootAnyKey
<1>10. Root(nodes).hash # <<>>
  BY <1>5, <1>6, <1>8, ProveFolds
<1>11. /\ IsSeq(nodes) /\ Len(nodes) >= 1 /\ DOMAIN given = 1 .. Len(nodes)
       /\ \A i \in 1 .. Len(nodes) : Leafy(nodes[i]) /\ nodes[i] = leaf_node(given[i])
       /\ Root(nodes).hash # <<>> /\ ~Overflows(Root(nodes))
       /\ \E key : key \in DOMAIN Root(nodes).sums
  BY <1>1, <1>3, <1>4, <1>5, <1>6, <1>8, <1>9, <1>10
<1> QED
  BY <1>11 DEF nodes, given

\* The proof a run writes for a customer verifies against the report it writes
\* (verify.rs verify).
LEMMA OwnProofVerifies ==
  ASSUME NEW rows \in Exports, NEW time \in Times, Begins(rows, time),
         NEW k \in DOMAIN Published(rows, time).proofs
  PROVE  verify(Published(rows, time).signed, Published(rows, time).proofs[k], Seed) = "Ok"
<1> DEFINE given == read_balances(rows, time)
           nodes == [i \in DOMAIN given |-> leaf_node(given[i])]
           signed == Published(rows, time).signed
           stated == signed.report
           proofs == Published(rows, time).proofs
           shown == proofs[k]
<1>1. /\ stated.format_version = "report-v1" /\ stated.manifest = <<>>
      /\ stated.profile = "solvency.liabilities"
      /\ stated.root_hash = Root(nodes).hash /\ stated.root_sums = Root(nodes).sums
      /\ signed.signature = SignatureOf(Seed, report_digest(stated))
      /\ DOMAIN proofs = DOMAIN given
      /\ \A i \in DOMAIN given :
           /\ proofs[i].format_version = "proof-v1"
           /\ proofs[i].leaf = given[i]
           /\ proofs[i].report_digest = report_digest(stated)
           /\ proofs[i].steps = prove(nodes, i)
  BY PublishedIs
<1>2. /\ IsSeq(nodes) /\ Len(nodes) >= 1 /\ DOMAIN given = 1 .. Len(nodes)
      /\ \A i \in 1 .. Len(nodes) : Leafy(nodes[i]) /\ nodes[i] = leaf_node(given[i])
      /\ Root(nodes).hash # <<>> /\ ~Overflows(Root(nodes))
      /\ \E key : key \in DOMAIN Root(nodes).sums
  BY RunTree
<1>3. k \in DOMAIN given
  BY <1>1
<1>4. given[k].salt # <<>>
  BY <1>3, ReadableLeaves DEF Begins
<1> HIDE DEF given, nodes, signed, proofs
<1>5. /\ k \in 1 .. Len(nodes) /\ leaf_node(shown.leaf) = nodes[k]
      /\ shown.steps = prove(nodes, k) /\ shown.leaf.salt # <<>>
      /\ shown.format_version = "proof-v1" /\ shown.report_digest = report_digest(stated)
  BY <1>1, <1>2, <1>3, <1>4
<1> DEFINE folded == fold(nodes[k], prove(nodes, k))
           steps == prove(nodes, k)
<1>6. folded = Root(nodes) /\ \A s \in Range(steps) : s.sibling.hash # <<>>
  BY <1>2, <1>5, ProveFolds
<1> DEFINE bound == Expect(report_digest(stated) = shown.report_digest, "DigestMismatch")
           genuine == check_signature(report_digest(stated), signed.signature, Seed)
           hex == Expect(\A i \in DOMAIN steps : steps[i].sibling.hash # <<>>, "Malformed")
           root == hash32(stated.root_hash)
           fits == Expect(~Overflows(folded), "Malformed")
           reached == Expect(folded.hash = stated.root_hash, "RootHashMismatch")
           total == Expect(SameTotals(folded.sums, stated.root_sums), "RootSumsMismatch")
           seven == <<bound, genuine, hex, root, fits, reached, total>>
<1> HIDE DEF shown, steps, folded, stated
<1>7. bound = "Ok" /\ root = "Ok" /\ fits = "Ok" /\ reached = "Ok"
  BY <1>1, <1>2, <1>5, <1>6 DEF Expect, hash32
<1>8. genuine = "Ok"
  BY <1>1, SealedByOwn
<1>9. hex = "Ok"
  <2>1. \A i \in DOMAIN steps : steps[i].sibling.hash # <<>>
    BY <1>6 DEF Range
  <2> QED
    BY <2>1 DEF Expect
<1>10. total = "Ok"
  <2>1. folded.sums = stated.root_sums
    BY <1>1, <1>6
  <2>2. SameTotals(folded.sums, stated.root_sums)
    BY <2>1 DEF SameTotals
  <2> QED
    BY <2>2 DEF Expect
<1>11. InOrder(seven) = "Ok"
  <2> HIDE DEF bound, genuine, hex, root, fits, reached, total
  <2>1. \A i \in DOMAIN seven : seven[i] = "Ok"
    BY <1>7, <1>8, <1>9, <1>10
  <2> HIDE DEF seven
  <2> QED
    BY <2>1, NoneFails
<1>12. verify_against_report(signed, nodes[k], steps, shown.report_digest, Seed) = "Ok"
  BY <1>11 DEF verify_against_report, stated, folded, steps
<1> HIDE DEF bound, genuine, hex, root, fits, reached, total
<1> DEFINE version == check_report_version_and_manifest(stated)
           kind == expect_leaf_kind(stated, "Customer")
           format == expect_version(shown.format_version, "proof-v1")
           algorithm == expect_version(signed.signature.algorithm, "ed25519")
           salt == hash32(shown.leaf.salt)
           against == verify_against_report(signed, leaf_node(shown.leaf), shown.steps,
                                            shown.report_digest, Seed)
           six == <<version, kind, format, algorithm, salt, against>>
<1>13. version = "Ok"
  BY <1>1 DEF check_report_version_and_manifest, Expect
<1>14. kind = "Ok"
  BY <1>1, <1>2, CustomerKind
<1>15. format = "Ok" /\ algorithm = "Ok" /\ salt = "Ok"
  BY <1>1, <1>5 DEF expect_version, Expect, hash32, SignatureOf
<1>16. against = "Ok"
  BY <1>5, <1>12 DEF steps
<1>17. InOrder(six) = "Ok"
  <2> HIDE DEF version, kind, format, algorithm, salt, against
  <2>1. \A i \in DOMAIN six : six[i] = "Ok"
    BY <1>13, <1>14, <1>15, <1>16
  <2> HIDE DEF six
  <2> QED
    BY <2>1, NoneFails
<1>18. verify(signed, shown, Seed) = "Ok"
  BY <1>17 DEF verify, stated
<1> QED
  BY <1>18 DEF signed, shown, proofs

\* What a run has written verifies (run.rs run, run_pack).
LEMMA RunVerifies ==
  ASSUME NEW rows \in Exports, NEW time \in Times, Begins(rows, time)
  PROVE  LET e == ByName(Output(rows, time)) IN
         /\ verify_pack(e[IndexName][2], Seed, Without(e, IndexName)) = "Ok"
         /\ sweep_exit(e["report.json"], e, Seed) = EXIT_OK
<1> DEFINE e == ByName(Output(rows, time))
           signed == Published(rows, time).signed
           proofs == Published(rows, time).proofs
<1>1. verify_pack(e[IndexName][2], Seed, Without(e, IndexName)) = "Ok"
  <2>1. PICK index : IsIndex(e, index)
    BY RunIndex
  <2>2. e[IndexName][2] = index
    BY <2>1 DEF IsIndex
  <2> HIDE DEF e
  <2> QED
    BY <2>1, <2>2, OwnPackVerifies
<1>2. /\ "report.json" \in DOMAIN e /\ e["report.json"][2] = signed
      /\ \A n \in DOMAIN e : e[n][1] = "proof" => \E k \in DOMAIN proofs : e[n] = <<"proof", proofs[k]>>
      /\ \A n \in DOMAIN e : e[n] # Torn
  BY RunKinds
<1>3. \A k \in DOMAIN proofs : verify(signed, proofs[k], Seed) = "Ok"
  BY OwnProofVerifies
<1> HIDE DEF e, signed, proofs
<1>4. ASSUME NEW n \in Proofs(e)
      PROVE  verify(e["report.json"][2], e[n][2], Seed) = "Ok"
  <2>1. n \in DOMAIN e /\ e[n][1] = "proof"
    BY DEF Proofs
  <2>2. PICK k \in DOMAIN proofs : e[n] = <<"proof", proofs[k]>>
    BY <1>2, <2>1
  <2>3. e[n][2] = proofs[k]
    BY <2>2
  <2> QED
    BY <1>2, <1>3, <2>3
<1>5. sweep_exit(e["report.json"], e, Seed) = EXIT_OK
  BY <1>2, <1>4 DEF sweep_exit, Unreadable
<1> QED
  BY <1>1, <1>5 DEF e

-----------------------------------------------------------------------------
\* While a run writes, each of its files is still to come or is in place; once it
\* has written the last, all are, until the next one begins.

IsRun(e) ==
  \E rows \in Exports, time \in Times : Begins(rows, time) /\ e = ByName(Output(rows, time))

InPlace(name) == name \in DOMAIN disk /\ disk[name] = Last(exports)[name]

Standing ==
  /\ \A i \in DOMAIN exports : IsRun(exports[i])
  /\ \A n \in DOMAIN disk : \E i \in DOMAIN exports : n \in DOMAIN exports[i]
  /\ todo # <<>> =>
       /\ whole = {}
       /\ \A n \in DOMAIN Last(exports) : InPlace(n) \/ \E i \in DOMAIN todo : todo[i].name = n
  /\ whole # {} =>
       /\ exports # <<>> /\ whole = {Last(exports)}
       /\ \A n \in DOMAIN Last(exports) : InPlace(n)

LEMMA BeginStands ==
  ASSUME FromRuns, Standing, NEW rows \in Exports, NEW time \in Times, BeginExport(rows, time)
  PROVE  Standing'
<1> DEFINE files == Output(rows, time)
           e == ByName(files)
<1>1. /\ todo' = files /\ exports' = Append(exports, e) /\ whole' = {} /\ disk' = disk
  BY DEF BeginExport
<1>2. IsRun(e)
  BY DEF BeginExport, Begins, IsRun
<1>3. DOMAIN e = {files[i].name : i \in DOMAIN files}
  <2>1. \A i, j \in DOMAIN files : files[i].name = files[j].name => i = j
    BY RunFiles
  <2> HIDE DEF files
  <2> QED
    BY <2>1, ByNameGives
<1>4. e \in Runs /\ exports \in Seq(Runs)
  BY DEF Runs, FromRuns, Writing
<1> HIDE DEF e, files
<1>5. /\ exports' \in Seq(Runs) /\ Last(exports') = e
      /\ \A i \in DOMAIN exports : i \in DOMAIN exports' /\ exports'[i] = exports[i]
      /\ \A i \in DOMAIN exports' : i \in DOMAIN exports \/ exports'[i] = e
  BY <1>1, <1>4 DEF Last
<1>6. \A i \in DOMAIN exports' : IsRun(exports'[i])
  BY <1>2, <1>5 DEF Standing
<1>7. \A n \in DOMAIN disk' : \E i \in DOMAIN exports' : n \in DOMAIN exports'[i]
  BY <1>1, <1>5 DEF Standing
<1>8. \A n \in DOMAIN Last(exports') : \E i \in DOMAIN todo' : todo'[i].name = n
  BY <1>1, <1>3, <1>5
<1>9. Standing'
  BY <1>1, <1>6, <1>7, <1>8 DEF Standing, IsRun, Begins
<1> QED
  BY <1>9

LEMMA TruncateStands ==
  ASSUME FromRuns, Standing, TruncateFile
  PROVE  Standing'
<1> DEFINE next == Head(todo)
<1>1. /\ todo # <<>> /\ UNCHANGED <<todo, exports, whole>>
      /\ disk' = [n \in DOMAIN disk \cup {next.name} |->
                    IF n = next.name THEN Torn ELSE disk[n]]
  BY DEF TruncateFile
<1>2. /\ exports \in Seq(Runs) /\ todo \in Seq(Files) /\ exports # <<>>
      /\ \A i \in DOMAIN todo : todo[i].name \in DOMAIN Last(exports)
  BY <1>1 DEF FromRuns, Writing
<1>3. 1 \in DOMAIN todo /\ next = todo[1]
  BY <1>1, <1>2
<1>4. Len(exports) \in DOMAIN exports /\ Last(exports) = exports[Len(exports)]
  BY <1>2 DEF Last
<1> HIDE DEF next
<1>5. \A n \in DOMAIN disk' : \E i \in DOMAIN exports : n \in DOMAIN exports[i]
  BY <1>1, <1>2, <1>3, <1>4 DEF Standing
<1>6. \A n : n # next.name /\ InPlace(n) => InPlace(n)'
  BY <1>1 DEF InPlace
<1>7. \A n \in DOMAIN Last(exports) : InPlace(n)' \/ \E i \in DOMAIN todo : todo[i].name = n
  BY <1>1, <1>3, <1>6 DEF Standing
<1> QED
  BY <1>1, <1>5, <1>7 DEF Standing

LEMMA FillStands ==
  ASSUME FromRuns, Standing, FillFile
  PROVE  Standing'
<1> DEFINE next == Head(todo)
<1>1. /\ todo # <<>> /\ UNCHANGED exports /\ todo' = Tail(todo)
      /\ next.name \in DOMAIN disk
      /\ disk' = [disk EXCEPT ![next.name] = next.bytes]
      /\ whole' = IF Tail(todo) = <<>> THEN {Last(exports)} ELSE {}
  BY DEF FillFile, FromRuns, Writing
<1>2. /\ exports \in Seq(Runs) /\ todo \in Seq(Files) /\ exports # <<>>
      /\ \A i \in DOMAIN todo : todo[i].bytes = Last(exports)[todo[i].name]
      /\ disk = [n \in DOMAIN disk |-> disk[n]]
  BY <1>1 DEF FromRuns, Writing, OnDisk
<1>3. /\ 1 \in DOMAIN todo /\ next = todo[1]
      /\ \A i \in DOMAIN todo : i # 1 => i - 1 \in DOMAIN Tail(todo) /\ Tail(todo)[i - 1] = todo[i]
  BY <1>1, <1>2
<1> HIDE DEF next
<1>4. DOMAIN disk' = DOMAIN disk
  BY <1>1
<1>5. \A n : n = next.name => InPlace(n)'
  BY <1>1, <1>2, <1>3 DEF InPlace
<1>6. \A n : n # next.name /\ InPlace(n) => InPlace(n)'
  BY <1>1 DEF InPlace
<1>7. ASSUME NEW n \in DOMAIN Last(exports)
      PROVE  InPlace(n)' \/ \E i \in DOMAIN todo' : todo'[i].name = n
  <2>1. InPlace(n) \/ \E i \in DOMAIN todo : todo[i].name = n
    BY <1>1 DEF Standing
  <2>2. CASE InPlace(n)
    BY <1>5, <1>6, <2>2
  <2>3. CASE \E i \in DOMAIN todo : todo[i].name = n
    <3>1. PICK i \in DOMAIN todo : todo[i].name = n
      BY <2>3
    <3>2. CASE i = 1
      BY <1>3, <1>5, <3>1, <3>2
    <3>3. CASE i # 1
      BY <1>1, <1>3, <3>1, <3>3
    <3> QED
      BY <3>2, <3>3
  <2> QED
    BY <2>1, <2>2, <2>3
<1>8. CASE Tail(todo) = <<>>
  <2>1. \A n \in DOMAIN Last(exports) : InPlace(n)'
    BY <1>1, <1>7, <1>8
  <2> QED
    BY <1>1, <1>2, <1>4, <1>8, <2>1 DEF Standing
<1>9. CASE Tail(todo) # <<>>
  BY <1>1, <1>4, <1>7, <1>9 DEF Standing
<1> QED
  BY <1>8, <1>9

LEMMA CrashStands ==
  ASSUME Standing, CrashExport
  PROVE  Standing'
<1>1. todo # <<>> /\ todo' = <<>> /\ UNCHANGED <<disk, exports, whole>>
  BY DEF CrashExport
<1>2. whole = {}
  BY <1>1 DEF Standing
<1> QED
  BY <1>1, <1>2 DEF Standing

LEMMA StandingKept == FromRuns /\ Standing /\ [Next]_vars => Standing'
<1> SUFFICES ASSUME FromRuns, Standing, [Next]_vars
             PROVE  Standing'
  OBVIOUS
<1>1. ASSUME UNCHANGED <<disk, todo, exports, whole>>
      PROVE  Standing'
  BY <1>1 DEF Standing, InPlace
<1>2. CASE DeliveryNext
  <2>1. ASSUME ReadIndex \/ ListMembers \/ ReadMember \/ CheckIndex
        PROVE  UNCHANGED <<disk, todo, exports, whole>>
    BY <2>1 DEF ReadIndex, ListMembers, ReadMember, CheckIndex
  <2>2. ASSUME Sweep \/ LoadReport \/ ListProofs \/ ReadProof \/ FinishSweep
        PROVE  UNCHANGED <<disk, todo, exports, whole>>
    BY <2>2 DEF Sweep, LoadReport, ListProofs, ReadProof, FinishSweep
  <2> QED
    BY <1>1, <1>2, <2>1, <2>2, BeginStands, TruncateStands, FillStands, CrashStands
    DEF DeliveryNext
<1>3. CASE UNCHANGED deliveryVars
  BY <1>1, <1>3 DEF deliveryVars
<1>4. vars' = vars => UNCHANGED deliveryVars
  BY DEF vars
<1>5. Deliver => DeliveryNext
  BY DEF Deliver
<1> QED
  BY <1>2, <1>3, <1>4, <1>5, OtherTopics

LEMMA StandingHolds == Spec => []Standing
<1>1. Init => Standing
  <2> SUFFICES ASSUME DeliveryInit
               PROVE  Standing
    BY DEF Init
  <2>1. exports = <<>> /\ todo = <<>> /\ whole = {} /\ disk = [n \in {} |-> Torn]
    BY DEF DeliveryInit
  <2> QED
    BY <2>1 DEF Standing
<1>2. FromRuns /\ Standing /\ [Next]_vars => Standing'
  BY StandingKept
<1> QED
  BY <1>1, <1>2, FromRunsHolds, PTL DEF Spec

\* After any crashes it is enough to publish again (publish.rs main): whatever the
\* customers, the balances and the times, what a run that finished left on disk
\* verifies, file by file and as a whole, unless an earlier run had a file it has
\* not.
THEOREM FinishedRunVerifiesHolds == Spec => []FinishedRunVerifies
<1>1. ASSUME FromRuns, Standing
      PROVE  FinishedRunVerifies
  <2> SUFFICES ASSUME NEW out \in whole,
                      \A i \in DOMAIN exports : DOMAIN exports[i] \subseteq DOMAIN out
               PROVE  /\ verify_pack(disk["pack.json"][2], Seed, Without(disk, "pack.json")) = "Ok"
                      /\ sweep_exit(disk["report.json"], disk, Seed) = EXIT_OK
    BY DEF FinishedRunVerifies
  <2>1. /\ exports # <<>> /\ out = Last(exports) /\ exports \in Seq(Runs)
        /\ \A n \in DOMAIN out : n \in DOMAIN disk /\ disk[n] = out[n]
    BY <1>1 DEF Standing, InPlace, FromRuns, Writing
  <2>2. Len(exports) \in DOMAIN exports /\ out = exports[Len(exports)]
    BY <2>1 DEF Last
  <2>3. IsRun(out)
    BY <1>1, <2>2 DEF Standing
  <2>4. PICK rows \in Exports : \E time \in Times :
          Begins(rows, time) /\ out = ByName(Output(rows, time))
    BY <2>3 DEF IsRun
  <2>5. PICK time \in Times : Begins(rows, time) /\ out = ByName(Output(rows, time))
    BY <2>4
  <2>6. DOMAIN disk = DOMAIN out
    BY <1>1, <2>1 DEF Standing
  <2>7. disk = [n \in DOMAIN disk |-> disk[n]] /\ out = [n \in DOMAIN out |-> out[n]]
    BY <1>1, <2>5 DEF FromRuns, OnDisk, ByName
  <2>8. disk = out
    BY <2>1, <2>6, <2>7
  <2>9. /\ verify_pack(out[IndexName][2], Seed, Without(out, IndexName)) = "Ok"
        /\ sweep_exit(out["report.json"], out, Seed) = EXIT_OK
    BY <2>5, RunVerifies
  <2> QED
    BY <2>8, <2>9 DEF IndexName
<1> QED
  BY <1>1, FromRunsHolds, StandingHolds, PTL

=============================================================================
