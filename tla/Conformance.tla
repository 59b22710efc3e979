---------------------------- MODULE Conformance -----------------------------
(***************************************************************************)
(* The conformance corpus and the statement an implementation makes about  *)
(* it: the golden documents (golden.rs), the cases cut from them           *)
(* (corpus_gen.rs) with the verdict each has to get, and the run over them *)
(* of an implementation that supports some of the format's features        *)
(* (compat.rs).                                                            *)
(*                                                                         *)
(* A case is what it requires, the verdict the corpus expects and the      *)
(* verdict of the verifier it is run through.                              *)
(***************************************************************************)
EXTENDS Verifiers

CONSTANTS
  SUPPORTED,  \* everything this implementation verifies
  Partial     \* features an implementation may leave out

VARIABLES
  supports,  \* the features the implementation claims
  results    \* the cases run so far, with their outcomes, in order

conformanceVars == <<supports, results>>

-----------------------------------------------------------------------------
(* The golden documents.  One is 4: the least fraction that occurs is a    *)
(* quarter, and a unit of 10^-18 is rounded to one.                        *)

Venue == "venue-key"
Custodian == "custodian-key"
Stranger == "stranger-key"

Leaf(id, balances) == [salt |-> leaf_salt("golden", id), subject |-> id, balances |-> balances]
LeafV2(id, maps) == [salt |-> leaf_salt("golden", id), subject |-> id, maps |-> maps]

leaves ==
  <<Leaf("user-1", [USDA |-> 402]), Leaf("user-2", [CBTC |-> 1, USDA |-> 5]),
    Leaf("user-3", Nothing)>>

NewYear == <<2026, 1, 1, 0, 0, 0, "Z">>
NextDay == <<2026, 1, 2, 0, 0, 0, "Z">>

metadata ==
  [profile |-> "solvency.liabilities", publisher |-> "golden::publisher",
   snapshot_time |-> NewYear, ledger_offset |-> 42,
   mark_prices |-> [CBTC |-> 200000], bad_debt |-> [USDA |-> 10],
   house_accounts |-> 1, house_totals |-> [USDA |-> 4000], manifest |-> <<>>]

Bare(profile) ==
  [metadata EXCEPT !.profile = profile, !.mark_prices = Nothing, !.bad_debt = Nothing,
                   !.house_accounts = 0, !.house_totals = Nothing]

golden == publish(leaves, metadata, Venue)
report == golden.signed
proof == golden.proofs[2]

manifest ==
  [audience |-> "public",
   fields |-> [f \in KNOWN_FIELDS |->
                 CASE f = "customer_balances" -> "Committed"
                   [] f = "customer_identities" -> "Withheld"
                   [] OTHER -> "Published"]]

golden_v2 == publish(leaves, [metadata EXCEPT !.manifest = <<manifest>>], Venue)

\* Declares the prices published and publishes none.
published_but_absent ==
  publish(leaves, [metadata EXCEPT !.manifest = <<manifest>>, !.mark_prices = Nothing], Venue)

\* A custodian's signature for one field of the golden report.
attestation ==
  LET a == [format_version |-> "attestation-v1", report_digest |-> report_digest(report.report),
            field |-> "root_sums", role |-> "third-party"]
  IN  [attestation |-> a, signature |-> SignatureOf(Custodian, attestation_digest(a))]

Held(id, amounts) == LeafV2(id, [held |-> amounts])

\* A statement pairing two reports.
Pairing(held, owed) ==
  [format_version |-> "coverage-v1",
   custody_report_digest |-> report_digest(held.report),
   liabilities_report_digest |-> report_digest(owed.report)]

custody ==
  publish_v2(<<Held("custody-position-1", [USDA |-> 480]),
               Held("custody-position-2", [CBTC |-> 2])>>,
             Bare("coverage.custody"), Venue).signed

\* No CBTC at all.
shortfall ==
  publish_v2(<<Held("custody-position-1", [USDA |-> 480])>>,
             [metadata EXCEPT !.profile = "coverage.custody"], Venue).signed

\* Two sides of a pairing three months apart.
stale_custody ==
  publish_v2(<<Held("position-0", [USDA |-> 2000])>>,
             [metadata EXCEPT !.profile = "coverage.custody",
                              !.snapshot_time = <<2026, 8, 9, 0, 0, 0, "Z">>,
                              !.ledger_offset = 900], Venue).signed
stale_liabilities ==
  publish(<<Leaf("user-0", [USDA |-> 4])>>,
          [metadata EXCEPT !.snapshot_time = <<2026, 5, 1, 0, 0, 0, "Z">>,
                           !.ledger_offset = 100], Venue).signed

sign_provenance(graph) ==
  [provenance |-> graph, signature |-> SignatureOf(Venue, provenance_digest(graph))]

graph ==
  [format_version |-> "provenance-v1", report_digest |-> report_digest(report.report),
   sources |-> <<[id |-> "participant-primary", kind |-> "participant", basis |-> <<>>],
                 [id |-> "holding-template", kind |-> "template", basis |-> <<>>],
                 [id |-> "price-vendor", kind |-> "off-ledger", basis |-> <<"close">>]>>,
   derivations |-> <<[field |-> "root_sums",
                      sources |-> <<"participant-primary", "holding-template">>],
                     [field |-> "mark_prices", sources |-> <<"price-vendor">>]>>]

repo ==
  publish_v2([i \in 1..3 |->
                LeafV2(<<"repo-leg-1", "repo-leg-2", "repo-leg-3">>[i],
                       [collateral |-> [USDA |-> <<440, 220, 88>>[i]],
                        exposure |-> [USDA |-> <<400, 200, 80>>[i]]])],
             Bare("collateral.repo"), Venue)

\* The golden report as one entity of a group, and another; the first with its
\* totals or with other ones.
Group(sums) ==
  publish_group(<<[id |-> "golden-entity-a", root_hash |-> report.report.root_hash,
                   root_sums |-> sums],
                  [id |-> "golden-entity-b", root_hash |-> <<"other root">>,
                   root_sums |-> [key \in {qualified("", "USDA")} |-> 168]]>>,
                metadata, Venue)
group == Group(report.report.root_sums)
entity_sums == Group([report.report.root_sums EXCEPT ![qualified("", "USDA")] = @ - 4])

Holder(id, complies) ==
  LeafV2(id, [attested |-> [accredited |-> IF complies THEN One ELSE 0]])
Eligibility(third) ==
  publish_v2(<<Holder("holder-1", TRUE), Holder("holder-2", TRUE), Holder("holder-3", third)>>,
             [metadata EXCEPT !.profile = "eligibility.holder"], Venue)

\* Units outstanding and total entitlement, or the units alone.
Fund(maps) ==
  publish_v2([i \in 1..2 |->
                LeafV2(<<"holder-a", "holder-b">>[i],
                       [m \in maps |-> IF m = "units" THEN [CLASS_A |-> <<4000, 1600>>[i]]
                                                      ELSE [USDA |-> <<10000, 4000>>[i]]])],
             [metadata EXCEPT !.profile = "fund.nav"], Venue)

\* The second trade was never paid for.
dvp ==
  publish_v2(<<LeafV2("trade-1", [delivered |-> [BOND |-> 400], paid |-> [USDA |-> 396]]),
               LeafV2("trade-2", [delivered |-> [BOND |-> 800]])>>,
             [metadata EXCEPT !.profile = "settlement.dvp"], Venue)

foreign_signer == publish(leaves, metadata, Stranger)

\* An honest tree, and totals the publisher signed for that are half of it.
understated ==
  LET r == [report.report EXCEPT !.root_sums[qualified("", "USDA")] = @ \div 2] IN
  [signed |-> SignedReport(r, Venue), proof |-> [proof EXCEPT !.report_digest = report_digest(r)]]

astral ==
  publish([i \in 1..2 |->
             [salt |-> leaf_salt("golden", <<"astral-a", "astral-b">>[i]),
              subject |-> <<"astral-a", "astral-b">>[i],
              balances |-> [a \in {"U+FF01", "U+10000"} |-> IF a = "U+FF01" THEN 4 ELSE 8]]],
          metadata, Venue)

\* What stands in a file is the document written to it.
members == <<[name |-> "report.json", bytes |-> <<"report", report>>],
             [name |-> "proof.json", bytes |-> <<"proof", proof>>]>>
pack == build_pack(metadata.publisher, NewYear, report_digest(report.report), members, Venue).signed


-----------------------------------------------------------------------------
(* The cases.  Tampering is the change made to a document of a case after  *)
(* it was signed.                                                          *)

Case(requires, expect, verdict) == [requires |-> requires, expect |-> expect, verdict |-> verdict]

V1 == {"report-v1", "proof-v1"}
V1Leaves == {"report-v1", "proof-v2", "leaf-v2"}
V2 == {"report-v2", "proof-v1", "manifest"}
Chained == {"report-v1", "proof-v1", "group-v1"}
Covered == {"report-v1", "coverage-v1"}
Assured == {"report-v1", "assurance-v1"}
Traced == {"report-v1", "provenance-v1"}

ProofCase(requires, expect, signed, p) == Case(requires, expect, verify(signed, p, Venue))
ProofCaseV2(expect, signed, p) == Case(V1Leaves, expect, verify_v2(signed, p, Venue))

proof_cases ==
  <<ProofCase(V1, "Ok", report, proof),
    ProofCase(V1, "RootHashMismatch", report, [proof EXCEPT !.leaf.balances.CBTC = 37]),
    ProofCase(V1, "DigestMismatch",
              [report EXCEPT !.report.root_sums[qualified("", "USDA")] = 7], proof),
    ProofCase(V1, "BadSignature",
              [report EXCEPT !.signature.value = <<"forged", report_digest(report.report)>>],
              proof),
    ProofCase(V1, "DigestMismatch", report, [proof EXCEPT !.report_digest = <<"other">>]),
    ProofCase(V2, "Ok", golden_v2.signed, golden_v2.proofs[2]),
    ProofCase(V2, "ManifestInconsistent",
              [golden_v2.signed EXCEPT !.report.manifest[1].fields.root_sums = "Withheld"],
              golden_v2.proofs[2]),
    ProofCaseV2("Ok", repo.signed, repo.proofs[1]),
    ProofCaseV2("Profile",
                [repo.signed EXCEPT !.report.root_sums[qualified("exposure", "USDA")] = 3996],
                repo.proofs[1])>>

MemberCase(expect, membership) ==
  Case({"report-v1", "group-v1"}, expect, verify_membership(group.signed, membership, Venue))
ChainCase(expect, signed, membership) ==
  Case(Chained, expect, verify_chain(signed, membership, report, proof, Venue, Venue))

member_cases ==
  <<MemberCase("Ok", group.memberships[1]),
    MemberCase("RootHashMismatch",
               [group.memberships[1] EXCEPT !.entity.id = "golden-entity-z"])>>

\* The tolerance is the corpus's own; a pairing that verifies and does not
\* cover is a shortfall.
CoverageCase(requires, expect, held, owed, statement) ==
  Case(requires, expect,
       InOrder(<<verify_coverage(held, owed, statement, Venue, Venue, SAME_RUN),
                 Expect(fully_covered(Outcome(held.report, owed.report)), "Shortfall")>>))

coverage_cases ==
  LET statement == Pairing(custody, report) IN
  <<CoverageCase(Covered, "Ok", custody, report, statement),
    CoverageCase(Covered, "DigestMismatch", custody, report,
                 [statement EXCEPT !.custody_report_digest = <<"other">>]),
    CoverageCase(Covered, "UnknownSigner", [custody EXCEPT !.signature.public_key = "abab"],
                 report, statement)>>

signed_cases ==
  <<ProofCase(V1, "UnknownSigner", foreign_signer.signed, foreign_signer.proofs[2]),
    ChainCase("EntitySumsMismatch", entity_sums.signed, entity_sums.memberships[1]),
    ProofCase(V2, "ManifestInconsistent", published_but_absent.signed,
              published_but_absent.proofs[2]),
    ProofCase(V1 \cup {"manifest"}, "ManifestPresence",
              [report EXCEPT !.report.manifest = <<manifest>>], proof),
    ProofCase(V2, "ManifestPresence", [golden_v2.signed EXCEPT !.report.manifest = <<>>],
              golden_v2.proofs[2])>>

profile_cases ==
  <<ProofCaseV2("Ok", dvp.signed, dvp.proofs[1]),
    ProofCaseV2("Profile", dvp.signed, dvp.proofs[2]),
    ProofCaseV2("Ok", Fund({"units", "entitlement"}).signed,
                Fund({"units", "entitlement"}).proofs[1]),
    ProofCaseV2("Ok", Eligibility(TRUE).signed, Eligibility(TRUE).proofs[1]),
    ProofCaseV2("Profile", Eligibility(FALSE).signed, Eligibility(FALSE).proofs[1]),
    ProofCaseV2("Profile", Fund({"units"}).signed, Fund({"units"}).proofs[1]),
    CoverageCase(Covered, "Shortfall", shortfall, report, Pairing(shortfall, report))>>

version_cases ==
  <<ProofCase(V1, "UnsupportedVersion",
              [report EXCEPT !.report.format_version = "report-v9"], proof),
    ProofCase(V1, "UnsupportedVersion", report, [proof EXCEPT !.format_version = "proof-v9"]),
    ProofCase(V1, "UnsupportedVersion",
              [report EXCEPT !.signature.algorithm = "ed448"], proof)>>

anchor == anchor_report(report, <<>>)
second ==
  [anchor EXCEPT !.snapshot_time = NextDay, !.ledger_offset = 43,
                 !.prev_anchor = <<anchor_digest(anchor)>>]

\* The rules of a history are AnchorChain's; snapshot times are compared as text.
Chain == INSTANCE AnchorChain WITH NoAnchor <- <<>>, Before <- TextBefore
Entry(a) ==
  [digest |-> anchor_digest(a),
   prev |-> IF a.prev_anchor = <<>> THEN <<>> ELSE a.prev_anchor[1],
   publisher |-> a.publisher,
   snapshot_time |-> a.snapshot_time,
   ledger_offset |-> a.ledger_offset]
HistoryCase(expect, history) ==
  LET verdict == Chain!verify_chain([i \in DOMAIN history |-> Entry(history[i])]) IN
  Case({"anchor-v1"}, expect, IF verdict.ok THEN "Ok" ELSE verdict.kind)

anchor_cases ==
  <<HistoryCase("Ok", <<anchor, second>>),
    HistoryCase("NotGenesis", <<second>>),
    HistoryCase("PublisherChanged", <<anchor, [second EXCEPT !.publisher = "somebody-else"]>>),
    HistoryCase("WentBackwards", <<anchor, [second EXCEPT !.snapshot_time = NewYear]>>),
    HistoryCase("WentBackwards", <<anchor, [second EXCEPT !.ledger_offset = 1]>>),
    HistoryCase("Broken", <<anchor, [second EXCEPT !.prev_anchor = <<<<"other">>>>]>>)>>

chain_cases ==
  <<ChainCase("Ok", group.signed, group.memberships[1]),
    ChainCase("EntityRootMismatch", group.signed, group.memberships[2]),
    ProofCase(V1, "RootSumsMismatch", understated.signed, understated.proof),
    ProofCase(V1, "Ok", astral.signed, astral.proofs[1])>>

\* One field's declared level, checked with evidence and with attestors trusted.
Declared(field, level) ==
  [format_version |-> "assurance-v1", report_digest |-> report_digest(report.report),
   levels |-> [f \in {field} |-> level]]
NoEvidence == [proof |-> <<>>, anchor |-> <<>>, provenance |-> <<>>, attestations |-> {}]
WithProof == [NoEvidence EXCEPT !.proof = <<proof>>]
Attested == [NoEvidence EXCEPT !.attestations = {attestation}]
Nobody == [key \in {} |-> "third-party"]
TheCustodian == [key \in {Custodian} |-> "third-party"]
AssuranceCase(requires, expect, statement, evidence, attestors) ==
  Case(requires, expect,
       verify_assurance(report, statement, evidence,
                        [publisher |-> Venue, attestors |-> attestors]))

assurance_cases ==
  LET recomputed == Declared("root_sums", "cryptographically-verified") IN
  <<AssuranceCase(Assured \cup V1, "Ok", recomputed, WithProof, Nobody),
    AssuranceCase(Assured, "OverClaimed", recomputed, NoEvidence, Nobody),
    AssuranceCase(Assured \cup V1, "OverClaimed",
                  Declared("mark_prices", "cryptographically-verified"), WithProof, Nobody),
    AssuranceCase(Assured, "Ok", Declared("root_sums", "third-party-attested"), Attested,
                  TheCustodian),
    AssuranceCase(Assured, "OverClaimed", Declared("root_sums", "third-party-attested"),
                  Attested, Nobody),
    AssuranceCase(Assured, "OverClaimed", Declared("root_sums", "issuer-attested"), Attested,
                  TheCustodian),
    AssuranceCase(Assured \cup V1, "DigestMismatch",
                  [recomputed EXCEPT !.report_digest = <<"other">>], WithProof, Nobody),
    AssuranceCase(Assured \cup V1, "Malformed", Declared("solvency_vibes", "claimed-only"),
                  WithProof, Nobody)>>

pairing_cases ==
  <<CoverageCase(Covered \cup {"report-v2", "leaf-v2"}, "TemporalMismatch",
                 stale_custody, stale_liabilities,
                 Pairing(stale_custody, stale_liabilities))>>

\* A case of a graph, beside a statement or none.
GraphCase(requires, expect, g, statements) ==
  Case(requires, expect,
       InOrder(<<verify_provenance(report, g, Venue)>>
               \o [i \in DOMAIN statements |->
                     check_against_assurance(g.provenance, statements[i].levels)]))

provenance_cases ==
  LET traced == [NoEvidence EXCEPT !.anchor = <<anchor>>]
      derived == Declared("root_sums", "ledger-derived")
  IN
  <<GraphCase(Traced, "Ok", sign_provenance(graph), <<>>),
    GraphCase(Traced, "ProvenanceInconsistent",
              sign_provenance([graph EXCEPT !.derivations[1].sources[2] = "ghost-template"]), <<>>),
    GraphCase(Traced, "ProvenanceInconsistent",
              sign_provenance([graph EXCEPT !.sources[3].basis = <<>>]), <<>>),
    GraphCase(Traced \cup Assured, "Ok", sign_provenance(graph), <<derived>>),
    GraphCase(Traced \cup Assured, "ProvenanceInconsistent", sign_provenance(graph),
              <<Declared("mark_prices", "ledger-derived")>>),
    AssuranceCase(Assured \cup {"anchor-v1", "provenance-v1"}, "Ok", derived,
                  [traced EXCEPT !.provenance = <<graph>>], Nobody),
    AssuranceCase(Assured \cup {"anchor-v1"}, "OverClaimed", derived, traced, Nobody)>>

\* A delivery is the files of a directory besides the index.
Delivered == ByName(members)
PackCase(expect, index, files) ==
  Case({"pack-v1"}, expect, verify_pack(index, Venue, files))

pack_cases ==
  LET entries == pack.pack.entries
      escaping == [pack.pack EXCEPT
                     !.entries = [n \in (DOMAIN entries \ {"proof.json"}) \cup {PathName} |->
                                    entries[IF n = PathName THEN "proof.json" ELSE n]]] IN
  <<PackCase("UnsafeName",
             [pack |-> escaping, signature |-> SignatureOf(Venue, pack_digest(escaping))],
             Delivered),
    PackCase("UnsupportedVersion", [pack EXCEPT !.pack.format_version = "pack-v9"], Delivered),
    PackCase("Ok", pack, Delivered),
    PackCase("Missing", pack, [n \in {"report.json"} |-> Delivered[n]]),
    PackCase("Altered", pack,
             [Delivered EXCEPT !["proof.json"] = <<"proof", proof, "one more line">>]),
    PackCase("Unlisted", pack,
             [n \in DOMAIN Delivered \cup {"extra.json"} |->
                IF n = "extra.json" THEN <<"extra">> ELSE Delivered[n]])>>

cases ==
  proof_cases \o member_cases \o coverage_cases \o signed_cases \o profile_cases
    \o version_cases \o anchor_cases \o chain_cases \o assurance_cases \o pairing_cases
    \o provenance_cases \o pack_cases

-----------------------------------------------------------------------------
(* A run over the corpus, case after case, ends in a statement.            *)

CorpusInit ==
  /\ supports \in {SUPPORTED \ left_out : left_out \in SUBSET Partial}
  /\ results = <<>>

Claimed(c) == c.requires \subseteq supports

\* The case after those that have been run.
Upcoming(all) == {all[i] : i \in DOMAIN all \cap {Len(results) + 1}}

\* A case outside the claimed features is skipped, never run.
RunCase ==
  /\ \E c \in Upcoming(cases) :
       results' = Append(results, [case |-> c,
                                   outcome |-> IF ~Claimed(c) THEN "skip"
                                               ELSE IF c.verdict = "Ok" THEN "accept" ELSE "reject"])
  /\ UNCHANGED supports

-----------------------------------------------------------------------------

\* Every verifier gives each document of the corpus the verdict the corpus
\* declares: the right failure, not only a rejection (tests/conformance.rs).
AsTheCorpusExpects ==
  \A r \in Range(results) : r.outcome # "skip" => r.case.verdict = r.case.expect
=============================================================================
