----------------------------- MODULE Verifiers ------------------------------
(***************************************************************************)
(* What a reader checks (rust/solvency-report/src: verify, profile,        *)
(* manifest, instant, assurance, provenance, group, coverage, pack,        *)
(* anchor): every verifier is the list of its checks in the order they are *)
(* made, and its verdict the first that fails.                             *)
(*                                                                         *)
(* A timestamp is what is written: <<year, month, day, hour, minute,       *)
(* second, tail>>.                                                         *)
(***************************************************************************)
EXTENDS Documents

hash32(text) == Expect(text # <<>>, "Malformed")

expect_version(found, want) == Expect(found = want, "UnsupportedVersion")

-----------------------------------------------------------------------------
(* Profiles.                                                               *)

Rules(leaf, aggregates, covering, covered, leaf_maps, unanimous) ==
  [leaf |-> leaf, required_aggregates |-> aggregates, covering |-> covering,
   covered |-> covered, required_leaf_maps |-> leaf_maps, unanimous_maps |-> unanimous]

REGISTRY ==
  [profile \in {"solvency.liabilities", "solvency.group", "collateral.repo", "fund.nav",
                "settlement.dvp", "eligibility.holder", "coverage.custody"} |->
    CASE profile = "solvency.liabilities" -> Rules("Customer", {"root_sums"}, "", "", {}, {})
      [] profile = "solvency.group" -> Rules("Entity", {"root_sums"}, "", "", {}, {})
      [] profile = "collateral.repo" ->
           Rules("RepoLeg", {"collateral", "exposure"}, "collateral", "exposure", {}, {})
      [] profile = "fund.nav" -> Rules("Shareholder", {"units", "entitlement"}, "", "", {}, {})
      [] profile = "settlement.dvp" ->
           Rules("SettledTrade", {"delivered", "paid"}, "", "", {"delivered", "paid"}, {})
      [] profile = "eligibility.holder" ->
           Rules("AttestedHolder", {"attested"}, "", "", {"attested"}, {"attested"})
      [] profile = "coverage.custody" ->
           Rules("CustodyPosition", {"held"}, "", "", {"held"}, {})]

uses_leaf_v2(leaf) == leaf \notin {"Customer", "Entity"}

\* The totals of one map, by asset.
AssetsIn(report, map) == {key[2] : key \in {k \in DOMAIN report.root_sums : k[1] = map}}

\* A required aggregate carries data.
Aggregated(report, aggregate) ==
  IF aggregate = "root_sums" THEN DOMAIN report.root_sums # {} ELSE AssetsIn(report, aggregate) # {}

\* Per asset: a surplus in one does not excuse a shortfall in another.
Covers(report, covering, covered) ==
  \A asset \in AssetsIn(report, covered) :
    Of(report.root_sums, <<covering, asset>>) >= report.root_sums[<<covered, asset>>]

\* Every rule of the map totals the number of leaves.
Unanimous(report, map) ==
  LET saturated == report.leaf_count * One IN
  \A rule \in AssetsIn(report, map) :
    report.root_sums[<<map, rule>>] = IF saturated > MaxAmount THEN MaxAmount ELSE saturated

validate(report) ==
  LET rules == REGISTRY[report.profile] IN
  Expect(/\ report.profile \in DOMAIN REGISTRY
         /\ \A aggregate \in rules.required_aggregates : Aggregated(report, aggregate)
         /\ rules.covering # "" => Covers(report, rules.covering, rules.covered)
         /\ \A map \in rules.unanimous_maps : Unanimous(report, map),
         "Profile")

expect_leaf_kind(report, kind) ==
  InOrder(<<validate(report),
            Expect(report.profile \in DOMAIN REGISTRY /\ REGISTRY[report.profile].leaf = kind,
                   "Profile")>>)

expect_leaf_v2(report) ==
  InOrder(<<validate(report),
            Expect(/\ report.profile \in DOMAIN REGISTRY
                   /\ uses_leaf_v2(REGISTRY[report.profile].leaf),
                   "Profile")>>)

-----------------------------------------------------------------------------
(* The disclosure manifest.                                                *)

REPORT_RESIDENT_FIELDS == {"root_sums", "mark_prices", "bad_debt", "house_accounts", "house_totals"}
KNOWN_FIELDS == REPORT_RESIDENT_FIELDS \cup {"customer_balances", "customer_identities"}

carries_data(report, path) ==
  CASE path = "root_sums" -> DOMAIN report.root_sums # {}
    [] path = "mark_prices" -> DOMAIN report.mark_prices # {}
    [] path = "bad_debt" -> DOMAIN report.bad_debt # {}
    [] path = "house_accounts" -> report.house_accounts > 0
    [] path = "house_totals" -> DOMAIN report.house_totals # {}
    [] OTHER -> FALSE

\* What a manifest says of a field of the body agrees with the body.
Consistent(report, path, state) ==
  path \in REPORT_RESIDENT_FIELDS => (carries_data(report, path) <=> state = "Published")

check_manifest_consistency(report, manifest) ==
  Expect(\A path \in DOMAIN manifest.fields :
           path \in KNOWN_FIELDS /\ Consistent(report, path, manifest.fields[path]),
         "ManifestInconsistent")

check_report_version_and_manifest(report) ==
  CASE report.format_version = "report-v1" -> Expect(report.manifest = <<>>, "ManifestPresence")
    [] report.format_version = "report-v2" ->
         IF report.manifest = <<>> THEN "ManifestPresence"
         ELSE check_manifest_consistency(report, report.manifest[1])
    [] OTHER -> "UnsupportedVersion"

\* Mutant of Reductions: a field no longer listed is not compared.
ReductionsOfListed(previous, current) ==
  {path \in DOMAIN previous.fields \cap DOMAIN current.fields :
     previous.fields[path] = "Published" /\ current.fields[path] # "Published"}

\* diff, of which is_reduction keeps the fields published before and no more.
Reductions(previous, current) ==
  {path \in DOMAIN previous.fields :
     /\ previous.fields[path] = "Published"
     /\ path \in DOMAIN current.fields => current.fields[path] # "Published"}

-----------------------------------------------------------------------------
(* Timestamps: as text, and as instants.                                   *)

\* What may stand behind the seconds, as bytes order it: another offset, two
\* fractions, nothing but the Z.
Tails == <<"+00:00", ".25Z", ".2Z", "Z">>

SameSecond(s, t) == \A i \in 1..6 : s[i] = t[i]

\* The order of strings: the fields are of one width, the first that differs decides.
TextBefore(s, t) ==
  \/ \E i \in 1..6 : s[i] < t[i] /\ \A j \in 1..(i - 1) : s[j] = t[j]
  \/ /\ SameSecond(s, t)
     /\ \E i, j \in DOMAIN Tails : i < j /\ s[7] = Tails[i] /\ t[7] = Tails[j]

is_leap(y) == (y % 4 = 0 /\ y % 100 # 0) \/ y % 400 = 0

days_in_month(y, m) ==
  CASE m \in {1, 3, 5, 7, 8, 10, 12} -> 31
    [] m \in {4, 6, 9, 11} -> 30
    [] m = 2 -> IF is_leap(y) THEN 29 ELSE 28
    [] OTHER -> 0

\* Days from 1970-01-01, years beginning in March.
days_from_civil(year, m, d) ==
  LET y == IF m <= 2 THEN year - 1 ELSE year
      era == (IF y >= 0 THEN y ELSE y - 399) \div 400
      yoe == y - era * 400
      doy == (153 * ((m + 9) % 12) + 2) \div 5 + d - 1
  IN  era * 146097 + yoe * 365 + yoe \div 4 - yoe \div 100 + doy - 719468

\* Fractions of a second are accepted and dropped; no other offset than Z is,
\* and no leap second.
parses(t) ==
  /\ t[7] \in {".25Z", ".2Z", "Z"}
  /\ t[2] \in 1..12
  /\ t[3] \in 1..days_in_month(t[1], t[2])
  /\ t[4] <= 23 /\ t[5] <= 59 /\ t[6] <= 59

\* In seconds since the first of January 2026: TLC's integers are too small
\* for those since 1970.
Epoch == days_from_civil(2026, 1, 1)
parse(t) == (days_from_civil(t[1], t[2], t[3]) - Epoch) * 86400 + t[4] * 3600 + t[5] * 60 + t[6]

\* Mutant of skew: only lateness of the first counts.
skew_after(a, b) == parse(a) - parse(b)

skew(a, b) == IF parse(a) >= parse(b) THEN parse(a) - parse(b) ELSE parse(b) - parse(a)

EXACT == 0
SAME_RUN == 300

-----------------------------------------------------------------------------
(* Proofs and memberships against a signed report.                         *)

check_signature(digest, signature, trusted) ==
  InOrder(<<Expect(signature.public_key = trusted, "UnknownSigner"),
            verify_signature(trusted, digest, signature.value)>>)

\* Absent and zero are one claim.
SameTotals(a, b) == \A key \in DOMAIN a \cup DOMAIN b : Of(a, key) = Of(b, key)

\* Bind to the report, check the signature, fold, compare hash and totals.
verify_against_report(signed, leaf, steps, expected_digest, trusted) ==
  LET report == signed.report
      folded == fold(leaf, steps)
  IN
  InOrder(<<Expect(report_digest(report) = expected_digest, "DigestMismatch"),
            check_signature(report_digest(report), signed.signature, trusted),
            Expect(\A i \in DOMAIN steps : steps[i].sibling.hash # <<>>, "Malformed"),
            hash32(report.root_hash),
            Expect(~Overflows(folded), "Malformed"),
            Expect(folded.hash = report.root_hash, "RootHashMismatch"),
            Expect(SameTotals(folded.sums, report.root_sums), "RootSumsMismatch")>>)

verify(signed, proof, trusted) ==
  InOrder(<<check_report_version_and_manifest(signed.report),
            expect_leaf_kind(signed.report, "Customer"),
            expect_version(proof.format_version, "proof-v1"),
            expect_version(signed.signature.algorithm, "ed25519"),
            hash32(proof.leaf.salt),
            verify_against_report(signed, leaf_node(proof.leaf), proof.steps,
                                  proof.report_digest, trusted)>>)

\* What each leaf has to carry is seen when its own proof is checked.
LeafCarries(leaf, map) == map \in DOMAIN leaf.maps /\ DOMAIN leaf.maps[map] # {}

verify_v2(signed, proof, trusted) ==
  InOrder(<<check_report_version_and_manifest(signed.report),
            expect_leaf_v2(signed.report),
            expect_version(proof.format_version, "proof-v2"),
            expect_version(signed.signature.algorithm, "ed25519"),
            Expect(/\ signed.report.profile \in DOMAIN REGISTRY
                   /\ \A map \in REGISTRY[signed.report.profile].required_leaf_maps :
                        LeafCarries(proof.leaf, map),
                   "Profile"),
            hash32(proof.leaf.salt),
            verify_against_report(signed, leaf_node_v2(proof.leaf), proof.steps,
                                  proof.report_digest, trusted)>>)

verify_membership(signed, membership, trusted) ==
  InOrder(<<expect_version(membership.format_version, "membership-v1"),
            expect_leaf_kind(signed.report, "Entity"),
            hash32(membership.entity.root_hash),
            verify_against_report(signed, entity_leaf_node(membership.entity), membership.steps,
                                  membership.group_report_digest, trusted)>>)

\* Mutant of verify_chain: the two documents agree on the root only.
verify_chain_root(group, membership, entity, proof, group_key, entity_key) ==
  InOrder(<<verify(entity, proof, entity_key),
            verify_membership(group, membership, group_key),
            Expect(membership.entity.root_hash = entity.report.root_hash, "EntityRootMismatch")>>)

\* From a customer to the group's totals: both halves, and that they are
\* about one book.
verify_chain(group, membership, entity, proof, group_key, entity_key) ==
  InOrder(<<verify(entity, proof, entity_key),
            verify_membership(group, membership, group_key),
            Expect(membership.entity.root_hash = entity.report.root_hash, "EntityRootMismatch"),
            Expect(SameTotals(membership.entity.root_sums, entity.report.root_sums),
                   "EntitySumsMismatch")>>)

-----------------------------------------------------------------------------
(* Coverage: a custody report against a liabilities report.                *)

\* Mutant of Outcome: driven by what is held.
OutcomeOfHeld(custody, liabilities) ==
  [asset \in AssetsIn(custody, "held") |->
     [held |-> custody.root_sums[qualified("held", asset)],
      owed |-> Of(liabilities.root_sums, <<"", asset>>)]]

\* Driven by what is owed: owed and held nowhere is a shortfall.
Outcome(custody, liabilities) ==
  [asset \in AssetsIn(liabilities, "") |->
     [held |-> Of(custody.root_sums, qualified("held", asset)),
      owed |-> liabilities.root_sums[<<"", asset>>]]]

fully_covered(outcome) == \A asset \in DOMAIN outcome : outcome[asset].held >= outcome[asset].owed

verify_coverage(custody, liabilities, statement, custody_key, liabilities_key, max_skew) ==
  LET as_of == custody.report.snapshot_time
      owed_as_of == liabilities.report.snapshot_time
      parsed == parses(as_of) /\ parses(owed_as_of)
  IN
  InOrder(<<expect_version(statement.format_version, "coverage-v1"),
            Expect(custody.report.profile = "coverage.custody", "Profile"),
            Expect(liabilities.report.profile = "solvency.liabilities", "Profile"),
            Expect(report_digest(custody.report) = statement.custody_report_digest,
                   "DigestMismatch"),
            Expect(report_digest(liabilities.report) = statement.liabilities_report_digest,
                   "DigestMismatch"),
            check_signature(report_digest(custody.report), custody.signature, custody_key),
            check_signature(report_digest(liabilities.report), liabilities.signature,
                            liabilities_key),
            Expect(parsed, "Malformed"),
            Expect(parsed => skew(as_of, owed_as_of) <= max_skew, "TemporalMismatch")>>)

-----------------------------------------------------------------------------
(* Anchors.  Whether a history is unbroken is AnchorChain's verify_chain.  *)

verify_with_anchor(signed, proof, anchor) ==
  InOrder(<<expect_version(anchor.format_version, "anchor-v1"),
            Expect(anchor.report_digest = report_digest(signed.report), "DigestMismatch"),
            verify(signed, proof, anchor.publisher_key)>>)

\* Mutant of verify_anchored_reports: the digests are not compared.
verify_anchored_roots(anchors, reports) ==
  Expect(\A i \in DOMAIN anchors \cap DOMAIN reports :
           anchors[i].root_hash = reports[i].report.root_hash, "ReportMismatch")

\* Matched by position, as far as there are both.
verify_anchored_reports(anchors, reports) ==
  Expect(\A i \in DOMAIN anchors \cap DOMAIN reports :
           /\ anchors[i].report_digest = report_digest(reports[i].report)
           /\ anchors[i].root_hash = reports[i].report.root_hash,
         "ReportMismatch")

-----------------------------------------------------------------------------
(* Assurance: what each field may be said to rest on.                      *)

withheld(report, field) ==
  /\ \E m \in {report.manifest[i] : i \in DOMAIN report.manifest} :
       field \in DOMAIN m.fields /\ m.fields[field] = "Withheld"
  /\ ~carries_data(report, field)

anchors(report, anchor) ==
  /\ anchor.format_version = "anchor-v1"
  /\ anchor.report_digest = report_digest(report)
  /\ anchor.root_hash = report.root_hash
  /\ anchor.snapshot_time = report.snapshot_time
  /\ anchor.ledger_offset = report.ledger_offset
  /\ anchor.publisher = report.publisher

on_ledger(kind) == kind # "off-ledger"

\* The sources of the field's first derivation, by id, that can be looked up
\* on the ledger.
LedgerSources(graph, field) ==
  LET of_field == {i \in DOMAIN graph.derivations : graph.derivations[i].field = field}
      first == CHOOSE i \in of_field : \A j \in of_field : i <= j
  IN  IF of_field = {} THEN {}
      ELSE {s \in Range(graph.sources) :
              on_ledger(s.kind) /\ s.id \in Range(graph.derivations[first].sources)}

derives_from_ledger(graph, field) == LedgerSources(graph, field) # {}

\* Mutant of Attests: a trusted key attests in whatever role it states.
AttestsAsStated(a, report, field, trusted) ==
  /\ a.attestation.field = field
  /\ a.attestation.report_digest = report_digest(report)
  /\ a.signature.public_key \in DOMAIN trusted.attestors
  /\ verify_signature(a.signature.public_key, attestation_digest(a.attestation),
                      a.signature.value) = "Ok"

\* Trust is by key and role, decided before the document was opened.
Attests(a, report, field, trusted) ==
  /\ a.attestation.format_version = "attestation-v1"
  /\ a.attestation.field = field
  /\ a.attestation.report_digest = report_digest(report)
  /\ a.signature.public_key \in DOMAIN trusted.attestors
  /\ trusted.attestors[a.signature.public_key] = a.attestation.role
  /\ a.signature.algorithm = "ed25519"
  /\ verify_signature(a.signature.public_key, attestation_digest(a.attestation),
                      a.signature.value) = "Ok"

AttestedLevel(role) == IF role = "issuer" THEN "issuer-attested" ELSE "third-party-attested"

\* The levels the evidence supports for a field.  evidence.proof, .anchor and
\* .provenance are optional, .attestations is a set.
establish(signed, evidence, trusted, field) ==
  LET report == signed.report
      Recomputed == \E p \in Range(evidence.proof) : verify(signed, p, trusted.publisher) = "Ok"
      Anchored == \E a \in Range(evidence.anchor) : anchors(report, a)
      Derived == \E g \in Range(evidence.provenance) : derives_from_ledger(g, field)
  IN
  IF withheld(report, field)
  THEN {"not-disclosed"}
  ELSE {"claimed-only"}
       \cup (IF field = "root_sums" /\ Recomputed THEN {"cryptographically-verified"} ELSE {})
       \cup (IF Anchored /\ Derived THEN {"ledger-derived"} ELSE {})
       \cup {AttestedLevel(a.attestation.role) :
               a \in {b \in evidence.attestations : Attests(b, report, field, trusted)}}

verify_assurance(signed, statement, evidence, trusted) ==
  InOrder(<<expect_version(statement.format_version, "assurance-v1"),
            Expect(statement.report_digest = report_digest(signed.report), "DigestMismatch"),
            Expect(signed.signature.public_key = trusted.publisher, "UnknownSigner"),
            Expect(verify_signature(trusted.publisher, report_digest(signed.report),
                                    signed.signature.value) = "Ok", "BadSignature"),
            Expect(DOMAIN statement.levels \subseteq REPORT_RESIDENT_FIELDS, "Malformed"),
            Expect(\A field \in DOMAIN statement.levels \cap REPORT_RESIDENT_FIELDS :
                     statement.levels[field] \in establish(signed, evidence, trusted, field),
                   "OverClaimed")>>)

-----------------------------------------------------------------------------
(* Provenance: the graph's own rules, and against the declared levels.     *)

SourcesSound(sources) ==
  /\ \A i, j \in DOMAIN sources : sources[i].id = sources[j].id => i = j
  /\ \A s \in Range(sources) : ~on_ledger(s.kind) => s.basis \notin {<<>>, <<"">>}

DerivationsSound(derivations, ids) ==
  /\ \A i, j \in DOMAIN derivations : derivations[i].field = derivations[j].field => i = j
  /\ \A d \in Range(derivations) :
       /\ d.field \in REPORT_RESIDENT_FIELDS
       /\ d.sources # <<>>
       /\ Range(d.sources) \subseteq ids

verify_provenance(signed, graph, trusted) ==
  LET p == graph.provenance IN
  InOrder(<<expect_version(p.format_version, "provenance-v1"),
            Expect(p.report_digest = report_digest(signed.report), "DigestMismatch"),
            Expect(graph.signature.public_key = trusted, "UnknownSigner"),
            expect_version(graph.signature.algorithm, "ed25519"),
            Expect(verify_signature(trusted, provenance_digest(p), graph.signature.value) = "Ok",
                   "BadSignature"),
            Expect(SourcesSound(p.sources), "ProvenanceInconsistent"),
            Expect(DerivationsSound(p.derivations, {s.id : s \in Range(p.sources)}),
                   "ProvenanceInconsistent")>>)

check_against_assurance(graph, levels) ==
  Expect(\A field \in DOMAIN levels :
           levels[field] = "ledger-derived" => LedgerSources(graph, field) # {},
         "ProvenanceInconsistent")

-----------------------------------------------------------------------------
(* Evidence packs: the members delivered are those the index names.        *)

\* Mutant of verify_pack: a file the index does not list is passed over.
verify_pack_listed(signed, trusted, members) ==
  InOrder(<<Expect(signed.signature.public_key = trusted, "UnknownSigner"),
            Expect(verify_signature(trusted, pack_digest(signed.pack), signed.signature.value)
                     = "Ok", "BadSignature"),
            Expect(\A n \in DOMAIN signed.pack.entries :
                     n \in DOMAIN members /\ signed.pack.entries[n] = member_digest(members[n]),
                   "Altered")>>)

verify_pack(signed, trusted, members) ==
  LET entries == signed.pack.entries
      Checked(name) ==
        InOrder(<<Expect(name # PathName, "UnsafeName"),
                  Expect(name \in DOMAIN members, "Missing"),
                  Expect(/\ name \in DOMAIN members
                         /\ entries[name] = member_digest(members[name]), "Altered")>>)
  IN
  InOrder(<<expect_version(signed.pack.format_version, "pack-v1"),
            Expect(signed.signature.public_key = trusted, "UnknownSigner"),
            Expect(verify_signature(trusted, pack_digest(signed.pack), signed.signature.value)
                     = "Ok", "BadSignature"),
            InOrder([i \in DOMAIN FileNames |-> IF FileNames[i] \in DOMAIN entries
                                                THEN Checked(FileNames[i]) ELSE "Ok"]),
            Expect(DOMAIN members \subseteq DOMAIN entries, "Unlisted")>>)
=============================================================================
