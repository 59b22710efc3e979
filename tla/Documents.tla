----------------------------- MODULE Documents ------------------------------
(***************************************************************************)
(* What publishers issue: signed reports over a Merkle sum tree and the    *)
(* inclusion proofs of its leaves, group reports over entity reports,      *)
(* coverage statements, attestations, anchors and evidence packs           *)
(* (rust/solvency-report/src: document, digest, sign, produce, group,      *)
(* anchor, pack; rust/solvency-merkle).                                    *)
(*                                                                         *)
(* A hash or digest is the term that was hashed, under the domain it was   *)
(* hashed with; <<>> stands for a text that is no 32 bytes of hex.  A      *)
(* signature is the key and the digest it was made with.  A document with  *)
(* a signature is [report |-> .., signature |-> ..] or alike; an optional  *)
(* value is <<>> or <<x>>.  A key of a total is the map and the asset it   *)
(* was qualified with, the map of a v1 leaf being "".                      *)
(***************************************************************************)
EXTENDS Integers, Sequences, FiniteSets, SequencesExt

CONSTANTS
  MaxAmount,  \* the largest u128
  One,        \* the fixed-point representation of 1
  FileNames   \* the names files may have, ascending

ASSUME AmountAssumption == MaxAmount \in Nat /\ One \in 1..MaxAmount

-----------------------------------------------------------------------------
(* Verdicts.  A check is "Ok" or the failure it reports.                   *)

Expect(holds, failure) == IF holds THEN "Ok" ELSE failure

\* The first check of a sequence that fails.
InOrder(checks) ==
  LET failed == {i \in DOMAIN checks : checks[i] # "Ok"}
  IN  IF failed = {} THEN "Ok" ELSE checks[CHOOSE i \in failed : \A j \in failed : i <= j]

-----------------------------------------------------------------------------
(* The tree.  A node is its hash and its totals.                           *)

Of(sums, key) == IF key \in DOMAIN sums THEN sums[key] ELSE 0

qualified(map, asset) == <<map, asset>>

\* The totals of one map of amounts per asset.
Flattened(map, amounts) ==
  [key \in {qualified(map, asset) : asset \in DOMAIN amounts} |-> amounts[key[2]]]

\* No amounts.
Nothing == [asset \in {} |-> 0]

leaf_salt(master, subject) == <<"salt", master, subject>>

leaf_node(leaf) ==
  [hash |-> <<"leaf-v1", leaf.salt, leaf.subject, leaf.balances>>,
   sums |-> Flattened("", leaf.balances)]

leaf_node_v2(leaf) ==
  [hash |-> <<"leaf-v2", leaf.salt, leaf.subject, leaf.maps>>,
   sums |-> [key \in UNION {{qualified(m, a) : a \in DOMAIN leaf.maps[m]} : m \in DOMAIN leaf.maps}
               |-> leaf.maps[key[1]][key[2]]]]

\* The identity is part of the hash, so that no entity passes for another of
\* equal totals.
entity_leaf_node(entity) ==
  [hash |-> <<"entity", entity.id, entity.root_hash, entity.root_sums>>,
   sums |-> entity.root_sums]

combine(left, right) ==
  LET sums == [key \in DOMAIN left.sums \cup DOMAIN right.sums |->
                 Of(left.sums, key) + Of(right.sums, key)]
  IN  [hash |-> <<"node", left.hash, right.hash, sums>>, sums |-> sums]

\* Totals only grow on the way up, so the checked additions below a node all
\* succeed exactly if its own totals are amounts.
Overflows(node) == \E key \in DOMAIN node.sums : node.sums[key] > MaxAmount

\* The level above: pairs combined, an odd node promoted unchanged.
LevelAbove(level) ==
  [i \in 1..((Len(level) + 1) \div 2) |->
     IF 2 * i <= Len(level) THEN combine(level[2 * i - 1], level[2 * i]) ELSE level[2 * i - 1]]

\* How many levels above the leaves the first of one node is, which is the root's.
Height(n) ==
  LET width[h \in 0..n] == IF h = 0 THEN n ELSE (width[h - 1] + 1) \div 2
  IN  CHOOSE h \in 0..n : width[h] = 1 /\ \A k \in 0..(h - 1) : width[k] # 1

\* Levels(nodes)[n + 1] is the level at height n.
Levels(nodes) ==
  LET level[n \in 0..Height(Len(nodes))] == IF n = 0 THEN nodes ELSE LevelAbove(level[n - 1])
  IN  [n \in 1..(Height(Len(nodes)) + 1) |-> level[n - 1]]

Root(nodes) == Last(Levels(nodes))[1]

\* The sibling of a node of a level, or none when it is promoted.
StepAt(level, idx) ==
  LET left == idx % 2 = 0
      sibling == IF left THEN idx - 1 ELSE idx + 1
  IN  IF sibling > Len(level) THEN <<>>
      ELSE <<[sibling |-> level[sibling], on_left |-> left]>>

\* The siblings on the way from the leaf to the root.
prove(nodes, i) ==
  LET levels == Levels(nodes)
      idx[n \in 0..Len(levels)] == IF n = 0 THEN i ELSE (idx[n - 1] + 1) \div 2
      steps[n \in 0..Len(levels)] ==
        IF n <= 1 THEN <<>> ELSE steps[n - 1] \o StepAt(levels[n - 1], idx[n - 2])
  IN  steps[Len(levels)]

\* A proof's steps applied to its leaf.
fold(leaf, steps) ==
  LET node[n \in 0..Len(steps)] ==
        IF n = 0 THEN leaf
        ELSE IF steps[n].on_left THEN combine(steps[n].sibling, node[n - 1])
                                 ELSE combine(node[n - 1], steps[n].sibling)
  IN  node[Len(steps)]

-----------------------------------------------------------------------------
(* Digests and signatures.                                                 *)

\* The v1 digest leaves the manifest out, and the two have different domains.
report_digest(report) ==
  IF report.format_version = "report-v2"
  THEN <<"report-v2", report>>
  ELSE <<"report-v1", [report EXCEPT !.manifest = <<>>]>>

anchor_digest(anchor) == <<"anchor", anchor>>
attestation_digest(attestation) == <<"attestation", attestation>>
provenance_digest(provenance) == <<"provenance", provenance>>
pack_digest(pack) == <<"pack", pack>>
member_digest(bytes) == <<"sha256", bytes>>

\* A key that is no 32 bytes of hex.
Garbled == "garbled"

sign_digest(key, digest) == <<key, digest>>

SignatureOf(key, digest) ==
  [algorithm |-> "ed25519", public_key |-> key, value |-> sign_digest(key, digest)]

verify_signature(key, digest, value) ==
  InOrder(<<Expect(key # Garbled, "Malformed"),
            Expect(value # <<>>, "Malformed"),
            Expect(value = sign_digest(key, digest), "BadSignature")>>)

SignedReport(report, key) ==
  [report |-> report, signature |-> SignatureOf(key, report_digest(report))]

-----------------------------------------------------------------------------
(* Producing.  What publish is given besides the leaves is meta: the       *)
(* report's fields the tree does not determine.                            *)

ReportOver(nodes, profile, meta) ==
  [format_version |-> IF meta.manifest = <<>> THEN "report-v1" ELSE "report-v2",
   profile |-> profile,
   publisher |-> meta.publisher,
   snapshot_time |-> meta.snapshot_time,
   ledger_offset |-> meta.ledger_offset,
   root_hash |-> Root(nodes).hash,
   leaf_count |-> Len(nodes),
   root_sums |-> Root(nodes).sums,
   mark_prices |-> meta.mark_prices,
   bad_debt |-> meta.bad_debt,
   house_accounts |-> meta.house_accounts,
   house_totals |-> meta.house_totals,
   manifest |-> meta.manifest]

\* A signed report and a proof for each of its leaves, in their order.
Publication(leaves, nodes, proof_version, profile, meta, key) ==
  LET report == ReportOver(nodes, profile, meta) IN
  [signed |-> SignedReport(report, key),
   proofs |-> [i \in DOMAIN leaves |->
                 [format_version |-> proof_version,
                  report_digest |-> report_digest(report),
                  leaf |-> leaves[i],
                  steps |-> prove(nodes, i)]]]

publish(leaves, meta, key) ==
  Publication(leaves, [i \in DOMAIN leaves |-> leaf_node(leaves[i])],
              "proof-v1", meta.profile, meta, key)

publish_v2(leaves, meta, key) ==
  Publication(leaves, [i \in DOMAIN leaves |-> leaf_node_v2(leaves[i])],
              "proof-v2", meta.profile, meta, key)

\* One commitment cut for several audiences: the manifests, by audience.
publish_for_audiences(leaves, meta, manifests, key) ==
  [m \in manifests |-> publish(leaves, [meta EXCEPT !.manifest = <<m>>], key)]

same_commitment(a, b) ==
  /\ a.root_hash = b.root_hash
  /\ a.root_sums = b.root_sums
  /\ a.leaf_count = b.leaf_count

\* A group states something else than its members: its profile is its own.
publish_group(entities, meta, key) ==
  LET nodes == [i \in DOMAIN entities |-> entity_leaf_node(entities[i])]
      report == ReportOver(nodes, "solvency.group", meta)
  IN
  [signed |-> SignedReport(report, key),
   memberships |-> [i \in DOMAIN entities |->
                      [format_version |-> "membership-v1",
                       group_report_digest |-> report_digest(report),
                       entity |-> entities[i],
                       steps |-> prove(nodes, i)]]]

anchor_report(signed, previous) ==
  [format_version |-> "anchor-v1",
   report_digest |-> report_digest(signed.report),
   root_hash |-> signed.report.root_hash,
   snapshot_time |-> signed.report.snapshot_time,
   ledger_offset |-> signed.report.ledger_offset,
   publisher |-> signed.report.publisher,
   publisher_key |-> signed.signature.public_key,
   prev_anchor |-> IF previous = <<>> THEN <<>> ELSE <<anchor_digest(previous[1])>>]

\* A name that is a path and not a file name.
PathName == "../a-path"

\* The files of a directory, of which no two have one name.
ByName(files) ==
  [n \in {f.name : f \in Range(files)} |-> (CHOOSE f \in Range(files) : f.name = n).bytes]

\* Members arrive as a sequence of names and bytes.  The entries, which are
\* listed by name, are a function.  The result is a failure or the pack.
build_pack(publisher, snapshot_time, report_digest_hex, members, key) ==
  LET Sound(i) == InOrder(<<Expect(members[i].name # PathName, "UnsafeName"),
                            Expect(\A j \in 1..(i - 1) : members[j].name # members[i].name,
                                   "DuplicateEntry")>>)
      bytes == ByName(members)
      pack == [format_version |-> "pack-v1",
               publisher |-> publisher,
               snapshot_time |-> snapshot_time,
               report_digest |-> report_digest_hex,
               entries |-> [n \in DOMAIN bytes |-> member_digest(bytes[n])]]
  IN  [verdict |-> InOrder([i \in DOMAIN members |-> Sound(i)]),
       signed |-> [pack |-> pack, signature |-> SignatureOf(key, pack_digest(pack))]]
=============================================================================
