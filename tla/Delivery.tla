------------------------------ MODULE Delivery ------------------------------
(***************************************************************************)
(* A delivery: the directory canton-solvency-publish writes                *)
(* (rust/solvency-report/src/bin/publish.rs) and what                      *)
(* canton-solvency-verify says of it (rust/solvency-cli/src: run, pack,    *)
(* lib) while it is written, after a crash and after later runs into the   *)
(* same directory.                                                         *)
(*                                                                         *)
(* A file is what was serialised into it with its kind, or Torn.  Exit     *)
(* codes are 0 (verified), 1 (refused) and 2 (the check did not happen).   *)
(***************************************************************************)
EXTENDS Verifiers

CONSTANTS
  Exports,    \* balance files: sequences of rows [user, asset, amount]
  Times,      \* snapshot times a run may be given
  SaltOrder,  \* for each time and set of users, these in the order of their salts
  Seed,       \* the publisher's key
  MaxRuns,    \* bound on the runs into one directory
  MaxReads    \* bound on the deliveries read

Customers == {r.user : r \in UNION {Range(rows) : rows \in Exports}}

ASSUME OrderAssumption ==
  \A time \in Times, users \in SUBSET Customers :
    /\ SaltOrder[time][users] \in Seq(users)
    /\ users \subseteq Range(SaltOrder[time][users])
    /\ \A i, j \in DOMAIN SaltOrder[time][users] :
         SaltOrder[time][users][i] = SaltOrder[time][users][j] => i = j

ASSUME ExportsAssumption == \A rows \in Exports : rows \in Seq(Range(rows))

\* The hex of a key that was made is no malformed one.
ASSUME SeedAssumption == Seed # Garbled

VARIABLES
  disk,     \* the output directory: bytes by name
  todo,     \* the files the run in progress has still to write, or <<>>
  torn,     \* whether the first of them has been truncated and not yet filled
  exports,  \* history: for each run begun, its whole output by name
  whole,    \* history: the output of the run that finished since the last began, or none
  reader,   \* the verify-pack or verify in progress, or the last one
  reads     \* how many there have been

deliveryVars == <<disk, todo, torn, exports, whole, reader, reads>>

-----------------------------------------------------------------------------
(* Publishing.                                                             *)

Torn == <<>>

\* A row has its three columns, and no user the same asset twice.
Readable(rows) ==
  /\ rows # <<>>
  /\ \A r \in Range(rows) : r.user # "" /\ r.asset # "" /\ r.amount \in 0..MaxAmount
  /\ \A i, j \in DOMAIN rows :
       rows[i].user = rows[j].user /\ rows[i].asset = rows[j].asset => i = j

\* One leaf for each user, in the order of the salts.
read_balances(rows, time) ==
  LET Users == {r.user : r \in Range(rows)}
      RowOf(u, a) == CHOOSE r \in Range(rows) : r.user = u /\ r.asset = a
      leaf(u) == [salt |-> leaf_salt(<<Seed, time>>, u),
                  subject |-> u,
                  balances |-> [a \in {r.asset : r \in {s \in Range(rows) : s.user = u}} |->
                                  RowOf(u, a).amount]]
      users == SaltOrder[time][Users]
  IN  [i \in DOMAIN users |-> leaf(users[i])]

\* Distinct for distinct users: a name sanitising changes gets a digest of it.
proof_filename(user) == "proof-" \o user \o ".json"

ASSUME NamesAssumption ==
  /\ FileNames \in Seq(Range(FileNames))
  /\ \A u, v \in Customers : proof_filename(u) = proof_filename(v) => u = v
  /\ \A u \in Customers :
       proof_filename(u) \in Range(FileNames)
                             \ {"report.json", "anchor.json", "pack.json", PathName}
  /\ {"report.json", "anchor.json", "pack.json"} \subseteq Range(FileNames) \ {PathName}

file(name, kind, document) == [name |-> name, bytes |-> <<kind, document>>]

\* The files of a run, the index over the others last.
Output(rows, time) ==
  LET meta == [profile |-> "solvency.liabilities", publisher |-> "publisher",
               snapshot_time |-> time, ledger_offset |-> 1, mark_prices |-> Nothing,
               bad_debt |-> Nothing, house_accounts |-> 0, house_totals |-> Nothing,
               manifest |-> <<>>]
      published == publish(read_balances(rows, time), meta, Seed)
      members ==
        <<file("report.json", "report", published.signed),
          file("anchor.json", "anchor", anchor_report(published.signed, <<>>))>>
        \o [i \in DOMAIN published.proofs |->
              file(proof_filename(published.proofs[i].leaf.subject), "proof", published.proofs[i])]
      built == build_pack(meta.publisher, time, report_digest(published.signed.report), members,
                          Seed)
  IN  Append(members, file("pack.json", "pack", built.signed))

\* index and got are what verify-pack checks, report and swept what the sweep
\* does; left is what has been listed and not yet read.
NoReader ==
  [index |-> <<>>, got |-> [n \in {} |-> Torn], report |-> Torn, swept |-> [n \in {} |-> Torn],
   left |-> {}, at |-> "idle", exit |-> 2]

DeliveryInit ==
  /\ disk = [n \in {} |-> Torn]
  /\ todo = <<>>
  /\ torn = FALSE
  /\ exports = <<>>
  /\ whole = {}
  /\ reader = NoReader
  /\ reads = 0

\* Everything is computed before the first file is written; an export that does
\* not read, or whose totals overflow, ends the run there.
BeginExport(rows, time) ==
  /\ todo = <<>>
  /\ Len(exports) < MaxRuns
  /\ Readable(rows)
  /\ ~Overflows(Root([i \in DOMAIN read_balances(rows, time) |->
                        leaf_node(read_balances(rows, time)[i])]))
  /\ todo' = Output(rows, time)
  /\ exports' = Append(exports, ByName(Output(rows, time)))
  /\ whole' = {}
  /\ UNCHANGED <<disk, torn, reader, reads>>

\* fs::write opens the file, truncating it, and fills it.
TruncateFile ==
  /\ todo # <<>> /\ ~torn
  /\ disk' = [n \in DOMAIN disk \cup {Head(todo).name} |->
                IF n = Head(todo).name THEN Torn ELSE disk[n]]
  /\ torn' = TRUE
  /\ UNCHANGED <<todo, exports, whole, reader, reads>>

FillFile ==
  /\ torn
  /\ disk' = [disk EXCEPT ![Head(todo).name] = Head(todo).bytes]
  /\ todo' = Tail(todo)
  /\ torn' = FALSE
  /\ whole' = IF Tail(todo) = <<>> THEN {Last(exports)} ELSE {}
  /\ UNCHANGED <<exports, reader, reads>>

\* The tool dies; what it has written stays.
CrashExport ==
  /\ todo # <<>>
  /\ todo' = <<>>
  /\ torn' = FALSE
  /\ UNCHANGED <<disk, exports, whole, reader, reads>>

-----------------------------------------------------------------------------
(* Verifying.                                                              *)

EXIT_OK == 0
EXIT_VERIFICATION_FAILED == 1
EXIT_USAGE_OR_IO == 2

Proofs(files) == {n \in DOMAIN files : files[n] # Torn /\ files[n][1] = "proof"}

\* A torn file is neither a proof nor a document known to lie beside proofs.
Unreadable(files) == \E n \in DOMAIN files : files[n] = Torn

\* Mutant of sweep_exit: one proof that verifies is enough.
sweep_exit_any(report, files, trusted) ==
  IF Unreadable(files) THEN EXIT_USAGE_OR_IO
  ELSE IF \E n \in Proofs(files) : verify(report[2], files[n][2], trusted) = "Ok"
       THEN EXIT_OK ELSE EXIT_VERIFICATION_FAILED

\* Mutant of sweep_exit: the index is taken for a malformed proof.
sweep_exit_index(report, files, trusted) ==
  IF Unreadable(files) \/ "pack.json" \in DOMAIN files THEN EXIT_USAGE_OR_IO
  ELSE IF \A n \in Proofs(files) : verify(report[2], files[n][2], trusted) = "Ok"
       THEN EXIT_OK ELSE EXIT_VERIFICATION_FAILED

\* run, of a report and the files of a directory: documents known to lie beside
\* proofs are passed over, anything else that is no proof ends it.
sweep_exit(report, files, trusted) ==
  IF Unreadable(files) THEN EXIT_USAGE_OR_IO
  ELSE IF \A n \in Proofs(files) : verify(report[2], files[n][2], trusted) = "Ok"
       THEN EXIT_OK ELSE EXIT_VERIFICATION_FAILED

\* run_pack reads the index, lists the directory, and reads what it listed one
\* file at a time.
ReadIndex ==
  /\ reader.at = "idle"
  /\ reads < MaxReads
  /\ "pack.json" \in DOMAIN disk
  /\ disk["pack.json"] # Torn
  /\ reader' = [NoReader EXCEPT !.index = disk["pack.json"], !.at = "list"]
  /\ reads' = reads + 1
  /\ UNCHANGED <<disk, todo, torn, exports, whole>>

ListMembers ==
  /\ reader.at = "list"
  /\ reader' = [reader EXCEPT !.left = DOMAIN disk \ {"pack.json"}, !.at = "read"]
  /\ UNCHANGED <<disk, todo, torn, exports, whole, reads>>

ReadMember ==
  /\ reader.at = "read"
  /\ \E n \in reader.left :
       reader' = [reader EXCEPT
                    !.left = @ \ {n},
                    !.got = [m \in DOMAIN @ \cup {n} |-> IF m = n THEN disk[n] ELSE @[m]]]
  /\ UNCHANGED <<disk, todo, torn, exports, whole, reads>>

\* A delivery other than the one signed is refused without a look at its contents.
CheckIndex ==
  /\ reader.at = "read"
  /\ reader.left = {}
  /\ reader' = IF verify_pack(reader.index[2], Seed, reader.got) = "Ok"
               THEN [reader EXCEPT !.at = "report"]
               ELSE [NoReader EXCEPT !.exit = EXIT_VERIFICATION_FAILED]
  /\ UNCHANGED <<disk, todo, torn, exports, whole, reads>>

\* verify over a directory begins where verify-pack goes on once the index is
\* checked: the contents are read from the directory again.
Sweep ==
  /\ reader.at = "idle"
  /\ reads < MaxReads
  /\ reader' = [NoReader EXCEPT !.at = "report"]
  /\ reads' = reads + 1
  /\ UNCHANGED <<disk, todo, torn, exports, whole>>

LoadReport ==
  /\ reader.at = "report"
  /\ reader' = IF "report.json" \in DOMAIN disk /\ disk["report.json"] # Torn
               THEN [reader EXCEPT !.report = disk["report.json"], !.at = "proofs"]
               ELSE [reader EXCEPT !.at = "idle", !.exit = EXIT_USAGE_OR_IO]
  /\ UNCHANGED <<disk, todo, torn, exports, whole, reads>>

ListProofs ==
  /\ reader.at = "proofs"
  /\ reader' = [reader EXCEPT !.left = DOMAIN disk, !.at = "sweep"]
  /\ UNCHANGED <<disk, todo, torn, exports, whole, reads>>

\* In the order of the names, up to one that does not read.
ReadProof ==
  /\ reader.at = "sweep"
  /\ ~Unreadable(reader.swept)
  /\ \E i \in {k \in DOMAIN FileNames : FileNames[k] \in reader.left} :
       LET n == FileNames[i] IN
       /\ \A j \in DOMAIN FileNames : FileNames[j] \in reader.left => i <= j
       /\ reader' = [reader EXCEPT
                       !.left = @ \ {n},
                       !.swept = [m \in DOMAIN @ \cup {n} |-> IF m = n THEN disk[n] ELSE @[m]]]
  /\ UNCHANGED <<disk, todo, torn, exports, whole, reads>>

FinishSweep ==
  /\ reader.at = "sweep"
  /\ reader.left = {} \/ Unreadable(reader.swept)
  /\ reader' = [reader EXCEPT !.at = "idle",
                             !.exit = sweep_exit(reader.report, reader.swept, Seed)]
  /\ UNCHANGED <<disk, todo, torn, exports, whole, reads>>

DeliveryNext ==
  \/ \E rows \in Exports, time \in Times : BeginExport(rows, time)
  \/ TruncateFile
  \/ FillFile
  \/ CrashExport
  \/ ReadIndex
  \/ ListMembers
  \/ ReadMember
  \/ CheckIndex
  \/ Sweep
  \/ LoadReport
  \/ ListProofs
  \/ ReadProof
  \/ FinishSweep

-----------------------------------------------------------------------------
Without(files, name) == [n \in DOMAIN files \ {name} |-> files[n]]

Passed == reader.at = "idle" /\ reader.exit = EXIT_OK

\* A delivery verify-pack accepts is, byte for byte, what one run wrote, with
\* nothing of another run among it, whatever crashed or was writing while it
\* was read (pack.rs: "one signed archive", "the *set* is committed").
DeliveredWhole ==
  reader.index # <<>> /\ (reader.at \in {"report", "proofs", "sweep"} \/ Passed) =>
    \E i \in DOMAIN exports :
      /\ reader.got = Without(exports[i], "pack.json")
      /\ reader.index = exports[i]["pack.json"]

\* A sweep that passes has read proofs of one run, that of the report it loaded,
\* although it reads them one by one while runs replace them one by one (run.rs).
SweptOneRun ==
  Passed =>
    \E i \in DOMAIN exports :
      /\ "report.json" \in DOMAIN exports[i] /\ reader.report = exports[i]["report.json"]
      /\ \A n \in Proofs(reader.swept) :
           n \in DOMAIN exports[i] /\ reader.swept[n] = exports[i][n]

\* After a crash it is enough to publish again: a run that finished leaves a
\* delivery that verifies, unless an earlier run left a proof of a customer it
\* does not have (publish.rs main removes nothing).
FinishedRunVerifies ==
  \A out \in whole :
    (\A i \in DOMAIN exports : DOMAIN exports[i] \subseteq DOMAIN out) =>
      /\ verify_pack(disk["pack.json"][2], Seed, Without(disk, "pack.json")) = "Ok"
      /\ sweep_exit(disk["report.json"], disk, Seed) = EXIT_OK
=============================================================================
