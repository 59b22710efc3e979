------------------------------ MODULE Keystore ------------------------------
(***************************************************************************)
(* The signing service's keystore (rust/solvency-service/src/keystore.rs): *)
(* one sealed seed per organisation, in a file of the keystore directory.  *)
(*                                                                         *)
(* signer_for runs on the worker threads of one process with no lock, so   *)
(* every call in progress is a process of its own, and the calls           *)
(* interleave at the file system's granularity: the existence test, the    *)
(* open-and-truncate and the write of std::fs::write, the rename, and the  *)
(* read of unseal.  Files are inodes reached through directory entries,    *)
(* because all callers of one organisation share one temporary name.       *)
(*                                                                         *)
(* Sealing is the symbolic authenticated encryption the code relies on: a  *)
(* sealed file opens only under the key-encryption key (KEK) and for the   *)
(* organisation id it was sealed with.                                     *)
(***************************************************************************)
EXTENDS Naturals, Sequences

CONSTANTS
  Callers,    \* requests the service can be serving at once
  Orgs,       \* organisation ids that path_for accepts
  Keks,       \* key-encryption keys an operator may start the service with
  None,       \* an absent file
  MaxMints,   \* bound: seeds minted over a behaviour
  MaxFaults   \* bound: crashes and operator interventions over a behaviour

ASSUME NoneAssumption == None \notin Nat
ASSUME BoundAssumption == MaxMints \in Nat /\ MaxFaults \in Nat

VARIABLES
  kek,       \* the KEK the running process was opened with
  dir,       \* the directory: file name -> inode, or None
  content,   \* the bytes of each inode created so far
  mintedFor, \* the organisation each seed minted so far was drawn for
  call,      \* what each caller is doing
  answers,   \* history: <<organisation, seed>> returned for the directory as it
             \* is, that is, since an operator last disturbed that organisation
  raced,     \* history: organisations whose first uses have overlapped
  faults     \* crashes and interventions so far

vars == <<kek, dir, content, mintedFor, call, answers, raced, faults>>
files == <<dir, content>>

\* `{org}.key` and `{org}.key.tmp`, the two names an organisation may have.
KeyFile(o) == <<o, "key">>
TmpFile(o) == <<o, "tmp">>
Names == Orgs \X {"key", "tmp"}

\* A file shorter than a nonce and a tag; a just-truncated one is what occurs.
Short == [whole |-> FALSE]
Sealed(s, o) == [whole |-> TRUE, seed |-> s, aad |-> o, kek |-> kek]

\* Mutant of Unseals: the organisation id is not authenticated.
UnsealsAnyAad(bytes, o) == bytes.whole /\ bytes.kek = kek

\* unseal succeeds on these bytes for organisation o, and then yields bytes.seed.
Unseals(bytes, o) == bytes.whole /\ bytes.kek = kek /\ bytes.aad = o

Idle == [pc |-> "idle"]
Minting(c, o) == call[c].pc \in {"open", "write", "rename"} /\ call[c].org = o

-----------------------------------------------------------------------------

\* Keystore::open on a directory with nothing in it.
Init ==
  /\ kek \in Keks
  /\ dir = [n \in Names |-> None]
  /\ content = <<>>
  /\ mintedFor = <<>>
  /\ call = [c \in Callers |-> Idle]
  /\ answers = {}
  /\ raced = {}
  /\ faults = 0

\* signer_for: the key file exists, so the call goes on to read it.
FindKey(c, o) ==
  /\ call[c].pc = "idle"
  /\ dir[KeyFile(o)] # None
  /\ call' = [call EXCEPT ![c] = [pc |-> "read", org |-> o]]
  /\ UNCHANGED <<kek, files, mintedFor, answers, raced, faults>>

\* Mutant of MintSeed: no existence test, a seed is minted every time.
MintSeedUntested(c, o) ==
  /\ call[c].pc = "idle"
  /\ Len(mintedFor) < MaxMints
  /\ mintedFor' = Append(mintedFor, o)
  /\ call' = [call EXCEPT ![c] = [pc |-> "open", org |-> o, seed |-> Len(mintedFor')]]
  /\ raced' = IF \E other \in Callers : Minting(other, o) THEN raced \cup {o} ELSE raced
  /\ UNCHANGED <<kek, files, answers, faults>>

\* signer_for: there is no key file, so the call draws a fresh seed and seals
\* it in memory.
MintSeed(c, o) ==
  /\ call[c].pc = "idle"
  /\ dir[KeyFile(o)] = None
  /\ Len(mintedFor) < MaxMints
  /\ mintedFor' = Append(mintedFor, o)
  /\ call' = [call EXCEPT ![c] = [pc |-> "open", org |-> o, seed |-> Len(mintedFor')]]
  /\ raced' = IF \E other \in Callers : Minting(other, o) THEN raced \cup {o} ELSE raced
  /\ UNCHANGED <<kek, files, answers, faults>>

\* Mutant of OpenTmp: the key file itself is opened for writing.
OpenInPlace(c) ==
  /\ call[c].pc = "open"
  /\ content' = Append(content, Short)
  /\ dir' = [dir EXCEPT ![KeyFile(call[c].org)] = Len(content')]
  /\ call' = [call EXCEPT ![c] = [pc |-> "write", org |-> @.org, seed |-> @.seed,
                                  inode |-> Len(content')]]
  /\ UNCHANGED <<kek, mintedFor, answers, raced, faults>>

\* seal: fs::write opens the temporary file, creating it or truncating the one
\* that is there.
OpenTmp(c) ==
  LET tmp == TmpFile(call[c].org) IN
  /\ call[c].pc = "open"
  /\ \/ /\ dir[tmp] = None
        /\ content' = Append(content, Short)
        /\ dir' = [dir EXCEPT ![tmp] = Len(content')]
     \/ /\ dir[tmp] # None
        /\ content' = [content EXCEPT ![dir[tmp]] = Short]
        /\ UNCHANGED dir
  /\ call' = [call EXCEPT ![c] = [pc |-> "write", org |-> @.org, seed |-> @.seed,
                                  inode |-> dir'[tmp]]]
  /\ UNCHANGED <<kek, mintedFor, answers, raced, faults>>

\* Mutant of WriteTmp: what is sealed is not the seed that was minted.
WriteTmpOffByOne(c) ==
  /\ call[c].pc = "write"
  /\ content' = [content EXCEPT ![call[c].inode] = Sealed(call[c].seed + 1, call[c].org)]
  /\ call' = [call EXCEPT ![c] = [pc |-> "rename", org |-> @.org, seed |-> @.seed]]
  /\ UNCHANGED <<kek, dir, mintedFor, answers, raced, faults>>

\* seal: fs::write writes the sealed seed through the descriptor it opened,
\* whatever name that inode has by now.
WriteTmp(c) ==
  /\ call[c].pc = "write"
  /\ content' = [content EXCEPT ![call[c].inode] = Sealed(call[c].seed, call[c].org)]
  /\ call' = [call EXCEPT ![c] = [pc |-> "rename", org |-> @.org, seed |-> @.seed]]
  /\ UNCHANGED <<kek, dir, mintedFor, answers, raced, faults>>

\* Mutant of RenameTmp: the seed is answered and never put in place.
AnswerWithoutRename(c) ==
  /\ call[c].pc = "rename"
  /\ answers' = answers \cup {<<call[c].org, call[c].seed>>}
  /\ call' = [call EXCEPT ![c] = Idle]
  /\ UNCHANGED <<kek, files, mintedFor, raced, faults>>

\* seal: rename the temporary file over the key file.  signer_for returns the
\* seed it minted, without reading it back; with no temporary file to rename
\* it returns an error.
RenameTmp(c) ==
  LET o == call[c].org IN
  /\ call[c].pc = "rename"
  /\ \/ /\ dir[TmpFile(o)] # None
        /\ dir' = [dir EXCEPT ![KeyFile(o)] = dir[TmpFile(o)], ![TmpFile(o)] = None]
        /\ answers' = answers \cup {<<o, call[c].seed>>}
     \/ /\ dir[TmpFile(o)] = None
        /\ UNCHANGED <<dir, answers>>
  /\ call' = [call EXCEPT ![c] = Idle]
  /\ UNCHANGED <<kek, content, mintedFor, raced, faults>>

\* unseal: read the key file and open it.  A missing file, a short one, one
\* sealed under another KEK and one sealed for another organisation are errors.
ReadKey(c) ==
  LET o == call[c].org
      inode == dir[KeyFile(o)]
  IN
  /\ call[c].pc = "read"
  /\ answers' = IF inode # None /\ Unseals(content[inode], o)
                THEN answers \cup {<<o, content[inode].seed>>}
                ELSE answers
  /\ call' = [call EXCEPT ![c] = Idle]
  /\ UNCHANGED <<kek, files, mintedFor, raced, faults>>

\* The process dies and is started again, under any KEK: calls in progress are
\* gone, the directory is as they left it.
Restart(k) ==
  /\ faults < MaxFaults
  /\ kek' = k
  /\ call' = [c \in Callers |-> Idle]
  /\ faults' = faults + 1
  /\ UNCHANGED <<files, mintedFor, answers, raced>>

\* An operator moves one organisation's key file to another's name, between
\* calls.
MoveKeyFile(o1, o2) ==
  /\ faults < MaxFaults
  /\ \A c \in Callers : call[c] = Idle
  /\ o1 # o2
  /\ dir[KeyFile(o1)] # None
  /\ dir' = [dir EXCEPT ![KeyFile(o2)] = dir[KeyFile(o1)], ![KeyFile(o1)] = None]
  /\ answers' = {a \in answers : a[1] \notin {o1, o2}}
  /\ raced' = IF o1 \in raced THEN raced \cup {o2} ELSE raced
  /\ faults' = faults + 1
  /\ UNCHANGED <<kek, content, mintedFor, call>>

\* The keystore volume is lost and the service restarted on an empty one.
LoseKeystore ==
  /\ faults < MaxFaults
  /\ dir' = [n \in Names |-> None]
  /\ call' = [c \in Callers |-> Idle]
  /\ answers' = {}
  /\ raced' = {}
  /\ faults' = faults + 1
  /\ UNCHANGED <<kek, content, mintedFor>>

CallStep(c) ==
  \/ \E o \in Orgs : FindKey(c, o) \/ MintSeed(c, o)
  \/ OpenTmp(c)
  \/ WriteTmp(c)
  \/ RenameTmp(c)
  \/ ReadKey(c)

Fault ==
  \/ \E k \in Keks : Restart(k)
  \/ \E o1, o2 \in Orgs : MoveKeyFile(o1, o2)
  \/ LoseKeystore

Next == Fault \/ \E c \in Callers : CallStep(c)

Spec == Init /\ [][Next]_vars

-----------------------------------------------------------------------------

\* The records a caller's state ranges over, for seeds and inodes in use.
CallStates ==
  [pc : {"idle"}]
    \cup [pc : {"read"}, org : Orgs]
    \cup [pc : {"open", "rename"}, org : Orgs, seed : DOMAIN mintedFor]
    \cup [pc : {"write"}, org : Orgs, seed : DOMAIN mintedFor, inode : DOMAIN content]

\* A half-written file, or a seed that was minted, sealed for some organisation.
Bytes == {Short} \cup [whole : {TRUE}, seed : DOMAIN mintedFor, aad : Orgs, kek : Keks]

\* Types: names lead to inodes that exist, and every seed held by a caller, a
\* file or an answer is one that was minted.
TypeOK ==
  /\ kek \in Keks
  /\ mintedFor \in Seq(Orgs)
  /\ content \in Seq(Bytes)
  /\ dir \in [Names -> DOMAIN content \cup {None}]
  /\ call \in [Callers -> CallStates]
  /\ answers \subseteq Orgs \X DOMAIN mintedFor
  /\ raced \subseteq Orgs
  /\ faults \in Nat

\* signer_for never hands one organisation a seed drawn for another, whatever
\* the callers do and wherever an operator moves a key file: the organisation id
\* in the associated data is checked by unseal ("a file cannot be renamed into
\* another organisation's key").
SignsAsItself == \A a \in answers : mintedFor[a[2]] = a[1]

\* One organisation, one key: all answers signer_for gives for an organisation
\* over the same directory are the same seed, through any crash and restart, as
\* long as two first uses of it have not overlapped.
OneKey == \A a, b \in answers : a[1] = b[1] /\ a[1] \notin raced => a[2] = b[2]

WholeKeyFile(o) == dir[KeyFile(o)] # None => content[dir[KeyFile(o)]].whole

\* No key file is ever visible half-written, whatever step a crash cuts off:
\* what writing under a temporary name and renaming is for.  Again as long as
\* two first uses have not overlapped.
NoHalfKey == \A o \in Orgs \ raced : WholeKeyFile(o)

\* The same for every organisation and every interleaving, asked only while no
\* call is in progress: seal's comment, "a crash cannot leave a half-written key
\* that later fails to unseal".  Overlapping first uses violate it.
NoHalfKeyAtRest ==
  (\A c \in Callers : call[c] = Idle) => \A o \in Orgs : WholeKeyFile(o)

\* The abstract state: the seed of a key file that opens for its organisation,
\* and the answers given for organisations whose first uses did not overlap.
KeyOf ==
  [o \in Orgs |->
     LET inode == dir[KeyFile(o)] IN
     IF inode # None /\ content[inode].whole /\ content[inode].aad = o
     THEN content[inode].seed
     ELSE None]
CleanAnswers == {a \in answers : a[1] \notin raced}

Abstract == INSTANCE OrgKeys
              WITH Keys <- 1 .. MaxMints, key <- KeyOf, answers <- CleanAnswers

\* The keystore implements the abstract specification: an organisation's key is
\* set once and answered from then on, and only operators and overlapping first
\* uses disturb it.
ImplementsOrgKeys == Abstract!Spec
=============================================================================
