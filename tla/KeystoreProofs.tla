--------------------------- MODULE KeystoreProofs ---------------------------
(***************************************************************************)
(* Theorems about Keystore, for any number of callers, organisations,      *)
(* key-encryption keys, minted seeds and faults.                           *)
(***************************************************************************)
EXTENDS Keystore, TLAPS

\* The seed a file seals was drawn for the organisation it is sealed for, and
\* the seed a caller holds for the organisation it serves.
SealedRight ==
  \A i \in DOMAIN content : content[i].whole => mintedFor[content[i].seed] = content[i].aad
DrawnRight ==
  \A c \in Callers :
    call[c].pc \in {"open", "write", "rename"} => mintedFor[call[c].seed] = call[c].org

Typed == TypeOK /\ Len(mintedFor) <= MaxMints
Seeds == Typed /\ SealedRight /\ DrawnRight /\ SignsAsItself

-----------------------------------------------------------------------------
\* Facts about names and callers that every step uses.

LEMMA NameFacts ==
  /\ \A o \in Orgs : /\ KeyFile(o) \in Names /\ KeyFile(o)[1] = o
                     /\ TmpFile(o) \in Names /\ TmpFile(o)[1] = o
  /\ \A o, p \in Orgs : /\ KeyFile(o) # TmpFile(p)
                        /\ KeyFile(o) = KeyFile(p) => o = p
                        /\ TmpFile(o) = TmpFile(p) => o = p
BY DEF Names, KeyFile, TmpFile

LEMMA CallFacts ==
  ASSUME TypeOK, NEW c \in Callers
  PROVE  /\ call[c].pc \in {"idle", "read", "open", "write", "rename"}
         /\ call[c].pc # "idle" => call[c].org \in Orgs
         /\ call[c].pc \in {"open", "write", "rename"} => call[c].seed \in DOMAIN mintedFor
         /\ call[c].pc = "write" => call[c].inode \in DOMAIN content
BY DEF TypeOK, CallStates

\* What the names and the sequences hold.
LEMMA FileFacts ==
  ASSUME TypeOK
  PROVE  /\ DOMAIN content = 1 .. Len(content) /\ Len(content) \in Nat
         /\ DOMAIN mintedFor = 1 .. Len(mintedFor) /\ Len(mintedFor) \in Nat
         /\ \A i \in DOMAIN content :
              /\ content[i] \in Bytes
              /\ content[i].whole \in BOOLEAN
              /\ content[i].whole => /\ content[i].seed \in DOMAIN mintedFor
                                     /\ content[i].aad \in Orgs
         /\ \A i \in DOMAIN mintedFor : mintedFor[i] \in Orgs
         /\ \A n \in Names : dir[n] # None => dir[n] \in DOMAIN content
         /\ None \notin DOMAIN content
<1>1. content \in Seq(Bytes) /\ mintedFor \in Seq(Orgs) /\ dir \in [Names -> DOMAIN content \cup {None}]
  BY DEF TypeOK
<1>2. /\ DOMAIN content = 1 .. Len(content) /\ Len(content) \in Nat
      /\ DOMAIN mintedFor = 1 .. Len(mintedFor) /\ Len(mintedFor) \in Nat
      /\ \A i \in DOMAIN content : content[i] \in Bytes
      /\ \A i \in DOMAIN mintedFor : mintedFor[i] \in Orgs
  BY <1>1
<1>3. \A b \in Bytes : /\ b.whole \in BOOLEAN
                       /\ b.whole => b.seed \in DOMAIN mintedFor /\ b.aad \in Orgs
  <2>1. Short.whole = FALSE
    BY DEF Short
  <2> QED
    BY <2>1 DEF Bytes
<1> QED
  BY <1>1, <1>2, <1>3, NoneAssumption

\* A step that gives one caller a state, and loses no seed and no inode.
LEMMA CallStepType ==
  ASSUME TypeOK, NEW c \in Callers, NEW new, new \in CallStates',
         call' = [call EXCEPT ![c] = new],
         DOMAIN mintedFor \subseteq DOMAIN mintedFor', DOMAIN content \subseteq DOMAIN content'
  PROVE  call' \in [Callers -> CallStates']
<1>1. CallStates \subseteq CallStates'
  BY DEF CallStates
<1>2. call \in [Callers -> CallStates]
  BY DEF TypeOK
<1> QED
  BY <1>1, <1>2

LEMMA AppendType ==
  ASSUME NEW S, NEW s \in Seq(S), NEW e \in S
  PROVE  /\ Append(s, e) \in Seq(S) /\ Len(Append(s, e)) = Len(s) + 1
         /\ DOMAIN Append(s, e) = DOMAIN s \cup {Len(s) + 1}
         /\ \A i \in DOMAIN s : Append(s, e)[i] = s[i]
         /\ Append(s, e)[Len(s) + 1] = e
OBVIOUS

LEMMA ReplaceType ==
  ASSUME NEW S, NEW s \in Seq(S), NEW i \in DOMAIN s, NEW e \in S
  PROVE  /\ [s EXCEPT ![i] = e] \in Seq(S) /\ DOMAIN [s EXCEPT ![i] = e] = DOMAIN s
         /\ Len([s EXCEPT ![i] = e]) = Len(s)
OBVIOUS

-----------------------------------------------------------------------------
\* Types.

LEMMA InitTyped == Init => Typed
BY BoundAssumption DEF Init, Typed, TypeOK, CallStates, Idle, Names

LEMMA FindKeyTyped ==
  ASSUME Typed, NEW c \in Callers, NEW o \in Orgs, FindKey(c, o)
  PROVE  Typed'
<1> DEFINE new == [pc |-> "read", org |-> o]
<1>1. TypeOK /\ Len(mintedFor) <= MaxMints
  BY DEF Typed
<1>2. new \in CallStates'
  BY DEF CallStates
<1> HIDE DEF new
<1>3. call' \in [Callers -> CallStates']
  <2>1. call' = [call EXCEPT ![c] = new] /\ UNCHANGED <<mintedFor, content>>
    BY DEF FindKey, files, new
  <2> QED
    BY <1>1, <1>2, <2>1, CallStepType
<1> QED
  BY <1>1, <1>3 DEF FindKey, Typed, TypeOK, Bytes, files

LEMMA MintSeedTyped ==
  ASSUME Typed, NEW c \in Callers, NEW o \in Orgs, MintSeed(c, o)
  PROVE  /\ Typed'
         /\ DOMAIN mintedFor' = DOMAIN mintedFor \cup {Len(mintedFor')}
         /\ mintedFor'[Len(mintedFor')] = o
         /\ \A i \in DOMAIN mintedFor : mintedFor'[i] = mintedFor[i]
<1> DEFINE new == [pc |-> "open", org |-> o, seed |-> Len(mintedFor')]
<1>1. TypeOK /\ mintedFor \in Seq(Orgs) /\ mintedFor' = Append(mintedFor, o)
  BY DEF Typed, TypeOK, MintSeed
<1>2. /\ mintedFor' \in Seq(Orgs) /\ Len(mintedFor') = Len(mintedFor) + 1
      /\ DOMAIN mintedFor' = DOMAIN mintedFor \cup {Len(mintedFor')}
      /\ mintedFor'[Len(mintedFor')] = o
      /\ \A i \in DOMAIN mintedFor : mintedFor'[i] = mintedFor[i]
  BY <1>1, AppendType
<1>3. Len(mintedFor') <= MaxMints
  BY <1>1, <1>2, BoundAssumption DEF MintSeed
<1>4. new \in CallStates'
  BY <1>2 DEF CallStates
<1>5. call' \in [Callers -> CallStates']
  BY <1>1, <1>2, <1>4, CallStepType DEF MintSeed, files
<1>6. content' \in Seq(Bytes')
  <2>1. Bytes \subseteq Bytes'
    BY <1>2 DEF Bytes
  <2> QED
    BY <1>1, <2>1 DEF TypeOK, MintSeed, files
<1> QED
  BY <1>1, <1>2, <1>3, <1>5, <1>6 DEF MintSeed, Typed, TypeOK, files

LEMMA OpenTmpTyped ==
  ASSUME Typed, NEW c \in Callers, OpenTmp(c)
  PROVE  Typed'
<1> DEFINE tmp == TmpFile(call[c].org)
           new == [pc |-> "write", org |-> call[c].org, seed |-> call[c].seed,
                   inode |-> dir'[tmp]]
<1>1. TypeOK /\ Len(mintedFor) <= MaxMints /\ call[c].pc = "open"
  BY DEF Typed, OpenTmp
<1>2. call[c].org \in Orgs /\ call[c].seed \in DOMAIN mintedFor /\ tmp \in Names
  BY <1>1, CallFacts, NameFacts
<1>3. content \in Seq(Bytes) /\ Short \in Bytes /\ dir \in [Names -> DOMAIN content \cup {None}]
  BY <1>1 DEF TypeOK, Bytes
<1>4. /\ content' \in Seq(Bytes) /\ DOMAIN content \subseteq DOMAIN content'
      /\ dir' \in [Names -> DOMAIN content' \cup {None}]
      /\ dir'[tmp] \in DOMAIN content'
  <2>1. CASE dir[tmp] = None
    <3>1. content' = Append(content, Short) /\ dir' = [dir EXCEPT ![tmp] = Len(content')]
      BY <2>1 DEF OpenTmp
    <3> QED
      BY <1>2, <1>3, <3>1, AppendType
  <2>2. CASE dir[tmp] # None
    <3>1. content' = [content EXCEPT ![dir[tmp]] = Short] /\ dir' = dir
      BY <2>2 DEF OpenTmp
    <3>2. dir[tmp] \in DOMAIN content
      BY <1>2, <1>3, <2>2
    <3> QED
      BY <1>2, <1>3, <3>1, <3>2, ReplaceType
  <2> QED
    BY <2>1, <2>2
<1>5. mintedFor' = mintedFor
  BY DEF OpenTmp
<1>6. new \in CallStates'
  BY <1>2, <1>4, <1>5 DEF CallStates
<1>7. call' = [call EXCEPT ![c] = new]
  BY DEF OpenTmp
<1> HIDE DEF new
<1>8. call' \in [Callers -> CallStates']
  BY <1>1, <1>4, <1>5, <1>6, <1>7, CallStepType
<1> QED
  BY <1>1, <1>4, <1>5, <1>8 DEF OpenTmp, Typed, TypeOK, Bytes

LEMMA WriteTmpTyped ==
  ASSUME Typed, NEW c \in Callers, WriteTmp(c)
  PROVE  Typed' /\ DOMAIN content' = DOMAIN content
<1> DEFINE new == [pc |-> "rename", org |-> call[c].org, seed |-> call[c].seed]
           bytes == Sealed(call[c].seed, call[c].org)
<1>1. TypeOK /\ Len(mintedFor) <= MaxMints /\ call[c].pc = "write"
  BY DEF Typed, WriteTmp
<1>2. /\ call[c].org \in Orgs /\ call[c].seed \in DOMAIN mintedFor
      /\ call[c].inode \in DOMAIN content
  BY <1>1, CallFacts
<1>3. bytes \in Bytes
  BY <1>1, <1>2 DEF Sealed, Bytes, TypeOK
<1>4. content' \in Seq(Bytes) /\ DOMAIN content' = DOMAIN content
  <2> HIDE DEF bytes
  <2>1. content \in Seq(Bytes) /\ content' = [content EXCEPT ![call[c].inode] = bytes]
    BY <1>1 DEF TypeOK, WriteTmp, bytes
  <2> QED
    BY <1>2, <1>3, <2>1, ReplaceType
<1>5. mintedFor' = mintedFor
  BY DEF WriteTmp
<1>6. new \in CallStates'
  BY <1>2, <1>5 DEF CallStates
<1>7. call' = [call EXCEPT ![c] = new]
  BY DEF WriteTmp
<1> HIDE DEF new
<1>8. call' \in [Callers -> CallStates']
  BY <1>1, <1>4, <1>5, <1>6, <1>7, CallStepType
<1> QED
  BY <1>1, <1>4, <1>5, <1>8 DEF WriteTmp, Typed, TypeOK, Bytes

LEMMA RenameTmpTyped ==
  ASSUME Typed, NEW c \in Callers, RenameTmp(c)
  PROVE  Typed'
<1>1. TypeOK /\ Len(mintedFor) <= MaxMints /\ call[c].pc = "rename"
  BY DEF Typed, RenameTmp
<1>2. call[c].org \in Orgs /\ call[c].seed \in DOMAIN mintedFor
  BY <1>1, CallFacts
<1>3. Idle \in CallStates'
  BY DEF CallStates, Idle
<1>4. call' \in [Callers -> CallStates']
  BY <1>1, <1>3, CallStepType DEF RenameTmp
<1>5. dir' \in [Names -> DOMAIN content' \cup {None}]
  BY <1>1, <1>2, NameFacts DEF RenameTmp, TypeOK
<1>6. answers' \subseteq Orgs \X DOMAIN mintedFor'
  BY <1>1, <1>2 DEF RenameTmp, TypeOK
<1> QED
  BY <1>1, <1>4, <1>5, <1>6 DEF RenameTmp, Typed, TypeOK, Bytes

LEMMA ReadKeyTyped ==
  ASSUME Typed, NEW c \in Callers, ReadKey(c)
  PROVE  Typed'
<1>1. TypeOK /\ Len(mintedFor) <= MaxMints /\ call[c].pc = "read"
  BY DEF Typed, ReadKey
<1>2. call[c].org \in Orgs /\ KeyFile(call[c].org) \in Names
  BY <1>1, CallFacts, NameFacts
<1>3. Idle \in CallStates'
  BY DEF CallStates, Idle
<1>4. call' \in [Callers -> CallStates']
  BY <1>1, <1>3, CallStepType DEF ReadKey, files
<1>5. answers' \subseteq Orgs \X DOMAIN mintedFor'
  BY <1>1, <1>2, FileFacts DEF ReadKey, Unseals, TypeOK
<1> QED
  BY <1>1, <1>4, <1>5 DEF ReadKey, Typed, TypeOK, Bytes, files

LEMMA FaultTyped ==
  ASSUME Typed, Fault
  PROVE  Typed'
<1>1. TypeOK /\ Len(mintedFor) <= MaxMints
  BY DEF Typed
<1>2. UNCHANGED <<content, mintedFor>>
  BY DEF Fault, Restart, MoveKeyFile, LoseKeystore, files
<1>3. ASSUME NEW k \in Keks, Restart(k)
      PROVE  Typed'
  BY <1>1, <1>3 DEF Restart, Typed, TypeOK, Bytes, CallStates, Idle, files
<1>4. ASSUME NEW o1 \in Orgs, NEW o2 \in Orgs, MoveKeyFile(o1, o2)
      PROVE  Typed'
  <2>1. dir' \in [Names -> DOMAIN content' \cup {None}]
    BY <1>1, <1>4, NameFacts DEF MoveKeyFile, TypeOK
  <2>2. raced' \subseteq Orgs /\ answers' \subseteq Orgs \X DOMAIN mintedFor'
    BY <1>1, <1>4 DEF MoveKeyFile, TypeOK
  <2> QED
    BY <1>1, <1>4, <2>1, <2>2 DEF MoveKeyFile, Typed, TypeOK, Bytes, CallStates
<1>5. CASE LoseKeystore
  BY <1>1, <1>5 DEF LoseKeystore, Typed, TypeOK, Bytes, CallStates, Idle
<1> QED
  BY <1>3, <1>4, <1>5 DEF Fault

LEMMA NextTyped == Typed /\ [Next]_vars => Typed'
<1> SUFFICES ASSUME Typed, [Next]_vars
             PROVE  Typed'
  OBVIOUS
<1>1. CASE UNCHANGED vars
  BY <1>1 DEF vars, Typed, TypeOK, Bytes, CallStates
<1> QED
  BY <1>1, FindKeyTyped, MintSeedTyped, OpenTmpTyped, WriteTmpTyped, RenameTmpTyped,
     ReadKeyTyped, FaultTyped DEF Next, CallStep

\* Every name leads to an inode that exists, and every seed held by a caller, a
\* file or an answer is one that was minted.
THEOREM TypesHold == Spec => []TypeOK
<1>1. Typed => TypeOK
  BY DEF Typed
<1> QED
  BY <1>1, InitTyped, NextTyped, PTL DEF Spec

-----------------------------------------------------------------------------
\* Seeds stay with the organisation they were drawn for.

LEMMA InitSeeds == Init => Seeds
BY InitTyped DEF Init, Seeds, SealedRight, DrawnRight, SignsAsItself, Idle

LEMMA MintSeedSeeds ==
  ASSUME Seeds, NEW c \in Callers, NEW o \in Orgs, MintSeed(c, o)
  PROVE  Seeds'
<1>1. /\ Typed' /\ mintedFor'[Len(mintedFor')] = o
      /\ \A i \in DOMAIN mintedFor : mintedFor'[i] = mintedFor[i]
  BY MintSeedTyped DEF Seeds
<1>2. TypeOK
  BY DEF Seeds, Typed
<1>3. SealedRight'
  <2>1. content' = content
    BY DEF MintSeed, files
  <2> QED
    BY <1>1, <1>2, <2>1, FileFacts DEF Seeds, SealedRight
<1>4. DrawnRight'
  <2> SUFFICES ASSUME NEW d \in Callers, call'[d].pc \in {"open", "write", "rename"}
               PROVE  mintedFor'[call'[d].seed] = call'[d].org
    BY DEF DrawnRight
  <2>1. CASE d = c
    BY <1>1, <1>2, <2>1 DEF MintSeed, TypeOK
  <2>2. CASE d # c
    <3>1. call'[d] = call[d]
      BY <1>2, <2>2 DEF MintSeed, TypeOK
    <3> QED
      BY <1>1, <1>2, <3>1, CallFacts DEF Seeds, DrawnRight
  <2> QED
    BY <2>1, <2>2
<1>5. SignsAsItself'
  <2>1. answers' = answers /\ \A a \in answers : a[2] \in DOMAIN mintedFor
    BY <1>2 DEF MintSeed, TypeOK
  <2> QED
    BY <1>1, <2>1 DEF Seeds, SignsAsItself
<1> QED
  BY <1>1, <1>3, <1>4, <1>5 DEF Seeds

\* The other steps mint nothing: they move seeds, and give each caller nothing,
\* or what it had.
LEMMA KeptSeeds ==
  ASSUME Seeds, Typed', mintedFor' = mintedFor,
         \A d \in Callers :
           call'[d].pc \in {"open", "write", "rename"} =>
             /\ call[d].pc \in {"open", "write", "rename"}
             /\ call'[d].seed = call[d].seed /\ call'[d].org = call[d].org,
         \A i \in DOMAIN content' : content'[i].whole =>
           \/ i \in DOMAIN content /\ content'[i] = content[i]
           \/ \E d \in Callers : /\ call[d].pc = "write"
                                 /\ content'[i] = Sealed(call[d].seed, call[d].org),
         \A a \in answers' :
           \/ a \in answers
           \/ \E d \in Callers : call[d].pc = "rename" /\ a = <<call[d].org, call[d].seed>>
           \/ \E i \in DOMAIN content : content[i].whole /\ a = <<content[i].aad, content[i].seed>>
  PROVE  Seeds'
<1>1. DrawnRight'
  BY DEF Seeds, DrawnRight
<1>2. SealedRight'
  BY DEF Seeds, SealedRight, DrawnRight, Sealed
<1>3. SignsAsItself'
  BY DEF Seeds, SealedRight, DrawnRight, SignsAsItself
<1> QED
  BY <1>1, <1>2, <1>3 DEF Seeds

LEMMA NextSeeds == Seeds /\ [Next]_vars => Seeds'
<1> SUFFICES ASSUME Seeds, [Next]_vars
             PROVE  Seeds'
  OBVIOUS
<1>1. Typed /\ TypeOK /\ Typed'
  BY NextTyped DEF Seeds, Typed
<1>2. CASE UNCHANGED vars
  BY <1>1, <1>2, KeptSeeds DEF vars
<1>3. ASSUME NEW c \in Callers, NEW o \in Orgs, FindKey(c, o)
      PROVE  Seeds'
  BY <1>1, <1>3, KeptSeeds DEF FindKey, files, TypeOK
<1>4. ASSUME NEW c \in Callers, OpenTmp(c)
      PROVE  Seeds'
  <2>1. \A i \in DOMAIN content' : content'[i].whole =>
          i \in DOMAIN content /\ content'[i] = content[i]
    <3>1. content \in Seq(Bytes) /\ Short \in Bytes /\ ~Short.whole
      BY <1>1 DEF TypeOK, Bytes, Short
    <3>2. CASE content' = Append(content, Short)
      BY <3>1, <3>2, AppendType
    <3>3. ASSUME NEW j, content' = [content EXCEPT ![j] = Short]
          PROVE  \A i \in DOMAIN content' : content'[i].whole =>
                   i \in DOMAIN content /\ content'[i] = content[i]
      BY <3>1, <3>3
    <3> QED
      BY <1>4, <3>2, <3>3 DEF OpenTmp
  <2> QED
    BY <1>1, <1>4, <2>1, KeptSeeds DEF OpenTmp, TypeOK
<1>5. ASSUME NEW c \in Callers, WriteTmp(c)
      PROVE  Seeds'
  <2>1. \A i \in DOMAIN content' :
          \/ i \in DOMAIN content /\ content'[i] = content[i]
          \/ content'[i] = Sealed(call[c].seed, call[c].org)
    BY <1>1, <1>5, FileFacts DEF WriteTmp
  <2>2. call[c].pc = "write"
    BY <1>5 DEF WriteTmp
  <2> QED
    BY <1>1, <1>5, <2>1, <2>2, KeptSeeds DEF WriteTmp, TypeOK
<1>6. ASSUME NEW c \in Callers, RenameTmp(c)
      PROVE  Seeds'
  BY <1>1, <1>6, KeptSeeds DEF RenameTmp, Idle, TypeOK
<1>7. ASSUME NEW c \in Callers, ReadKey(c)
      PROVE  Seeds'
  <2>1. \A a \in answers' :
          \/ a \in answers
          \/ \E i \in DOMAIN content :
               content[i].whole /\ a = <<content[i].aad, content[i].seed>>
    <3>1. call[c].org \in Orgs /\ KeyFile(call[c].org) \in Names
      BY <1>1, <1>7, CallFacts, NameFacts DEF ReadKey
    <3> QED
      BY <1>1, <1>7, <3>1, FileFacts DEF ReadKey, Unseals
  <2> QED
    BY <1>1, <1>7, <2>1, KeptSeeds DEF ReadKey, files, Idle, TypeOK
<1>8. CASE Fault
  BY <1>1, <1>8, KeptSeeds DEF Fault, Restart, MoveKeyFile, LoseKeystore, files, Idle
<1> QED
  BY <1>2, <1>3, <1>4, <1>5, <1>6, <1>7, <1>8, MintSeedSeeds DEF Next, CallStep

LEMMA SeedsHold == Spec => []Seeds
BY InitSeeds, NextSeeds, PTL DEF Spec

\* signer_for never answers one organisation with a seed drawn for another,
\* whatever overlaps, crashes, and wherever an operator moves a key file.
THEOREM SignsAsItselfHolds == Spec => []SignsAsItself
<1>1. Seeds => SignsAsItself
  BY DEF Seeds
<1> QED
  BY <1>1, SeedsHold, PTL

-----------------------------------------------------------------------------
\* Files and answers of organisations whose first uses have not overlapped.

\* An inode has one name, and one that is being written only names of the
\* organisation it is written for.
Apart == \A n, m \in Names : dir[n] # None /\ dir[n] = dir[m] => n = m
OwnInode ==
  \A c \in Callers : call[c].pc = "write" =>
    \A n \in Names : dir[n] = call[c].inode => n[1] = call[c].org

\* Of an organisation whose first uses have not overlapped, at most one caller
\* is minting, before there is a key file.
OneMinting ==
  \A o \in Orgs \ raced : \A c, d \in Callers : Minting(c, o) /\ Minting(d, o) => c = d
NoKeyYet ==
  \A o \in Orgs \ raced : \A c \in Callers : Minting(c, o) => dir[KeyFile(o)] = None

\* What that caller writes is under the temporary name, and once written whole.
OnTmp ==
  \A c \in Callers : \A o \in Orgs \ raced :
    /\ call[c].pc = "write" /\ call[c].org = o => dir[TmpFile(o)] = call[c].inode
    /\ call[c].pc = "rename" /\ call[c].org = o =>
         /\ dir[TmpFile(o)] # None
         /\ content[dir[TmpFile(o)]].whole
         /\ content[dir[TmpFile(o)]].seed = call[c].seed
         /\ content[dir[TmpFile(o)]].aad = o

\* What was answered is in the key file.
Answered ==
  \A a \in answers : a[1] \notin raced =>
    /\ dir[KeyFile(a[1])] # None
    /\ content[dir[KeyFile(a[1])]].whole
    /\ content[dir[KeyFile(a[1])]].seed = a[2]
    /\ content[dir[KeyFile(a[1])]].aad = a[1]

Tidy == Apart /\ OwnInode /\ OneMinting /\ NoKeyYet /\ OnTmp /\ Answered /\ NoHalfKey

Kept == Seeds /\ Tidy

LEMMA InitKept == Init => Kept
BY InitSeeds
DEF Init, Kept, Tidy, Apart, OwnInode, OneMinting, NoKeyYet, OnTmp, Answered, NoHalfKey,
    WholeKeyFile, Minting, Idle, Names, KeyFile

LEMMA FindKeyKept ==
  ASSUME Kept, Seeds', NEW c \in Callers, NEW o \in Orgs, FindKey(c, o)
  PROVE  Kept'
<1>1. TypeOK /\ call'[c] = [pc |-> "read", org |-> o]
  BY DEF Kept, Seeds, Typed, TypeOK, FindKey
<1>2. \A d \in Callers : d = c \/ call'[d] = call[d]
  BY <1>1 DEF TypeOK, FindKey
<1>3. UNCHANGED <<dir, content, answers, raced>>
  BY DEF FindKey, files
<1>4. (OneMinting /\ NoKeyYet)' /\ (Apart /\ Answered /\ NoHalfKey)'
  BY <1>1, <1>2, <1>3
  DEF Kept, Tidy, Apart, OneMinting, NoKeyYet, Answered, NoHalfKey, WholeKeyFile, Minting
<1>5. (OwnInode /\ OnTmp)'
  BY <1>1, <1>2, <1>3 DEF Kept, Tidy, OwnInode, OnTmp
<1> QED
  BY <1>4, <1>5 DEF Kept, Tidy

LEMMA MintSeedKept ==
  ASSUME Kept, Seeds', NEW c \in Callers, NEW o \in Orgs, MintSeed(c, o)
  PROVE  Kept'
<1>1. TypeOK /\ call'[c].pc = "open" /\ call'[c].org = o
  BY DEF Kept, Seeds, Typed, TypeOK, MintSeed
<1>2. \A d \in Callers : d = c \/ call'[d] = call[d]
  BY <1>1 DEF TypeOK, MintSeed
<1>3. UNCHANGED <<dir, content, answers>> /\ raced \subseteq raced' /\ dir[KeyFile(o)] = None
  BY DEF MintSeed, files
<1>4. \A other \in Callers : o \notin raced' => ~Minting(other, o)
  BY DEF MintSeed
<1>5. (Apart /\ Answered /\ NoHalfKey)'
  BY <1>3 DEF Kept, Tidy, Apart, Answered, NoHalfKey, WholeKeyFile
<1>6. (OneMinting /\ NoKeyYet)'
  BY <1>1, <1>2, <1>3, <1>4 DEF Kept, Tidy, OneMinting, NoKeyYet, Minting
<1>7. (OwnInode /\ OnTmp)'
  BY <1>1, <1>2, <1>3 DEF Kept, Tidy, OwnInode, OnTmp
<1> QED
  BY <1>5, <1>6, <1>7 DEF Kept, Tidy

\* Opening a temporary file changes no other name, and no bytes but its own.
LEMMA OpenLands ==
  ASSUME Kept, NEW c \in Callers, OpenTmp(c)
  PROVE  LET tmp == TmpFile(call[c].org) IN
         /\ \A n \in Names : n # tmp => dir'[n] = dir[n]
         /\ dir'[tmp] # None
         /\ \A n \in Names : dir'[n] = dir'[tmp] => n = tmp
         /\ \A i \in DOMAIN content : i # dir'[tmp] => content'[i] = content[i]
         /\ dir'[tmp] # dir[tmp] => dir'[tmp] \notin DOMAIN content
         /\ \A p \in Orgs :
              /\ dir'[KeyFile(p)] = dir[KeyFile(p)]
              /\ dir[KeyFile(p)] # None =>
                   content'[dir[KeyFile(p)]] = content[dir[KeyFile(p)]]
<1> DEFINE tmp == TmpFile(call[c].org)
<1>1. TypeOK /\ call[c].org \in Orgs /\ tmp \in Names
  BY CallFacts, NameFacts DEF Kept, Seeds, Typed, OpenTmp
<1>2. /\ \A n \in Names : n # tmp => dir'[n] = dir[n]
      /\ dir'[tmp] # None
      /\ \A n \in Names : dir'[n] = dir'[tmp] => n = tmp
      /\ \A i \in DOMAIN content : i # dir'[tmp] => content'[i] = content[i]
      /\ dir'[tmp] # dir[tmp] => dir'[tmp] \notin DOMAIN content
  <2>1. content \in Seq(Bytes) /\ Short \in Bytes /\ dir \in [Names -> DOMAIN content \cup {None}]
    BY <1>1 DEF TypeOK, Bytes
  <2>2. CASE dir[tmp] = None
    <3>1. content' = Append(content, Short) /\ dir' = [dir EXCEPT ![tmp] = Len(content')]
      BY <2>2 DEF OpenTmp
    <3>2. Len(content') = Len(content) + 1 /\ \A i \in DOMAIN content : content'[i] = content[i]
      BY <2>1, <3>1, AppendType
    <3>3. Len(content') \in Nat /\ Len(content') \notin DOMAIN content
      BY <2>1, <3>2
    <3> QED
      BY <1>1, <2>1, <3>1, <3>2, <3>3, NoneAssumption
  <2>3. CASE dir[tmp] # None
    <3>1. content' = [content EXCEPT ![dir[tmp]] = Short] /\ dir' = dir
      BY <2>3 DEF OpenTmp
    <3> QED
      BY <1>1, <2>1, <2>3, <3>1 DEF Kept, Tidy, Apart
  <2> QED
    BY <2>2, <2>3
<1>3. \A p \in Orgs : /\ dir'[KeyFile(p)] = dir[KeyFile(p)]
                      /\ dir[KeyFile(p)] # None =>
                           content'[dir[KeyFile(p)]] = content[dir[KeyFile(p)]]
  BY <1>1, <1>2, NameFacts, FileFacts
<1> QED
  BY <1>2, <1>3

LEMMA OpenTmpKept ==
  ASSUME Kept, Seeds', NEW c \in Callers, OpenTmp(c)
  PROVE  Kept'
<1> DEFINE o == call[c].org
           tmp == TmpFile(o)
<1>1. /\ TypeOK /\ call[c].pc = "open" /\ o \in Orgs /\ tmp \in Names
      /\ UNCHANGED <<answers, raced>> /\ Minting(c, o)
  BY CallFacts, NameFacts DEF Kept, Seeds, Typed, OpenTmp, Minting
<1>2. call'[c].pc = "write" /\ call'[c].org = o /\ call'[c].inode = dir'[tmp]
  BY <1>1 DEF TypeOK, OpenTmp
<1>3. \A d \in Callers : d = c \/ call'[d] = call[d]
  BY <1>1 DEF TypeOK, OpenTmp
<1>4. /\ \A n \in Names : n # tmp => dir'[n] = dir[n]
      /\ dir'[tmp] # None
      /\ \A n \in Names : dir'[n] = dir'[tmp] => n = tmp
      /\ \A i \in DOMAIN content : i # dir'[tmp] => content'[i] = content[i]
      /\ dir'[tmp] # dir[tmp] => dir'[tmp] \notin DOMAIN content
  BY OpenLands
<1> HIDE DEF tmp
<1>5. Apart'
  BY <1>1, <1>4 DEF Kept, Tidy, Apart
<1>6. \A p \in Orgs : /\ dir'[KeyFile(p)] = dir[KeyFile(p)]
                      /\ dir[KeyFile(p)] # None =>
                           content'[dir[KeyFile(p)]] = content[dir[KeyFile(p)]]
  BY OpenLands
<1>7. \A p \in Orgs : p # o =>
        /\ dir'[TmpFile(p)] = dir[TmpFile(p)]
        /\ dir[TmpFile(p)] # None => content'[dir[TmpFile(p)]] = content[dir[TmpFile(p)]]
  BY <1>1, <1>4, NameFacts, FileFacts DEF tmp
<1>8. (Answered /\ NoHalfKey)'
  <2>1. \A a \in answers : a[1] \in Orgs
    BY <1>1 DEF TypeOK
  <2> QED
    BY <1>1, <1>6, <2>1 DEF Kept, Tidy, Answered, NoHalfKey, WholeKeyFile
<1>9. (OneMinting /\ NoKeyYet)'
  <2>1. \A d \in Callers, p \in Orgs : Minting(d, p)' <=> Minting(d, p)
    BY <1>1, <1>2, <1>3 DEF Minting
  <2> QED
    BY <1>1, <1>6, <2>1 DEF Kept, Tidy, OneMinting, NoKeyYet
<1>10. OwnInode'
  <2> SUFFICES ASSUME NEW d \in Callers, call'[d].pc = "write",
                      NEW n \in Names, dir'[n] = call'[d].inode
               PROVE  n[1] = call'[d].org
    BY DEF OwnInode
  <2>1. CASE d = c
    BY <1>1, <1>2, <1>4, <2>1, NameFacts DEF tmp
  <2>2. CASE d # c
    <3>1. call[d].pc = "write" /\ call'[d] = call[d] /\ call[d].inode \in DOMAIN content
      BY <1>1, <1>3, <2>2, CallFacts
    <3>2. dir[n] = call[d].inode
      BY <1>1, <1>4, <3>1
    <3> QED
      BY <3>1, <3>2 DEF Kept, Tidy, OwnInode
  <2> QED
    BY <2>1, <2>2
<1>11. OnTmp'
  <2> SUFFICES ASSUME NEW d \in Callers, NEW p \in Orgs \ raced, call'[d].org = p,
                      call'[d].pc \in {"write", "rename"}
               PROVE  /\ call'[d].pc = "write" => dir'[TmpFile(p)] = call'[d].inode
                      /\ call'[d].pc = "rename" =>
                           /\ dir'[TmpFile(p)] # None
                           /\ content'[dir'[TmpFile(p)]].whole
                           /\ content'[dir'[TmpFile(p)]].seed = call'[d].seed
                           /\ content'[dir'[TmpFile(p)]].aad = p
    BY <1>1 DEF OnTmp
  <2>1. CASE d = c
    BY <1>2, <2>1 DEF tmp
  <2>2. CASE d # c
    <3>1. call'[d] = call[d] /\ Minting(d, p)
      BY <1>3, <2>2 DEF Minting
    <3>2. p # o
      BY <1>1, <2>2, <3>1 DEF Kept, Tidy, OneMinting
    <3> QED
      BY <1>7, <3>1, <3>2 DEF Kept, Tidy, OnTmp
  <2> QED
    BY <2>1, <2>2
<1> QED
  BY <1>5, <1>8, <1>9, <1>10, <1>11 DEF Kept, Tidy

\* Where a write lands: under names of the organisation it is for, and under the
\* temporary name only, as long as first uses have not overlapped.
LEMMA WriteLands ==
  ASSUME Kept, NEW c \in Callers, WriteTmp(c)
  PROVE  /\ \A p \in Orgs \ (raced \cap {call[c].org}) :
              dir[KeyFile(p)] # None => content'[dir[KeyFile(p)]] = content[dir[KeyFile(p)]]
         /\ \A p \in Orgs \ {call[c].org} :
              dir[TmpFile(p)] # None => content'[dir[TmpFile(p)]] = content[dir[TmpFile(p)]]
<1> DEFINE o == call[c].org
<1>1. /\ TypeOK /\ call[c].pc = "write" /\ o \in Orgs /\ call[c].inode \in DOMAIN content
      /\ Minting(c, o)
  BY CallFacts DEF Kept, Seeds, Typed, WriteTmp, Minting
<1>2. \A i \in DOMAIN content : i # call[c].inode => content'[i] = content[i]
  BY <1>1, FileFacts DEF WriteTmp
<1>3. \A n \in Names : n[1] # o => dir[n] # call[c].inode
  BY <1>1 DEF Kept, Tidy, OwnInode
<1>4. o \notin raced => dir[KeyFile(o)] = None
  BY <1>1 DEF Kept, Tidy, NoKeyYet
<1> QED
  BY <1>1, <1>2, <1>3, <1>4, NameFacts, FileFacts

LEMMA WriteTmpKept ==
  ASSUME Kept, Seeds', NEW c \in Callers, WriteTmp(c)
  PROVE  Kept'
<1> DEFINE o == call[c].org
<1>1. /\ TypeOK /\ call[c].pc = "write" /\ o \in Orgs /\ call[c].inode \in DOMAIN content
      /\ UNCHANGED <<dir, answers, raced>> /\ Minting(c, o)
  BY CallFacts DEF Kept, Seeds, Typed, WriteTmp, Minting
<1>2. /\ call'[c].pc = "rename" /\ call'[c].org = o /\ call'[c].seed = call[c].seed
      /\ \A d \in Callers : d = c \/ call'[d] = call[d]
      /\ content'[call[c].inode] = Sealed(call[c].seed, o)
  BY <1>1, FileFacts DEF TypeOK, WriteTmp
<1>3. Apart' /\ OwnInode'
  BY <1>1, <1>2 DEF Kept, Tidy, Apart, OwnInode
<1>4. (OneMinting /\ NoKeyYet)'
  <2>1. \A d \in Callers, p \in Orgs : Minting(d, p)' <=> Minting(d, p)
    BY <1>1, <1>2 DEF Minting
  <2> QED
    BY <1>1, <2>1 DEF Kept, Tidy, OneMinting, NoKeyYet
<1>5. (Answered /\ NoHalfKey)'
  <2>1. \A a \in answers : a[1] \in Orgs
    BY <1>1 DEF TypeOK
  <2> QED
    BY <1>1, <2>1, WriteLands DEF Kept, Tidy, Answered, NoHalfKey, WholeKeyFile
<1>6. OnTmp'
  <2> SUFFICES ASSUME NEW d \in Callers, NEW p \in Orgs \ raced, call'[d].org = p,
                      call'[d].pc \in {"write", "rename"}
               PROVE  /\ call'[d].pc = "write" => dir[TmpFile(p)] = call'[d].inode
                      /\ call'[d].pc = "rename" =>
                           /\ dir[TmpFile(p)] # None
                           /\ content'[dir[TmpFile(p)]].whole
                           /\ content'[dir[TmpFile(p)]].seed = call'[d].seed
                           /\ content'[dir[TmpFile(p)]].aad = p
    BY <1>1 DEF OnTmp
  <2>1. CASE d = c
    <3>1. dir[TmpFile(o)] = call[c].inode /\ dir[TmpFile(o)] # None /\ p = o
      BY <1>1, <1>2, <2>1, FileFacts DEF Kept, Tidy, OnTmp
    <3> QED
      BY <1>2, <2>1, <3>1 DEF Sealed
  <2>2. CASE d # c
    <3>1. call'[d] = call[d] /\ Minting(d, p)
      BY <1>2, <2>2 DEF Minting
    <3>2. p # o
      BY <1>1, <2>2, <3>1 DEF Kept, Tidy, OneMinting
    <3> QED
      BY <3>1, <3>2, WriteLands DEF Kept, Tidy, OnTmp
  <2> QED
    BY <2>1, <2>2
<1> QED
  BY <1>3, <1>4, <1>5, <1>6 DEF Kept, Tidy

\* What a rename does to the directory, and what it finds.
LEMMA RenameFacts ==
  ASSUME Kept, NEW c \in Callers, RenameTmp(c)
  PROVE  LET o == call[c].org IN
         /\ TypeOK /\ o \in Orgs /\ Minting(c, o) /\ UNCHANGED <<content, raced, mintedFor>>
         /\ call[c].seed \in DOMAIN mintedFor /\ mintedFor[call[c].seed] = o
         /\ call'[c] = Idle /\ \A d \in Callers : d = c \/ call'[d] = call[d]
         /\ \A n \in Names : n[1] # o => dir'[n] = dir[n]
         /\ \/ /\ dir[TmpFile(o)] # None
               /\ dir'[KeyFile(o)] = dir[TmpFile(o)] /\ dir'[TmpFile(o)] = None
               /\ answers' = answers \cup {<<o, call[c].seed>>}
            \/ dir[TmpFile(o)] = None /\ UNCHANGED <<dir, answers>>
         /\ o \notin raced =>
              /\ dir[KeyFile(o)] = None /\ dir[TmpFile(o)] # None
              /\ content[dir[TmpFile(o)]].whole
              /\ content[dir[TmpFile(o)]].seed = call[c].seed
              /\ content[dir[TmpFile(o)]].aad = o
<1> DEFINE o == call[c].org
<1>1. TypeOK /\ call[c].pc = "rename" /\ o \in Orgs /\ call[c].seed \in DOMAIN mintedFor
  BY CallFacts DEF Kept, Seeds, Typed, RenameTmp
<1>2. Minting(c, o) /\ mintedFor[call[c].seed] = o
  BY <1>1 DEF Minting, Kept, Seeds, DrawnRight
<1>3. call'[c] = Idle /\ \A d \in Callers : d = c \/ call'[d] = call[d]
  BY <1>1 DEF RenameTmp, TypeOK
<1>4. /\ \A n \in Names : n[1] # o => dir'[n] = dir[n]
      /\ \/ /\ dir[TmpFile(o)] # None
            /\ dir'[KeyFile(o)] = dir[TmpFile(o)] /\ dir'[TmpFile(o)] = None
            /\ answers' = answers \cup {<<o, call[c].seed>>}
         \/ dir[TmpFile(o)] = None /\ UNCHANGED <<dir, answers>>
  BY <1>1, NameFacts DEF RenameTmp, TypeOK
<1>5. o \notin raced =>
        /\ dir[KeyFile(o)] = None /\ dir[TmpFile(o)] # None
        /\ content[dir[TmpFile(o)]].whole
        /\ content[dir[TmpFile(o)]].seed = call[c].seed
        /\ content[dir[TmpFile(o)]].aad = o
  BY <1>1, <1>2 DEF Kept, Tidy, NoKeyYet, OnTmp
<1> QED
  BY <1>1, <1>2, <1>3, <1>4, <1>5 DEF RenameTmp

LEMMA RenameTmpKept ==
  ASSUME Kept, Seeds', NEW c \in Callers, RenameTmp(c)
  PROVE  Kept'
<1> DEFINE o == call[c].org
<1>1. /\ TypeOK /\ o \in Orgs /\ Minting(c, o) /\ UNCHANGED <<content, raced>>
      /\ call'[c].pc = "idle" /\ \A d \in Callers : d = c \/ call'[d] = call[d]
  BY RenameFacts DEF Idle
<1>2. \A n \in Names : n[1] # o => dir'[n] = dir[n]
  BY RenameFacts
<1>3. \/ /\ dir[TmpFile(o)] # None
         /\ dir'[KeyFile(o)] = dir[TmpFile(o)] /\ dir'[TmpFile(o)] = None
         /\ answers' = answers \cup {<<o, call[c].seed>>}
      \/ dir[TmpFile(o)] = None /\ UNCHANGED <<dir, answers>>
  BY RenameFacts
<1>4. o \notin raced =>
        /\ dir[KeyFile(o)] = None /\ dir[TmpFile(o)] # None
        /\ content[dir[TmpFile(o)]].whole
        /\ content[dir[TmpFile(o)]].seed = call[c].seed
        /\ content[dir[TmpFile(o)]].aad = o
  BY RenameFacts
<1>5. \A n \in Names : n = KeyFile(n[1]) \/ n = TmpFile(n[1])
  BY DEF Names, KeyFile, TmpFile
<1>6. Apart'
  BY <1>1, <1>2, <1>3, <1>5, NameFacts DEF Kept, Tidy, Apart
<1>7. OwnInode'
  <2> SUFFICES ASSUME NEW d \in Callers, call'[d].pc = "write",
                      NEW n \in Names, dir'[n] = call'[d].inode
               PROVE  n[1] = call'[d].org
    BY DEF OwnInode
  <2>1. call[d].pc = "write" /\ call'[d] = call[d] /\ call[d].inode # None
    BY <1>1, CallFacts, FileFacts
  <2>2. CASE dir[n] = call[d].inode
    BY <2>1, <2>2 DEF Kept, Tidy, OwnInode
  <2>3. CASE dir[n] # call[d].inode
    <3>1. n = KeyFile(o) /\ dir[TmpFile(o)] = call[d].inode
      BY <1>1, <1>2, <1>3, <1>5, <2>1, <2>3
    <3> QED
      BY <1>1, <2>1, <3>1, NameFacts DEF Kept, Tidy, OwnInode
  <2> QED
    BY <2>2, <2>3
<1>8. (OneMinting /\ NoKeyYet)'
  <2>1. \A d \in Callers, p \in Orgs : Minting(d, p)' => Minting(d, p) /\ d # c
    BY <1>1 DEF Minting
  <2>2. \A p \in Orgs : p # o => dir'[KeyFile(p)] = dir[KeyFile(p)]
    BY <1>2, NameFacts
  <2> QED
    BY <1>1, <2>1, <2>2 DEF Kept, Tidy, OneMinting, NoKeyYet
<1>9. OnTmp'
  <2> SUFFICES ASSUME NEW d \in Callers, NEW p \in Orgs \ raced, call'[d].org = p,
                      call'[d].pc \in {"write", "rename"}
               PROVE  /\ call'[d].pc = "write" => dir'[TmpFile(p)] = call'[d].inode
                      /\ call'[d].pc = "rename" =>
                           /\ dir'[TmpFile(p)] # None
                           /\ content[dir'[TmpFile(p)]].whole
                           /\ content[dir'[TmpFile(p)]].seed = call'[d].seed
                           /\ content[dir'[TmpFile(p)]].aad = p
    BY <1>1 DEF OnTmp
  <2>1. call'[d] = call[d] /\ Minting(d, p) /\ d # c
    BY <1>1 DEF Minting
  <2>2. p # o
    BY <1>1, <2>1 DEF Kept, Tidy, OneMinting
  <2>3. dir'[TmpFile(p)] = dir[TmpFile(p)]
    BY <1>2, <2>2, NameFacts
  <2> QED
    BY <2>1, <2>3 DEF Kept, Tidy, OnTmp
<1>10. Answered' /\ NoHalfKey'
  <2>1. \A p \in Orgs : p # o => dir'[KeyFile(p)] = dir[KeyFile(p)]
    BY <1>2, NameFacts
  <2>2. \A a \in answers' : a \in answers \/ a = <<o, call[c].seed>>
    BY <1>3
  <2>3. \A a \in answers : a[1] \in Orgs
    BY <1>1 DEF TypeOK
  <2>4. \A a \in answers : a[1] = o => o \in raced
    BY <1>4 DEF Kept, Tidy, Answered
  <2>5. Answered'
    BY <1>1, <1>3, <1>4, <2>1, <2>2, <2>3, <2>4 DEF Kept, Tidy, Answered
  <2>6. NoHalfKey'
    BY <1>1, <1>3, <1>4, <2>1 DEF Kept, Tidy, NoHalfKey, WholeKeyFile
  <2> QED
    BY <2>5, <2>6
<1> QED
  BY <1>6, <1>7, <1>8, <1>9, <1>10 DEF Kept, Tidy

LEMMA ReadKeyKept ==
  ASSUME Kept, Seeds', NEW c \in Callers, ReadKey(c)
  PROVE  Kept'
<1>1. TypeOK /\ call'[c].pc = "idle" /\ call[c].org \in Orgs
  BY CallFacts DEF Kept, Seeds, Typed, TypeOK, ReadKey, Idle
<1>2. /\ \A d \in Callers : d = c \/ call'[d] = call[d]
      /\ UNCHANGED <<dir, content, raced>>
  BY <1>1 DEF TypeOK, ReadKey, files
<1>3. Answered'
  BY <1>1, <1>2 DEF Kept, Tidy, Answered, ReadKey, Unseals
<1>4. (Apart /\ OneMinting /\ NoKeyYet /\ NoHalfKey)'
  BY <1>1, <1>2
  DEF Kept, Tidy, Apart, OneMinting, NoKeyYet, NoHalfKey, WholeKeyFile, Minting
<1>5. (OwnInode /\ OnTmp)'
  BY <1>1, <1>2 DEF Kept, Tidy, OwnInode, OnTmp
<1> QED
  BY <1>3, <1>4, <1>5 DEF Kept, Tidy

\* What moving a key file does to the directory.
LEMMA MoveFacts ==
  ASSUME Kept, NEW o1 \in Orgs, NEW o2 \in Orgs, MoveKeyFile(o1, o2)
  PROVE  /\ TypeOK /\ UNCHANGED <<content, call>> /\ o1 # o2
         /\ \A c \in Callers : call[c].pc = "idle"
         /\ dir'[KeyFile(o2)] = dir[KeyFile(o1)] /\ dir'[KeyFile(o1)] = None
         /\ \A n \in Names : n \notin {KeyFile(o1), KeyFile(o2)} => dir'[n] = dir[n]
         /\ raced \subseteq raced' /\ (o1 \in raced => o2 \in raced')
         /\ \A o \in Orgs : o \in raced' => o \in raced \/ o = o2
         /\ answers' = {a \in answers : a[1] \notin {o1, o2}}
<1>1. TypeOK /\ o1 # o2
  BY DEF Kept, Seeds, Typed, MoveKeyFile
<1>2. /\ dir'[KeyFile(o2)] = dir[KeyFile(o1)] /\ dir'[KeyFile(o1)] = None
      /\ \A n \in Names : n \notin {KeyFile(o1), KeyFile(o2)} => dir'[n] = dir[n]
  BY <1>1, NameFacts DEF MoveKeyFile, TypeOK
<1>3. \A c \in Callers : call[c].pc = "idle"
  BY DEF MoveKeyFile, Idle
<1>4. /\ raced \subseteq raced' /\ (o1 \in raced => o2 \in raced')
      /\ \A o \in Orgs : o \in raced' => o \in raced \/ o = o2
  BY DEF MoveKeyFile
<1>5. UNCHANGED <<content, call>> /\ answers' = {a \in answers : a[1] \notin {o1, o2}}
  BY DEF MoveKeyFile
<1> QED
  BY <1>1, <1>2, <1>3, <1>4, <1>5

LEMMA MoveKeyFileKept ==
  ASSUME Kept, Seeds', NEW o1 \in Orgs, NEW o2 \in Orgs, MoveKeyFile(o1, o2)
  PROVE  Kept'
<1>1. Apart'
  BY MoveFacts, NameFacts DEF Kept, Tidy, Apart
<1>2. (OwnInode /\ OneMinting /\ NoKeyYet /\ OnTmp)'
  BY MoveFacts DEF OwnInode, OneMinting, NoKeyYet, OnTmp, Minting
<1>3. \A p \in Orgs \ {o1, o2} : dir'[KeyFile(p)] = dir[KeyFile(p)]
  BY MoveFacts, NameFacts
<1>4. Answered'
  <2>1. \A a \in answers : a[1] \in Orgs
    BY MoveFacts DEF TypeOK
  <2> QED
    BY <1>3, <2>1, MoveFacts DEF Kept, Tidy, Answered
<1>5. NoHalfKey'
  BY <1>3, MoveFacts DEF Kept, Tidy, NoHalfKey, WholeKeyFile
<1> QED
  BY <1>1, <1>2, <1>4, <1>5 DEF Kept, Tidy

LEMMA FaultKept ==
  ASSUME Kept, Seeds', Fault
  PROVE  Kept'
<1>1. ASSUME NEW k \in Keks, Restart(k)
      PROVE  Kept'
  <2>1. UNCHANGED <<dir, content, answers, raced>> /\ \A c \in Callers : call'[c].pc = "idle"
    BY <1>1 DEF Restart, files, Idle
  <2>2. (Apart /\ Answered /\ NoHalfKey)'
    BY <2>1 DEF Kept, Tidy, Apart, Answered, NoHalfKey, WholeKeyFile
  <2>3. (OwnInode /\ OneMinting /\ NoKeyYet /\ OnTmp)'
    BY <2>1 DEF OwnInode, OneMinting, NoKeyYet, OnTmp, Minting
  <2> QED
    BY <2>2, <2>3 DEF Kept, Tidy
<1>2. CASE LoseKeystore
  <2>1. /\ \A n \in Names : dir'[n] = None
        /\ \A c \in Callers : call'[c].pc = "idle"
        /\ answers' = {}
    BY <1>2 DEF LoseKeystore, Idle
  <2>2. (Apart /\ Answered /\ NoHalfKey)'
    BY <2>1, NameFacts DEF Apart, Answered, NoHalfKey, WholeKeyFile
  <2>3. (OwnInode /\ OneMinting /\ NoKeyYet /\ OnTmp)'
    BY <2>1 DEF OwnInode, OneMinting, NoKeyYet, OnTmp, Minting
  <2> QED
    BY <2>2, <2>3 DEF Kept, Tidy
<1> QED
  BY <1>1, <1>2, MoveKeyFileKept DEF Fault

LEMMA NextKept == Kept /\ [Next]_vars => Kept'
<1> SUFFICES ASSUME Kept, [Next]_vars
             PROVE  Kept'
  OBVIOUS
<1>1. Seeds'
  BY NextSeeds DEF Kept
<1>2. CASE UNCHANGED vars
  BY <1>1, <1>2
  DEF vars, Kept, Tidy, Apart, OwnInode, OneMinting, NoKeyYet, OnTmp, Answered, NoHalfKey,
      WholeKeyFile, Minting
<1> QED
  BY <1>1, <1>2, FindKeyKept, MintSeedKept, OpenTmpKept, WriteTmpKept, RenameTmpKept,
     ReadKeyKept, FaultKept DEF Next, CallStep

LEMMA KeptHolds == Spec => []Kept
BY InitKept, NextKept, PTL DEF Spec

\* No key file is half-written, through any crash, as long as two first uses of
\* its organisation have not overlapped.
THEOREM NoHalfKeyHolds == Spec => []NoHalfKey
<1>1. Kept => NoHalfKey
  BY DEF Kept, Tidy
<1> QED
  BY <1>1, KeptHolds, PTL

\* An organisation is answered with one key, under the same proviso.
THEOREM OneKeyHolds == Spec => []OneKey
<1>1. Kept => OneKey
  BY DEF Kept, Tidy, Answered, OneKey
<1> QED
  BY <1>1, KeptHolds, PTL

-----------------------------------------------------------------------------
\* The keystore implements OrgKeys.

LEMMA KeyOfFacts ==
  \A o \in Orgs :
    IF /\ dir[KeyFile(o)] # None
       /\ content[dir[KeyFile(o)]].whole /\ content[dir[KeyFile(o)]].aad = o
    THEN KeyOf[o] = content[dir[KeyFile(o)]].seed
    ELSE KeyOf[o] = None
BY DEF KeyOf

\* Keys of organisations in no race, and of those a step does not touch.
LEMMA SameKeys ==
  ASSUME NEW S \in SUBSET Orgs,
         \A o \in Orgs \ S :
           /\ dir'[KeyFile(o)] = dir[KeyFile(o)]
           /\ dir[KeyFile(o)] # None =>
                content'[dir[KeyFile(o)]] = content[dir[KeyFile(o)]]
  PROVE  /\ DOMAIN KeyOf' = Orgs
         /\ \A o \in Orgs \ S : KeyOf'[o] = KeyOf[o]
         /\ S = {} => KeyOf' = KeyOf
<1>1. \A o \in Orgs \ S : KeyOf'[o] = KeyOf[o]
  BY DEF KeyOf
<1> QED
  BY <1>1 DEF KeyOf

LEMMA Disturbance ==
  ASSUME NEW S \in SUBSET Orgs, DOMAIN KeyOf' = Orgs,
         \A o \in Orgs \ S : KeyOf'[o] = KeyOf[o],
         CleanAnswers' = {a \in CleanAnswers : a[1] \notin S}
  PROVE  Abstract!Next
BY DEF Abstract!Next, Abstract!Disturb

LEMMA InitKeys == Init => Abstract!Init
BY DEF Init, Abstract!Init, KeyOf, CleanAnswers, Names, KeyFile

LEMMA WriteKeys ==
  ASSUME Kept, NEW c \in Callers, WriteTmp(c)
  PROVE  Abstract!Next
<1> DEFINE S == raced \cap {call[c].org}
<1>1. S \in SUBSET Orgs /\ UNCHANGED <<dir, answers, raced>>
  BY DEF Kept, Seeds, Typed, TypeOK, WriteTmp
<1>2. DOMAIN KeyOf' = Orgs /\ \A o \in Orgs \ S : KeyOf'[o] = KeyOf[o]
  BY <1>1, WriteLands, SameKeys
<1>3. CleanAnswers' = {a \in CleanAnswers : a[1] \notin S}
  BY <1>1 DEF CleanAnswers
<1> QED
  BY <1>1, <1>2, <1>3, Disturbance

LEMMA RenameKeys ==
  ASSUME Kept, NEW c \in Callers, RenameTmp(c)
  PROVE  Abstract!Next
<1> DEFINE o == call[c].org
           k == call[c].seed
<1>1. /\ TypeOK /\ o \in Orgs /\ UNCHANGED <<content, raced>>
      /\ k \in DOMAIN mintedFor /\ mintedFor[k] = o
  BY RenameFacts
<1>2. /\ DOMAIN KeyOf' = Orgs
      /\ \A p \in Orgs \ {o} : KeyOf'[p] = KeyOf[p]
  <2>1. \A p \in Orgs \ {o} : dir'[KeyFile(p)] = dir[KeyFile(p)]
    BY RenameFacts, NameFacts
  <2> QED
    BY <1>1, <2>1, SameKeys
<1>3. CASE o \in raced
  <2>1. CleanAnswers' = {a \in CleanAnswers : a[1] \notin {o}}
    <3>1. answers' = answers \/ answers' = answers \cup {<<o, k>>}
      BY RenameFacts
    <3> QED
      BY <1>1, <1>3, <3>1 DEF CleanAnswers
  <2> QED
    BY <1>1, <1>2, <2>1, Disturbance
<1>4. CASE o \notin raced
  <2>1. /\ dir[KeyFile(o)] = None /\ dir[TmpFile(o)] # None
        /\ dir'[KeyFile(o)] = dir[TmpFile(o)]
        /\ content[dir[TmpFile(o)]].whole
        /\ content[dir[TmpFile(o)]].seed = k
        /\ content[dir[TmpFile(o)]].aad = o
        /\ answers' = answers \cup {<<o, k>>}
    BY <1>4, RenameFacts
  <2>2. KeyOf[o] = None /\ KeyOf'[o] = k
    BY <1>1, <2>1 DEF KeyOf
  <2>3. KeyOf' = [KeyOf EXCEPT ![o] = k]
    <3>1. KeyOf' = [p \in Orgs |-> KeyOf'[p]] /\ DOMAIN KeyOf = Orgs
      BY DEF KeyOf
    <3> QED
      BY <1>1, <1>2, <2>2, <3>1
  <2>4. k \in 1 .. MaxMints /\ k # None
    BY <1>1, FileFacts, NoneAssumption, BoundAssumption DEF Kept, Seeds, Typed
  <2>5. ASSUME NEW p \in Orgs, KeyOf[p] = k
        PROVE  FALSE
    <3>1. /\ content[dir[KeyFile(p)]].whole /\ content[dir[KeyFile(p)]].aad = p
          /\ content[dir[KeyFile(p)]].seed = k /\ dir[KeyFile(p)] # None
      BY <2>4, <2>5, KeyOfFacts
    <3>2. mintedFor[k] = p
      BY <1>1, <3>1, FileFacts, NameFacts DEF Kept, Seeds, SealedRight
    <3> QED
      BY <1>1, <2>2, <2>4, <2>5, <3>2
  <2>6. CleanAnswers' = CleanAnswers \cup {<<o, k>>}
    BY <1>1, <1>4, <2>1 DEF CleanAnswers
  <2> HIDE DEF k
  <2>7. PICK p \in Orgs : p = o
    BY <1>1
  <2>8. Abstract!FirstUse(p)
    BY <2>2, <2>3, <2>4, <2>5, <2>6, <2>7 DEF Abstract!FirstUse
  <2> QED
    BY <2>8 DEF Abstract!Next
<1> QED
  BY <1>3, <1>4

LEMMA ReadKeys ==
  ASSUME Kept, NEW c \in Callers, ReadKey(c)
  PROVE  Abstract!Next \/ UNCHANGED <<KeyOf, CleanAnswers>>
<1> DEFINE o == call[c].org
           inode == dir[KeyFile(o)]
<1>1. TypeOK /\ o \in Orgs /\ UNCHANGED <<dir, content, raced>>
  BY CallFacts DEF Kept, Seeds, Typed, ReadKey, files
<1>2. KeyOf' = KeyOf
  BY <1>1 DEF KeyOf
<1>3. CASE o \notin raced /\ inode # None /\ Unseals(content[inode], o)
  <2>1. PICK p \in Orgs : p = o
    BY <1>1
  <2>2. KeyOf[p] = content[inode].seed /\ KeyOf[p] # None
    <3>1. content[inode].seed \in DOMAIN mintedFor
      BY <1>1, <1>3, FileFacts, NameFacts DEF Unseals
    <3>2. content[inode].seed # None
      BY <1>1, <3>1, FileFacts, NoneAssumption
    <3> QED
      BY <1>3, <2>1, <3>2, KeyOfFacts DEF Unseals
  <2>3. CleanAnswers' = CleanAnswers \cup {<<p, KeyOf[p]>>}
    BY <1>1, <1>3, <2>1, <2>2 DEF ReadKey, CleanAnswers
  <2>4. Abstract!Use(p)
    BY <1>2, <2>2, <2>3 DEF Abstract!Use
  <2> QED
    BY <2>4 DEF Abstract!Next
<1>4. CASE ~(o \notin raced /\ inode # None /\ Unseals(content[inode], o))
  <2>1. CleanAnswers' = CleanAnswers
    BY <1>1, <1>4 DEF ReadKey, CleanAnswers
  <2> QED
    BY <1>2, <2>1
<1> QED
  BY <1>3, <1>4

LEMMA StepKeys == Kept /\ [Next]_vars => [Abstract!Next]_<<KeyOf, CleanAnswers>>
<1> SUFFICES ASSUME Kept, [Next]_vars
             PROVE  Abstract!Next \/ UNCHANGED <<KeyOf, CleanAnswers>>
  OBVIOUS
<1>1. TypeOK
  BY DEF Kept, Seeds, Typed
<1>2. CASE UNCHANGED <<dir, content, answers, raced>>
  BY <1>2 DEF KeyOf, CleanAnswers
<1>3. ASSUME NEW c \in Callers, NEW o \in Orgs, MintSeed(c, o)
      PROVE  Abstract!Next
  <2> DEFINE S == raced' \ raced
  <2>1. S \in SUBSET Orgs /\ raced' = raced \cup S /\ UNCHANGED <<dir, content, answers>>
    BY <1>3 DEF MintSeed, files
  <2>2. DOMAIN KeyOf' = Orgs /\ \A p \in Orgs \ S : KeyOf'[p] = KeyOf[p]
    BY <2>1, SameKeys
  <2>3. CleanAnswers' = {a \in CleanAnswers : a[1] \notin S}
    BY <2>1 DEF CleanAnswers
  <2> QED
    BY <2>1, <2>2, <2>3, Disturbance
<1>4. ASSUME NEW c \in Callers, OpenTmp(c)
      PROVE  UNCHANGED <<KeyOf, CleanAnswers>>
  <2>1. \A p \in Orgs : /\ dir'[KeyFile(p)] = dir[KeyFile(p)]
                        /\ dir[KeyFile(p)] # None =>
                             content'[dir[KeyFile(p)]] = content[dir[KeyFile(p)]]
    BY <1>4, OpenLands
  <2>2. KeyOf' = KeyOf
    BY <2>1, SameKeys
  <2> QED
    BY <1>4, <2>2 DEF OpenTmp, CleanAnswers
<1>5. ASSUME NEW o1 \in Orgs, NEW o2 \in Orgs, MoveKeyFile(o1, o2)
      PROVE  Abstract!Next
  <2>1. DOMAIN KeyOf' = Orgs /\ \A p \in Orgs \ {o1, o2} : KeyOf'[p] = KeyOf[p]
    <3> DEFINE S == {o1, o2}
    <3>1. S \in SUBSET Orgs /\ content' = content
      BY <1>5, MoveFacts
    <3>2. \A p \in Orgs \ S : dir'[KeyFile(p)] = dir[KeyFile(p)]
      BY <1>5, MoveFacts, NameFacts
    <3> QED
      BY <3>1, <3>2, SameKeys
  <2>2. CleanAnswers' = {a \in CleanAnswers : a[1] \notin {o1, o2}}
    <3>1. \A a \in answers : a[1] \in Orgs
      BY <1>1 DEF TypeOK
    <3> QED
      BY <1>5, <3>1, MoveFacts DEF CleanAnswers
  <2> QED
    BY <2>1, <2>2, Disturbance
<1>6. CASE LoseKeystore
  <2>1. CleanAnswers' = {a \in CleanAnswers : a[1] \notin Orgs}
    BY <1>1, <1>6 DEF LoseKeystore, CleanAnswers, TypeOK
  <2>2. DOMAIN KeyOf' = Orgs
    BY DEF KeyOf
  <2> QED
    BY <2>1, <2>2, Disturbance
<1>7. ASSUME NEW c \in Callers, NEW o \in Orgs, FindKey(c, o)
      PROVE  UNCHANGED <<dir, content, answers, raced>>
  BY <1>7 DEF FindKey, files
<1>8. ASSUME NEW k \in Keks, Restart(k)
      PROVE  UNCHANGED <<dir, content, answers, raced>>
  BY <1>8 DEF Restart, files
<1>9. CASE UNCHANGED vars
  BY <1>2, <1>9 DEF vars
<1> QED
  BY <1>2, <1>3, <1>4, <1>5, <1>6, <1>7, <1>8, <1>9, WriteKeys, RenameKeys, ReadKeys
  DEF Next, CallStep, Fault

\* The keystore implements OrgKeys: an organisation's key is set once, fresh, and
\* answered from then on, and only operators and overlapping first uses disturb
\* it.
THEOREM KeysRefinement == Spec => ImplementsOrgKeys
BY InitKeys, KeptHolds, StepKeys, PTL
DEF Spec, ImplementsOrgKeys, Abstract!Spec, Abstract!vars
=============================================================================
