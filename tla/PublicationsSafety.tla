------------------------- MODULE PublicationsSafety -------------------------
(***************************************************************************)
(* Theorems about Publications, for any number of requests, publications,  *)
(* parties, keys, cut points and keystore losses.  First its types, then   *)
(* its safety: nothing forks, every link moves forward, short of two first *)
(* publications the rows form one chain in order, and it verifies unless   *)
(* the party was edited.  The induction is carried by ChecksStillHold,     *)
(* which says what a request in progress may still rely on.                *)
(***************************************************************************)
EXTENDS Publications, WellFoundedInduction, TLAPS

-----------------------------------------------------------------------------
(* Positions in a sequence: inductions are done by their first counterexample. *)

LEMMA LeastNatural ==
  ASSUME NEW S \in SUBSET Nat, S # {}
  PROVE  \E m \in S : \A k \in S : m <= k
<1> DEFINE R == OpToRel(<, Nat)
<1>1. IsWellFoundedOn(R, Nat)
  BY NatLessThanWellFounded
<1>2. \A k, m \in Nat : <<k, m>> \in R <=> k < m
  BY DEF OpToRel
<1> HIDE DEF R
<1>3. PICK m \in S : \A k \in S : ~(<<k, m>> \in R)
  BY <1>1, WFMin
<1>4. ASSUME NEW k \in S
      PROVE  m <= k
  <2>1. k \in Nat /\ m \in Nat
    OBVIOUS
  <2>2. ~(k < m)
    BY <1>2, <1>3, <2>1, Zenon
  <2> QED
    BY <2>1, <2>2
<1> QED
  BY <1>4

LEMMA LargestUpTo ==
  ASSUME NEW n \in Nat, NEW S \in SUBSET (1 .. n), S # {}
  PROVE  \E m \in S : \A k \in S : k <= m
<1> DEFINE T == {n - k : k \in S}
<1>1. T \in SUBSET Nat /\ T # {}
  <2>1. \A k \in S : k \in Int /\ k <= n
    OBVIOUS
  <2>2. \A k \in S : n - k \in Nat /\ n - k \in T
    BY <2>1
  <2> QED
    BY <2>2
<1>2. PICK d \in T : \A e \in T : d <= e
  <2> HIDE DEF T
  <2> QED
    BY <1>1, LeastNatural
<1>3. PICK m \in S : d = n - m
  BY <1>2
<1>4. ASSUME NEW k \in S
      PROVE  k <= m
  <2>1. n - m <= n - k
    BY <1>2, <1>3
  <2> QED
    BY <2>1
<1> QED
  BY <1>4

\* A function that keeps the order of 1 .. n is the identity.
LEMMA MonotoneIsIdentity ==
  ASSUME NEW n \in Nat, NEW f \in [1 .. n -> 1 .. n],
         \A i, j \in 1 .. n : i < j => f[i] < f[j]
  PROVE  \A i \in 1 .. n : f[i] = i
<1>1. \A i \in 1 .. n : f[i] >= i
  <2> DEFINE S == {i \in 1 .. n : f[i] < i}
  <2> SUFFICES ASSUME S # {}
               PROVE  FALSE
    OBVIOUS
  <2>1. PICK m \in S : \A k \in S : m <= k
    <3>1. S \in SUBSET Nat
      OBVIOUS
    <3> HIDE DEF S
    <3> QED
      BY <3>1, LeastNatural
  <2>2. m \in 1 .. n /\ f[m] < m /\ f[m] \in 1 .. n
    OBVIOUS
  <2>3. m - 1 \in 1 .. n /\ m - 1 < m
    BY <2>2
  <2>4. f[m - 1] < f[m] /\ f[m - 1] \in 1 .. n
    BY <2>2, <2>3
  <2>5. m - 1 \in S
    BY <2>2, <2>3, <2>4
  <2> QED
    BY <2>1, <2>2, <2>5
<1>2. \A i \in 1 .. n : f[i] <= i
  <2> DEFINE S == {i \in 1 .. n : f[i] > i}
  <2> SUFFICES ASSUME S # {}
               PROVE  FALSE
    OBVIOUS
  <2>1. PICK m \in S : \A k \in S : k <= m
    <3>1. S \in SUBSET (1 .. n)
      OBVIOUS
    <3> HIDE DEF S
    <3> QED
      BY <3>1, LargestUpTo
  <2>2. m \in 1 .. n /\ f[m] > m /\ f[m] \in 1 .. n
    OBVIOUS
  <2>3. m + 1 \in 1 .. n /\ m < m + 1
    BY <2>2
  <2>4. f[m] < f[m + 1] /\ f[m + 1] \in 1 .. n
    BY <2>2, <2>3
  <2>5. m + 1 \in S
    BY <2>2, <2>3, <2>4
  <2> QED
    BY <2>1, <2>2, <2>5
<1> QED
  BY <1>1, <1>2

-----------------------------------------------------------------------------
(* Types. *)

\* Some committed row has the greatest createdAt: what Latest chooses exists.
HasLatest ==
  pubs # <<>> =>
    \E m \in DOMAIN pubs : \A j \in DOMAIN pubs : pubs[j].createdAt <= pubs[m].createdAt

Typed == TypeOK /\ HasLatest

\* findFirst answers nothing or a committed row.
LEMMA LatestType ==
  ASSUME Typed
  PROVE  Latest \in {0} \cup DOMAIN pubs /\ Latest \in Nat
<1>1. Latest \in {0} \cup DOMAIN pubs
  BY DEF Typed, HasLatest, Latest
<1>2. DOMAIN pubs \subseteq Nat
  BY DEF Typed, TypeOK
<1> QED
  BY <1>1, <1>2

LEMMA InitTyped == Init => Typed
BY NoneAssumption
DEF Init, Typed, TypeOK, ReqOK, HasLatest, Blank, ReqType, PubType

LEMMA BlankOK == ReqOK(Blank)
BY NoneAssumption DEF ReqOK, Blank, ReqType

\* A step that gives one request a well-typed state, and keeps the rows.
LEMMA ReqStep ==
  ASSUME Typed, NEW r \in Requests, NEW new, ReqOK(new),
         req' = [req EXCEPT ![r] = new], UNCHANGED pubs
  PROVE  /\ req' \in [Requests -> ReqType]
         /\ (\A q \in Requests : ReqOK(req[q]))'
<1>1. req \in [Requests -> ReqType] /\ \A q \in Requests : ReqOK(req[q])
  BY DEF Typed, TypeOK
<1>2. new \in ReqType
  BY DEF ReqOK
<1>3. req' \in [Requests -> ReqType]
  BY <1>1, <1>2
<1>4. \A q \in Requests : ReqOK(req'[q])
  BY <1>1
<1>5. \A q \in Requests : ReqOK(req'[q]) => ReqOK(req[q])'
  BY DEF ReqOK
<1> QED
  BY <1>3, <1>4, <1>5

LEMMA AuthoriseTyped ==
  ASSUME Typed, NEW r \in Requests, NEW cut \in Cuts, Authorise(r, cut)
  PROVE  TypeOK'
<1> DEFINE new == [pc |-> "authorised", party |-> party, recorded |-> recorded,
                   snap |-> cut.snap, offset |-> cut.offset, prev |-> 0,
                   key |-> None, createdAt |-> 0]
<1>1. TypeOK
  BY DEF Typed
<1>2. ReqOK(new)
  BY <1>1, CutAssumption DEF ReqOK, ReqType, TypeOK
<1>3. req' = [req EXCEPT ![r] = new] /\ UNCHANGED pubs
  BY DEF Authorise
<1> HIDE DEF new
<1>4. /\ req' \in [Requests -> ReqType]
      /\ (\A q \in Requests : ReqOK(req[q]))'
  BY <1>2, <1>3, ReqStep
<1> QED
  BY <1>1, <1>4 DEF Authorise, TypeOK

LEMMA CheckPreviousTyped ==
  ASSUME Typed, NEW r \in Requests, CheckPrevious(r)
  PROVE  TypeOK'
<1> DEFINE new == [req[r] EXCEPT !.pc = "checked", !.prev = Latest]
<1>1. TypeOK /\ ReqOK(req[r])
  BY DEF Typed, TypeOK
<1>2. ReqOK(new)
  BY <1>1, LatestType DEF ReqOK, ReqType, CheckPrevious
<1>3. \/ req' = [req EXCEPT ![r] = new]
      \/ req' = [req EXCEPT ![r] = Blank]
  BY DEF CheckPrevious, Finish
<1>4. UNCHANGED pubs
  BY DEF CheckPrevious
<1> HIDE DEF new
<1>5. /\ req' \in [Requests -> ReqType]
      /\ (\A q \in Requests : ReqOK(req[q]))'
  BY <1>2, <1>3, <1>4, ReqStep, BlankOK
<1> QED
  BY <1>1, <1>5 DEF CheckPrevious, TypeOK

LEMMA SignTyped ==
  ASSUME Typed, NEW r \in Requests, Sign(r)
  PROVE  TypeOK'
<1> DEFINE new == [req[r] EXCEPT !.pc = "signed", !.key = serviceKey]
<1>1. TypeOK /\ ReqOK(req[r])
  BY DEF Typed, TypeOK
<1>2. ReqOK(new)
  BY <1>1 DEF ReqOK, ReqType, TypeOK, Sign
<1>3. \/ req' = [req EXCEPT ![r] = new]
      \/ req' = [req EXCEPT ![r] = Blank]
  BY DEF Sign, Finish
<1>4. UNCHANGED pubs
  BY DEF Sign
<1> HIDE DEF new
<1>5. /\ req' \in [Requests -> ReqType]
      /\ (\A q \in Requests : ReqOK(req[q]))'
  BY <1>2, <1>3, <1>4, ReqStep, BlankOK
<1> QED
  BY <1>1, <1>5 DEF Sign, TypeOK

LEMMA InsertTyped ==
  ASSUME Typed, NEW r \in Requests, Insert(r)
  PROVE  TypeOK'
<1> DEFINE new == [req[r] EXCEPT !.pc = "inserted", !.createdAt = clock + 1]
<1>1. TypeOK /\ ReqOK(req[r])
  BY DEF Typed, TypeOK
<1>2. ReqOK(new)
  <2>1. clock + 1 \in Nat /\ req[r].pc = "signed"
    BY <1>1 DEF TypeOK, Insert
  <2> QED
    BY <1>1, <2>1 DEF ReqOK, ReqType
<1>3. \/ req' = [req EXCEPT ![r] = new]
      \/ req' = [req EXCEPT ![r] = Blank]
  BY DEF Insert, Finish
<1>4. UNCHANGED pubs
  BY DEF Insert
<1> HIDE DEF new
<1>5. /\ req' \in [Requests -> ReqType]
      /\ (\A q \in Requests : ReqOK(req[q]))'
  BY <1>2, <1>3, <1>4, ReqStep, BlankOK
<1> QED
  BY <1>1, <1>5 DEF Insert, TypeOK

LEMMA AskForKeyTyped ==
  ASSUME Typed, NEW r \in Requests, AskForKey(r)
  PROVE  TypeOK'
<1> DEFINE new == [req[r] EXCEPT !.pc = "asking"]
<1>1. TypeOK /\ ReqOK(req[r])
  BY DEF Typed, TypeOK
<1>2. ReqOK(new)
  BY <1>1 DEF ReqOK, ReqType, TypeOK, AskForKey
<1>3. req' = [req EXCEPT ![r] = new]
  BY DEF AskForKey
<1>4. UNCHANGED pubs
  BY DEF AskForKey
<1> HIDE DEF new
<1>5. /\ req' \in [Requests -> ReqType]
      /\ (\A q \in Requests : ReqOK(req[q]))'
  BY <1>2, <1>3, <1>4, ReqStep
<1> QED
  BY <1>1, <1>5 DEF AskForKey, TypeOK

LEMMA KeyAnsweredTyped ==
  ASSUME Typed, NEW r \in Requests, KeyAnswered(r)
  PROVE  TypeOK'
<1> DEFINE new == [req[r] EXCEPT !.pc = "answered", !.key = serviceKey]
<1>1. TypeOK /\ ReqOK(req[r])
  BY DEF Typed, TypeOK
<1>2. ReqOK(new)
  BY <1>1 DEF ReqOK, ReqType, TypeOK, KeyAnswered
<1>3. req' = [req EXCEPT ![r] = new]
  BY DEF KeyAnswered
<1>4. UNCHANGED pubs
  BY DEF KeyAnswered
<1> HIDE DEF new
<1>5. /\ req' \in [Requests -> ReqType]
      /\ (\A q \in Requests : ReqOK(req[q]))'
  BY <1>2, <1>3, <1>4, ReqStep
<1> QED
  BY <1>1, <1>5 DEF KeyAnswered, TypeOK

LEMMA AttestCustodyTyped ==
  ASSUME Typed, NEW r \in Requests, AttestCustody(r)
  PROVE  TypeOK'
<1> DEFINE new == [req[r] EXCEPT !.pc = "attested", !.key = serviceKey]
<1>1. TypeOK /\ ReqOK(req[r])
  BY DEF Typed, TypeOK
<1>2. ReqOK(new)
  BY <1>1 DEF ReqOK, ReqType, TypeOK, AttestCustody
<1>3. req' = [req EXCEPT ![r] = new]
  BY DEF AttestCustody
<1>4. UNCHANGED pubs
  BY DEF AttestCustody
<1> HIDE DEF new
<1>5. /\ req' \in [Requests -> ReqType]
      /\ (\A q \in Requests : ReqOK(req[q]))'
  BY <1>2, <1>3, <1>4, ReqStep
<1> QED
  BY <1>1, <1>5 DEF AttestCustody, TypeOK

\* The steps that end a request without a new row.
LEMMA EndTyped ==
  ASSUME Typed, NEW r \in Requests, RecordKey(r) \/ StoreCustody(r) \/ Abandon(r)
  PROVE  TypeOK'
<1>1. TypeOK /\ ReqOK(req[r])
  BY DEF Typed, TypeOK
<1>2. req' = [req EXCEPT ![r] = Blank] /\ UNCHANGED pubs
  BY DEF RecordKey, StoreCustody, Abandon, Finish
<1>3. /\ req' \in [Requests -> ReqType]
      /\ (\A q \in Requests : ReqOK(req[q]))'
  BY <1>2, ReqStep, BlankOK
<1>4. CASE RecordKey(r)
  BY <1>1, <1>3, <1>4 DEF RecordKey, TypeOK, ReqOK
<1>5. CASE StoreCustody(r)
  BY <1>1, <1>3, <1>5 DEF StoreCustody, TypeOK, ReqOK
<1>6. CASE Abandon(r)
  BY <1>1, <1>3, <1>6 DEF Abandon, TypeOK
<1> QED
  BY <1>4, <1>5, <1>6

\* The row a request commits.
RowOf(r) ==
  [snap |-> req[r].snap, offset |-> req[r].offset, party |-> req[r].party,
   key |-> req[r].key, prev |-> req[r].prev, createdAt |-> req[r].createdAt]

LEMMA CommitRow ==
  ASSUME Typed, NEW r \in Requests, Commit(r)
  PROVE  /\ RowOf(r) \in PubType
         /\ pubs' = Append(pubs, RowOf(r))
         /\ DOMAIN pubs = 1 .. Len(pubs) /\ Len(pubs) \in Nat
         /\ DOMAIN pubs' = 1 .. Len(pubs) + 1
         /\ \A i \in DOMAIN pubs : pubs'[i] = pubs[i]
         /\ pubs'[Len(pubs) + 1] = RowOf(r)
<1>1. TypeOK /\ ReqOK(req[r])
  BY DEF Typed, TypeOK
<1>2. RowOf(r) \in PubType
  BY <1>1 DEF ReqOK, ReqType, PubType, RowOf, Commit
<1>3. pubs' = Append(pubs, RowOf(r))
  BY DEF Commit, RowOf
<1> QED
  BY <1>1, <1>2, <1>3 DEF TypeOK

LEMMA CommitTyped ==
  ASSUME Typed, NEW r \in Requests, Commit(r)
  PROVE  TypeOK'
<1>1. TypeOK /\ ReqOK(req[r])
  BY DEF Typed, TypeOK
<1>2. pubs' \in Seq(PubType)
  BY <1>1, CommitRow DEF TypeOK
<1>3. \A q \in Requests : req'[q] \in {Blank, req[q]}
  BY <1>1 DEF Commit, Finish, TypeOK
<1>4. \A q \in Requests : ReqOK(req'[q])
  BY <1>1, <1>3, BlankOK DEF TypeOK
<1>5. \A q \in Requests : ReqOK(req'[q]) => ReqOK(req[q])'
  BY <1>2, CommitRow DEF ReqOK
<1>6. req' \in [Requests -> ReqType]
  BY <1>1, BlankOK DEF Commit, Finish, TypeOK, ReqOK
<1>7. recorded' \in Keys
  BY <1>1 DEF Commit, ReqOK
<1> QED
  BY <1>1, <1>2, <1>4, <1>5, <1>6, <1>7 DEF Commit, TypeOK

LEMMA TypedStep == Typed /\ [Next]_vars => Typed'
<1> SUFFICES ASSUME Typed, [Next]_vars
             PROVE  Typed'
  OBVIOUS
<1>1. ASSUME NEW r \in Requests, Commit(r)
      PROVE  HasLatest'
  <2>1. CASE pubs = <<>>
    <3>1. Len(pubs) = 0
      BY <2>1
    <3>2. RowOf(r).createdAt \in Nat
      BY <1>1, CommitRow DEF PubType
    <3>3. \A j \in DOMAIN pubs' : pubs'[j].createdAt <= pubs'[1].createdAt
      BY <1>1, <3>1, <3>2, CommitRow
    <3> QED
      BY <1>1, <3>1, <3>3, CommitRow DEF HasLatest
  <2>2. CASE pubs # <<>>
    <3>1. PICK m \in DOMAIN pubs : \A j \in DOMAIN pubs : pubs[j].createdAt <= pubs[m].createdAt
      BY <2>2 DEF Typed, HasLatest
    <3>2. \A j \in DOMAIN pubs : pubs[j].createdAt \in Nat
      <4>1. \A j \in DOMAIN pubs : pubs[j] \in PubType
        BY DEF Typed, TypeOK
      <4> QED
        BY <4>1 DEF PubType
    <3>3. RowOf(r).createdAt \in Nat
      BY <1>1, CommitRow DEF PubType
    <3>4. CASE RowOf(r).createdAt <= pubs[m].createdAt
      <4>1. \A j \in DOMAIN pubs' : pubs'[j].createdAt <= pubs'[m].createdAt
        BY <1>1, <3>1, <3>4, CommitRow
      <4> QED
        BY <1>1, <4>1, CommitRow DEF HasLatest
    <3>5. CASE pubs[m].createdAt <= RowOf(r).createdAt
      <4>1. \A j \in DOMAIN pubs' : pubs'[j].createdAt <= pubs'[Len(pubs) + 1].createdAt
        BY <1>1, <3>1, <3>2, <3>3, <3>5, CommitRow
      <4> QED
        BY <1>1, <4>1, CommitRow DEF HasLatest
    <3> QED
      BY <3>2, <3>3, <3>4, <3>5
  <2> QED
    BY <2>1, <2>2
<1>2. ASSUME UNCHANGED pubs
      PROVE  HasLatest'
  BY <1>2 DEF Typed, HasLatest
<1>3. ASSUME NEW r \in Requests, Begin(r) \/ Proceed(r) \/ Abandon(r)
      PROVE  Typed'
  <2>1. TypeOK'
    BY <1>3, AuthoriseTyped, CheckPreviousTyped, SignTyped, InsertTyped, CommitTyped,
       AskForKeyTyped, KeyAnsweredTyped, AttestCustodyTyped, EndTyped
    DEF Begin, Proceed
  <2>2. Commit(r) \/ UNCHANGED pubs
    BY <1>3 DEF Begin, Proceed, Authorise, CheckPrevious, Sign, Insert, Abandon,
                AskForKey, KeyAnswered, RecordKey, AttestCustody, StoreCustody
  <2> QED
    BY <1>1, <1>2, <2>1, <2>2 DEF Typed
<1>4. ASSUME NEW p \in Parties, UpdateGeneral(p)
      PROVE  Typed'
  BY <1>2, <1>4 DEF UpdateGeneral, Typed, TypeOK, ReqOK
<1>5. ASSUME NEW k \in Keys, ReplaceKeystore(k)
      PROVE  Typed'
  BY <1>2, <1>5 DEF ReplaceKeystore, Typed, TypeOK, ReqOK
<1>6. CASE UNCHANGED vars
  BY <1>2, <1>6 DEF vars, Typed, TypeOK, ReqOK
<1> QED
  BY <1>3, <1>4, <1>5, <1>6 DEF Next

\* The database stays well-typed, and so does everything requests carry across
\* their awaits.
THEOREM TypesHold == Spec => []TypeOK
<1>1. Spec => []Typed
  BY InitTyped, TypedStep, PTL DEF Spec
<1> QED
  BY <1>1, PTL DEF Typed

-----------------------------------------------------------------------------
(* Safety. *)

Safe ==
  /\ Typed
  /\ ChecksStillHold
  /\ NoFork
  /\ LinkAdvances

LEMMA InitSafe == Init => Safe
<1> SUFFICES ASSUME Init
             PROVE  Safe
  OBVIOUS
<1>1. pubs = <<>> /\ \A r \in Requests : req[r].pc = "idle"
  BY DEF Init, Blank
<1>2. DOMAIN pubs = {}
  BY <1>1
<1> QED
  BY InitTyped, <1>1, <1>2 DEF Safe, ChecksStillHold, NoFork, LinkAdvances

\* Requests past the check against the previous publication.
Past(request) == request.pc \in {"checked", "signed", "inserted"}

LEMMA BlankIdle == Blank.pc # "inserted" /\ ~Past(Blank)
BY DEF Blank, Past

\* A step that changes one request only.
LEMMA Others ==
  ASSUME Typed, NEW r \in Requests, NEW new, req' = [req EXCEPT ![r] = new]
  PROVE  req'[r] = new /\ \A q \in Requests \ {r} : req'[q] = req[q]
BY DEF Typed, TypeOK

\* A step of a request, or the end of one, that stores nothing and inserts
\* nothing.
LEMMA AdvanceSafe ==
  ASSUME Safe, Typed', NEW r \in Requests, NEW new, req' = [req EXCEPT ![r] = new],
         UNCHANGED <<pubs, clock>>, new.pc # "inserted",
         Past(new) => MovesForward(new.snap, new.offset, new.prev)
  PROVE  Safe'
<1>1. req'[r] = new /\ \A q \in Requests \ {r} : req'[q] = req[q]
  BY Others DEF Safe
<1>2. \A i \in DOMAIN pubs' : pubs'[i].createdAt <= clock'
  BY DEF Safe, ChecksStillHold
<1>3. ASSUME NEW q \in Requests, Past(req'[q])
      PROVE  MovesForward(req[q].snap, req[q].offset, req[q].prev)'
  BY <1>1, <1>3 DEF Safe, ChecksStillHold, MovesForward, Past
<1>4. ASSUME NEW q \in Requests, req'[q].pc = "inserted"
      PROVE  /\ q # r
             /\ req'[q].createdAt <= clock'
             /\ req'[q].prev # 0 => pubs'[req'[q].prev].createdAt < req'[q].createdAt
             /\ ~TakenBy(req[q].prev)'
  BY <1>1, <1>4 DEF Safe, ChecksStillHold, TakenBy
<1>5. ASSUME NEW q \in Requests, NEW o \in Requests \ {q}, req'[q].pc = "inserted",
             req'[o].pc = "inserted", req'[o].prev = req'[q].prev
      PROVE  req'[q].prev = 0
  BY <1>1, <1>4, <1>5 DEF Safe, ChecksStillHold
<1>6. ChecksStillHold'
  BY <1>2, <1>3, <1>4, <1>5 DEF ChecksStillHold, Past
<1> QED
  BY <1>6 DEF Safe, NoFork, LinkAdvances

LEMMA CheckPreviousSafe ==
  ASSUME Safe, Typed', NEW r \in Requests, CheckPrevious(r)
  PROVE  Safe'
<1>1. Typed /\ UNCHANGED <<pubs, clock>>
  BY DEF Safe, CheckPrevious
<1>2. CASE ~MovesForward(req[r].snap, req[r].offset, Latest)
  <2>1. req' = [req EXCEPT ![r] = Blank]
    BY <1>2 DEF CheckPrevious, Finish
  <2> QED
    BY <1>1, <2>1, BlankIdle, AdvanceSafe
<1>3. CASE MovesForward(req[r].snap, req[r].offset, Latest)
  <2> DEFINE new == [req[r] EXCEPT !.pc = "checked", !.prev = Latest]
  <2>1. req' = [req EXCEPT ![r] = new]
    BY <1>3 DEF CheckPrevious
  <2>2. /\ new.pc = "checked" /\ new.snap = req[r].snap
        /\ new.offset = req[r].offset /\ new.prev = Latest
    BY <1>1 DEF Typed, TypeOK, ReqType
  <2> HIDE DEF new
  <2> QED
    BY <1>1, <1>3, <2>1, <2>2, AdvanceSafe
<1> QED
  BY <1>2, <1>3

LEMMA SignSafe ==
  ASSUME Safe, Typed', NEW r \in Requests, Sign(r)
  PROVE  Safe'
<1>1. Typed /\ UNCHANGED <<pubs, clock>> /\ req[r].pc = "checked"
  BY DEF Safe, Sign
<1>2. CASE ~SameSigningKey(r, serviceKey)
  <2>1. req' = [req EXCEPT ![r] = Blank]
    BY <1>2 DEF Sign, Finish
  <2> QED
    BY <1>1, <2>1, BlankIdle, AdvanceSafe
<1>3. CASE SameSigningKey(r, serviceKey)
  <2> DEFINE new == [req[r] EXCEPT !.pc = "signed", !.key = serviceKey]
  <2>1. req' = [req EXCEPT ![r] = new]
    BY <1>3 DEF Sign
  <2>2. /\ new.pc = "signed" /\ new.snap = req[r].snap
        /\ new.offset = req[r].offset /\ new.prev = req[r].prev
    BY <1>1 DEF Typed, TypeOK, ReqType
  <2>3. MovesForward(req[r].snap, req[r].offset, req[r].prev)
    BY <1>1 DEF Safe, ChecksStillHold
  <2> HIDE DEF new
  <2> QED
    BY <1>1, <2>1, <2>2, <2>3, AdvanceSafe
<1> QED
  BY <1>2, <1>3

LEMMA InsertSafe ==
  ASSUME Safe, Typed', NEW r \in Requests, Insert(r)
  PROVE  Safe'
<1>1. Typed /\ UNCHANGED pubs /\ req[r].pc = "signed" /\ ~HeldBy(req[r].prev)
  BY DEF Safe, Insert
<1>2. CASE TakenBy(req[r].prev)
  <2>1. req' = [req EXCEPT ![r] = Blank] /\ UNCHANGED clock
    BY <1>2 DEF Insert, Finish
  <2> QED
    BY <1>1, <2>1, BlankIdle, AdvanceSafe
<1>3. CASE ~TakenBy(req[r].prev)
  <2> DEFINE new == [req[r] EXCEPT !.pc = "inserted", !.createdAt = clock + 1]
  <2>1. req' = [req EXCEPT ![r] = new] /\ clock' = clock + 1
    BY <1>3 DEF Insert
  <2>2. /\ new.pc = "inserted" /\ new.snap = req[r].snap /\ new.createdAt = clock + 1
        /\ new.offset = req[r].offset /\ new.prev = req[r].prev
    BY <1>1 DEF Typed, TypeOK, ReqType
  <2> HIDE DEF new
  <2>3. req'[r] = new /\ \A q \in Requests \ {r} : req'[q] = req[q]
    BY <1>1, <2>1, Others
  <2>4. clock \in Nat /\ \A i \in DOMAIN pubs : pubs[i].createdAt \in Nat
    <3>1. clock \in Nat /\ \A i \in DOMAIN pubs : pubs[i] \in PubType
      BY <1>1 DEF Typed, TypeOK
    <3> QED
      BY <3>1 DEF PubType
  <2>5. \A q \in Requests : req[q].createdAt \in Nat /\ req[q].prev \in {0} \cup DOMAIN pubs
    BY <1>1 DEF Typed, TypeOK, ReqOK, ReqType
  <2>6. \A i \in DOMAIN pubs' : pubs'[i].createdAt <= clock'
    BY <1>1, <2>1, <2>4 DEF Safe, ChecksStillHold
  <2>7. ASSUME NEW q \in Requests, Past(req'[q])
        PROVE  MovesForward(req[q].snap, req[q].offset, req[q].prev)'
    BY <1>1, <2>2, <2>3, <2>7 DEF Safe, ChecksStillHold, MovesForward, Past
  <2>8. ASSUME NEW q \in Requests, req'[q].pc = "inserted"
        PROVE  /\ req'[q].createdAt <= clock'
               /\ req'[q].prev # 0 => pubs'[req'[q].prev].createdAt < req'[q].createdAt
               /\ ~TakenBy(req[q].prev)'
    <3>1. CASE q = r
      BY <1>1, <1>3, <2>1, <2>2, <2>3, <2>4, <2>5, <3>1
      DEF Safe, ChecksStillHold, TakenBy
    <3>2. CASE q # r
      BY <1>1, <2>1, <2>3, <2>4, <2>5, <2>8, <3>2 DEF Safe, ChecksStillHold, TakenBy
    <3> QED
      BY <3>1, <3>2
  <2>9. ASSUME NEW q \in Requests, NEW o \in Requests \ {q}, req'[q].pc = "inserted",
               req'[o].pc = "inserted", req'[o].prev = req'[q].prev
        PROVE  req'[q].prev = 0
    BY <1>1, <2>2, <2>3, <2>9 DEF Safe, ChecksStillHold, HeldBy
  <2>10. ChecksStillHold'
    BY <2>6, <2>7, <2>8, <2>9 DEF ChecksStillHold, Past
  <2> QED
    BY <1>1, <2>10 DEF Safe, NoFork, LinkAdvances
<1> QED
  BY <1>2, <1>3

LEMMA CommitSafe ==
  ASSUME Safe, Typed', NEW r \in Requests, Commit(r)
  PROVE  Safe'
<1> DEFINE n == Len(pubs)
           row == RowOf(r)
<1>1. Typed /\ UNCHANGED clock /\ req[r].pc = "inserted"
  BY DEF Safe, Commit
<1>2. /\ row \in PubType
      /\ DOMAIN pubs = 1 .. n /\ n \in Nat /\ DOMAIN pubs' = 1 .. n + 1
      /\ \A i \in 1 .. n : pubs'[i] = pubs[i]
      /\ pubs'[n + 1] = row
  BY <1>1, CommitRow
<1>3. /\ row.snap = req[r].snap /\ row.offset = req[r].offset
      /\ row.prev = req[r].prev /\ row.createdAt = req[r].createdAt
  BY DEF RowOf
<1>4. /\ row.prev \in {0} \cup 1 .. n
      /\ row.createdAt <= clock
      /\ row.prev # 0 =>
           /\ pubs[row.prev].snap < row.snap /\ pubs[row.prev].offset <= row.offset
           /\ pubs[row.prev].createdAt < row.createdAt
           /\ \A i \in 1 .. n : pubs[i].prev # row.prev
      /\ \A q \in Requests \ {r} : req[q].pc = "inserted" /\ req[q].prev = row.prev => row.prev = 0
  <2>1. row.prev \in {0} \cup 1 .. n
    BY <1>1, <1>2, <1>3 DEF Typed, TypeOK, ReqOK
  <2>2. MovesForward(req[r].snap, req[r].offset, req[r].prev)
    BY <1>1 DEF Safe, ChecksStillHold
  <2>3. /\ req[r].createdAt <= clock
        /\ req[r].prev # 0 => pubs[req[r].prev].createdAt < req[r].createdAt
        /\ ~TakenBy(req[r].prev)
        /\ \A q \in Requests \ {r} :
             req[q].pc = "inserted" /\ req[q].prev = req[r].prev => req[r].prev = 0
    BY <1>1 DEF Safe, ChecksStillHold
  <2>4. /\ req[r].snap \in Nat /\ req[r].offset \in Nat
        /\ \A i \in 1 .. n : pubs[i].snap \in Nat /\ pubs[i].offset \in Nat
    <3>1. \A i \in 1 .. n : pubs[i] \in PubType
      BY <1>1, <1>2 DEF Typed, TypeOK
    <3>2. req[r] \in ReqType
      BY <1>1 DEF Typed, TypeOK
    <3> QED
      BY <3>1, <3>2 DEF PubType, ReqType
  <2> HIDE DEF row
  <2> QED
    BY <1>2, <1>3, <2>1, <2>2, <2>3, <2>4 DEF MovesForward, TakenBy
<1>5. \A q \in Requests : req'[q] = IF q = r THEN Blank ELSE req[q]
  BY <1>1, Others DEF Commit, Finish
<1> HIDE DEF n, row
<1>6. ASSUME NEW q \in Requests, Past(req'[q])
      PROVE  /\ q # r /\ req'[q] = req[q]
             /\ req[q].prev \in {0} \cup 1 .. n
             /\ req[q].prev # 0 => pubs'[req[q].prev] = pubs[req[q].prev]
  <2>1. q # r /\ req'[q] = req[q]
    BY <1>5, <1>6, BlankIdle
  <2>2. req[q].prev \in {0} \cup 1 .. n
    BY <1>1, <1>2 DEF Typed, TypeOK, ReqOK
  <2> QED
    BY <1>2, <2>1, <2>2
<1>7. ChecksStillHold'
  <2>1. \A i \in DOMAIN pubs' : pubs'[i].createdAt <= clock'
    BY <1>1, <1>2, <1>4 DEF Safe, ChecksStillHold
  <2>2. ASSUME NEW q \in Requests, Past(req'[q])
        PROVE  MovesForward(req[q].snap, req[q].offset, req[q].prev)'
    BY <1>6, <2>2 DEF Safe, ChecksStillHold, MovesForward, Past
  <2>3. ASSUME NEW q \in Requests, req'[q].pc = "inserted"
        PROVE  /\ req'[q].createdAt <= clock'
               /\ req'[q].prev # 0 => pubs'[req'[q].prev].createdAt < req'[q].createdAt
               /\ ~TakenBy(req[q].prev)'
    <3>1. Past(req'[q])
      BY <2>3 DEF Past
    <3>2. req'[q].prev # 0 => \A i \in 1 .. n : pubs[i].prev # req'[q].prev
      BY <1>2, <1>6, <2>3, <3>1 DEF Safe, ChecksStillHold, TakenBy
    <3>3. req'[q].prev # 0 => row.prev # req'[q].prev
      BY <1>4, <1>6, <2>3, <3>1
    <3>4. ~TakenBy(req[q].prev)'
      BY <1>2, <3>2, <3>3 DEF TakenBy
    <3> QED
      BY <1>1, <1>6, <2>3, <3>1, <3>4 DEF Safe, ChecksStillHold
  <2>4. ASSUME NEW q \in Requests, NEW o \in Requests \ {q}, req'[q].pc = "inserted",
               req'[o].pc = "inserted", req'[o].prev = req'[q].prev
        PROVE  req'[q].prev = 0
    BY <1>6, <2>4 DEF Safe, ChecksStillHold, Past
  <2> QED
    BY <2>1, <2>2, <2>3, <2>4 DEF ChecksStillHold, Past
<1>8. NoFork'
  <2> SUFFICES ASSUME NEW i \in 1 .. n + 1, NEW j \in 1 .. n + 1,
                      pubs'[i].prev = pubs'[j].prev, pubs'[i].prev # 0
               PROVE  i = j
    BY <1>2 DEF NoFork
  <2>1. CASE i \in 1 .. n /\ j \in 1 .. n
    BY <1>2, <2>1 DEF Safe, NoFork
  <2>2. CASE i = n + 1 \/ j = n + 1
    BY <1>2, <1>4, <2>2
  <2> QED
    BY <1>2, <2>1, <2>2
<1>9. LinkAdvances'
  <2> SUFFICES ASSUME NEW i \in 1 .. n + 1, pubs'[i].prev # 0
               PROVE  /\ pubs'[i].prev \in 1 .. i - 1
                      /\ pubs'[pubs'[i].prev].createdAt < pubs'[i].createdAt
                      /\ pubs'[pubs'[i].prev].snap < pubs'[i].snap
                      /\ pubs'[pubs'[i].prev].offset <= pubs'[i].offset
    BY <1>2 DEF LinkAdvances
  <2>1. CASE i \in 1 .. n
    <3>1. pubs[i].prev \in 1 .. i - 1
      BY <1>2, <2>1 DEF Safe, LinkAdvances
    <3>2. pubs[i].prev \in 1 .. n
      BY <1>2, <2>1, <3>1
    <3> QED
      BY <1>2, <2>1, <3>1, <3>2 DEF Safe, LinkAdvances
  <2>2. CASE i = n + 1
    BY <1>2, <1>4, <2>2
  <2> QED
    BY <1>2, <2>1, <2>2
<1> QED
  BY <1>7, <1>8, <1>9 DEF Safe

LEMMA SafeStep == Safe /\ [Next]_vars => Safe'
<1> SUFFICES ASSUME Safe, [Next]_vars
             PROVE  Safe'
  OBVIOUS
<1>1. Typed' /\ Typed
  BY TypedStep DEF Safe
<1>2. ASSUME NEW r \in Requests, Proceed(r)
      PROVE  Safe'
  <2>1. CASE RecordKey(r) \/ StoreCustody(r)
    <3>1. req' = [req EXCEPT ![r] = Blank] /\ UNCHANGED <<pubs, clock>>
      BY <2>1 DEF RecordKey, StoreCustody, Finish
    <3> QED
      BY <1>1, <3>1, BlankIdle, AdvanceSafe
  <2>2. CASE KeyAnswered(r)
    <3> DEFINE new == [req[r] EXCEPT !.pc = "answered", !.key = serviceKey]
    <3>1. req' = [req EXCEPT ![r] = new] /\ UNCHANGED <<pubs, clock>>
      BY <2>2 DEF KeyAnswered
    <3>2. new.pc # "inserted" /\ ~Past(new)
      BY <1>1 DEF Typed, TypeOK, ReqType, Past
    <3> HIDE DEF new
    <3> QED
      BY <1>1, <3>1, <3>2, AdvanceSafe
  <2> QED
    BY <1>1, <1>2, <2>1, <2>2, CheckPreviousSafe, SignSafe, InsertSafe, CommitSafe DEF Proceed
<1>3. ASSUME NEW r \in Requests, Begin(r)
      PROVE  Safe'
  <2>1. ASSUME NEW cut \in Cuts, Authorise(r, cut)
        PROVE  Safe'
    <3> DEFINE new == [pc |-> "authorised", party |-> party, recorded |-> recorded,
                       snap |-> cut.snap, offset |-> cut.offset, prev |-> 0,
                       key |-> None, createdAt |-> 0]
    <3>1. req' = [req EXCEPT ![r] = new] /\ UNCHANGED <<pubs, clock>>
      BY <2>1 DEF Authorise
    <3>2. new.pc # "inserted" /\ ~Past(new)
      BY <1>1 DEF Past
    <3> HIDE DEF new
    <3> QED
      BY <1>1, <3>1, <3>2, AdvanceSafe
  <2>2. CASE AskForKey(r)
    <3> DEFINE new == [req[r] EXCEPT !.pc = "asking"]
    <3>1. req' = [req EXCEPT ![r] = new] /\ UNCHANGED <<pubs, clock>>
      BY <2>2 DEF AskForKey
    <3>2. new.pc # "inserted" /\ ~Past(new)
      BY <1>1 DEF Typed, TypeOK, ReqType, Past
    <3> HIDE DEF new
    <3> QED
      BY <1>1, <3>1, <3>2, AdvanceSafe
  <2>3. CASE AttestCustody(r)
    <3> DEFINE new == [req[r] EXCEPT !.pc = "attested", !.key = serviceKey]
    <3>1. req' = [req EXCEPT ![r] = new] /\ UNCHANGED <<pubs, clock>>
      BY <2>3 DEF AttestCustody
    <3>2. new.pc # "inserted" /\ ~Past(new)
      BY <1>1 DEF Typed, TypeOK, ReqType, Past
    <3> HIDE DEF new
    <3> QED
      BY <1>1, <3>1, <3>2, AdvanceSafe
  <2> QED
    BY <1>3, <2>1, <2>2, <2>3 DEF Begin
<1>4. ASSUME NEW r \in Requests, Abandon(r)
      PROVE  Safe'
  BY <1>1, <1>4, BlankIdle, AdvanceSafe DEF Abandon, Finish
<1>5. ASSUME UNCHANGED <<req, pubs, clock>>
      PROVE  Safe'
  BY <1>1, <1>5 DEF Safe, ChecksStillHold, MovesForward, TakenBy, NoFork, LinkAdvances
<1> QED
  BY <1>2, <1>3, <1>4, <1>5 DEF Next, UpdateGeneral, ReplaceKeystore, vars

LEMMA SafeHolds == Spec => []Safe
BY InitSafe, SafeStep, PTL DEF Spec

\* No two stored publications name the same predecessor, however many requests
\* raced to follow it: the unique index on previousId, and requests carrying the
\* predecessor they read to the row they insert.
THEOREM NoForkHolds == Spec => []NoFork
BY SafeHolds, PTL DEF Safe

\* Every link of the chain moves forward, although what a request checked was
\* read several awaits before it stores its row.
THEOREM LinkAdvancesHolds == Spec => []LinkAdvances
BY SafeHolds, PTL DEF Safe

\* What a request read and checked stays true until it commits.
THEOREM ChecksStillHoldHolds == Spec => []ChecksStillHold
BY SafeHolds, PTL DEF Safe

-----------------------------------------------------------------------------

LEMMA ChainStep == Safe /\ Safe' /\ ChainInOrder /\ [Next]_vars => ChainInOrder'
<1> SUFFICES ASSUME Safe, Safe', ChainInOrder, [Next]_vars
             PROVE  ChainInOrder'
  OBVIOUS
<1>1. CASE UNCHANGED pubs
  BY <1>1 DEF ChainInOrder, SingleGenesis
<1>2. ASSUME NEW r \in Requests, Commit(r)
      PROVE  ChainInOrder'
  <2> DEFINE n == Len(pubs)
             row == RowOf(r)
  <2>1. /\ DOMAIN pubs = 1 .. n /\ n \in Nat /\ DOMAIN pubs' = 1 .. n + 1
        /\ \A i \in 1 .. n : pubs'[i] = pubs[i]
        /\ pubs'[n + 1] = row
    BY <1>2, CommitRow DEF Safe
  <2> HIDE DEF n, row
  <2> SUFFICES ASSUME SingleGenesis'
               PROVE  \A i \in 1 .. n + 1 :
                        /\ pubs'[i].prev = i - 1
                        /\ i > 1 => pubs'[i - 1].createdAt < pubs'[i].createdAt
    BY <2>1 DEF ChainInOrder
  <2>2. \A i \in 1 .. n :
          /\ pubs[i].prev = i - 1
          /\ i > 1 => pubs[i - 1].createdAt < pubs[i].createdAt
    BY <2>1 DEF ChainInOrder, SingleGenesis
  <2>3. row.prev = n
    <3>1. CASE row.prev = 0
      BY <2>1, <2>2, <3>1 DEF SingleGenesis
    <3>2. CASE row.prev # 0
      <4>1. row.prev \in 1 .. n
        BY <2>1, <3>2 DEF Safe, LinkAdvances
      <4>2. CASE row.prev < n
        <5>1. pubs[row.prev + 1].prev = row.prev /\ row.prev + 1 \in 1 .. n
          BY <2>1, <2>2, <4>1, <4>2
        <5> QED
          BY <2>1, <3>2, <4>1, <5>1 DEF Safe, NoFork
      <4> QED
        BY <2>1, <4>1, <4>2
    <3> QED
      BY <3>1, <3>2
  <2>4. n > 0 => pubs[n].createdAt < row.createdAt
    <3> SUFFICES ASSUME n > 0
                 PROVE  pubs[n].createdAt < row.createdAt
      OBVIOUS
    <3>1. /\ n + 1 \in DOMAIN pubs' /\ pubs'[n + 1].prev = n /\ n # 0
          /\ pubs'[n] = pubs[n] /\ pubs'[n + 1] = row
      BY <2>1, <2>3
    <3>2. LinkAdvances'
      BY DEF Safe
    <3>3. \A i \in DOMAIN pubs' :
            pubs'[i].prev # 0 => pubs'[pubs'[i].prev].createdAt < pubs'[i].createdAt
      BY <3>2 DEF LinkAdvances
    <3>4. pubs'[pubs'[n + 1].prev].createdAt < pubs'[n + 1].createdAt
      BY <3>1, <3>3
    <3>5. pubs'[n].createdAt < pubs'[n + 1].createdAt
      BY <3>1, <3>4
    <3> QED
      BY <3>1, <3>5
  <2>5. ASSUME NEW i \in 1 .. n
        PROVE  /\ pubs'[i].prev = i - 1
               /\ i > 1 => pubs'[i - 1].createdAt < pubs'[i].createdAt
    <3>1. i > 1 => i - 1 \in 1 .. n
      BY <2>1
    <3> QED
      BY <2>1, <2>2, <3>1
  <2>6. /\ pubs'[n + 1].prev = (n + 1) - 1
        /\ n + 1 > 1 => pubs'[(n + 1) - 1].createdAt < pubs'[n + 1].createdAt
    <3>1. (n + 1) - 1 = n /\ (n + 1 > 1 => n \in 1 .. n)
      BY <2>1
    <3> QED
      BY <2>1, <2>3, <2>4, <3>1
  <2>7. \A i \in 1 .. n + 1 : i \in 1 .. n \/ i = n + 1
    BY <2>1
  <2> QED
    BY <2>5, <2>6, <2>7
<1>3. (\E r \in Requests : Commit(r)) \/ UNCHANGED pubs
  BY DEF Next, Begin, Proceed, vars, Authorise, CheckPrevious, Sign, Insert, Abandon, AskForKey,
         KeyAnswered, RecordKey, AttestCustody, StoreCustody, UpdateGeneral, ReplaceKeystore
<1> QED
  BY <1>1, <1>2, <1>3

\* Short of two first publications, the rows form one chain, each naming the one
\* stored just before it, and createdAt agrees with it.
THEOREM ChainInOrderHolds == Spec => []ChainInOrder
<1>1. Init => ChainInOrder
  <2> SUFFICES ASSUME Init
               PROVE  ChainInOrder
    OBVIOUS
  <2>1. DOMAIN pubs = {}
    BY DEF Init
  <2> QED
    BY <2>1 DEF ChainInOrder
<1> QED
  BY <1>1, SafeHolds, ChainStep, PTL DEF Spec

-----------------------------------------------------------------------------

\* The log the stored rows stand for.
Log ==
  [i \in DOMAIN pubs |-> [snap |-> pubs[i].snap, offset |-> pubs[i].offset, prev |-> pubs[i].prev]]

LEMMA CommitLog ==
  ASSUME Typed, NEW r \in Requests, Commit(r)
  PROVE  /\ Log' = Append(Log, [snap |-> req[r].snap, offset |-> req[r].offset,
                                prev |-> req[r].prev])
         /\ DOMAIN Log = DOMAIN pubs
<1> DEFINE n == Len(pubs)
           entry == [snap |-> req[r].snap, offset |-> req[r].offset, prev |-> req[r].prev]
           entries == [snap : Nat, offset : Nat, prev : Nat]
<1>1. /\ DOMAIN pubs = 1 .. n /\ n \in Nat /\ DOMAIN pubs' = 1 .. n + 1
      /\ \A i \in 1 .. n : pubs'[i] = pubs[i]
      /\ pubs'[n + 1] = RowOf(r)
  BY CommitRow
<1>2. \A i \in 1 .. n : pubs[i] \in PubType
  BY <1>1 DEF Typed, TypeOK
<1>3. Log \in Seq(entries) /\ Len(Log) = n
  BY <1>1, <1>2 DEF Log, PubType
<1>4. entry \in entries
  BY CommitRow DEF RowOf, PubType
<1>5. Log' = [i \in 1 .. n + 1 |-> IF i = n + 1 THEN entry ELSE Log[i]]
  BY <1>1 DEF Log, RowOf
<1>6. Append(Log, entry) = [i \in 1 .. n + 1 |-> IF i = n + 1 THEN entry ELSE Log[i]]
  BY <1>1, <1>3, <1>4
<1> QED
  BY <1>5, <1>6 DEF Log

LEMMA InitHistories == Init => Abstract!Init
<1> SUFFICES ASSUME Init
             PROVE  Log = <<>>
  BY DEF Abstract!Init, Log
<1>1. pubs = <<>> /\ DOMAIN pubs = {}
  BY DEF Init
<1> QED
  BY <1>1 DEF Log

LEMMA StepHistories == Safe /\ [Next]_vars => [Abstract!Next]_Log
<1> SUFFICES ASSUME Safe, [Next]_vars
             PROVE  Abstract!Next \/ UNCHANGED Log
  OBVIOUS
<1>1. CASE UNCHANGED pubs
  BY <1>1 DEF Log
<1>2. ASSUME NEW r \in Requests, Commit(r)
      PROVE  Abstract!Next
  <2> DEFINE cut == [snap |-> req[r].snap, offset |-> req[r].offset]
             prev == req[r].prev
  <2>1. cut \in Cuts /\ prev \in {0} \cup DOMAIN pubs
    BY <1>2 DEF Safe, Typed, TypeOK, ReqOK, Commit
  <2>2. /\ Log' = Append(Log, [snap |-> cut.snap, offset |-> cut.offset, prev |-> prev])
        /\ DOMAIN Log = DOMAIN pubs
    BY <1>2, CommitLog DEF Safe
  <2>3. CASE prev = 0
    BY <2>1, <2>2, <2>3 DEF Abstract!Next, Abstract!Start, Log
  <2>4. CASE prev # 0
    <3>1. MovesForward(cut.snap, cut.offset, prev) /\ ~TakenBy(prev)
      BY <1>2 DEF Safe, ChecksStillHold, Commit
    <3>2. PICK c \in Cuts, p \in DOMAIN pubs : c = cut /\ p = prev
      BY <2>1, <2>4
    <3>3. \A i \in DOMAIN pubs : Log[i].prev # p
      BY <2>4, <3>1, <3>2 DEF Log, TakenBy
    <3>4. Log[p].snap = pubs[p].snap /\ Log[p].offset = pubs[p].offset
      BY <3>2 DEF Log
    <3>5. c.snap > Log[p].snap /\ c.offset >= Log[p].offset
      BY <2>4, <3>1, <3>2, <3>4 DEF MovesForward
    <3>6. Log' = Append(Log, [snap |-> c.snap, offset |-> c.offset, prev |-> p])
      BY <2>2, <3>2
    <3> HIDE DEF cut, prev
    <3>7. Abstract!Continue(c, p)
      BY <2>2, <3>2, <3>3, <3>5, <3>6 DEF Abstract!Continue, Log
    <3> QED
      BY <3>7 DEF Abstract!Next
  <2> QED
    BY <2>3, <2>4
<1>3. (\E r \in Requests : Commit(r)) \/ UNCHANGED pubs
  BY DEF Next, Begin, Proceed, vars, Authorise, CheckPrevious, Sign, Insert, Abandon, AskForKey,
         KeyAnswered, RecordKey, AttestCustody, StoreCustody, UpdateGeneral, ReplaceKeystore
<1> QED
  BY <1>1, <1>2, <1>3

\* The console implements the histories it promises: each stored publication
\* starts one or is the only continuation of an earlier one, and none is ever
\* changed.
THEOREM Refinement == Spec => ImplementsHistories
BY InitHistories, SafeHolds, StepHistories, PTL
DEF Spec, ImplementsHistories, Abstract!Spec, Log
-----------------------------------------------------------------------------
(* What the console serves.                                                *)

LEMMA StoredRows ==
  ASSUME TypeOK
  PROVE  /\ Len(pubs) \in Nat /\ DOMAIN pubs = 1 .. Len(pubs)
         /\ \A i \in DOMAIN pubs :
              /\ pubs[i].createdAt \in Nat
              /\ pubs[i].snap \in Nat /\ pubs[i].offset \in Nat
<1>1. pubs \in Seq(PubType)
  BY DEF TypeOK
<1>2. \A i \in DOMAIN pubs : pubs[i] \in PubType
  BY <1>1
<1> QED
  BY <1>1, <1>2 DEF PubType

\* Neighbours in order are all in order.
LEMMA CreatedInOrder ==
  ASSUME TypeOK, ChainInOrder, SingleGenesis
  PROVE  \A i, j \in DOMAIN pubs : i < j => pubs[i].createdAt < pubs[j].createdAt
<1>1. /\ Len(pubs) \in Nat /\ DOMAIN pubs = 1 .. Len(pubs)
      /\ \A i \in DOMAIN pubs : pubs[i].createdAt \in Nat
  BY StoredRows
<1> SUFFICES ASSUME NEW i \in DOMAIN pubs
             PROVE  \A j \in DOMAIN pubs : i < j => pubs[i].createdAt < pubs[j].createdAt
  OBVIOUS
<1> DEFINE S == {j \in DOMAIN pubs : i < j /\ ~(pubs[i].createdAt < pubs[j].createdAt)}
<1> SUFFICES ASSUME S # {}
             PROVE  FALSE
  OBVIOUS
<1>2. PICK m \in S : \A k \in S : m <= k
  <2>1. S \in SUBSET Nat
    BY <1>1
  <2> HIDE DEF S
  <2> QED
    BY <2>1, LeastNatural
<1>3. /\ m \in DOMAIN pubs /\ m - 1 \in DOMAIN pubs /\ i <= m - 1
      /\ m \in Nat /\ i \in Nat
  BY <1>1
<1>4. pubs[m - 1].createdAt < pubs[m].createdAt
  BY <1>1, <1>3 DEF ChainInOrder
<1>5. m - 1 \notin S
  BY <1>2, <1>3
<1>6. pubs[i].createdAt < pubs[m].createdAt
  <2>1. CASE i = m - 1
    BY <1>4, <2>1
  <2>2. CASE i # m - 1
    BY <1>1, <1>3, <1>4, <1>5, <2>2
  <2> QED
    BY <2>1, <2>2
<1> QED
  BY <1>6

\* Served oldest first is served in the order of storing.
LEMMA ServedAsStored ==
  ASSUME TypeOK, ChainInOrder, SingleGenesis
  PROVE  DOMAIN History = DOMAIN pubs /\ \A i \in DOMAIN pubs : History[i] = AnchorOf(i)
<1> DEFINE Sorted(f) ==
             \A i, j \in DOMAIN pubs : i < j => pubs[f[i]].createdAt < pubs[f[j]].createdAt
           order == CHOOSE f \in [DOMAIN pubs -> DOMAIN pubs] : Sorted(f)
<1>1. /\ Len(pubs) \in Nat /\ DOMAIN pubs = 1 .. Len(pubs)
      /\ \A i \in DOMAIN pubs : pubs[i].createdAt \in Nat
  BY StoredRows
<1>2. order \in [DOMAIN pubs -> DOMAIN pubs] /\ Sorted(order)
  <2> DEFINE identity == [i \in DOMAIN pubs |-> i]
  <2>1. identity \in [DOMAIN pubs -> DOMAIN pubs] /\ Sorted(identity)
    BY CreatedInOrder
  <2> QED
    BY <2>1
<1>3. History = [i \in DOMAIN pubs |-> AnchorOf(order[i])]
  BY DEF History
<1> HIDE DEF order
<1>4. \A i, j \in DOMAIN pubs : i < j => order[i] < order[j]
  <2> SUFFICES ASSUME NEW i \in DOMAIN pubs, NEW j \in DOMAIN pubs, i < j, ~(order[i] < order[j])
               PROVE  FALSE
    OBVIOUS
  <2>1. order[i] \in DOMAIN pubs /\ order[j] \in DOMAIN pubs
    BY <1>2
  <2>2. pubs[order[i]].createdAt < pubs[order[j]].createdAt
    BY <1>2
  <2>3. order[j] = order[i] \/ order[j] < order[i]
    BY <1>1, <2>1
  <2>4. order[j] < order[i] => pubs[order[j]].createdAt < pubs[order[i]].createdAt
    BY <2>1, CreatedInOrder
  <2> QED
    BY <1>1, <2>1, <2>2, <2>3, <2>4
<1>5. \A i \in DOMAIN pubs : order[i] = i
  BY <1>1, <1>2, <1>4, MonotoneIsIdentity
<1> QED
  BY <1>3, <1>5

LEMMA ChainVerifies ==
  ASSUME TypeOK, ChainInOrder, LinkAdvances, SingleGenesis, SingleParty
  PROVE  Chain!verify_chain(History).ok
<1>1. /\ Len(pubs) \in Nat /\ DOMAIN pubs = 1 .. Len(pubs)
  BY StoredRows
<1>2. ASSUME NEW i \in DOMAIN pubs
      PROVE  Chain!AnchorVerdict(History, i) = Chain!Ok
  <2>1. CASE i = 1
    <3>1. History[i].prev = 0
      <4>1. pubs[i].prev = i - 1
        BY DEF ChainInOrder
      <4> QED
        BY <2>1, <4>1, ServedAsStored DEF AnchorOf
    <3> QED
      BY <2>1, <3>1 DEF Chain!AnchorVerdict
  <2>2. CASE i # 1
    <3>1. i > 1 /\ i - 1 \in DOMAIN pubs /\ i - 1 # 0
      BY <1>1, <2>2
    <3>2. History[i] = AnchorOf(i) /\ History[i - 1] = AnchorOf(i - 1)
      BY <3>1, ServedAsStored
    <3>3. Chain!Names(History[i], History[i - 1])
      BY <3>2 DEF AnchorOf, ChainInOrder, Chain!Names
    <3>4. Chain!SamePublisher(History[i], History[i - 1])
      BY <3>1, <3>2 DEF AnchorOf, SingleParty, Chain!SamePublisher
    <3>5. Chain!Advances(History[i], History[i - 1])
      <4>1. pubs[i].prev = i - 1
        BY DEF ChainInOrder
      <4>2. pubs[i - 1].snap < pubs[i].snap /\ pubs[i - 1].offset <= pubs[i].offset
        BY <3>1, <4>1 DEF LinkAdvances
      <4>3. /\ pubs[i - 1].snap \in Nat /\ pubs[i].snap \in Nat
            /\ pubs[i - 1].offset \in Nat /\ pubs[i].offset \in Nat
        BY <3>1, StoredRows
      <4> QED
        BY <3>2, <4>2, <4>3 DEF AnchorOf, PlacedBefore, Chain!Advances
    <3> QED
      BY <2>2, <3>1, <3>3, <3>4, <3>5 DEF Chain!AnchorVerdict
  <2> QED
    BY <2>1, <2>2
<1>3. {i \in DOMAIN History : ~Chain!AnchorVerdict(History, i).ok} = {}
  BY <1>2, ServedAsStored DEF Chain!Ok
<1> QED
  BY <1>3 DEF Chain!verify_chain, Chain!Ok

\* What the console serves as the organisation's history passes the verifiers'
\* walk, unless two first publications were stored or the publisher party was
\* edited between publications (publications.ts with anchor.rs verify_chain).
THEOREM HistoryVerifiesHolds == Spec => []HistoryVerifies
<1>1. TypeOK /\ ChainInOrder /\ LinkAdvances => HistoryVerifies
  BY ChainVerifies DEF HistoryVerifies
<1> QED
  BY <1>1, TypesHold, ChainInOrderHolds, LinkAdvancesHolds, PTL
=============================================================================
