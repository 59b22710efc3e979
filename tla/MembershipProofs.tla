-------------------------- MODULE MembershipProofs --------------------------
(***************************************************************************)
(* Theorems about Membership, for any people, requests and roles, and any  *)
(* number of invitations.                                                  *)
(***************************************************************************)
EXTENDS Membership, FiniteSetTheorems, TLAPS

\* What a request carries by the time it is doing what it does.
ReqOK(q) ==
  /\ q \in ReqType
  /\ q.kind \in {"invite", "setRole"} => /\ q.target \in Users
                                         /\ q.role \in Roles /\ q.caller \in Roles
                                         /\ atLeast(q.caller, q.role)
  /\ q.kind = "remove" => q.target \in Users /\ q.role = None
  /\ q.kind = "visit" => q.target \in Users
  /\ q.pc \in {"known", "unknown"} => q.kind = "invite"
  /\ q.pc = "counting" => q.kind \in {"setRole", "remove"}
  /\ q.pc = "accepting" => q.kind = "visit"

\* What a request found or listed is there, and a visit's list is the visitor's.
Listed(q) ==
  \A i \in q.todo : /\ i \in DOMAIN invitations
                    /\ q.kind = "visit" => invitations[i].email = q.target

\* No invitation gives out a role above its sender's.
InvitationsOK == \A i \in DOMAIN invitations : atLeast(invitations[i].by, invitations[i].role)

Sound ==
  /\ TypeOK
  /\ Len(invitations) <= MaxInvitations
  /\ \A r \in Requests : ReqOK(req[r]) /\ Listed(req[r])
  /\ InvitationsOK

-----------------------------------------------------------------------------
\* Types, and what requests and invitations carry.

InvitationType ==
  [email : Users, role : Roles, by : Roles, state : {"pending", "accepted", "expired", "revoked"}]

LEMMA RoleFacts == None \notin Roles /\ None # "OWNER"
BY RoleAssumption, NoneAssumption DEF ROLE_RANK

LEMMA BlankOK ==
  /\ ReqOK(Blank) /\ Blank.todo = {} /\ Blank.pc = "idle" /\ Blank.kind = "none"
  /\ Blank.counted = FALSE
BY DEF ReqOK, ReqType, Blank

LEMMA InitSound == Init => Sound
<1> SUFFICES ASSUME Init
             PROVE  Sound
  OBVIOUS
<1>1. \A r \in Requests : req[r] = Blank
  BY DEF Init
<1>2. \A r \in Requests : ReqOK(req[r]) /\ Listed(req[r])
  BY <1>1, BlankOK DEF Listed
<1>3. req \in [Requests -> ReqType]
  BY BlankOK DEF Init, ReqOK
<1>4. role \in [Users -> Roles \cup {None}]
  BY RoleAssumption DEF Init
<1>5. /\ accounts \subseteq Users /\ started \in Nat /\ excused \in BOOLEAN
      /\ invitations \in Seq(InvitationType) /\ DOMAIN invitations = {}
      /\ Len(invitations) <= MaxInvitations
  <2>1. invitations = <<>> /\ started = 0 /\ excused = FALSE /\ accounts \subseteq Users
    BY DEF Init
  <2>2. <<>> \in Seq(InvitationType) /\ DOMAIN <<>> = {} /\ Len(<<>>) = 0
    OBVIOUS
  <2>3. /\ invitations \in Seq(InvitationType) /\ DOMAIN invitations = {}
        /\ Len(invitations) = 0
    BY <2>1, <2>2
  <2>4. 0 <= MaxInvitations
    BY BoundAssumption
  <2> QED
    BY <2>1, <2>3, <2>4
<1>6. TypeOK
  BY <1>1, <1>3, <1>4, <1>5, BlankOK DEF TypeOK, InvitationType
<1> QED
  BY <1>2, <1>5, <1>6 DEF Sound, InvitationsOK

\* A step that changes one request.
LEMMA OneRequest ==
  ASSUME Sound, NEW r \in Requests, NEW new, ReqOK(new), Listed(new),
         req' = [req EXCEPT ![r] = new],
         UNCHANGED <<accounts, role, invitations, excused>>, started' \in Nat
  PROVE  Sound'
<1>1. req \in [Requests -> ReqType] /\ \A q \in Requests : ReqOK(req[q]) /\ Listed(req[q])
  BY DEF Sound, TypeOK
<1>2. \A q \in Requests : ReqOK(req'[q]) /\ Listed(req'[q])
  BY <1>1
<1>3. req' \in [Requests -> ReqType]
  BY <1>1 DEF ReqOK
<1>4. (\A q \in Requests : ReqOK(req[q]) /\ Listed(req[q]))'
  BY <1>2 DEF Listed
<1>5. \A q \in Requests : req'[q].todo \subseteq DOMAIN invitations
  BY <1>2 DEF Listed
<1> QED
  BY <1>3, <1>4, <1>5 DEF Sound, TypeOK, InvitationsOK

LEMMA FinishSound ==
  ASSUME Sound, NEW r \in Requests, Finish(r),
         UNCHANGED <<accounts, role, invitations, started, excused>>
  PROVE  Sound'
<1>1. req' = [req EXCEPT ![r] = Blank] /\ started' \in Nat
  BY DEF Finish, Sound, TypeOK
<1> QED
  BY <1>1, BlankOK, OneRequest DEF Listed

LEMMA AuthoriseSound ==
  ASSUME Sound, NEW r \in Requests, NEW u \in Users, NEW kind, NEW target, NEW newRole,
         Authorise(r, u, kind, target, newRole),
         \/ kind \in {"invite", "setRole"} /\ target \in Users /\ newRole \in Roles
         \/ kind = "remove" /\ target \in Users /\ newRole = None
         \/ kind = "revoke" /\ target = None /\ newRole = None
  PROVE  Sound'
<1> DEFINE new == [pc |-> "authorised", kind |-> kind, caller |-> role[u], target |-> target,
                   role |-> newRole, todo |-> {}, counted |-> FALSE]
<1>1. role[u] \in Roles
  BY DEF Authorise, orgForAction, Sound, TypeOK
<1>2. ReqOK(new)
  BY <1>1 DEF Authorise, ReqOK, ReqType
<1>3. Listed(new)
  BY DEF Listed
<1>4. req' = [req EXCEPT ![r] = new]
  BY DEF Authorise
<1>5. UNCHANGED <<accounts, role, invitations, excused>> /\ started' \in Nat
  BY DEF Authorise, Sound, TypeOK
<1> HIDE DEF new
<1> QED
  BY <1>2, <1>3, <1>4, <1>5, OneRequest

\* A step of a request to another place in its program.
LEMMA MoveSound ==
  ASSUME Sound, NEW r \in Requests, NEW pc,
         req' = [req EXCEPT ![r].pc = pc],
         \/ pc \in {"known", "unknown"} /\ req[r].kind = "invite"
         \/ pc \in {"counting", "decided"} /\ req[r].kind \in {"setRole", "remove"},
         UNCHANGED <<accounts, role, invitations, started, excused>>
  PROVE  Sound'
<1> DEFINE new == [req[r] EXCEPT !.pc = pc]
<1>1. ReqOK(req[r]) /\ Listed(req[r]) /\ started' \in Nat
  BY DEF Sound, TypeOK
<1>2. ReqOK(new)
  BY <1>1 DEF ReqOK, ReqType
<1>3. Listed(new)
  BY <1>1 DEF Listed, ReqOK, ReqType
<1>4. req' = [req EXCEPT ![r] = new]
  OBVIOUS
<1> HIDE DEF new
<1> QED
  BY <1>1, <1>2, <1>3, <1>4, OneRequest

LEMMA FindInvitationSound ==
  ASSUME Sound, NEW r \in Requests, NEW i \in DOMAIN invitations, FindInvitation(r, i)
  PROVE  Sound'
<1> DEFINE new == [req[r] EXCEPT !.pc = "decided", !.todo = {i}]
<1>1. /\ ReqOK(req[r]) /\ req[r].kind = "revoke" /\ started' \in Nat
      /\ i \in 1 .. MaxInvitations
  BY BoundAssumption DEF Sound, TypeOK, FindInvitation
<1>2. ReqOK(new)
  BY <1>1 DEF ReqOK, ReqType
<1>3. Listed(new)
  BY <1>1 DEF Listed, ReqOK, ReqType
<1>4. req' = [req EXCEPT ![r] = new]
  BY DEF FindInvitation
<1> HIDE DEF new
<1> QED
  BY <1>1, <1>2, <1>3, <1>4, OneRequest DEF FindInvitation

LEMMA VisitSound ==
  ASSUME Sound, NEW r \in Requests, NEW u \in Users, Visit(r, u)
  PROVE  Sound'
<1> DEFINE new == [pc |-> "accepting", kind |-> "visit", caller |-> None, target |-> u,
                   role |-> None, todo |-> Pending(u), counted |-> FALSE]
<1>1. Pending(u) \subseteq 1 .. MaxInvitations /\ Pending(u) \subseteq DOMAIN invitations
  BY BoundAssumption DEF Pending, Sound, TypeOK
<1>2. ReqOK(new)
  BY <1>1 DEF ReqOK, ReqType
<1>3. Listed(new)
  BY DEF Listed, Pending
<1>4. req' = [req EXCEPT ![r] = new]
  BY DEF Visit
<1>5. UNCHANGED <<accounts, role, invitations, excused>> /\ started' \in Nat
  BY DEF Visit, Sound, TypeOK
<1> HIDE DEF new
<1> QED
  BY <1>2, <1>3, <1>4, <1>5, OneRequest

\* A write to the target's row changes that row and nobody's work.
LEMMA WriteSound ==
  ASSUME Sound, NEW r \in Requests, NEW new \in Roles \cup {None}, Write(r, new),
         req[r].target \in Users, UNCHANGED <<accounts, invitations, started>>
  PROVE  Sound'
<1>1. req \in [Requests -> ReqType] /\ \A q \in Requests : ReqOK(req[q]) /\ Listed(req[q])
  BY DEF Sound, TypeOK
<1>2. ASSUME NEW q \in Requests
      PROVE  ReqOK(req'[q]) /\ Listed(req'[q])
  <2>1. CASE q = r
    BY <2>1, BlankOK DEF Write, Listed
  <2>2. CASE q # r
    <3> DEFINE flag == req[q].counted /\ (role[req[r].target] = "OWNER" /\ new # "OWNER"
                                            => req[q].target = req[r].target)
               changed == [req[q] EXCEPT !.counted = flag]
    <3>1. req'[q] = changed
      BY <2>2 DEF Write
    <3>2. flag \in BOOLEAN
      BY <1>1 DEF ReqOK, ReqType
    <3> HIDE DEF flag
    <3>3. ReqOK(changed)
      BY <1>1, <3>2 DEF ReqOK, ReqType
    <3>4. Listed(changed)
      BY <1>1 DEF Listed, ReqOK, ReqType
    <3> HIDE DEF changed
    <3> QED
      BY <3>1, <3>3, <3>4
  <2> QED
    BY <2>1, <2>2
<1>3. req' \in [Requests -> ReqType]
  <2>1. req' = [q \in Requests |-> req'[q]]
    BY DEF Write
  <2> QED
    BY <1>2, <2>1 DEF ReqOK
<1>4. role' \in [Users -> Roles \cup {None}] /\ excused' \in BOOLEAN
  BY DEF Write, Sound, TypeOK
<1>5. (\A q \in Requests : ReqOK(req[q]) /\ Listed(req[q]))'
  BY <1>2 DEF Listed
<1>6. \A q \in Requests : req'[q].todo \subseteq DOMAIN invitations
  BY <1>2 DEF Listed
<1> QED
  BY <1>3, <1>4, <1>5, <1>6 DEF Sound, TypeOK, InvitationsOK

\* A step that adds or changes invitations, and at most ends or shortens the work
\* of one request.
LEMMA InvitationSound ==
  ASSUME Sound, NEW r \in Requests, NEW todo \in SUBSET req[r].todo,
         \/ req' = [req EXCEPT ![r] = Blank]
         \/ req' = [req EXCEPT ![r].todo = todo]
         \/ req' = req,
         invitations' \in Seq(InvitationType), Len(invitations') <= MaxInvitations,
         \A i \in DOMAIN invitations : i \in DOMAIN invitations'
                                       /\ invitations'[i].email = invitations[i].email,
         InvitationsOK', role' \in [Users -> Roles \cup {None}],
         UNCHANGED <<accounts, started, excused>>
  PROVE  Sound'
<1>1. req \in [Requests -> ReqType] /\ \A q \in Requests : ReqOK(req[q]) /\ Listed(req[q])
  BY DEF Sound, TypeOK
<1>2. ReqOK([req[r] EXCEPT !.todo = todo])
  BY <1>1 DEF ReqOK, ReqType
<1>3. \A q \in Requests : ReqOK(req'[q])
  BY <1>1, <1>2, BlankOK
<1>4. \A q \in Requests : \/ req'[q].todo = {}
                          \/ /\ req'[q].todo \subseteq req[q].todo
                             /\ req'[q].kind = req[q].kind /\ req'[q].target = req[q].target
  BY <1>1, BlankOK DEF ReqType
<1>5. (\A q \in Requests : ReqOK(req[q]) /\ Listed(req[q]))'
  BY <1>1, <1>3, <1>4 DEF Listed
<1>6. req' \in [Requests -> ReqType]
  BY <1>1, <1>2, BlankOK DEF ReqOK
<1>7. (\A q \in Requests : req[q].todo \subseteq DOMAIN invitations)'
  BY <1>5 DEF Listed
<1> QED
  BY <1>5, <1>6, <1>7 DEF Sound, TypeOK, InvitationType

LEMMA CreateInvitationSound ==
  ASSUME Sound, NEW r \in Requests, CreateInvitation(r)
  PROVE  Sound'
<1> DEFINE new == [email |-> req[r].target, role |-> req[r].role, state |-> "pending",
                   by |-> req[r].caller]
<1>1. /\ ReqOK(req[r]) /\ req[r].kind = "invite"
      /\ invitations \in Seq(InvitationType) /\ Len(invitations) < MaxInvitations
  BY DEF Sound, TypeOK, CreateInvitation, ReqOK, InvitationType
<1>2. new \in InvitationType /\ atLeast(new.by, new.role)
  BY <1>1 DEF ReqOK, InvitationType
<1>3. invitations' = Append(invitations, new)
  BY DEF CreateInvitation
<1> HIDE DEF new
<1>4. /\ invitations' \in Seq(InvitationType) /\ Len(invitations') <= MaxInvitations
      /\ \A i \in DOMAIN invitations' :
           \/ i \in DOMAIN invitations /\ invitations'[i] = invitations[i]
           \/ invitations'[i] = new
      /\ \A i \in DOMAIN invitations : /\ i \in DOMAIN invitations'
                                       /\ invitations'[i] = invitations[i]
  BY <1>1, <1>2, <1>3, BoundAssumption
<1>5. InvitationsOK'
  BY <1>2, <1>4 DEF Sound, InvitationsOK
<1>6. /\ req' = [req EXCEPT ![r] = Blank] /\ UNCHANGED <<accounts, role, started, excused>>
      /\ role' \in [Users -> Roles \cup {None}]
  BY DEF CreateInvitation, Finish, Sound, TypeOK
<1> QED
  BY <1>4, <1>5, <1>6, InvitationSound

\* Marking an invitation changes neither its address, its role nor its sender.
LEMMA MarkInvitation ==
  ASSUME Sound, NEW i \in DOMAIN invitations,
         NEW state \in {"pending", "accepted", "expired", "revoked"},
         invitations' = [invitations EXCEPT ![i].state = state]
  PROVE  /\ invitations' \in Seq(InvitationType) /\ Len(invitations') <= MaxInvitations
         /\ \A j \in DOMAIN invitations : /\ j \in DOMAIN invitations'
                                          /\ invitations'[j].email = invitations[j].email
         /\ InvitationsOK'
<1> DEFINE new == [invitations[i] EXCEPT !.state = state]
<1>1. invitations \in Seq(InvitationType) /\ Len(invitations) <= MaxInvitations
  BY DEF Sound, TypeOK, InvitationType
<1>2. /\ new \in InvitationType
      /\ new.email = invitations[i].email /\ new.by = invitations[i].by
      /\ new.role = invitations[i].role
  <2>1. invitations[i] \in InvitationType
    BY <1>1
  <2> QED
    BY <2>1 DEF InvitationType
<1>3. invitations' = [invitations EXCEPT ![i] = new]
  OBVIOUS
<1> HIDE DEF new
<1>4. /\ invitations' \in Seq(InvitationType) /\ Len(invitations') = Len(invitations)
      /\ DOMAIN invitations' = DOMAIN invitations
      /\ \A j \in DOMAIN invitations : invitations'[j] = IF j = i THEN new ELSE invitations[j]
  BY <1>1, <1>2, <1>3
<1> QED
  BY <1>1, <1>2, <1>4 DEF Sound, InvitationsOK

LEMMA AcceptSound ==
  ASSUME Sound, NEW r \in Requests, NEW i \in DOMAIN invitations, Accept(r, i)
  PROVE  Sound'
<1>1. ReqOK(req[r]) /\ req[r].target \in Users
  BY DEF Sound, Accept, ReqOK
<1>2. CASE invitations[i].state = "revoked"
  BY <1>2, FinishSound DEF Accept
<1>3. CASE invitations[i].state # "revoked"
  <2>1. /\ invitations' = [invitations EXCEPT ![i].state = "accepted"]
        /\ req' = [req EXCEPT ![r].todo = req[r].todo \ {i}]
        /\ UNCHANGED <<accounts, started, excused>>
    BY <1>3 DEF Accept
  <2>2. invitations[i].role \in Roles
    <3>1. invitations \in Seq(InvitationType)
      BY DEF Sound, TypeOK, InvitationType
    <3>2. invitations[i] \in InvitationType
      BY <3>1
    <3> QED
      BY <3>2 DEF InvitationType
  <2>3. role' \in [Users -> Roles \cup {None}]
    BY <1>1, <1>3, <2>2 DEF Accept, Sound, TypeOK
  <2>4. /\ invitations' \in Seq(InvitationType) /\ Len(invitations') <= MaxInvitations
        /\ \A j \in DOMAIN invitations : /\ j \in DOMAIN invitations'
                                         /\ invitations'[j].email = invitations[j].email
        /\ InvitationsOK'
    BY <2>1, MarkInvitation
  <2> DEFINE todo == req[r].todo \ {i}
  <2>5. todo \in SUBSET req[r].todo /\ req' = [req EXCEPT ![r].todo = todo]
    BY <2>1
  <2> HIDE DEF todo
  <2> QED
    BY <2>1, <2>3, <2>4, <2>5, InvitationSound
<1> QED
  BY <1>2, <1>3

LEMMA NextSound == Sound /\ [Next]_vars => Sound'
<1> SUFFICES ASSUME Sound, [Next]_vars
             PROVE  Sound'
  OBVIOUS
<1>1. CASE UNCHANGED vars
  BY <1>1 DEF vars, Sound, TypeOK, Listed, InvitationsOK
<1>2. ASSUME NEW r \in Requests, Begin(r)
      PROVE  Sound'
  BY <1>2, AuthoriseSound, VisitSound DEF Begin
<1>3. ASSUME NEW r \in Requests, LookUp(r) \/ ReadTarget(r) \/ CountOwners(r)
      PROVE  Sound'
  <2>1. CASE LookUp(r)
    BY <2>1, MoveSound DEF LookUp
  <2>2. CASE ReadTarget(r)
    BY <2>2, MoveSound, FinishSound DEF ReadTarget
  <2>3. CASE CountOwners(r)
    <3>1. req[r].kind \in {"setRole", "remove"}
      BY <2>3 DEF CountOwners, Sound, ReqOK
    <3> QED
      BY <2>3, <3>1, MoveSound, FinishSound DEF CountOwners
  <2> QED
    BY <1>3, <2>1, <2>2, <2>3
<1>4. ASSUME NEW r \in Requests, AddMember(r) \/ WriteTarget(r)
      PROVE  Sound'
  <2>1. ReqOK(req[r])
    BY DEF Sound
  <2>2. req[r].target \in Users /\ req[r].role \in Roles \cup {None}
    BY <1>4, <2>1 DEF AddMember, WriteTarget, ReqOK
  <2> QED
    BY <1>4, <2>2, WriteSound, FinishSound DEF AddMember, WriteTarget
<1>5. ASSUME NEW r \in Requests, Visited(r) \/ Abandon(r)
      PROVE  Sound'
  BY <1>5, FinishSound DEF Visited, Abandon
<1>6. ASSUME NEW r \in Requests, NEW i \in DOMAIN invitations, DeleteInvitation(r, i)
      PROVE  Sound'
  <2>1. role' \in [Users -> Roles \cup {None}]
    BY <1>6 DEF DeleteInvitation, Sound, TypeOK
  <2> QED
    BY <1>6, <2>1, MarkInvitation, InvitationSound DEF DeleteInvitation, Finish
<1>7. ASSUME NEW i \in DOMAIN invitations, Expire(i)
      PROVE  Sound'
  <2>1. CASE Requests = {}
    BY <1>7, <2>1, MarkInvitation DEF Expire, Sound, TypeOK, InvitationType
  <2>2. CASE Requests # {}
    <3>1. PICK r \in Requests : TRUE
      BY <2>2
    <3>2. role' \in [Users -> Roles \cup {None}] /\ req' = req
      BY <1>7 DEF Expire, Sound, TypeOK
    <3> QED
      BY <1>7, <3>1, <3>2, MarkInvitation, InvitationSound DEF Expire
  <2> QED
    BY <2>1, <2>2
<1>8. ASSUME NEW u \in Users, SignUp(u)
      PROVE  Sound'
  BY <1>8 DEF SignUp, Sound, TypeOK, Listed, InvitationsOK
<1> QED
  BY <1>1, <1>2, <1>3, <1>4, <1>5, <1>6, <1>7, <1>8, CreateInvitationSound,
     FindInvitationSound, AcceptSound DEF Next, Proceed

LEMMA SoundHolds == Spec => []Sound
BY InitSound, NextSound, PTL DEF Spec

\* Every invitation is addressed to somebody by somebody with a role, and every
\* request works on rows that were created.
THEOREM MembershipTypesHold == Spec => []TypeOK
<1>1. Sound => TypeOK
  BY DEF Sound
<1> QED
  BY <1>1, SoundHolds, PTL

-----------------------------------------------------------------------------
\* An owner remains.

\* Where a count of owners still stands, there is an owner besides the target.
Standing(r) == req[r].counted => \E u \in Users \ {req[r].target} : role[u] = "OWNER"

Owned == Sound /\ OwnerKept /\ \A r \in Requests : Standing(r)

\* More than one owner is an owner besides any one member.
LEMMA AnotherOwner ==
  ASSUME NEW target \in Users, ~(Cardinality(Owners) <= 1)
  PROVE  \E u \in Users \ {target} : role[u] = "OWNER"
<1> SUFFICES ASSUME \A u \in Users \ {target} : role[u] # "OWNER"
             PROVE  Cardinality(Owners) <= 1
  OBVIOUS
<1>1. Owners \subseteq {target}
  BY DEF Owners
<1>2. IsFiniteSet({target}) /\ Cardinality({target}) = 1
  BY FS_Singleton
<1>3. Cardinality(Owners) <= Cardinality({target})
  BY <1>1, <1>2, FS_Subset
<1> QED
  BY <1>2, <1>3

LEMMA InitOwned == Init => Owned
<1> SUFFICES ASSUME Init
             PROVE  Owned
  OBVIOUS
<1>1. PICK creator \in Users : role = [u \in Users |-> IF u = creator THEN "OWNER" ELSE None]
  BY DEF Init
<1>2. creator \in Owners
  BY <1>1 DEF Owners
<1>3. \A r \in Requests : Standing(r)
  BY BlankOK DEF Init, Standing
<1> QED
  BY <1>2, <1>3, InitSound DEF Owned, OwnerKept

\* A step that changes nobody's role but a newcomer's, and makes no count that
\* does not stand.
LEMMA RolesKept ==
  ASSUME Owned, Sound', UNCHANGED excused,
         \A u \in Users : role[u] # None => role'[u] = role[u],
         \A q \in Requests :
           req'[q].counted => \/ req[q].counted /\ req'[q].target = req[q].target
                              \/ Standing(q)'
  PROVE  Owned'
<1>1. OwnerKept'
  BY RoleFacts DEF Owned, OwnerKept, Owners
<1>2. \A q \in Requests : Standing(q)'
  BY RoleFacts DEF Owned, Standing
<1> QED
  BY <1>1, <1>2 DEF Owned

LEMMA CountOwnersOwned ==
  ASSUME Owned, Sound', NEW r \in Requests, CountOwners(r)
  PROVE  Owned'
<1>1. /\ req \in [Requests -> ReqType] /\ UNCHANGED <<role, excused>>
      /\ ReqOK(req[r]) /\ req[r].pc = "counting"
  BY DEF Owned, Sound, TypeOK, CountOwners
<1>2. CASE Finish(r)
  BY <1>1, <1>2, RolesKept, BlankOK DEF Finish
<1>3. CASE ~Finish(r)
  <2>1. /\ ~(Cardinality(Owners) <= 1)
        /\ req' = [req EXCEPT ![r].pc = "decided", ![r].counted = TRUE]
    BY <1>3 DEF CountOwners
  <2>2. req[r].target \in Users
    BY <1>1 DEF ReqOK
  <2>3. /\ req'[r].target = req[r].target
        /\ \A q \in Requests : q # r => req'[q] = req[q]
    BY <1>1, <2>1 DEF ReqType
  <2>4. \E u \in Users \ {req[r].target} : role[u] = "OWNER"
    BY <2>1, <2>2, AnotherOwner
  <2>5. Standing(r)'
    BY <1>1, <2>3, <2>4 DEF Standing
  <2> QED
    BY <1>1, <2>3, <2>5, RolesKept
<1> QED
  BY <1>2, <1>3

\* A write leaves an owner, or is excused; and the counts that stood and still
\* do, say so rightly.
LEMMA WriteOwned ==
  ASSUME Owned, Sound', NEW r \in Requests, NEW new, Write(r, new), req[r].target \in Users
  PROVE  Owned'
<1> DEFINE target == req[r].target
           lowers == role[target] = "OWNER" /\ new # "OWNER"
<1>1. /\ role \in [Users -> Roles \cup {None}] /\ req \in [Requests -> ReqType]
      /\ excused \in BOOLEAN /\ \A q \in Requests : Standing(q)
  BY DEF Owned, Sound, TypeOK
<1>2. \A u \in Users : role'[u] = IF u = target THEN new ELSE role[u]
  BY <1>1 DEF Write
<1>3. ASSUME NEW v \in Users, role[v] = "OWNER", lowers => v # target
      PROVE  role'[v] = "OWNER"
  BY <1>2, <1>3
<1>4. OwnerKept'
  <2> SUFFICES ASSUME ~excused'
               PROVE  \E u \in Users : role'[u] = "OWNER"
    BY DEF OwnerKept, Owners
  <2>1. ~excused /\ (lowers => req[r].counted)
    BY DEF Write
  <2>2. PICK u \in Users : role[u] = "OWNER"
    BY <2>1 DEF Owned, OwnerKept, Owners
  <2>3. CASE ~lowers
    BY <1>3, <2>2, <2>3
  <2>4. CASE lowers
    <3>1. \E v \in Users \ {target} : role[v] = "OWNER"
      BY <1>1, <2>1, <2>4 DEF Standing
    <3> QED
      BY <1>3, <3>1
  <2> QED
    BY <2>3, <2>4
<1>5. ASSUME NEW q \in Requests
      PROVE  Standing(q)'
  <2>1. CASE q = r
    BY <2>1, BlankOK DEF Write, Standing
  <2>2. CASE q # r
    <3> SUFFICES ASSUME req'[q].counted
                 PROVE  \E u \in Users \ {req'[q].target} : role'[u] = "OWNER"
      BY DEF Standing
    <3>1. req[q].counted /\ req'[q].target = req[q].target /\ (lowers => req[q].target = target)
      BY <1>1, <2>2 DEF Write, ReqType
    <3>2. PICK u \in Users \ {req[q].target} : role[u] = "OWNER"
      BY <1>1, <3>1 DEF Standing
    <3> QED
      BY <1>3, <3>1, <3>2
  <2> QED
    BY <2>1, <2>2
<1> QED
  BY <1>4, <1>5 DEF Owned

LEMMA AcceptOwned ==
  ASSUME Owned, Sound', NEW r \in Requests, NEW i \in DOMAIN invitations, Accept(r, i)
  PROVE  Owned'
<1>1. /\ req \in [Requests -> ReqType] /\ role \in [Users -> Roles \cup {None}]
      /\ UNCHANGED excused
  BY DEF Owned, Sound, TypeOK, Accept
<1>2. \A u \in Users : role[u] # None => role'[u] = role[u]
  BY <1>1 DEF Accept
<1>3. \A q \in Requests : req'[q].counted => req[q].counted /\ req'[q].target = req[q].target
  BY <1>1, BlankOK DEF Accept, Finish, ReqType
<1> QED
  BY <1>1, <1>2, <1>3, RolesKept

LEMMA NextOwned == Owned /\ [Next]_vars => Owned'
<1> SUFFICES ASSUME Owned, [Next]_vars
             PROVE  Owned'
  OBVIOUS
<1>1. Sound' /\ Sound /\ req \in [Requests -> ReqType]
  BY NextSound DEF Owned, Sound, TypeOK
<1>2. CASE UNCHANGED vars
  BY <1>1, <1>2, RolesKept DEF vars
<1>3. ASSUME UNCHANGED <<role, excused>>,
             \A q \in Requests :
               req'[q].counted => req[q].counted /\ req'[q].target = req[q].target
      PROVE  Owned'
  BY <1>1, <1>3, RolesKept
<1>4. ASSUME NEW r \in Requests, Begin(r)
      PROVE  Owned'
  <2>1. /\ \A q \in Requests : req'[q] = req[q] \/ ~req'[q].counted
        /\ UNCHANGED <<role, excused>>
    BY <1>1, <1>4 DEF Begin, Authorise, Visit
  <2> QED
    BY <1>3, <2>1
<1>5. ASSUME NEW r \in Requests, Finish(r), UNCHANGED <<role, excused>>
      PROVE  Owned'
  <2>1. \A q \in Requests : req'[q] = req[q] \/ ~req'[q].counted
    BY <1>1, <1>5, BlankOK DEF Finish
  <2> QED
    BY <1>3, <1>5, <2>1
<1>6. ASSUME NEW r \in Requests, LookUp(r)
      PROVE  Owned'
  <2>1. \A q \in Requests : req'[q].counted = req[q].counted /\ req'[q].target = req[q].target
    BY <1>1, <1>6 DEF LookUp, ReqType
  <2> QED
    BY <1>3, <1>6, <2>1 DEF LookUp
<1>7. ASSUME NEW r \in Requests, ReadTarget(r)
      PROVE  Owned'
  <2>1. CASE Finish(r)
    BY <1>5, <1>7, <2>1 DEF ReadTarget
  <2>2. CASE ~Finish(r)
    <3>1. \A q \in Requests : req'[q].counted = req[q].counted /\ req'[q].target = req[q].target
      BY <1>1, <1>7, <2>2 DEF ReadTarget, ReqType
    <3> QED
      BY <1>3, <1>7, <3>1 DEF ReadTarget
  <2> QED
    BY <2>1, <2>2
<1>8. ASSUME NEW r \in Requests, AddMember(r) \/ WriteTarget(r)
      PROVE  Owned'
  <2>1. req[r].target \in Users
    BY <1>1, <1>8 DEF AddMember, WriteTarget, Sound, ReqOK
  <2> QED
    BY <1>1, <1>5, <1>8, <2>1, WriteOwned DEF AddMember, WriteTarget
<1>9. ASSUME NEW r \in Requests, CreateInvitation(r) \/ Visited(r) \/ Abandon(r)
      PROVE  Owned'
  BY <1>5, <1>9 DEF CreateInvitation, Visited, Abandon
<1>10. ASSUME NEW r \in Requests, NEW i \in DOMAIN invitations, FindInvitation(r, i)
       PROVE  Owned'
  <2>1. \A q \in Requests : req'[q].counted = req[q].counted /\ req'[q].target = req[q].target
    BY <1>1, <1>10 DEF FindInvitation, ReqType
  <2> QED
    BY <1>3, <1>10, <2>1 DEF FindInvitation
<1>11. ASSUME NEW r \in Requests, NEW i \in DOMAIN invitations, DeleteInvitation(r, i)
       PROVE  Owned'
  BY <1>5, <1>11 DEF DeleteInvitation
<1>12. CASE (\E u \in Users : SignUp(u)) \/ \E i \in DOMAIN invitations : Expire(i)
  BY <1>3, <1>12 DEF SignUp, Expire
<1> QED
  BY <1>2, <1>4, <1>6, <1>7, <1>8, <1>9, <1>10, <1>11, <1>12,
     CountOwnersOwned, AcceptOwned, <1>1 DEF Next, Proceed

\* The organisation keeps an owner, unless one was lowered by an invitation, by a
\* request that had read it as no owner, or by one that counted the owners before
\* another was lowered.
THEOREM OwnerKeptHolds == Spec => []OwnerKept
<1>1. Owned => OwnerKept
  BY DEF Owned
<1> QED
  BY <1>1, InitOwned, NextOwned, PTL DEF Spec

-----------------------------------------------------------------------------
\* Who may change a role.

\* A role changes by the write of a request for that member, or by the acceptance
\* of an invitation addressed to somebody who was no member.
LEMMA RoleChange ==
  ASSUME Sound, Next, NEW u \in Users, role'[u] # role[u]
  PROVE  \/ \E r \in Requests :
              /\ req[r].target = u /\ req'[r].pc = "idle" /\ role'[u] = req[r].role
              /\ \/ req[r].pc = "known" /\ req[r].kind = "invite"
                 \/ req[r].kind \in {"setRole", "remove"} /\ role[u] # None
         \/ \E i \in DOMAIN invitations :
              /\ role[u] = None /\ invitations[i].email = u /\ role'[u] = invitations[i].role
              /\ invitations[i].state # "revoked" /\ invitations'[i].state = "accepted"
<1>1. role \in [Users -> Roles \cup {None}] /\ \A r \in Requests : ReqOK(req[r]) /\ Listed(req[r])
  BY DEF Sound, TypeOK
<1>2. PICK r \in Requests : \/ AddMember(r) \/ WriteTarget(r)
                            \/ \E i \in DOMAIN invitations : Accept(r, i)
  <2>1. ASSUME UNCHANGED role
        PROVE  FALSE
    BY <2>1
  <2>2. \A r \in Requests : ~Begin(r) /\ ~Abandon(r)
    BY <2>1 DEF Begin, Authorise, Visit, Abandon
  <2>3. (\A v \in Users : ~SignUp(v)) /\ \A i \in DOMAIN invitations : ~Expire(i)
    BY <2>1 DEF SignUp, Expire
  <2>4. PICK r \in Requests : Proceed(r)
    BY <2>2, <2>3 DEF Next
  <2>5. /\ ~LookUp(r) /\ ~CreateInvitation(r) /\ ~ReadTarget(r) /\ ~CountOwners(r) /\ ~Visited(r)
        /\ \A i \in DOMAIN invitations : ~FindInvitation(r, i) /\ ~DeleteInvitation(r, i)
    BY <2>1 DEF LookUp, CreateInvitation, ReadTarget, CountOwners, FindInvitation,
                DeleteInvitation, Visited
  <2> QED
    BY <2>4, <2>5 DEF Proceed
<1>3. ASSUME Write(r, req[r].role)
      PROVE  req[r].target = u /\ req'[r].pc = "idle" /\ role'[u] = req[r].role
  BY <1>1, <1>3, BlankOK DEF Write
<1>4. CASE AddMember(r)
  <2>1. req[r].kind = "invite"
    BY <1>1, <1>4 DEF AddMember, ReqOK
  <2> QED
    BY <1>3, <1>4, <2>1 DEF AddMember
<1>5. CASE WriteTarget(r)
  BY <1>3, <1>5 DEF WriteTarget
<1>6. ASSUME NEW i \in DOMAIN invitations, Accept(r, i)
      PROVE  /\ role[u] = None /\ invitations[i].email = u /\ role'[u] = invitations[i].role
             /\ invitations[i].state # "revoked" /\ invitations'[i].state = "accepted"
  <2>1. invitations[i].state # "revoked"
    BY <1>6 DEF Accept
  <2>2. req[r].target = u /\ role[u] = None /\ role'[u] = invitations[i].role
    BY <1>1, <1>6, <2>1 DEF Accept
  <2>3. invitations[i].email = u
    BY <1>1, <1>6, <2>2 DEF Accept, ReqOK, Listed
  <2>4. invitations'[i].state = "accepted"
    <3>1. invitations \in Seq(InvitationType)
      BY DEF Sound, TypeOK, InvitationType
    <3>2. invitations[i] \in InvitationType
      BY <3>1
    <3> QED
      BY <1>6, <2>1, <3>2 DEF Accept, InvitationType
  <2> QED
    BY <2>1, <2>2, <2>3, <2>4
<1> QED
  BY <1>2, <1>4, <1>5, <1>6

\* A revoked invitation lets nobody in: whoever becomes a member is added by an
\* admin's request, or by an invitation that is still there.
THEOREM RevokedStaysOutHolds == Spec => RevokedStaysOut
<1>1. Sound /\ [Next]_vars =>
        [ \A u \in Users :
            role[u] = None /\ role'[u] # None =>
              \/ \E r \in Requests :
                   req[r].pc = "known" /\ req[r].target = u /\ req'[r].pc = "idle"
              \/ \E i \in DOMAIN invitations :
                   /\ invitations[i].email = u /\ invitations[i].state # "revoked"
                   /\ invitations'[i].state = "accepted" ]_vars
  BY RoleChange
<1> QED
  BY <1>1, SoundHolds, PTL DEF Spec, RevokedStaysOut

\* Nobody's own visit changes a role they have.
THEOREM VisitKeepsRolesHolds == Spec => VisitKeepsRoles
<1>1. Sound /\ [Next]_vars =>
        [ \A u \in Users :
            role[u] # None /\ role'[u] # role[u] =>
              \E r \in Requests :
                /\ req[r].kind \in {"invite", "setRole", "remove"} /\ req[r].target = u
                /\ req'[r].pc = "idle" ]_vars
  BY RoleChange
<1> QED
  BY <1>1, SoundHolds, PTL DEF Spec, VisitKeepsRoles

\* Nobody gives out a role above their own, through a membership, an invitation
\* and any delay between the two.
THEOREM NoRoleAboveTheGiverHolds == Spec => NoRoleAboveTheGiver
<1>1. ASSUME Sound, Next, NEW u \in Users, role'[u] # role[u], role'[u] # None
      PROVE  GivenFromAbove(u)
  <2>1. \A r \in Requests :
          /\ req[r].kind \in {"invite", "setRole"} => atLeast(req[r].caller, req[r].role)
          /\ req[r].kind = "remove" => req[r].role = None
    BY <1>1 DEF Sound, ReqOK
  <2>2. \A i \in DOMAIN invitations : atLeast(invitations[i].by, invitations[i].role)
    BY <1>1 DEF Sound, InvitationsOK
  <2> QED
    BY <1>1, <2>1, <2>2, RoleChange DEF GivenFromAbove
<1>2. Sound /\ [Next]_vars =>
        [ \A u \in Users : role'[u] # role[u] /\ role'[u] # None => GivenFromAbove(u) ]_vars
  BY <1>1
<1> QED
  BY <1>2, SoundHolds, PTL DEF Spec, NoRoleAboveTheGiver
=============================================================================
