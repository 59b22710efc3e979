----------------------------- MODULE Membership -----------------------------
(***************************************************************************)
(* Who belongs to an organisation, and in which role: the members page of  *)
(* the console (web/src/app/app/[slug]/members/actions.ts) over the        *)
(* Membership and Invitation tables (web/prisma/schema.prisma), with the   *)
(* authorisation of web/src/lib/rbac.ts.                                   *)
(*                                                                         *)
(* No action runs in a transaction, so each query is a step and requests   *)
(* interleave between queries: the caller's role, the target's row and the *)
(* number of owners are read before the write that relies on them.  Only   *)
(* the acceptance of one invitation is a transaction.  Each query by a key *)
(* is atomic.                                                              *)
(*                                                                         *)
(* A person is a user's email address, which is also the account's.        *)
(***************************************************************************)
EXTENDS Naturals, Sequences, FiniteSets

CONSTANTS
  Users,          \* people, by email address
  Requests,       \* requests the console can be serving at once
  Roles,          \* the roles that are given out
  None,           \* no membership
  MaxStarted,     \* bound: requests over a behaviour
  MaxInvitations  \* bound: invitations over a behaviour

ROLE_RANK ==
  [VIEWER |-> 1, AUDITOR |-> 2, OPERATOR |-> 3, ADMIN |-> 4, OWNER |-> 5]

ASSUME RoleAssumption == Roles \subseteq DOMAIN ROLE_RANK /\ "OWNER" \in Roles
ASSUME NoneAssumption == None \notin DOMAIN ROLE_RANK
ASSUME BoundAssumption == MaxStarted \in Nat /\ MaxInvitations \in Nat

VARIABLES
  accounts,    \* the people who have signed in at least once
  role,        \* Membership rows: each person's role, or None
  invitations, \* every Invitation created: whom, as what, what became of it, and,
               \* as history, the role of whoever invited
  req,         \* what each request is doing, with what it has read
  started,     \* requests so far
  excused      \* history: an owner was lowered without a count of the owners that
               \* still stood

vars == <<accounts, role, invitations, req, started, excused>>

Blank ==
  [pc |-> "idle", kind |-> "none", caller |-> None, target |-> None, role |-> None,
   todo |-> {}, counted |-> FALSE]

Finish(r) == req' = [req EXCEPT ![r] = Blank]

atLeast(have, want) == ROLE_RANK[have] >= ROLE_RANK[want]

\* The caller is a member with at least this role.
orgForAction(u, minRole) == role[u] # None /\ atLeast(role[u], minRole)

Owners == {u \in Users : role[u] = "OWNER"}

\* The ids an accepting visit may still find: a revoked invitation's row is gone.
Pending(u) ==
  {i \in DOMAIN invitations : invitations[i].email = u /\ invitations[i].state = "pending"}

\* What request r writes to its target's membership ends it.  As history, a count
\* of owners stands until an owner besides the one it was made for is lowered,
\* and it is noted when an owner is lowered without one.
Write(r, new) ==
  LET target == req[r].target
      lowers == role[target] = "OWNER" /\ new # "OWNER"
  IN
  /\ role' = [role EXCEPT ![target] = new]
  /\ req' = [q \in Requests |->
               IF q = r THEN Blank
               ELSE [req[q] EXCEPT !.counted = @ /\ (lowers => req[q].target = target)]]
  /\ excused' = (excused \/ (lowers /\ ~req[r].counted))

-----------------------------------------------------------------------------

\* The organisation as its creator leaves it.
Init ==
  /\ \E creator \in Users :
       /\ accounts = {creator}
       /\ role = [u \in Users |-> IF u = creator THEN "OWNER" ELSE None]
  /\ invitations = <<>>
  /\ req = [r \in Requests |-> Blank]
  /\ started = 0
  /\ excused = FALSE

\* A person signs in for the first time.
SignUp(u) ==
  /\ u \notin accounts
  /\ accounts' = accounts \cup {u}
  /\ UNCHANGED <<role, invitations, req, started, excused>>

\* Mutant of Authorise: any role is given out.
AuthoriseAnyRole(r, u, kind, target, new) ==
  /\ req[r].pc = "idle"
  /\ started < MaxStarted
  /\ orgForAction(u, "ADMIN")
  /\ kind \in {"remove", "revoke"} => new = None
  /\ started' = started + 1
  /\ req' = [req EXCEPT ![r] =
              [pc |-> "authorised", kind |-> kind, caller |-> role[u], target |-> target,
               role |-> new, todo |-> {}, counted |-> FALSE]]
  /\ UNCHANGED <<accounts, role, invitations, excused>>

\* An admin's request is let in with the role its caller has now,
\* if it gives out no role above that.
Authorise(r, u, kind, target, new) ==
  /\ req[r].pc = "idle"
  /\ started < MaxStarted
  /\ orgForAction(u, "ADMIN")
  /\ kind \in {"invite", "setRole"} => atLeast(role[u], new)
  /\ kind \in {"remove", "revoke"} => new = None
  /\ started' = started + 1
  /\ req' = [req EXCEPT ![r] =
              [pc |-> "authorised", kind |-> kind, caller |-> role[u], target |-> target,
               role |-> new, todo |-> {}, counted |-> FALSE]]
  /\ UNCHANGED <<accounts, role, invitations, excused>>

\* inviteAction: does the address have an account?
LookUp(r) ==
  /\ req[r].pc = "authorised" /\ req[r].kind = "invite"
  /\ req' = [req EXCEPT ![r].pc = IF req[r].target \in accounts THEN "known" ELSE "unknown"]
  /\ UNCHANGED <<accounts, role, invitations, started, excused>>

\* inviteAction: it has, so the membership is created, or given the new role.
AddMember(r) ==
  /\ req[r].pc = "known"
  /\ Write(r, req[r].role)
  /\ UNCHANGED <<accounts, invitations, started>>

\* Mutant of CreateInvitation: the invitation is not addressed to anybody.
InviteNobody(r) ==
  /\ req[r].pc = "unknown"
  /\ Len(invitations) < MaxInvitations
  /\ invitations' = Append(invitations, [email |-> None, role |-> req[r].role,
                                         state |-> "pending", by |-> req[r].caller])
  /\ Finish(r)
  /\ UNCHANGED <<accounts, role, started, excused>>

\* inviteAction: it has not, so an invitation waits for the first sign-in.
CreateInvitation(r) ==
  /\ req[r].pc = "unknown"
  /\ Len(invitations) < MaxInvitations
  /\ invitations' = Append(invitations, [email |-> req[r].target, role |-> req[r].role,
                                         state |-> "pending", by |-> req[r].caller])
  /\ Finish(r)
  /\ UNCHANGED <<accounts, role, started, excused>>

\* setRoleAction and removeMemberAction read the target's row: refused if there
\* is none or it is above the caller's, and owners are counted if it is an
\* owner's and would not stay one.
ReadTarget(r) ==
  LET was == role[req[r].target] IN
  /\ req[r].pc = "authorised" /\ req[r].kind \in {"setRole", "remove"}
  /\ IF was # None /\ atLeast(req[r].caller, was)
     THEN req' = [req EXCEPT ![r].pc = IF was = "OWNER" /\ req[r].role # "OWNER"
                                       THEN "counting" ELSE "decided"]
     ELSE Finish(r)
  /\ UNCHANGED <<accounts, role, invitations, started, excused>>

\* Mutant of CountOwners: the last owner may go as well.
CountAnyOwner(r) ==
  /\ req[r].pc = "counting"
  /\ IF Cardinality(Owners) < 1 THEN Finish(r)
     ELSE req' = [req EXCEPT ![r].pc = "decided", ![r].counted = TRUE]
  /\ UNCHANGED <<accounts, role, invitations, started, excused>>

\* "an organisation keeps at least one owner"
CountOwners(r) ==
  /\ req[r].pc = "counting"
  /\ IF Cardinality(Owners) <= 1 THEN Finish(r)
     ELSE req' = [req EXCEPT ![r].pc = "decided", ![r].counted = TRUE]
  /\ UNCHANGED <<accounts, role, invitations, started, excused>>

\* The update or the delete by key, which fails if the row is gone by now.
WriteTarget(r) ==
  /\ req[r].pc = "decided" /\ req[r].kind \in {"setRole", "remove"}
  /\ IF role[req[r].target] = None
     THEN Finish(r) /\ UNCHANGED <<role, excused>>
     ELSE Write(r, req[r].role)
  /\ UNCHANGED <<accounts, invitations, started>>

\* revokeInvitationAction finds the invitation, and deletes it by key, which
\* fails if its row is gone by now.
FindInvitation(r, i) ==
  /\ req[r].pc = "authorised" /\ req[r].kind = "revoke"
  /\ invitations[i].state # "revoked"
  /\ req' = [req EXCEPT ![r].pc = "decided", ![r].todo = {i}]
  /\ UNCHANGED <<accounts, role, invitations, started, excused>>

DeleteInvitation(r, i) ==
  /\ req[r].pc = "decided" /\ req[r].kind = "revoke" /\ i \in req[r].todo
  /\ invitations' = [invitations EXCEPT ![i].state = "revoked"]
  /\ Finish(r)
  /\ UNCHANGED <<accounts, role, started, excused>>

\* A signed-in person opens /app: acceptPendingInvitations lists what is pending.
Visit(r, u) ==
  /\ req[r].pc = "idle"
  /\ started < MaxStarted
  /\ u \in accounts
  /\ started' = started + 1
  /\ req' = [req EXCEPT ![r] =
              [pc |-> "accepting", kind |-> "visit", caller |-> None, target |-> u,
               role |-> None, todo |-> Pending(u), counted |-> FALSE]]
  /\ UNCHANGED <<accounts, role, invitations, excused>>

\* Mutant of Accept: an existing membership takes the invitation's role.
AcceptAndUpdate(r, i) ==
  /\ req[r].pc = "accepting" /\ i \in req[r].todo
  /\ IF invitations[i].state = "revoked"
     THEN Finish(r) /\ UNCHANGED <<role, invitations>>
     ELSE /\ role' = [role EXCEPT ![req[r].target] = invitations[i].role]
          /\ invitations' = [invitations EXCEPT ![i].state = "accepted"]
          /\ req' = [req EXCEPT ![r].todo = @ \ {i}]
  /\ UNCHANGED <<accounts, started, excused>>

\* Mutant of Accept: the membership and the invitation are written apart.
AcceptApart(r, i) ==
  /\ req[r].pc = "accepting" /\ i \in req[r].todo
  /\ role' = [role EXCEPT ![req[r].target] = IF @ = None THEN invitations[i].role ELSE @]
  /\ IF invitations[i].state = "revoked"
     THEN Finish(r) /\ UNCHANGED invitations
     ELSE /\ invitations' = [invitations EXCEPT ![i].state = "accepted"]
          /\ req' = [req EXCEPT ![r].todo = @ \ {i}]
  /\ UNCHANGED <<accounts, started, excused>>

\* One invitation of the list, in a transaction: a membership if there is none,
\* and the invitation accepted.  If its row is gone the transaction fails, and
\* with it the visit.
Accept(r, i) ==
  /\ req[r].pc = "accepting" /\ i \in req[r].todo
  /\ IF invitations[i].state = "revoked"
     THEN Finish(r) /\ UNCHANGED <<role, invitations>>
     ELSE /\ role' = [role EXCEPT ![req[r].target] = IF @ = None THEN invitations[i].role ELSE @]
          /\ invitations' = [invitations EXCEPT ![i].state = "accepted"]
          /\ req' = [req EXCEPT ![r].todo = @ \ {i}]
  /\ UNCHANGED <<accounts, started, excused>>

Visited(r) ==
  /\ req[r].pc = "accepting" /\ req[r].todo = {}
  /\ Finish(r)
  /\ UNCHANGED <<accounts, role, invitations, started, excused>>

\* Two weeks pass.
Expire(i) ==
  /\ invitations[i].state = "pending"
  /\ invitations' = [invitations EXCEPT ![i].state = "expired"]
  /\ UNCHANGED <<accounts, role, req, started, excused>>

\* The request ends between two queries.
Abandon(r) ==
  /\ req[r].pc # "idle"
  /\ Finish(r)
  /\ UNCHANGED <<accounts, role, invitations, started, excused>>

Begin(r) ==
  \E u \in Users :
    \/ Visit(r, u)
    \/ \E target \in Users, new \in Roles :
         Authorise(r, u, "invite", target, new) \/ Authorise(r, u, "setRole", target, new)
    \/ \E target \in Users : Authorise(r, u, "remove", target, None)
    \/ Authorise(r, u, "revoke", None, None)

Proceed(r) ==
  \/ LookUp(r) \/ AddMember(r) \/ CreateInvitation(r)
  \/ ReadTarget(r) \/ CountOwners(r) \/ WriteTarget(r) \/ Visited(r)
  \/ \E i \in DOMAIN invitations :
       FindInvitation(r, i) \/ DeleteInvitation(r, i) \/ Accept(r, i)

Next ==
  \/ \E r \in Requests : Begin(r) \/ Proceed(r) \/ Abandon(r)
  \/ \E u \in Users : SignUp(u)
  \/ \E i \in DOMAIN invitations : Expire(i)

Spec == Init /\ [][Next]_vars

-----------------------------------------------------------------------------

ReqType ==
  [pc : {"idle", "authorised", "known", "unknown", "counting", "decided", "accepting"},
   kind : {"none", "invite", "setRole", "remove", "revoke", "visit"},
   caller : Roles \cup {None}, target : Users \cup {None}, role : Roles \cup {None},
   todo : SUBSET (1 .. MaxInvitations), counted : BOOLEAN]

\* Types: every invitation is addressed to somebody, by somebody with a role, and
\* every request works on rows that were created.
TypeOK ==
  /\ accounts \subseteq Users
  /\ role \in [Users -> Roles \cup {None}]
  /\ invitations \in Seq([email : Users, role : Roles, by : Roles,
                          state : {"pending", "accepted", "expired", "revoked"}])
  /\ req \in [Requests -> ReqType]
  /\ \A r \in Requests : req[r].todo \subseteq DOMAIN invitations
  /\ started \in Nat /\ excused \in BOOLEAN

\* "An organisation keeps at least one owner" (the members page, en.json).
KeepsAnOwner == Owners # {}

\* An organisation loses its last owner in three ways only: an invitation lowers
\* one, a request lowers one it had read as no owner, or one that counted the
\* owners before another was lowered.  A count made in between, whoever is added,
\* raised or removed by others meanwhile, keeps one.
OwnerKept == excused \/ Owners # {}

\* A revoked invitation lets nobody in, though a visit in progress may have it on
\* its list: whoever becomes a member is added by an admin's request, or by an
\* invitation that is there to be marked accepted in the same step.
RevokedStaysOut ==
  [][ \A u \in Users :
        role[u] = None /\ role'[u] # None =>
          \/ \E r \in Requests : req[r].pc = "known" /\ req[r].target = u /\ req'[r].pc = "idle"
          \/ \E i \in DOMAIN invitations :
               /\ invitations[i].email = u /\ invitations[i].state # "revoked"
               /\ invitations'[i].state = "accepted" ]_vars

\* Nobody's own visit changes a role they have, whatever old invitations are
\* waiting for them: only an admin's request for that member does.
VisitKeepsRoles ==
  [][ \A u \in Users :
        role[u] # None /\ role'[u] # role[u] =>
          \E r \in Requests :
            /\ req[r].kind \in {"invite", "setRole", "remove"} /\ req[r].target = u
            /\ req'[r].pc = "idle" ]_vars

\* A role somebody gets is not above the role its giver had when the request was
\* let in.
GivenFromAbove(u) ==
  \/ \E r \in Requests : /\ req[r].kind \in {"invite", "setRole"} /\ req[r].target = u
                         /\ req'[r].pc = "idle" /\ atLeast(req[r].caller, role'[u])
  \/ \E i \in DOMAIN invitations : /\ invitations[i].email = u
                                   /\ invitations[i].role = role'[u]
                                   /\ atLeast(invitations[i].by, role'[u])

\* "Nobody grants a role above their own", through a membership, an invitation and
\* any delay between the two.
NoRoleAboveTheGiver ==
  [][ \A u \in Users : role'[u] # role[u] /\ role'[u] # None => GivenFromAbove(u) ]_vars
=============================================================================
