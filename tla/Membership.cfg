SPECIFICATION Spec
CONSTANTS
  Users = {u1, u2, u3}
  Requests = {r1, r2}
  Roles = {"OWNER", "ADMIN"}
  None = None
  MaxStarted = 4
  MaxInvitations = 1
INVARIANT TypeOK
INVARIANT OwnerKept
PROPERTY RevokedStaysOut
PROPERTY VisitKeepsRoles
PROPERTY NoRoleAboveTheGiver
CHECK_DEADLOCK FALSE
