SPECIFICATION Spec
CONSTANTS
  Users = {u1, u2}
  Requests = {r1, r2}
  Roles = {"OWNER", "ADMIN", "VIEWER"}
  None = None
  MaxStarted = 3
  MaxInvitations = 1
INVARIANT KeepsAnOwner
CHECK_DEADLOCK FALSE
