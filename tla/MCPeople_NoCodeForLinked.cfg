SPECIFICATION Spec
CONSTANTS
  c1 = c1
  x1 = x1
  x2 = x2
  v1 = v1
  v2 = v2
  v3 = v3
  u1 = u1
  u2 = u2
  r1 = r1
  r2 = r2
  r3 = r3
  Nobody = Nobody
  Contacts <- MCContacts
  Roles <- MCRoles
  Invitations <- MCInvitations
  Users <- MCUsers
  Requests <- MCRequests
CHECK_DEADLOCK FALSE
INVARIANTS NoCodeForLinked
