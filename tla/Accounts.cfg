SPECIFICATION Spec
CONSTANTS
  Phone = {p1, p2}
  Request = {r1, r2}
  NoPhone = NoPhone
  MaxAccounts = 4
  MaxInvites = 2
  MaxCuts = 1
INVARIANTS TypeOK InviteAdmitsOne FirstSignupWindow
PROPERTIES RefusedOnlyIfHeld LastAdminKept
CHECK_DEADLOCK FALSE
SYMMETRY Symmetry
