SPECIFICATION Spec
CONSTANTS
  Phone = {p1, p2}
  Request = {r1, r2}
  NoPhone = NoPhone
  MaxAccounts = 2
  MaxInvites = 1
  MaxCuts = 0
PROPERTY AnAdminRemains
CHECK_DEADLOCK FALSE
SYMMETRY Symmetry
