SPECIFICATION Spec
CONSTANTS
  Phone = {p1, p2}
  Request = {r1}
  NoPhone = NoPhone
  MaxAccounts = 2
  MaxInvites = 1
  MaxCuts = 0
PROPERTY OnlyAdminRefused
CHECK_DEADLOCK FALSE
SYMMETRY Symmetry
