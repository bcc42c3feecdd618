SPECIFICATION Spec
CONSTANTS
  Member = {ann}
  Request = {r1, r2}
  TTL = 3
  Gap = 1
  MaxAge = 4
  CodeLife = 1
  MaxAttempts = 2
  MaxNow = 4
  MaxTokens = 2
  MaxCodes = 1
  MaxCuts = 0
PROPERTY CodesSetOnce
CHECK_DEADLOCK FALSE
SYMMETRY Symmetry
