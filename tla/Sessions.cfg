SPECIFICATION Spec
CONSTANTS
  Member = {ann}
  Request = {r1, r2}
  TTL = 3
  Gap = 1
  MaxAge = 4
  CodeLife = 1
  MaxAttempts = 2
  MaxNow = 4
  MaxTokens = 2
  MaxCodes = 1
  MaxCuts = 1
INVARIANTS TypeOK UsedStaysSignedIn SessionsOfThePassword GuessesBounded
PROPERTIES SlidesForwardToTheCap RedeemedCodesAreDead
CHECK_DEADLOCK FALSE
SYMMETRY Symmetry
