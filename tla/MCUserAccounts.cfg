SPECIFICATION Spec
CONSTANTS
  Names = {n1, n2}
  Emails = {e1}
  NoEmail = NoEmail
  NoUser = NoUser
  Requests = {r1, r2}
  MaxUsers = 3
  MaxTokens = 2
SYMMETRY Symmetry
CHECK_DEADLOCK FALSE
INVARIANTS  SpentIsDead
PROPERTY DisabledIsBlocked
