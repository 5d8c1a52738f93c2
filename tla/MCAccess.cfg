SPECIFICATION Spec
CONSTANTS
  Names = {ann, bob}
  Perms = {"manage_users", "bookmark_link"}
  Roles = {"admin", "member"}
  Matrices <- ThreeMatrices
  NoUser = NoUser
  NoName = NoName
  Browsers = {w1, w2}
  Desks = {w1}
  NoSession = NoSession
  Requests = {r1, r2}
  MaxUsers = 2
  MaxTokens = 1
  MaxChanges = 4
SYMMETRY Symmetry
INVARIANTS
  OverridesAreDecided
  AdmittedIsFull
PROPERTIES
  GainsAreServed
  
