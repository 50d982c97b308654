CONSTANTS
  c1 = c1
  c2 = c2
  Calls = {c1, c2}
  None = None
  Deployments <- Deployed
  TokenExpiry = 2
  Leeway = 1
  ResetExpiry = 1
  PendingExpiry = 1
  MaxAttempts = 2
  Window = 2
  MaxTime = 6
  Budgets <- Planned
SPECIFICATION Spec
SYMMETRY Perms
INVARIANTS RevokedStaysOut TokenOnce SessionAgeCapped AttemptsBounded
PROPERTIES ResetIsCurrent
CHECK_DEADLOCK FALSE
