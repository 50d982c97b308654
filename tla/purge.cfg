SPECIFICATION FairPurgeSpec
CONSTANTS
  a = a
  b = b
  x = x
  None = None
  Docs = {a, b}
  Columns = {x}
  Localized = {}
  SoftDelete = {a, b}
  Uses <- NoUses
  MaxOps = 1
  MaxNest = 1
  MaxAborts = 1
INVARIANTS RefTypeOK FilesKept
PROPERTIES ExpiredGoes
