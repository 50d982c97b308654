SPECIFICATION Spec
CONSTANTS
  a = a
  b = b
  c = c
  x = x
  y = y
  None = None
  Docs = {a, b, c}
  Columns = {x}
  Localized = {}
  SoftDelete = {a, b}
  Uses <- AllUses
  MaxOps = 2
  MaxNest = 2
INVARIANTS CountsAccounted DanglingIsForced
SYMMETRY DocSymmetry
