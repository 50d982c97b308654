CONSTANTS
  Null <- NoValue
  Ids = {1, 2, 3, 4}
  Vals = {1, 2}
  Queries <- Asked
SPECIFICATION Spec
INVARIANTS WalkCovers WalkComplete FlagsTrue
PROPERTIES Symmetric
CHECK_DEADLOCK FALSE
