CONSTANTS
  w1 = w1
  w2 = w2
  s1 = s1
  s2 = s2
  u1 = u1
  Writers = {w1, w2}
  MaxNested <- OneNested
  Streams = {s1, s2}
  Hears <- HearSome
  Users = {u1}
  Nobody = Nobody
  Owner <- Owners
  Capacity <- Caps
  OutCapacity = 1
  MaxConnections = 1
  Transports = {"memory", "redis"}
  MaxSignals = 2
  MaxBreaks = 1
SPECIFICATION MCSpec
INVARIANTS SlotsCounted
PROPERTIES ImplementsLog RevokedStreamEnds
CHECK_DEADLOCK FALSE
