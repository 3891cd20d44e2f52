CONSTANTS
  A = A
  B = B
  FALLBACK = FALLBACK
  None = None
  S = S
  X = X
  Real = {A, B}
  Regular = {1, 2, 3, 4, 5}
  Special = {S}
  Windows = {X}
  Crowd = 3
  Jobs = 1
  Orderly = FALSE
  Setups <- Loose
SPECIFICATION Spec
PROPERTY OrphansRecovered
CHECK_DEADLOCK FALSE
