CONSTANTS
  Real = {}
  FALLBACK = FALLBACK
SPECIFICATION Spec
INVARIANT StartStrandsNobody
CHECK_DEADLOCK FALSE
