CONSTANTS
  Real = {a, b, c}
  FALLBACK = FALLBACK
SPECIFICATION FairSpec
INVARIANTS ActiveAlone Settled NeverStranded
PROPERTIES FallbackLeaves OutputComes
CHECK_DEADLOCK FALSE
