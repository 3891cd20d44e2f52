CONSTANTS
  c1 = c1
  c2 = c2
  x1 = x1
  x2 = x2
  Clients = {c1, c2}
  Surfaces = {x1, x2}
  Owner <- OneEach
  Sources = {s1, s2}
  Offers = {1, 2}
  Mortal = {s1, x2, c2}
  Reusable = {s2}
  None = None
SPECIFICATION FairSpec
INVARIANTS
  PointerLocked
  TargetHasOffer
  HoverEnds
PROPERTIES
  DragEnds
  SourceAnswered
