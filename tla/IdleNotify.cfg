SPECIFICATION FairSpec
CONSTANTS
  Notifs = {idle, input}
  Obeying = {idle}
  Timeout <- MCTimeout
  Limit = 2
  Inhibitors = {i1}
  Surfaces = {layer, window}
  Layers = {layer}
  Rules = {"always", "focus or fullscreen"}
INVARIANTS
  InhibitedExactly
  NoEarlyIdle
PROPERTIES
  IdleInTheEnd
