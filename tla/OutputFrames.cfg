SPECIFICATION FairSpec
CONSTANTS
  None = None
  Settings <- MCSettings
  MaxChanges = 3
  MaxSyncs = 3
INVARIANTS BlockedOnlyWhileScheduled NoFrontWrites DamageComing
PROPERTY DamageShown
