SPECIFICATION Spec
CONSTANTS
  primary = primary
  secondary = secondary
  Models <- MCModels
  Callers = {c1, c2}
  Chain <- MCChain
  Threshold = 2
  Window = 1
  BaseCooldown = 1
  MaxCooldown = 2
  MinSamples = 1
  SlowPercent = 50
  Enforced = TRUE
  OverflowAt = 2
  MaxGeneration <- MCMaxGeneration
  MaxSamples <- MCMaxSamples
SYMMETRY CallerSymmetry
INVARIANTS
  ProbeHasAHolder
