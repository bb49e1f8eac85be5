CONSTANTS
  Full <- MC_Full
  CounterWidth <- MC_CounterWidth
  LoadOutcomes <- MC_LoadReloads
SPECIFICATION Spec
INVARIANT TypeOK
PROPERTY MainProgress
