CONSTANTS
  Reg <- MCReg
  Unit = 100
  Kind <- MCKind
  Device <- MCDevice
  Targets <- Probed
  Sorted <- Order
  Initial <- MCInitial
  MaxLosses = 2
SPECIFICATION Spec
CHECK_DEADLOCK FALSE
INVARIANTS SweepTypeOK EveryDriftIsNamed IgnoredMeansSpoilt ClampedMeansClamped DriftNeedsALoss
PROPERTY SweepEnds
