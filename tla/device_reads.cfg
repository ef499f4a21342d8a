CONSTANTS
  NoVolume = NoVolume
  Bursts <- DumpBursts
  Blank <- BlankDesk
  Configs <- SmallConfigs
  Kinds <- AllKinds
  Matrix <- InputMatrix
  Pinned <- PinnedRegs
  Settable <- SettableRegs
  Names <- EnumNames
  Turned <- Hand
  MaxLosses = 1
  MaxTurns = 1
SPECIFICATION Spec
INVARIANTS ReadsTypeOK DumpDescribesDesk DiffTellsDrift WorkingDeviceLoads
