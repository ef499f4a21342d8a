CONSTANTS
  NoVolume = NoVolume
  Bursts <- DumpBursts
  Blank <- BlankDesk
  Configs <- SmallConfigs
  Kinds <- AllKinds
  Matrix <- InputMatrix
  Pinned <- PinnedRegs
  Settable <- SettableRegs
  Names <- EnumNames
  Turned <- Hand
  MaxLosses = 0
  MaxTurns = 0
SPECIFICATION Spec
INVARIANT DumpDescribesAnyDesk
