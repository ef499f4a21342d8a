CONSTANTS
  Reg <- MCReg
  Values <- MCValues
  InitialDevs <- TurnedDevs
  DumpOrder <- MCDumpOrder
  FaderValues <- HandFaders
  HandRegs <- FaderOnly
  NoVolume = NoVolume
  Broken = Broken
  Startups <- Profiles
  Edits <- OnlyBroken
  Late <- Nothing
  Garbled = FALSE
  Prompt = TRUE
  MaxHups = 0
  MaxDrops = 1
  MaxTurns = 1
  NoSession = NoSession
  Beginnings <- MCBeginnings
SPECIFICATION SwitchFairSpec
CHECK_DEADLOCK FALSE
INVARIANTS SwitchTypeOK OutcomeSaysWhatWasWritten EveryMissIsNamed SwitchedMeansAudible
PROPERTY SwitchEnds
