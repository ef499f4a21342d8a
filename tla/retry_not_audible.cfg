CONSTANTS
  Reg <- MCReg
  Values <- MCValues
  InitialDevs <- FreshDevs
  DumpOrder <- MCDumpOrder
  FaderValues <- HandFaders
  HandRegs <- FaderOnly
  NoVolume = NoVolume
  Broken = Broken
  Startups <- LinkedStartup
  Edits <- NoEdits
  Late <- Nothing
  Garbled = FALSE
  Prompt = TRUE
  MaxHups = 0
  MaxDrops = 1
  MaxTurns = 0
SPECIFICATION Spec
CHECK_DEADLOCK FALSE
INVARIANT RetryMeansAudible
