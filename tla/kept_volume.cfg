CONSTANTS
  Reg <- WideReg
  Values <- MCValues
  InitialDevs <- UnlinkedDev
  DumpOrder <- WideDumpOrder
  FaderValues <- HandFaders
  HandRegs <- FaderOnly
  NoVolume = NoVolume
  Broken = Broken
  Startups <- VolumeStartup
  Edits <- NoEdits
  Late <- Nothing
  Garbled = FALSE
  Prompt = TRUE
  MaxHups = 0
  MaxDrops = 0
  MaxTurns = 1
SPECIFICATION Spec
CHECK_DEADLOCK FALSE
PROPERTY RememberedSurvivesReapply
