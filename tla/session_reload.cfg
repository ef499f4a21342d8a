CONSTANTS
  Reg <- MCReg
  Values <- MCValues
  InitialDevs <- UnlinkedDev
  DumpOrder <- MCDumpOrder
  FaderValues <- HandFaders
  HandRegs <- FaderOnly
  NoVolume = NoVolume
  Broken = Broken
  Startups <- LinkedStartup
  Edits <- LouderEdits
  Late <- Nothing
  Garbled = FALSE
  Prompt = TRUE
  MaxHups = 2
  MaxDrops = 0
  MaxTurns = 1
SPECIFICATION Spec
CHECK_DEADLOCK FALSE
INVARIANTS UnreadHupIsQueued ReloadAloneWins
PROPERTY RememberedSurvivesReapply
