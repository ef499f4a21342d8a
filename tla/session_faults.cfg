CONSTANTS
  Reg <- MCReg
  Values <- MCValues
  InitialDevs <- FreshDevs
  DumpOrder <- MCDumpOrder
  FaderValues <- HandFaders
  HandRegs <- FaderOnly
  NoVolume = NoVolume
  Broken = Broken
  Startups <- CalmStartups
  Edits <- NoEdits
  Late <- LinkOnly
  Garbled = FALSE
  Prompt = FALSE
  MaxHups = 0
  MaxDrops = 1
  MaxTurns = 0
SPECIFICATION Spec
CHECK_DEADLOCK FALSE
INVARIANT PortDiscipline
PROPERTIES KeepsItsContract ReapplyFromKnownLinks BarrierHeardLinks
