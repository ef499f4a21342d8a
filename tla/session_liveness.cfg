CONSTANTS
  Reg <- MCReg
  Values <- MCValues
  InitialDevs <- EitherDevs
  DumpOrder <- MCDumpOrder
  FaderValues <- HandFaders
  HandRegs <- FaderOnly
  NoVolume = NoVolume
  Broken = Broken
  Startups <- RoutedStartups
  Edits <- NoEdits
  Late <- Nothing
  Garbled = TRUE
  Prompt = TRUE
  MaxHups = 1
  MaxDrops = 0
  MaxTurns = 0
SPECIFICATION FairSpec
CHECK_DEADLOCK FALSE
PROPERTIES StopLeadsToExit VerifierFinishes HupIsServed
INVARIANTS TypeOK VerifiedMeansAudible
