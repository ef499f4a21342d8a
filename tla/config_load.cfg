CONSTANTS
  Requests <- MCRequests
  Models <- MCModels
  DefaultDevice = "ucx2"
  DefaultPort = 0
  MaxChannel = 8
  NoVolume = NoVolume
SPECIFICATION Spec
CHECK_DEADLOCK FALSE
INVARIANTS ConfigTypeOK VerdictIgnoresOrder OneLinkPerPair EverySectionCounts
