CONSTANTS
  Pid = {1}
  DeviceTimeout = 60
  DevicePoll = 2
  Settle = 1
  PortTimeout = 20
  Barrier = 3
  Poll = 1
  Reread = 20
  ChildGrace = 10
  VerifierGrace = 4
  StartTimeout = 150
  StopTimeout = 20
  RestartDelay = 6
  StartBurst = 2
SPECIFICATION FairSpec
INVARIANTS LifecycleTypeOK StartFits StopFits VerifierEndsFirst CleanExitIsReady ReloadNeverKills StrangerOnlyIfLate
PROPERTY LossIsNoticed
