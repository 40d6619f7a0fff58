SPECIFICATION MCSpec
CONSTANTS
  Ports = {p1, p2, p3, p4}
  Frames <- MCFrames
  Local = {"h"}
  Modes = {"xdp", "pnet", "sim"}
  RingCap = 1
  ChanCap = 1
  ScanWindow = 1
  InPorts = 2
  InHosts = 2
  OutPorts = 3
  OutHosts = 2
  Escalation = 2
  FloodWindow = 1
  FloodSyns = 2
  FloodSources = 1
  DnsWindow = 1
  DnsSuspicious = 2
  DnsQueries = 2
  MinSamples = 2
  MaxHistory = 2
  IdleTimeout = 2
  ReapEvery = 2
  MaxFrames <- MCMaxFrames
  MaxTime <- MCMaxTime
  Tick = 2
  Interval = 4
  StaleAfter = 12
  WatchdogSec = 12
  Steps <- MCSteps
  MaxSteps = 2
SYMMETRY Symmetry
INVARIANT BurstsReported
INVARIANT BlocksEarned
INVARIANT EventsAccounted
INVARIANT KilledIffStalled
CHECK_DEADLOCK FALSE
