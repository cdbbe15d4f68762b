CONSTANTS
  Parts = {"dispatch", "policy", "uclamp"}
  p1 = p1  p2 = p2  cpu0 = cpu0  cpu1 = cpu1
  Task = {p1, p2}
  Cpu = {cpu0, cpu1}
  Idle = Idle
  Stopper = Stopper
  None = None
  LONG_RANGE = 3
  Modes <- MCModes
  s1 = s1  s2 = s2  k1 = k1  k2 = k2
  SsTask = {s1, s2}
  SsFirst = s1
  SsCaller = {k1, k2}
  SsNone = SsNone
  SsUnpriv = {k2}
  SsNice = {0, 1}
  SS_MAX_RT = 3
  SsAttr <- MCAttr
  g1 = g1  g2 = g2
  UTask = {p1, p2}
  UGroup = {g1, g2}
  URoot = URoot
  UParent <- MCParent
  UNone = UNone
  CAPACITY = 4
  UCLAMP_BUCKETS = 2
  UClass = {"fair"}
  USettings <- MCSettings
  UDefaults <- MCDefaults
  Percent = {5000}
SPECIFICATION CpusSpec
INVARIANTS OneCpuAtATime QueuesFollowTasks NobodyForgotten PlacedWhereAllowed CountedOnce PolicyAgrees BoostExact ClampsExact
CONSTRAINTS OneWakeup OneIpi OneGrouped
SYMMETRY DispatchSym
