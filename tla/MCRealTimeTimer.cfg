CONSTANTS
  Parts = {"quota"}
  r1 = r1  r2 = r2  r3 = r3  ga = ga  gb = gb
  RbTask = {r1, r2, r3}
  RbCpus = 2
  RbPrio = {1, 2}
  MAX_RT_PRIO = 3
  RT_MAX_TRIES = 3
  RbAffine = {r1}
  RbModes = {"wake", "affinity", "prio"}
  RtCpus = 2
  RUNTIME_INF = 99
  RtPeriod = 4
  RtRuntime = 3
  NewRuntimes = {0, 99}
  RtDelta = {4}
  RtMaxTime = 1
  RtModes = {"share", "down", "online"}
  Groups = {ga, gb}
  GroupTasks = {"t"}
  Periods = {0, 2}
  Runtimes <- MCRuntimes
  GlobalWrites <- MCGlobalWrites
  RG_INF = 99
SPECIFICATION MCSpec
INVARIANTS ThrottledIsWatched
CHECK_DEADLOCK FALSE
