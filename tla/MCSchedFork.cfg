CONSTANTS
  Parts = {"wrr"}
  tA = tA  tB = tB  tC = tC  top = top  bg = bg
  TimeClock = 1
  MaxCharged = 1
  Idle = Idle  None = None
  Task = {tA, tB, tC}
  InitTask = {tA, tB}
  Worker = {}
  Group = {top, bg}
  Root = top
  Background = {bg}
  RtGroup = {top, bg}
  StaticPrio = {120, 121}
  RtPriority = {}
  Policy = {"NORMAL", "WRR"}
  ResetOnFork = {FALSE}
  SleepState = {"INTERRUPTIBLE"}
  WaiterPrio = {}
  RtBandwidth = FALSE
  MaxClock = 0
  WRR_FG_TIMESLICE = 2
  WRR_BG_TIMESLICE = 1
  UINT_RANGE = 8
SPECIFICATION MCSpec
INVARIANTS WrrPolicyIsWrrClass
CHECK_DEADLOCK FALSE
