CONSTANTS
  tA = tA  tB = tB  tC = tC  top = top
  Watched = {tC}
  Idle = Idle  None = None
  Task = {tA, tB, tC}
  InitTask = {tA, tB, tC}
  Worker = {}
  Group = {top}
  Root = top
  Background = {}
  RtGroup = {top}
  StaticPrio = {120}
  ResetOnFork = {FALSE}
  SleepState = {"INTERRUPTIBLE"}
  RtPriority = {}
  Policy = {"WRR"}
  WaiterPrio = {}
  MaxClock = 0
  RtBandwidth = FALSE
  WRR_FG_TIMESLICE = 1
  WRR_BG_TIMESLICE = 1
  UINT_RANGE = 8
SPECIFICATION ServedSpec
PROPERTIES EveryWrrServed FirstComeFirstServed EveryRtRecovers
CHECK_DEADLOCK FALSE
