CONSTANTS
  Parts = {"fork", "pid", "mem", "romfs", "watch", "drivers"}
  c1 = c1  c2 = c2  c3 = c3
  CpTask = {c1, c2, c3}
  CpInit = c1
  CpKeeps = {}
  CpNone = CpNone
  CpFlags <- MCFlags
  CpUnshareFlags <- MCUnshare
  MaxThreads = 2
  MaxForks = 2
  MaxObjs = 4
  CpAdj = {0, 1}
  d1 = d1  d2 = d2  d3 = d3
  PpTask = {d1, d2, d3}
  PpNone = PpNone
  PpMaxNr = 3
  PpReused = {2}
  PpMaxOut = 3
  PpHidden = {3}
  PpModes = {"readdir", "task", "lookup", "timers"}
  PmTop = 7
  PM_PAGE = 3
  PmCount = {1, 2, 5}
  Image <- RfImage
  RootPos = 1
  RfPages = 2
  RfParams <- MCParams
  RfModes = {"life", "look", "read", "list"}
  WTasks = {"p1", "p2"}
  WPids = {1}
  WReaders = {"r1", "r2"}
  WLone = "r1"
  WLens = {3}
  WMaxRefs = 2
  WThreads = {1, 2, 3}
  WMaxTicks = 3
  WPages = {1, 2, 3}
  WUnmapped = {2}
  WModes = {"text", "life", "cpu", "ram"}
  DOpeners = {"o1", "o2"}
  DPages = {0}
  DPageSize = 2
  DWord = 2
  DBytes = {0, 1}
  DMappers = {"m1", "m2"}
  DModes = {"mtest", "maptest"}
SPECIFICATION FileSpec
INVARIANTS SharingExact ListingsExact ReadBackExact NothingOutlives NameDecides ListingExact TaskStaysAllocated AnswersExact DriversExact
PROPERTIES WalkFindsLiving
CONSTRAINTS FewDentries OneFieldMore
SYMMETRY FileSym
CHECK_DEADLOCK FALSE
