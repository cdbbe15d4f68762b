CONSTANTS
  t1 = t1  t2 = t2  f1 = f1  m1 = m1  m2 = m2  m3 = m3
  MTask = {t1, t2}
  MFirst = t1
  MFile = {f1}
  MCpu = {"cpu0"}
  Mm = {m1, m2, m3}
  MNone = MNone
  Layout <- MmLayout
  WqTask = {1, 2}
  DoneMod = 8
  MaxSignals = 2
  WqFlavour = {"U", "I", "K"}
  WqSignals = {"signal", "kill"}
  WqModes = {"completion", "queue"}
  LaCpus = {1, 2}
  LOAD_FREQ = 2
  LaWindow = 1
  LaMaxJiffies = 4
  LaActive = {0, 1}
  LaWeight = {0, 10, 1024}
  LaMissed = {0, 1, 5, 9}
  LaSleep = {5, 61}
  LaModes = {"nohz", "tick"}
SPECIFICATION LiveSpec
INVARIANTS MemoryExact SignalsExact LoadSumExact
PROPERTIES MemoryReturned WaitsEnd AveragesSettle
CHECK_DEADLOCK FALSE
