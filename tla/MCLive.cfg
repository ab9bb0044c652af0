SPECIFICATION LiveSpec
CONSTANTS
  m1 = m1
  m2 = m2
  t1 = t1
  t2 = t2
  Process = {m1}
  Call = {t1, t2}
  Of <- InOne
  Nobody = Nobody
  Faults = {"fetch", "remove", "aside", "install", "restore", "crash"}
  p1 = p1
  a = a
  c = c
  d1 = d1
  d2 = d2
  u = u
  l1 = l1
  s1 = s1
  s2 = s2
  b1 = b1
  Absent = Absent
  Directory = Directory
  NoSrc = NoSrc
  NoEntry = NoEntry
  NoPath = NoPath
  NoSettings = NoSettings
INVARIANTS Whole
PROPERTIES FailureKeepsCache HitsStay EveryCallReturns Settles
