SPECIFICATION Spec
CONSTANTS
  m1 = m1
  m2 = m2
  t1 = t1
  t2 = t2
  Process = {m1, m2}
  Call = {t1, t2}
  Of <- InTwo
  Nobody = Nobody
  Faults = {}
INVARIANT NeverTruncated
