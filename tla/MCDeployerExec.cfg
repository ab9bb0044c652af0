SPECIFICATION Spec
CONSTANTS
  p1 = p1
  p2 = p2
  a = a
  ab = ab
  c = c
  d1 = d1
  d2 = d2
  u = u
  l1 = l1
  s1 = s1
  s2 = s2
  b1 = b1
  Absent = Absent
  Dir = Dir
  NoSrc = NoSrc
  NoEntry = NoEntry
  NoPath = NoPath
  NoSettings = NoSettings
  Below <- MCBelow
  Link = {l1}
  Src = {s1, s2, b1}
  Bundle = {b1}
  Data = {d1, d2, u}
  DirPerm = {d2}
  Path = {a, ab, c}
  Configs <- ExecConfigs
  Options <- OnlyApply
  Marker = NoPath
  Allowed = {"config"}
  UserNode = {u, Absent}
  MaxDisturbances = 1
  Proc = {p1}
INVARIANT DirectoryReplaced
