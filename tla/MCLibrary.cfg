SPECIFICATION MCSpec
SYMMETRY Symmetry
CONSTANTS
  p1 = p1
  p2 = p2
  t1 = t1
  t2 = t2
  f1 = f1
  f2 = f2
  f3 = f3
  f4 = f4
  i1 = i1
  i2 = i2
  i3 = i3
  u1 = u1
  u2 = u2
  None = None
  Paths = {p1, p2}
  Bins = {t1, t2}
  Beside <- Besides
  Files = {f1, f2, f3, f4}
  Content <- Pair
  Embedded <- Marks
  Ids = {i1, i2, i3}
  Requests = {u1, u2}
  Operations = {"import", "copy", "edit", "trash", "restore", "recover", "reindex"}
  MaxCalls = 3
  MaxMoves = 1
  MaxBoots = 2
INVARIANT TypeOK
INVARIANT IdFollowsFile
INVARIANT OneId
INVARIANT RestIsIndexed
INVARIANT TrashIsKept
INVARIANT PurgeGoesOn
CHECK_DEADLOCK FALSE
