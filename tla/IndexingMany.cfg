SPECIFICATION Spec
CONSTANTS
  i1 = i1  i2 = i2  p1 = p1  p2 = p2
  text = text  yaml = yaml  binary = binary  root = root
  Indexers = {i1, i2}
  Paths = {p1}
  Contents = {text}
  Kind <- MixedKinds
  MaxSaves = 3
  MaxParser = 1
  MaxFaults = 0
  NoFile = NoFile  NoRow = NoRow  NoStat = NoStat  NoHash = NoHash  NoPath = NoPath
  Unreadable = Unreadable  Nothing = Nothing
INVARIANT SkippedFilesAreCurrent
