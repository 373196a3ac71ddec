SPECIFICATION FairSpec
CONSTANTS
  i1 = i1  i2 = i2  p1 = p1  p2 = p2
  text = text  yaml = yaml  binary = binary  root = root
  Indexers = {i1}
  Paths = {p1, p2}
  Contents = {text, yaml, binary, root}
  Kind <- MixedKinds
  MaxSaves = 2
  MaxParser = 2
  MaxFaults = 2
  NoFile = NoFile  NoRow = NoRow  NoStat = NoStat  NoHash = NoHash  NoPath = NoPath
  Unreadable = Unreadable  Nothing = Nothing
INVARIANTS TypeOK SkippedFilesAreCurrent CleanStatusIsTrue
PROPERTIES SuccessCoversCandidates IndexCatchesUp
