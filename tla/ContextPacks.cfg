SPECIFICATION FairSpec
CONSTANTS
  a = a  b = b  c = c  f = f  g = g  h = h  nowhere = nowhere  tag = tag
  x = x  y = y
  Packs = {a, b, c}
  Files = {f, g, h}
  FileOrder <- Order
  Setups <- SomeSetups
  Texts <- SomeTexts
  Header = 1
  MaxTime = 2
  Absent = Absent  Unread = Unread
  NotUtf8 = NotUtf8  NotReadable = NotReadable
  Broken <- SomeBroken
INVARIANTS TypeOK
  CyclesAreReported ValidationIsExact PackIsItsFiles  BudgetHolds
  TruncatedAtSections SavedSinceIndexingIsWarned
PROPERTIES LoadsEnd
