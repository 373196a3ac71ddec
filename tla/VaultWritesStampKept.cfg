SPECIFICATION Spec
CONSTANTS
  s1 = s1  s2 = s2  n1 = n1  n2 = n2  n3 = n3  n4 = n4  x = x  y = y  u1 = u1  u2 = u2
  Plain = Plain
  Servers = {s1}
  Notes = {n1, n2, n3}
  Names = {x}
  NameOf <- SoloNames
  HeadOf <- PlainHeads
  Tags = {Plain, u1}
  Scope <- SoloScope
  EditorFiles = {}
  MaxBody = 2
  MaxFaults = 1
  NoNote = NoNote  NoSlot = NoSlot  NoHash = NoHash  StaleHash = StaleHash
  NoCall = NoCall  Absent = Absent
INVARIANT LiveNotesAreNotStamped
