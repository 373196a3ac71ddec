SPECIFICATION FairSpec
CONSTANTS
  p1 = p1  p2 = p2
  Programs = {p1, p2}
  Alembic = Alembic
  Overlap = FALSE
  MaxFaults = 3
INVARIANTS TypeOK OneRevision EnsuredIsMigrated
PROPERTIES MigratedStaysMigrated EventuallyEnsured
