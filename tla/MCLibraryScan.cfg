SPECIFICATION Spec
CONSTANTS
  Roots <- TwoRoots
  Names <- OneName
  t1 = t1
  t2 = t2
  c1 = c1
  i1 = i1
  c2 = c2
  Titles = {t1, t2}
  Broken = Broken
  ISBNs = {}
  s1 = s1
  Shelves = {s1}
  Callbacks = {}
  Watched <- NoPaths
  NoRow = NoRow
  MaxBooks = 3
  MaxChanges = 4
  MaxLike = 0
  MaxScans = 3
  MaxClears = 0
  MaxCrashes = 1
SYMMETRY Symmetry
CHECK_DEADLOCK FALSE
INVARIANTS LocationsHaveBooks OneRolePerFile QuietScanIsComplete NoDuplicatesAfterScan
PROPERTY ShelvesSurvive
