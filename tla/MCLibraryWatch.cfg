SPECIFICATION Spec
CONSTANTS
  Roots <- TwoRoots
  Names <- OneName
  t1 = t1
  t2 = t2
  c1 = c1
  i1 = i1
  c2 = c2
  Titles = {t1}
  Broken = Broken
  ISBNs = {i1}
  s1 = s1
  Shelves = {s1}
  Callbacks = {c1}
  Watched <- FirstPath
  NoRow = NoRow
  MaxBooks = 2
  MaxChanges = 3
  MaxLike = 1
  MaxScans = 1
  MaxClears = 1
  MaxCrashes = 0
SYMMETRY Symmetry
CHECK_DEADLOCK FALSE
INVARIANTS TypeOK SkippedIsFresh
PROPERTY OrphansStayOrphans
CONSTRAINT FewThingsHappen
