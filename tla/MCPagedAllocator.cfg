SPECIFICATION Spec
CONSTANTS
  r1 = r1
  r2 = r2
  p1 = p1
  p2 = p2
  p3 = p3
  p4 = p4
  Reqs = {r1, r2}
  Pages = {p1, p2, p3, p4}
  PageSize = 2
  NeedSort = TRUE
  MaxLen = 5
SYMMETRY Symmetry
INVARIANTS TypeOK NoPageShared RowFitsLength NoPageLeaked NoDoubleFree
PROPERTY ImplementsPagePool
