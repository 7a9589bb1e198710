SPECIFICATION Spec
CONSTANTS
  Procs = {p1, p2, p3}
  Handles = {h1, h2, h3}
  Ttys = {t1, t2}
  Images = {i1, i2}
  MaxFd = 3
  Programs <- MCPrograms
  NULL = NULL
SYMMETRY Symmetry
INVARIANTS CountsInv FamilyInv UsedIsKept
PROPERTY ReapedByParent
