SPECIFICATION Spec
CONSTANTS
  t1 = t1  t2 = t2
  first = first  axb = axb  a_b = a_b
  Threads = {t1, t2}
  Initial <- MCInitial
  NewLogins = {axb, a_b}
  Nicknames = {axb}
  Like <- MCLike
  MaxUsers = 3
  DbMayFail = TRUE
  None = none
INVARIANTS TypeOK OwnPassword CachesMatchDb 
SYMMETRY Symmetry
