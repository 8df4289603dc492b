SPECIFICATION FairSpec
CONSTANTS
  Media = {m1, m2}
  TitleOf <- SameTitle
  Live = {m2}
  Capacity = 2
  Title = {t1, t2}
  All = All
  Admin = Admin
  NULL = NULL
  t1 = t1
  t2 = t2
INVARIANTS
  ListedOnce
  DeleteComplete
  UnlistedFits
PROPERTIES
  ImplementsOnAir
  DeletionsWork
