SPECIFICATION ReaderSpec
CONSTANTS
  Media = {m1, m2}
  TitleOf <- TwoTitles
  Live = {m1, m2}
  Capacity = 2
  Title = {t1, t2}
  All = All
  Admin = Admin
  NULL = NULL
  Xml = Xml
  Page = Page
  t1 = t1
  t2 = t2
INVARIANTS
  LookupsFit
