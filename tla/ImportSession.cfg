SPECIFICATION Spec
CONSTANTS
  me = me  you = you  a = a  b = b  team = team  old = old  new = new
  i1 = i1  i2 = i2  i3 = i3  i4 = i4  g1 = g1  g2 = g2
  Partial = Partial  Bad = Bad  Poison = Poison  Junk = Junk  NotAList = NotAList  None = None
  Ids <- FourIds
  GroupIds <- TwoGroups
  Users <- TwoUsers
  Slugs <- TwoSlugs
  Names <- OneName
  Data <- TwoData
  Tables <- TwoTables
  Files <- SomeFiles
  MaxOps = 2
SYMMETRY Unborn
INVARIANTS TypeOK Accounted RoundTrip
PROPERTIES OthersUntouched
CHECK_DEADLOCK FALSE
