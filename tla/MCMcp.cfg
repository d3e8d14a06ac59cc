CONSTANTS
  Clients = {"c1"}
  Editors = {"e1"}
  Tools = {"a", "b"}
  Ids = {1, 2}
  Names = {"id", "order", "from", "unit-price", "limit", "q", "expand"}
  Identifiers = {"id", "status", "order", "from", "limit", "q", "expand"}
  Unnameable = {"unit-price", "from"}
  Shapes <- MCShapes
  Fields <- MCFields
  IdField = "id"
  Asks <- MCAsks
  Listing = Listing
  Absent = Absent
  Nothing = Nothing
  orders = orders
  customers = customers
  number = number
  digits = digits
  other = other
  Null = Null
  NoField = NoField
  NoName = NoName
  Datasets = {orders, customers}
  Columns = {"id", "ref"}
  ExpandNames = {"customer", "payer", "lines"}
  Values = {number, digits, other}
  Str <- MCStr
  RelSets <- MCRelSets
  RowSets <- MCRowSets
  Reads <- MCReads
  MaxNames = 2
  MaxChanges = 1

SPECIFICATION MCSpec

INVARIANTS
  TypeOK
  InSync
  ExpandsWhatIsRelated

PROPERTIES
  ExposedAsDeclared
