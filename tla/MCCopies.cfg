CONSTANTS
  Unused = Unused
  Deleted = Deleted
  Absent = Absent
  Nothing = Nothing
  Nobody = Nobody
  Solo = "u"
  Exporters = {"u"}
  Cloners = {"k1", "k2"}
  Editors = {"u", "e1"}
  DatasetIds = {1, 2}
  DatasetKeys = {"a", "b", ""}
  ToolNames = {"t"}
  Rels = {"r"}
  RowsOf = {"s", "o", "p"}
  Clean <- MCClean
  CopySlugs = {"g", "h"}
  Targets <- MCTargets
  PairKeys = {"a", "b"}
  PairRows = {"o"}
  SoloKeys = {"a", ""}
  FewSlugs = {"g"}
  Resetters = {"u"}
  Owners = {"u", "e1"}
  Team = {1, 2}
  TeamIds = {1, 2, 3}
  TeamRows = {"x", "y"}
  Matching <- MCMatching
  PairRowsets <- MCRowsets
  Spare = 3

SPECIFICATION CopiesSpec

INVARIANT
  CopiesAreWhole

PROPERTIES
  CopiesAreFaithful
  ResetsAreWhole
