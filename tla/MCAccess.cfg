CONSTANTS
  c1 = c1
  c2 = c2
  ka = ka
  kn = kn
  t1 = t1
  t2 = t2
  None = None
  Clients = {c1, c2}
  KeyIds = {ka, kn}
  Tokens = {t1, t2}
  InitKeys <- MCInitKeys
  Writers = {"w1", "w2"}
  Callers = {"w1"}
  Ids = {1, 2, 3}
  Tools = {"a", "b"}
  Paths <- MCPaths
  Params = {"id"}
  Requests <- EveryRequest
  Bodies <- EveryBody
  Solo = "w1"
  SoloBodies <- ManyBodies
  PairBodies <- FewBodies
  PairRequests <- FewRequests
  Blank = Blank
  NoField = NoField
  Unused = Unused
  Deleted = Deleted
  Nothing = Nothing
  TTL = 1
  MaxClock = 1

SYMMETRY Symmetry

SPECIFICATION MCSpec

INVARIANTS
  NoEntryAfterTheEnd
  CallsAreRouted

PROPERTY
  CredentialsHold
