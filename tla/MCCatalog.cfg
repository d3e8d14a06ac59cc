CONSTANTS
  c1 = c1
  c2 = c2
  Clients = {c1, c2}
  Names <- MCNames
  None = None
  Requests <- MCRequests
  MaxId <- MCMaxId

SYMMETRY ClientSymmetry

SPECIFICATION Spec

INVARIANTS
  IInv
  OwnData
  UniqueNames

PROPERTIES
  IsolatedServers
  FaithfulCopies
