CONSTANTS
  d1 = d1
  d2 = d2
  c1 = c1
  c2 = c2
  Clients = {c1, c2}
  Datasets <- MCDatasets
  Fields <- MCFields
  IdField = "id"
  Absent = Absent
  Requests <- MCRequests
  InitialRows = 2
  InitialLive <- MCInitialLive
  InitialSeed <- MCInitialSeed
  Echo = FALSE
  MaxRows = 3

SYMMETRY ClientSymmetry

SPECIFICATION Spec

INVARIANTS
  IInv
  LogTellsTheTruth

PROPERTIES
  OnlyTheRowFound
