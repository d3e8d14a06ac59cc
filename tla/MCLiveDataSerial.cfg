CONSTANTS
  d1 = d1
  d2 = d2
  c1 = c1
  c2 = c2
  Clients = {c1}
  Datasets <- MCDatasets
  Fields <- MCFields
  IdField = "id"
  Absent = Absent
  Requests <- MCRequests
  InitialRows = 2
  InitialLive <- MCInitialLive
  InitialSeed <- MCInitialSeed
  Echo = TRUE
  MaxRows = 4

SPECIFICATION Spec

PROPERTIES
  WritesTakeEffect
  RowIdsStandForOneRow
  UpdateKeepsOtherFields
  AssignedIdIsFresh
