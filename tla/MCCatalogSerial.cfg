CONSTANTS
  c1 = c1
  c2 = c2
  Clients = {c1}
  Names <- MCNames
  None = None
  Requests <- MCRequests
  MaxId <- MCSerialMaxId

SPECIFICATION Spec


  

PROPERTIES
  
  ToolsOutliveDatasets
  ClonesHaveSources
