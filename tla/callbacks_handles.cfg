SPECIFICATION Spec
CONSTANTS
  Tasks = {t1, t2}
  Packets = {"status", "complete", "fail"}
  FreeGranted = {TRUE, FALSE}
  Closing = {"task", "client", "unload"}
  Faults = {"AddTask", "CreateHandle", "MakeWorker", "Run"}
  JobThreads = {j1}
  NoTask = NoTask
SYMMETRY Symmetry
INVARIANTS TypeOK LiveTogether HandleInTime ReturnInTime EntryInTime
PROPERTY ClosedClientRests
