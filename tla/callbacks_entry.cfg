SPECIFICATION Spec
CONSTANTS
  Tasks = {t1, t2}
  Packets = {"complete"}
  FreeGranted = {TRUE}
  Closing = {}
  Faults = {}
  JobThreads = {}
  NoTask = NoTask
SYMMETRY Symmetry
INVARIANT EntryLive
