SPECIFICATION Spec
CONSTANTS
  Tasks = {t1, t2}
  Packets = {"complete"}
  FreeGranted = {FALSE}
  Closing = {}
  Faults = {}
  JobThreads = {}
  NoTask = NoTask
SYMMETRY Symmetry
INVARIANT HandleKnown
