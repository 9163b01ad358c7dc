SPECIFICATION Spec
CONSTANTS
  Callers = {game}
  Workers = {w1, w2}
  Loops = {l1, l2, l3}
  Functions = {f1}
  Jobs = {j1, j2}
  Faults = {"Define", "MakeThread", "CreateHandle", "Function", "FreeHandle", "Work"}
  Closing = TRUE
  NoWorker = NoWorker
  NoFunction = NoFunction
  NoJob = NoJob
SYMMETRY Symmetry
INVARIANTS TypeOK JobHandles
PROPERTY ServiceSpec
