SPECIFICATION Spec
CONSTANTS
  Callers = {game}
  Workers = {w1, w2}
  Loops = {l1, l2, l3}
  Functions = {f1}
  Jobs = {j1}
  Faults = {}
  Closing = FALSE
  NoWorker = NoWorker
  NoFunction = NoFunction
  NoJob = NoJob
INVARIANT OneThreadPerWorker
