SPECIFICATION FairSpec
CONSTANTS
  Callers = {game}
  Workers = {w1}
  Loops = {l1, l2}
  Functions = {f1, f2}
  Jobs = {j1, j2}
  Faults = {"Define", "MakeThread", "CreateHandle", "Function", "FreeHandle", "Work"}
  Closing = TRUE
  NoWorker = NoWorker
  NoFunction = NoFunction
  NoJob = NoJob
INVARIANT OneThreadPerWorker
PROPERTIES OfferIsServed JobsRun
