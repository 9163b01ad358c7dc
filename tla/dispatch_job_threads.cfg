SPECIFICATION Spec
CONSTANTS
  Callers = {game, job}
  Workers = {w1, w2}
  Clients = {c1, c2}
  Tasks = {t1, t2, t3}
  Faults = {"AddTask", "Race", "MakeWorker", "Start", "MakeThread", "Run"}
  NoWorker = NoWorker
  NoTask = NoTask
  NoClient = NoClient
  NoThread = NoThread
SYMMETRY Symmetry
INVARIANTS TypeOK PopFindsEntry
