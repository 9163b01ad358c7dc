SPECIFICATION Spec
CONSTANTS
  Callers = {game}
  Workers = {w1, w2}
  Clients = {c1, c2}
  Tasks = {t1, t2, t3}
  Faults = {"AddTask", "Race", "MakeWorker", "Start", "MakeThread"}
  NoWorker = NoWorker
  NoTask = NoTask
  NoClient = NoClient
  NoThread = NoThread
INVARIANT SingleWorker
PROPERTY ServiceSpec
