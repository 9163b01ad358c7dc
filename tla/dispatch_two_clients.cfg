SPECIFICATION FairSpec
CONSTANTS
  Callers = {game}
  Workers = {w1}
  Clients = {c1, c2}
  Tasks = {t1, t2}
  Faults = {}
  NoWorker = NoWorker
  NoTask = NoTask
  NoClient = NoClient
  NoThread = NoThread
PROPERTY EveryTaskRuns
