SPECIFICATION FairSpec
CONSTANTS
  Callers = {game}
  Workers = {w1}
  Clients = {c1}
  Tasks = {t1, t2, t3}
  Faults = {}
  NoWorker = NoWorker
  NoTask = NoTask
  NoClient = NoClient
  NoThread = NoThread
INVARIANTS EntryHasThread NoStrandedTask
PROPERTY EveryTaskRuns
