------------------------- MODULE TaskDispatchProofs -------------------------
(***************************************************************************)
(* Proofs about TaskDispatch, for every number of threads, workers,        *)
(* clients and tasks.                                                      *)
(*                                                                         *)
(* Inv is inductive whatever calls what and whatever fails. WorkerInv is   *)
(* inductive besides when one thread outside the worker executes plugin    *)
(* code, KeepInv when no worker is ever lost. The step lemmas show, action *)
(* by action, that each part survives a step; the theorems follow.         *)
(***************************************************************************)
EXTENDS TaskDispatch, TLAPS

\* A thread inside AddTask has a task to add.
CallInv == \A th \in Threads : pc[th] # "idle" => arg[th] \in Tasks

\* A worker thread is inside AddTask only below a task callback.
NestInv == \A w \in Workers : pc[w] # "idle" => run[w] = "callback"

\* The critical sections of AddToQueue and RunThread are entered with the lock.
LockInv ==
  /\ \A th \in Threads : pc[th] \in {"crit", "push"} => lockOwner = th
  /\ \A w \in Workers : run[w] \in {"crit", "pop"} => lockOwner = w

\* The lock is held by a thread that is going to unlock it.
HeldInv == \A th \in Threads : lockOwner = th => InSection(th)

\* The entry of m_TaskQueue and the obligation to pop it are one token: while
\* the queue is empty nobody holds it, and once pushed it is held by one pusher
\* on the way to MakeThread, or by one request, or by one RunThread, or is lost.
TokenInv ==
  /\ m_TaskQueue = <<>> \/ \E t \in Tasks : m_TaskQueue = <<t>>
  /\ \A th \in Threads : pc[th] = "push" => m_TaskQueue = <<>>
  /\ \A th \in Threads : pc[th] = "spawn" => m_TaskQueue # <<>>
  /\ \A w \in Workers : OwesPop(w) => m_TaskQueue # <<>>
  /\ \A a, b \in Threads : pc[a] = "spawn" /\ pc[b] = "spawn" => a = b
  /\ \A th \in Threads, w \in Workers : pc[th] = "spawn" => ~OwesPop(w)
  /\ \A v, w \in Workers : OwesPop(v) /\ OwesPop(w) => v = w
  /\ \A w \in Workers : requests[w] > 0 =>
       requests[w] = 1 /\ run[w] \notin {"lock", "crit", "pop"}

\* A context that is being added, queued or run has been built, with its client,
\* and RunThread pops the entry it has read.
ClientInv ==
  /\ \A t \in Tasks : status[t] # "absent" => client[t] \in Clients
  /\ \A th \in Threads : pc[th] # "idle" => status[arg[th]] # "absent"
  /\ \A t \in Tasks : m_TaskQueue = <<t>> => status[t] # "absent"
  /\ \A w \in Workers : run[w] = "pop" => m_TaskQueue = <<ctx[w]>>
  /\ \A w \in Workers : run[w] \in {"pop", "run", "callback"} =>
       ctx[w] \in Tasks /\ status[ctx[w]] # "absent"

\* The worker AddToQueue creates lazily, as one creating thread leaves it: a
\* worker that exists is m_pWorker, and who reaches the queue found it running.
WorkerInv ==
  /\ \A w \in Workers : workerState[w] \in {"made", "running"} => m_pWorker = w
  /\ \A w \in Workers : OwesPop(w) \/ run[w] # "idle" => workerState[w] = "running"
  /\ \A th \in Threads : pc[th] \in {"make", "start", "clear"} => th \in Callers
  /\ \A th \in Threads : pc[th] = "make" => m_pWorker = NoWorker
  /\ \A th \in Threads : pc[th] = "start" =>
       m_pWorker # NoWorker /\ workerState[m_pWorker] = "made"
  /\ \A th \in Threads : pc[th] = "clear" =>
       m_pWorker # NoWorker /\ workerState[m_pWorker] = "destroyed"
  /\ \A th \in Threads : pc[th] \in {"lock", "crit", "push", "spawn"} =>
       m_pWorker # NoWorker /\ workerState[m_pWorker] = "running"
  /\ m_pWorker # NoWorker =>
       \/ workerState[m_pWorker] = "running"
       \/ \E th \in Callers : pc[th] \in {"start", "clear"}
  /\ \A th \in Threads : pc[th] # "crashed"

\* As long as every worker starts, m_pWorker is set for good once it is set.
KeepInv ==
  /\ \A w \in Workers : workerState[w] # "destroyed"
  /\ \A th \in Threads : pc[th] = "start" => m_pWorker # NoWorker
  /\ \A th \in Threads : pc[th] # "clear"

Inv == FieldTypes /\ CallInv /\ NestInv /\ LockInv /\ HeldInv /\ TokenInv /\ ClientInv

\* Only the game thread, besides the worker itself, executes plugin code.
OneCaller == \A a, b \in Callers : a = b
\* The plugins share one GearmanClient_Create.
OneClient == \A c, d \in Clients : c = d

USE ConstantsAssumption DEF Threads

\* All m_TaskQueue ever is: empty, or one entry.
LEMMA Singleton ==
  ASSUME NEW t
  PROVE  /\ <<t>> # <<>>  /\ Head(<<t>>) = t  /\ Tail(<<t>>) = <<>>
         /\ Append(<<>>, t) = <<t>>  /\ Len(<<t>>) = 1  /\ Len(<<>>) = 0
  OBVIOUS

\* Every step keeps the type invariant; PopFirst and TakeFirst need the entry.
LEMMA TypeStep ==
  ASSUME FieldTypes, CallInv, TokenInv, [Next]_vars
  PROVE  FieldTypes'
<1> USE Singleton DEF FieldTypes, Statuses, WorkerStates, CallStates, RunStates,
          taskVars, workerVars, queueVars, callVars, runVars, Goto, Return,
          MayFail, CallInv, TokenInv, OwesPop
<1>1. ASSUME NEW th \in Threads, NEW t \in Tasks, NEW c \in Clients,
            AddTask(th, t, c)
     PROVE  FieldTypes'
  BY <1>1 DEF AddTask
<1>2. ASSUME NEW th \in Threads, CheckWorker(th)
     PROVE  FieldTypes'
  BY <1>2 DEF CheckWorker
<1>3. ASSUME NEW th \in Threads, MakeWorker(th)
     PROVE  FieldTypes'
  <2>1. m_pWorker' \in Workers \cup {NoWorker} /\ workerState' \in [Workers -> WorkerStates]
    BY <1>3 DEF MakeWorker
  <2>2. \/ Return(th)
        \/ \E label \in CallStates : Goto(th, label) /\ UNCHANGED arg
    BY <1>3 DEF MakeWorker
  <2>3. pc' \in [Threads -> CallStates] /\ arg' \in [Threads -> Tasks \cup {NoTask}]
    BY <2>2
  <2>4. UNCHANGED <<taskVars, requests, queueVars, runVars>>
    BY <1>3 DEF MakeWorker
  <2>5. QED
    BY <2>1, <2>3, <2>4
<1>4. ASSUME NEW th \in Threads, StartWorker(th)
     PROVE  FieldTypes'
  <2>1. workerState' \in [Workers -> WorkerStates]
    BY <1>4 DEF StartWorker
  <2>2. PICK label \in CallStates : Goto(th, label)
    BY <1>4 DEF StartWorker
  <2>3. pc' \in [Threads -> CallStates]
    BY <2>2
  <2>4. UNCHANGED <<taskVars, m_pWorker, requests, queueVars, arg, runVars>>
    BY <1>4 DEF StartWorker
  <2>5. QED
    BY <2>1, <2>3, <2>4
<1>5. ASSUME NEW th \in Threads, ClearWorker(th)
     PROVE  FieldTypes'
  BY <1>5 DEF ClearWorker
<1>6. ASSUME NEW th \in Threads, LockQueue(th)
     PROVE  FieldTypes'
  BY <1>6 DEF LockQueue
<1>7. ASSUME NEW th \in Threads, TestQueue(th)
     PROVE  FieldTypes'
  <2>1. \/ Return(th)
        \/ \E label \in CallStates : Goto(th, label) /\ UNCHANGED arg
    BY <1>7 DEF TestQueue
  <2>2. pc' \in [Threads -> CallStates] /\ arg' \in [Threads -> Tasks \cup {NoTask}]
    BY <2>1
  <2>3. lockOwner' \in Threads \cup {NoThread}
    BY <1>7 DEF TestQueue
  <2>4. UNCHANGED <<taskVars, workerVars, requests, m_TaskQueue, runVars>>
    BY <1>7 DEF TestQueue
  <2>5. QED
    BY <2>2, <2>3, <2>4
<1>8. ASSUME NEW th \in Threads, PushTask(th)
     PROVE  FieldTypes'
  BY <1>8 DEF PushTask
<1>9. ASSUME NEW th \in Threads, MakeThread(th)
     PROVE  FieldTypes'
  <2>1. requests' \in [Workers -> Nat]
    BY <1>9 DEF MakeThread
  <2>2. \/ Return(th)
        \/ \E label \in CallStates : Goto(th, label) /\ UNCHANGED arg
    BY <1>9 DEF MakeThread
  <2>3. pc' \in [Threads -> CallStates] /\ arg' \in [Threads -> Tasks \cup {NoTask}]
    BY <2>2
  <2>4. UNCHANGED <<taskVars, workerVars, queueVars, runVars>>
    BY <1>9 DEF MakeThread
  <2>5. QED
    BY <2>1, <2>3, <2>4
<1>10. ASSUME NEW w \in Workers, BeginRun(w)
     PROVE  FieldTypes'
  BY <1>10 DEF BeginRun
<1>11. ASSUME NEW w \in Workers, LockForPop(w)
     PROVE  FieldTypes'
  BY <1>11 DEF LockForPop
<1>12. ASSUME NEW w \in Workers, TakeFirst(w)
     PROVE  FieldTypes'
  <2>1. m_TaskQueue # <<>> => Head(m_TaskQueue) \in Tasks
    BY DEF TokenInv
  <2>2. ctx' \in [Workers -> Tasks \cup {NoTask}]
    BY <1>12, <2>1 DEF TakeFirst
  <2>3. run' \in [Workers -> RunStates]
    BY <1>12 DEF TakeFirst
  <2>4. lockOwner' \in Threads \cup {NoThread}
    BY <1>12 DEF TakeFirst
  <2>5. UNCHANGED <<taskVars, workerVars, requests, m_TaskQueue, callVars>>
    BY <1>12 DEF TakeFirst
  <2>6. QED
    BY <2>2, <2>3, <2>4, <2>5
<1>13. ASSUME NEW w \in Workers, PopFirst(w)
     PROVE  FieldTypes'
  BY <1>13 DEF PopFirst
<1>14. ASSUME NEW w \in Workers, NEW t \in Tasks, Submit(w, t)
     PROVE  FieldTypes'
  BY <1>14 DEF Submit
<1>15. ASSUME NEW w \in Workers, NEW t \in Tasks, Finish(w, t)
     PROVE  FieldTypes'
  BY <1>15 DEF Finish
<1>16. ASSUME NEW w \in Workers, CallbackReturns(w)
     PROVE  FieldTypes'
  BY <1>16 DEF CallbackReturns
<1>17. ASSUME NEW w \in Workers, RunReturns(w)
     PROVE  FieldTypes'
  BY <1>17 DEF RunReturns
<1>18. CASE UNCHANGED vars
  BY <1>18 DEF vars
<1>19. QED
  BY <1>1, <1>2, <1>3, <1>4, <1>5, <1>6, <1>7, <1>8, <1>9,
     <1>10, <1>11, <1>12, <1>13, <1>14, <1>15, <1>16, <1>17, <1>18
  DEF Next, NativeStep, RunStep, AtRest

\* Every step keeps CallInv.
LEMMA CallStep ==
  ASSUME FieldTypes, CallInv, [Next]_vars
  PROVE  CallInv'
<1> USE Singleton DEF FieldTypes, Statuses, WorkerStates, CallStates, RunStates,
          taskVars, workerVars, queueVars, callVars, runVars, Goto, Return,
          MayFail, CallInv
<1>1. ASSUME NEW th \in Threads, NEW t \in Tasks, NEW c \in Clients,
            AddTask(th, t, c)
     PROVE  CallInv'
  BY <1>1 DEF AddTask
<1>2. ASSUME NEW th \in Threads, CheckWorker(th)
     PROVE  CallInv'
  BY <1>2 DEF CheckWorker
<1>3. ASSUME NEW th \in Threads, MakeWorker(th)
     PROVE  CallInv'
  BY <1>3 DEF MakeWorker
<1>4. ASSUME NEW th \in Threads, StartWorker(th)
     PROVE  CallInv'
  BY <1>4 DEF StartWorker
<1>5. ASSUME NEW th \in Threads, ClearWorker(th)
     PROVE  CallInv'
  BY <1>5 DEF ClearWorker
<1>6. ASSUME NEW th \in Threads, LockQueue(th)
     PROVE  CallInv'
  BY <1>6 DEF LockQueue
<1>7. ASSUME NEW th \in Threads, TestQueue(th)
     PROVE  CallInv'
  BY <1>7 DEF TestQueue
<1>8. ASSUME NEW th \in Threads, PushTask(th)
     PROVE  CallInv'
  BY <1>8 DEF PushTask
<1>9. ASSUME NEW th \in Threads, MakeThread(th)
     PROVE  CallInv'
  BY <1>9 DEF MakeThread
<1>10. ASSUME NEW w \in Workers, BeginRun(w)
     PROVE  CallInv'
  BY <1>10 DEF BeginRun
<1>11. ASSUME NEW w \in Workers, LockForPop(w)
     PROVE  CallInv'
  BY <1>11 DEF LockForPop
<1>12. ASSUME NEW w \in Workers, TakeFirst(w)
     PROVE  CallInv'
  BY <1>12 DEF TakeFirst
<1>13. ASSUME NEW w \in Workers, PopFirst(w)
     PROVE  CallInv'
  BY <1>13 DEF PopFirst
<1>14. ASSUME NEW w \in Workers, NEW t \in Tasks, Submit(w, t)
     PROVE  CallInv'
  BY <1>14 DEF Submit
<1>15. ASSUME NEW w \in Workers, NEW t \in Tasks, Finish(w, t)
     PROVE  CallInv'
  BY <1>15 DEF Finish
<1>16. ASSUME NEW w \in Workers, CallbackReturns(w)
     PROVE  CallInv'
  BY <1>16 DEF CallbackReturns
<1>17. ASSUME NEW w \in Workers, RunReturns(w)
     PROVE  CallInv'
  BY <1>17 DEF RunReturns
<1>18. CASE UNCHANGED vars
  BY <1>18 DEF vars
<1>19. QED
  BY <1>1, <1>2, <1>3, <1>4, <1>5, <1>6, <1>7, <1>8, <1>9,
     <1>10, <1>11, <1>12, <1>13, <1>14, <1>15, <1>16, <1>17, <1>18
  DEF Next, NativeStep, RunStep, AtRest

\* Every step keeps NestInv: the native returns before its callback does.
LEMMA NestStep ==
  ASSUME FieldTypes, NestInv, [Next]_vars
  PROVE  NestInv'
<1> USE Singleton DEF FieldTypes, Statuses, WorkerStates, CallStates, RunStates,
          taskVars, workerVars, queueVars, callVars, runVars, Goto, Return,
          MayFail, NestInv
<1>1. ASSUME NEW th \in Threads, NEW t \in Tasks, NEW c \in Clients,
            AddTask(th, t, c)
     PROVE  NestInv'
  BY <1>1 DEF AddTask
<1>2. ASSUME NEW th \in Threads, CheckWorker(th)
     PROVE  NestInv'
  BY <1>2 DEF CheckWorker
<1>3. ASSUME NEW th \in Threads, MakeWorker(th)
     PROVE  NestInv'
  BY <1>3 DEF MakeWorker
<1>4. ASSUME NEW th \in Threads, StartWorker(th)
     PROVE  NestInv'
  BY <1>4 DEF StartWorker
<1>5. ASSUME NEW th \in Threads, ClearWorker(th)
     PROVE  NestInv'
  BY <1>5 DEF ClearWorker
<1>6. ASSUME NEW th \in Threads, LockQueue(th)
     PROVE  NestInv'
  BY <1>6 DEF LockQueue
<1>7. ASSUME NEW th \in Threads, TestQueue(th)
     PROVE  NestInv'
  BY <1>7 DEF TestQueue
<1>8. ASSUME NEW th \in Threads, PushTask(th)
     PROVE  NestInv'
  BY <1>8 DEF PushTask
<1>9. ASSUME NEW th \in Threads, MakeThread(th)
     PROVE  NestInv'
  BY <1>9 DEF MakeThread
<1>10. ASSUME NEW w \in Workers, BeginRun(w)
     PROVE  NestInv'
  BY <1>10 DEF BeginRun
<1>11. ASSUME NEW w \in Workers, LockForPop(w)
     PROVE  NestInv'
  BY <1>11 DEF LockForPop
<1>12. ASSUME NEW w \in Workers, TakeFirst(w)
     PROVE  NestInv'
  BY <1>12 DEF TakeFirst
<1>13. ASSUME NEW w \in Workers, PopFirst(w)
     PROVE  NestInv'
  BY <1>13 DEF PopFirst
<1>14. ASSUME NEW w \in Workers, NEW t \in Tasks, Submit(w, t)
     PROVE  NestInv'
  BY <1>14 DEF Submit
<1>15. ASSUME NEW w \in Workers, NEW t \in Tasks, Finish(w, t)
     PROVE  NestInv'
  BY <1>15 DEF Finish
<1>16. ASSUME NEW w \in Workers, CallbackReturns(w)
     PROVE  NestInv'
  BY <1>16 DEF CallbackReturns
<1>17. ASSUME NEW w \in Workers, RunReturns(w)
     PROVE  NestInv'
  BY <1>17 DEF RunReturns
<1>18. CASE UNCHANGED vars
  BY <1>18 DEF vars
<1>19. QED
  BY <1>1, <1>2, <1>3, <1>4, <1>5, <1>6, <1>7, <1>8, <1>9,
     <1>10, <1>11, <1>12, <1>13, <1>14, <1>15, <1>16, <1>17, <1>18
  DEF Next, NativeStep, RunStep, AtRest

\* Every step keeps LockInv: only the holder of the lock gives it up.
LEMMA LockStep ==
  ASSUME FieldTypes, NestInv, LockInv, [Next]_vars
  PROVE  LockInv'
<1> USE Singleton DEF FieldTypes, Statuses, WorkerStates, CallStates, RunStates,
          taskVars, workerVars, queueVars, callVars, runVars, Goto, Return,
          MayFail, LockInv, NestInv
<1>1. ASSUME NEW th \in Threads, NEW t \in Tasks, NEW c \in Clients,
            AddTask(th, t, c)
     PROVE  LockInv'
  BY <1>1 DEF AddTask
<1>2. ASSUME NEW th \in Threads, CheckWorker(th)
     PROVE  LockInv'
  BY <1>2 DEF CheckWorker
<1>3. ASSUME NEW th \in Threads, MakeWorker(th)
     PROVE  LockInv'
  BY <1>3 DEF MakeWorker
<1>4. ASSUME NEW th \in Threads, StartWorker(th)
     PROVE  LockInv'
  BY <1>4 DEF StartWorker
<1>5. ASSUME NEW th \in Threads, ClearWorker(th)
     PROVE  LockInv'
  BY <1>5 DEF ClearWorker
<1>6. ASSUME NEW th \in Threads, LockQueue(th)
     PROVE  LockInv'
  BY <1>6 DEF LockQueue
<1>7. ASSUME NEW th \in Threads, TestQueue(th)
     PROVE  LockInv'
  <2>1. /\ \A x \in Threads \ {th} : pc[x] \notin {"crit", "push"}
        /\ \A w \in Workers : run[w] \notin {"crit", "pop"}
        /\ lockOwner = th
    BY <1>7 DEF TestQueue
  <2>2. CASE m_TaskQueue # <<>>
    <3>1. pc' = [pc EXCEPT ![th] = "idle"] /\ run' = run
      BY <1>7, <2>2 DEF TestQueue
    <3>2. QED
      BY <2>1, <3>1
  <2>3. CASE m_TaskQueue = <<>>
    <3>1. pc' = [pc EXCEPT ![th] = "push"] /\ run' = run /\ lockOwner' = th
      BY <1>7, <2>1, <2>3 DEF TestQueue
    <3>2. QED
      BY <2>1, <3>1
  <2>4. QED
    BY <2>2, <2>3
<1>8. ASSUME NEW th \in Threads, PushTask(th)
     PROVE  LockInv'
  BY <1>8 DEF PushTask
<1>9. ASSUME NEW th \in Threads, MakeThread(th)
     PROVE  LockInv'
  BY <1>9 DEF MakeThread
<1>10. ASSUME NEW w \in Workers, BeginRun(w)
     PROVE  LockInv'
  BY <1>10 DEF BeginRun
<1>11. ASSUME NEW w \in Workers, LockForPop(w)
     PROVE  LockInv'
  BY <1>11 DEF LockForPop
<1>12. ASSUME NEW w \in Workers, TakeFirst(w)
     PROVE  LockInv'
  <2>1. lockOwner = w
    BY <1>12 DEF TakeFirst
  <2>2. CASE m_TaskQueue # <<>>
    BY <1>12, <2>1, <2>2 DEF TakeFirst
  <2>3. CASE m_TaskQueue = <<>>
    BY <1>12, <2>1, <2>3 DEF TakeFirst
  <2>4. QED
    BY <2>2, <2>3
<1>13. ASSUME NEW w \in Workers, PopFirst(w)
     PROVE  LockInv'
  BY <1>13 DEF PopFirst
<1>14. ASSUME NEW w \in Workers, NEW t \in Tasks, Submit(w, t)
     PROVE  LockInv'
  BY <1>14 DEF Submit
<1>15. ASSUME NEW w \in Workers, NEW t \in Tasks, Finish(w, t)
     PROVE  LockInv'
  BY <1>15 DEF Finish
<1>16. ASSUME NEW w \in Workers, CallbackReturns(w)
     PROVE  LockInv'
  BY <1>16 DEF CallbackReturns
<1>17. ASSUME NEW w \in Workers, RunReturns(w)
     PROVE  LockInv'
  BY <1>17 DEF RunReturns
<1>18. CASE UNCHANGED vars
  BY <1>18 DEF vars
<1>19. QED
  BY <1>1, <1>2, <1>3, <1>4, <1>5, <1>6, <1>7, <1>8, <1>9,
     <1>10, <1>11, <1>12, <1>13, <1>14, <1>15, <1>16, <1>17, <1>18
  DEF Next, NativeStep, RunStep, AtRest

\* Every step keeps HeldInv: who leaves a critical section has unlocked.
LEMMA HeldStep ==
  ASSUME FieldTypes, NestInv, LockInv, HeldInv, [Next]_vars
  PROVE  HeldInv'
<1> USE Singleton DEF FieldTypes, Statuses, WorkerStates, CallStates, RunStates,
          taskVars, workerVars, queueVars, callVars, runVars, Goto, Return,
          MayFail, LockInv, HeldInv, NestInv, InSection
<1>1. ASSUME NEW th \in Threads, NEW t \in Tasks, NEW c \in Clients,
            AddTask(th, t, c)
     PROVE  HeldInv'
  BY <1>1 DEF AddTask
<1>2. ASSUME NEW th \in Threads, CheckWorker(th)
     PROVE  HeldInv'
  BY <1>2 DEF CheckWorker
<1>3. ASSUME NEW th \in Threads, MakeWorker(th)
     PROVE  HeldInv'
  BY <1>3 DEF MakeWorker
<1>4. ASSUME NEW th \in Threads, StartWorker(th)
     PROVE  HeldInv'
  BY <1>4 DEF StartWorker
<1>5. ASSUME NEW th \in Threads, ClearWorker(th)
     PROVE  HeldInv'
  BY <1>5 DEF ClearWorker
<1>6. ASSUME NEW th \in Threads, LockQueue(th)
     PROVE  HeldInv'
  BY <1>6 DEF LockQueue
<1>7. ASSUME NEW th \in Threads, TestQueue(th)
     PROVE  HeldInv'
  <2>1. lockOwner = th
    BY <1>7 DEF TestQueue, LockInv
  <2>2. CASE m_TaskQueue # <<>>
    <3>1. lockOwner' = NoThread
      BY <1>7, <2>2 DEF TestQueue
    <3>2. QED
      BY <3>1
  <2>3. CASE m_TaskQueue = <<>>
    <3>1. pc' = [pc EXCEPT ![th] = "push"] /\ run' = run /\ lockOwner' = th
      BY <1>7, <2>1, <2>3 DEF TestQueue
    <3>2. QED
      BY <3>1
  <2>4. QED
    BY <2>2, <2>3
<1>8. ASSUME NEW th \in Threads, PushTask(th)
     PROVE  HeldInv'
  BY <1>8 DEF PushTask
<1>9. ASSUME NEW th \in Threads, MakeThread(th)
     PROVE  HeldInv'
  BY <1>9 DEF MakeThread
<1>10. ASSUME NEW w \in Workers, BeginRun(w)
     PROVE  HeldInv'
  BY <1>10 DEF BeginRun
<1>11. ASSUME NEW w \in Workers, LockForPop(w)
     PROVE  HeldInv'
  BY <1>11 DEF LockForPop
<1>12. ASSUME NEW w \in Workers, TakeFirst(w)
     PROVE  HeldInv'
  <2>1. lockOwner = w
    BY <1>12 DEF TakeFirst
  <2>2. CASE m_TaskQueue # <<>>
    BY <1>12, <2>1, <2>2 DEF TakeFirst
  <2>3. CASE m_TaskQueue = <<>>
    BY <1>12, <2>1, <2>3 DEF TakeFirst
  <2>4. QED
    BY <2>2, <2>3
<1>13. ASSUME NEW w \in Workers, PopFirst(w)
     PROVE  HeldInv'
  BY <1>13 DEF PopFirst
<1>14. ASSUME NEW w \in Workers, NEW t \in Tasks, Submit(w, t)
     PROVE  HeldInv'
  BY <1>14 DEF Submit
<1>15. ASSUME NEW w \in Workers, NEW t \in Tasks, Finish(w, t)
     PROVE  HeldInv'
  BY <1>15 DEF Finish
<1>16. ASSUME NEW w \in Workers, CallbackReturns(w)
     PROVE  HeldInv'
  BY <1>16 DEF CallbackReturns
<1>17. ASSUME NEW w \in Workers, RunReturns(w)
     PROVE  HeldInv'
  BY <1>17 DEF RunReturns
<1>18. CASE UNCHANGED vars
  BY <1>18 DEF vars
<1>19. QED
  BY <1>1, <1>2, <1>3, <1>4, <1>5, <1>6, <1>7, <1>8, <1>9,
     <1>10, <1>11, <1>12, <1>13, <1>14, <1>15, <1>16, <1>17, <1>18
  DEF Next, NativeStep, RunStep, AtRest

\* Every step keeps TokenInv: the token is passed on, never copied.
LEMMA TokenStep ==
  ASSUME FieldTypes, CallInv, NestInv, LockInv, TokenInv, [Next]_vars
  PROVE  TokenInv'
<1> USE Singleton DEF FieldTypes, Statuses, WorkerStates, CallStates, RunStates,
          taskVars, workerVars, queueVars, callVars, runVars, Goto, Return,
          MayFail, CallInv, LockInv, NestInv, TokenInv, OwesPop
<1>1. ASSUME NEW th \in Threads, NEW t \in Tasks, NEW c \in Clients,
            AddTask(th, t, c)
     PROVE  TokenInv'
  BY <1>1 DEF AddTask
<1>2. ASSUME NEW th \in Threads, CheckWorker(th)
     PROVE  TokenInv'
  BY <1>2 DEF CheckWorker
<1>3. ASSUME NEW th \in Threads, MakeWorker(th)
     PROVE  TokenInv'
  BY <1>3 DEF MakeWorker
<1>4. ASSUME NEW th \in Threads, StartWorker(th)
     PROVE  TokenInv'
  <2>1. UNCHANGED <<m_TaskQueue, requests, run>>
    BY <1>4 DEF StartWorker
  <2>2. \A x \in Threads : pc'[x] \in {"push", "spawn"} => pc[x] = pc'[x]
    BY <1>4 DEF StartWorker
  <2>3. QED
    BY <2>1, <2>2
<1>5. ASSUME NEW th \in Threads, ClearWorker(th)
     PROVE  TokenInv'
  BY <1>5 DEF ClearWorker
<1>6. ASSUME NEW th \in Threads, LockQueue(th)
     PROVE  TokenInv'
  BY <1>6 DEF LockQueue
<1>7. ASSUME NEW th \in Threads, TestQueue(th)
     PROVE  TokenInv'
  BY <1>7 DEF TestQueue
<1>8. ASSUME NEW th \in Threads, PushTask(th)
     PROVE  TokenInv'
  <2>1. arg[th] \in Tasks /\ m_TaskQueue = <<>> /\ m_TaskQueue' = <<arg[th]>>
    BY <1>8 DEF PushTask
  <2>2. \A x \in Threads : pc[x] # "spawn" /\ (pc[x] = "push" => x = th)
    BY <1>8, <2>1 DEF PushTask
  <2>3. \A x \in Threads : pc'[x] # "push" /\ (pc'[x] = "spawn" => x = th)
    BY <1>8, <2>2 DEF PushTask
  <2>4. \A w \in Workers : ~OwesPop(w) /\ requests'[w] = requests[w] /\ run'[w] = run[w]
    BY <1>8, <2>1 DEF PushTask
  <2>5. QED
    BY <2>1, <2>3, <2>4
<1>9. ASSUME NEW th \in Threads, MakeThread(th)
     PROVE  TokenInv'
  <2>1. m_TaskQueue # <<>> /\ \A w \in Workers : ~OwesPop(w)
    BY <1>9 DEF MakeThread
  <2>2. \A x \in Threads : pc'[x] # "spawn" /\ (pc'[x] = "push" => pc[x] = "push")
    BY <1>9 DEF MakeThread
  <2>3. \/ UNCHANGED requests
        \/ \E w \in Workers : requests' = [requests EXCEPT ![w] = @ + 1]
    BY <1>9 DEF MakeThread
  <2>4. UNCHANGED <<m_TaskQueue, run>>
    BY <1>9 DEF MakeThread
  <2>5. QED
    BY <2>1, <2>2, <2>3, <2>4
<1>10. ASSUME NEW w \in Workers, BeginRun(w)
     PROVE  TokenInv'
  BY <1>10 DEF BeginRun
<1>11. ASSUME NEW w \in Workers, LockForPop(w)
     PROVE  TokenInv'
  BY <1>11 DEF LockForPop
<1>12. ASSUME NEW w \in Workers, TakeFirst(w)
     PROVE  TokenInv'
  BY <1>12 DEF TakeFirst
<1>13. ASSUME NEW w \in Workers, PopFirst(w)
     PROVE  TokenInv'
  BY <1>13 DEF PopFirst
<1>14. ASSUME NEW w \in Workers, NEW t \in Tasks, Submit(w, t)
     PROVE  TokenInv'
  BY <1>14 DEF Submit
<1>15. ASSUME NEW w \in Workers, NEW t \in Tasks, Finish(w, t)
     PROVE  TokenInv'
  BY <1>15 DEF Finish
<1>16. ASSUME NEW w \in Workers, CallbackReturns(w)
     PROVE  TokenInv'
  BY <1>16 DEF CallbackReturns
<1>17. ASSUME NEW w \in Workers, RunReturns(w)
     PROVE  TokenInv'
  BY <1>17 DEF RunReturns
<1>18. CASE UNCHANGED vars
  BY <1>18 DEF vars
<1>19. QED
  BY <1>1, <1>2, <1>3, <1>4, <1>5, <1>6, <1>7, <1>8, <1>9,
     <1>10, <1>11, <1>12, <1>13, <1>14, <1>15, <1>16, <1>17, <1>18
  DEF Next, NativeStep, RunStep, AtRest

\* Every step keeps ClientInv.
LEMMA ClientStep ==
  ASSUME Inv, [Next]_vars
  PROVE  ClientInv'
<1> USE Singleton DEF FieldTypes, Statuses, WorkerStates, CallStates, RunStates,
          taskVars, workerVars, queueVars, callVars, runVars, Goto, Return,
          MayFail, Inv, CallInv, LockInv, NestInv, TokenInv, OwesPop, ClientInv
<1>1. ASSUME NEW th \in Threads, NEW t \in Tasks, NEW c \in Clients,
            AddTask(th, t, c)
     PROVE  ClientInv'
  BY <1>1 DEF AddTask
<1>2. ASSUME NEW th \in Threads, CheckWorker(th)
     PROVE  ClientInv'
  BY <1>2 DEF CheckWorker
<1>3. ASSUME NEW th \in Threads, MakeWorker(th)
     PROVE  ClientInv'
  BY <1>3 DEF MakeWorker
<1>4. ASSUME NEW th \in Threads, StartWorker(th)
     PROVE  ClientInv'
  BY <1>4 DEF StartWorker
<1>5. ASSUME NEW th \in Threads, ClearWorker(th)
     PROVE  ClientInv'
  BY <1>5 DEF ClearWorker
<1>6. ASSUME NEW th \in Threads, LockQueue(th)
     PROVE  ClientInv'
  BY <1>6 DEF LockQueue
<1>7. ASSUME NEW th \in Threads, TestQueue(th)
     PROVE  ClientInv'
  BY <1>7 DEF TestQueue
<1>8. ASSUME NEW th \in Threads, PushTask(th)
     PROVE  ClientInv'
  <2>1. arg[th] \in Tasks /\ status[arg[th]] # "absent" /\ m_TaskQueue' = <<arg[th]>>
    BY <1>8 DEF PushTask
  <2>2. \A w \in Workers : run[w] # "pop"
    BY <1>8 DEF PushTask
  <2>3. UNCHANGED <<status, client, arg, run, ctx>>
    BY <1>8 DEF PushTask
  <2>4. \A x \in Threads : pc'[x] # "idle" => pc[x] # "idle"
    BY <1>8 DEF PushTask
  <2>5. \A t \in Tasks : m_TaskQueue' = <<t>> => t = arg[th]
    BY <2>1
  <2>6. QED
    BY <2>1, <2>2, <2>3, <2>4, <2>5
<1>9. ASSUME NEW th \in Threads, MakeThread(th)
     PROVE  ClientInv'
  BY <1>9 DEF MakeThread
<1>10. ASSUME NEW w \in Workers, BeginRun(w)
     PROVE  ClientInv'
  BY <1>10 DEF BeginRun
<1>11. ASSUME NEW w \in Workers, LockForPop(w)
     PROVE  ClientInv'
  BY <1>11 DEF LockForPop
<1>12. ASSUME NEW w \in Workers, TakeFirst(w)
     PROVE  ClientInv'
  <2>1. CASE m_TaskQueue = <<>>
    BY <1>12, <2>1 DEF TakeFirst
  <2>2. CASE m_TaskQueue # <<>>
    <3>1. PICK t \in Tasks : m_TaskQueue = <<t>>
      BY <2>2
    <3>2. ctx' = [ctx EXCEPT ![w] = t] /\ run' = [run EXCEPT ![w] = "pop"]
      BY <1>12, <2>2, <3>1 DEF TakeFirst
    <3>3. UNCHANGED <<status, client, m_TaskQueue, pc, arg>>
      BY <1>12 DEF TakeFirst
    <3>4. QED
      BY <3>1, <3>2, <3>3
  <2>3. QED
    BY <2>1, <2>2
<1>13. ASSUME NEW w \in Workers, PopFirst(w)
     PROVE  ClientInv'
  <2>1. m_TaskQueue' = <<>> /\ UNCHANGED <<taskVars, callVars, ctx>>
    BY <1>13 DEF PopFirst
  <2>2. \A v \in Workers : run[v] = "pop" => v = w
    BY <1>13 DEF PopFirst
  <2>3. run[w] = "pop" /\ run' = [run EXCEPT ![w] = "run"]
    BY <1>13 DEF PopFirst
  <2>4. QED
    BY <2>1, <2>2, <2>3
<1>14. ASSUME NEW w \in Workers, NEW t \in Tasks, Submit(w, t)
     PROVE  ClientInv'
  BY <1>14 DEF Submit
<1>15. ASSUME NEW w \in Workers, NEW t \in Tasks, Finish(w, t)
     PROVE  ClientInv'
  BY <1>15 DEF Finish
<1>16. ASSUME NEW w \in Workers, CallbackReturns(w)
     PROVE  ClientInv'
  BY <1>16 DEF CallbackReturns
<1>17. ASSUME NEW w \in Workers, RunReturns(w)
     PROVE  ClientInv'
  BY <1>17 DEF RunReturns
<1>18. CASE UNCHANGED vars
  BY <1>18 DEF vars
<1>19. QED
  BY <1>1, <1>2, <1>3, <1>4, <1>5, <1>6, <1>7, <1>8, <1>9,
     <1>10, <1>11, <1>12, <1>13, <1>14, <1>15, <1>16, <1>17, <1>18
  DEF Next, NativeStep, RunStep, AtRest

\* With one caller, every step keeps WorkerInv.
LEMMA WorkerStep ==
  ASSUME OneCaller, Inv, WorkerInv, [Next]_vars
  PROVE  WorkerInv'
<1> USE Singleton DEF FieldTypes, Statuses, WorkerStates, CallStates, RunStates,
          taskVars, workerVars, queueVars, callVars, runVars, Goto, Return,
          MayFail, OneCaller, Inv, CallInv, NestInv, TokenInv, OwesPop,
          WorkerInv
<1>1. ASSUME NEW th \in Threads, NEW t \in Tasks, NEW c \in Clients,
            AddTask(th, t, c)
     PROVE  WorkerInv'
  BY <1>1 DEF AddTask
<1>2. ASSUME NEW th \in Threads, CheckWorker(th)
     PROVE  WorkerInv'
  <2>1. CASE m_pWorker = NoWorker
    <3>1. th \in Callers
      BY <1>2, <2>1 DEF CheckWorker
    <3>2. QED
      BY <1>2, <2>1, <3>1 DEF CheckWorker
  <2>2. CASE m_pWorker # NoWorker
    <3>1. workerState[m_pWorker] = "running"
      BY <1>2, <2>2 DEF CheckWorker
    <3>2. pc' = [pc EXCEPT ![th] = "lock"]
      BY <1>2, <2>2 DEF CheckWorker
    <3>3. UNCHANGED <<workerVars, requests, runVars>>
      BY <1>2 DEF CheckWorker
    <3>4. QED
      BY <1>2, <2>2, <3>1, <3>2, <3>3 DEF CheckWorker
  <2>3. QED
    BY <2>1, <2>2
<1>3. ASSUME NEW th \in Threads, MakeWorker(th)
     PROVE  WorkerInv'
  BY <1>3 DEF MakeWorker
<1>4. ASSUME NEW th \in Threads, StartWorker(th)
     PROVE  WorkerInv'
  BY <1>4 DEF StartWorker
<1>5. ASSUME NEW th \in Threads, ClearWorker(th)
     PROVE  WorkerInv'
  <2>1. th \in Callers
    BY <1>5 DEF ClearWorker
  <2>2. \A w \in Workers : workerState[w] \notin {"made", "running"}
    BY <1>5, <2>1 DEF ClearWorker
  <2>3. \A x \in Threads : pc[x] \in {"idle", "check", "clear"}
    BY <2>2, <1>5, <2>1 DEF ClearWorker
  <2>4. QED
    BY <1>5, <2>1, <2>2, <2>3 DEF ClearWorker
<1>6. ASSUME NEW th \in Threads, LockQueue(th)
     PROVE  WorkerInv'
  BY <1>6 DEF LockQueue
<1>7. ASSUME NEW th \in Threads, TestQueue(th)
     PROVE  WorkerInv'
  BY <1>7 DEF TestQueue
<1>8. ASSUME NEW th \in Threads, PushTask(th)
     PROVE  WorkerInv'
  BY <1>8 DEF PushTask
<1>9. ASSUME NEW th \in Threads, MakeThread(th)
     PROVE  WorkerInv'
  BY <1>9 DEF MakeThread
<1>10. ASSUME NEW w \in Workers, BeginRun(w)
     PROVE  WorkerInv'
  BY <1>10 DEF BeginRun
<1>11. ASSUME NEW w \in Workers, LockForPop(w)
     PROVE  WorkerInv'
  BY <1>11 DEF LockForPop
<1>12. ASSUME NEW w \in Workers, TakeFirst(w)
     PROVE  WorkerInv'
  BY <1>12 DEF TakeFirst
<1>13. ASSUME NEW w \in Workers, PopFirst(w)
     PROVE  WorkerInv'
  BY <1>13 DEF PopFirst
<1>14. ASSUME NEW w \in Workers, NEW t \in Tasks, Submit(w, t)
     PROVE  WorkerInv'
  BY <1>14 DEF Submit
<1>15. ASSUME NEW w \in Workers, NEW t \in Tasks, Finish(w, t)
     PROVE  WorkerInv'
  BY <1>15 DEF Finish
<1>16. ASSUME NEW w \in Workers, CallbackReturns(w)
     PROVE  WorkerInv'
  BY <1>16 DEF CallbackReturns
<1>17. ASSUME NEW w \in Workers, RunReturns(w)
     PROVE  WorkerInv'
  BY <1>17 DEF RunReturns
<1>18. CASE UNCHANGED vars
  BY <1>18 DEF vars
<1>19. QED
  BY <1>1, <1>2, <1>3, <1>4, <1>5, <1>6, <1>7, <1>8, <1>9,
     <1>10, <1>11, <1>12, <1>13, <1>14, <1>15, <1>16, <1>17, <1>18
  DEF Next, NativeStep, RunStep, AtRest

\* With one caller and requests that are never refused, the token is not lost.
LEMMA EntryStep ==
  ASSUME OneCaller, ~MayFail("MakeThread"), Inv, WorkerInv, EntryHasThread,
         [Next]_vars
  PROVE  EntryHasThread'
<1> USE Singleton DEF FieldTypes, Statuses, WorkerStates, CallStates, RunStates,
          taskVars, workerVars, queueVars, callVars, runVars, Goto, Return,
          MayFail, Inv, CallInv, TokenInv, OwesPop, WorkerInv, EntryHasThread
<1>1. ASSUME NEW th \in Threads, NEW t \in Tasks, NEW c \in Clients,
            AddTask(th, t, c)
     PROVE  EntryHasThread'
  BY <1>1 DEF AddTask
<1>2. ASSUME NEW th \in Threads, CheckWorker(th)
     PROVE  EntryHasThread'
  BY <1>2 DEF CheckWorker
<1>3. ASSUME NEW th \in Threads, MakeWorker(th)
     PROVE  EntryHasThread'
  BY <1>3 DEF MakeWorker
<1>4. ASSUME NEW th \in Threads, StartWorker(th)
     PROVE  EntryHasThread'
  BY <1>4 DEF StartWorker
<1>5. ASSUME NEW th \in Threads, ClearWorker(th)
     PROVE  EntryHasThread'
  BY <1>5 DEF ClearWorker
<1>6. ASSUME NEW th \in Threads, LockQueue(th)
     PROVE  EntryHasThread'
  BY <1>6 DEF LockQueue
<1>7. ASSUME NEW th \in Threads, TestQueue(th)
     PROVE  EntryHasThread'
  BY <1>7 DEF TestQueue
<1>8. ASSUME NEW th \in Threads, PushTask(th)
     PROVE  EntryHasThread'
  BY <1>8 DEF PushTask
<1>9. ASSUME NEW th \in Threads, MakeThread(th)
     PROVE  EntryHasThread'
  BY <1>9 DEF MakeThread
<1>10. ASSUME NEW w \in Workers, BeginRun(w)
     PROVE  EntryHasThread'
  BY <1>10 DEF BeginRun
<1>11. ASSUME NEW w \in Workers, LockForPop(w)
     PROVE  EntryHasThread'
  BY <1>11 DEF LockForPop
<1>12. ASSUME NEW w \in Workers, TakeFirst(w)
     PROVE  EntryHasThread'
  BY <1>12 DEF TakeFirst
<1>13. ASSUME NEW w \in Workers, PopFirst(w)
     PROVE  EntryHasThread'
  BY <1>13 DEF PopFirst
<1>14. ASSUME NEW w \in Workers, NEW t \in Tasks, Submit(w, t)
     PROVE  EntryHasThread'
  BY <1>14 DEF Submit
<1>15. ASSUME NEW w \in Workers, NEW t \in Tasks, Finish(w, t)
     PROVE  EntryHasThread'
  BY <1>15 DEF Finish
<1>16. ASSUME NEW w \in Workers, CallbackReturns(w)
     PROVE  EntryHasThread'
  BY <1>16 DEF CallbackReturns
<1>17. ASSUME NEW w \in Workers, RunReturns(w)
     PROVE  EntryHasThread'
  BY <1>17 DEF RunReturns
<1>18. CASE UNCHANGED vars
  BY <1>18 DEF vars
<1>19. QED
  BY <1>1, <1>2, <1>3, <1>4, <1>5, <1>6, <1>7, <1>8, <1>9,
     <1>10, <1>11, <1>12, <1>13, <1>14, <1>15, <1>16, <1>17, <1>18
  DEF Next, NativeStep, RunStep, AtRest

\* When workers are always made and started, every step keeps KeepInv.
LEMMA KeepStep ==
  ASSUME ~MayFail("MakeWorker"), ~MayFail("Start"), Inv, KeepInv, [Next]_vars
  PROVE  KeepInv'
<1> USE Singleton DEF FieldTypes, Statuses, WorkerStates, CallStates, RunStates,
          taskVars, workerVars, queueVars, callVars, runVars, Goto, Return,
          MayFail, Inv, KeepInv
<1>1. ASSUME NEW th \in Threads, NEW t \in Tasks, NEW c \in Clients,
            AddTask(th, t, c)
     PROVE  KeepInv'
  BY <1>1 DEF AddTask
<1>2. ASSUME NEW th \in Threads, CheckWorker(th)
     PROVE  KeepInv'
  BY <1>2 DEF CheckWorker
<1>3. ASSUME NEW th \in Threads, MakeWorker(th)
     PROVE  KeepInv'
  BY <1>3 DEF MakeWorker
<1>4. ASSUME NEW th \in Threads, StartWorker(th)
     PROVE  KeepInv'
  BY <1>4 DEF StartWorker
<1>5. ASSUME NEW th \in Threads, ClearWorker(th)
     PROVE  KeepInv'
  BY <1>5 DEF ClearWorker
<1>6. ASSUME NEW th \in Threads, LockQueue(th)
     PROVE  KeepInv'
  BY <1>6 DEF LockQueue
<1>7. ASSUME NEW th \in Threads, TestQueue(th)
     PROVE  KeepInv'
  BY <1>7 DEF TestQueue
<1>8. ASSUME NEW th \in Threads, PushTask(th)
     PROVE  KeepInv'
  BY <1>8 DEF PushTask
<1>9. ASSUME NEW th \in Threads, MakeThread(th)
     PROVE  KeepInv'
  BY <1>9 DEF MakeThread
<1>10. ASSUME NEW w \in Workers, BeginRun(w)
     PROVE  KeepInv'
  BY <1>10 DEF BeginRun
<1>11. ASSUME NEW w \in Workers, LockForPop(w)
     PROVE  KeepInv'
  BY <1>11 DEF LockForPop
<1>12. ASSUME NEW w \in Workers, TakeFirst(w)
     PROVE  KeepInv'
  BY <1>12 DEF TakeFirst
<1>13. ASSUME NEW w \in Workers, PopFirst(w)
     PROVE  KeepInv'
  BY <1>13 DEF PopFirst
<1>14. ASSUME NEW w \in Workers, NEW t \in Tasks, Submit(w, t)
     PROVE  KeepInv'
  BY <1>14 DEF Submit
<1>15. ASSUME NEW w \in Workers, NEW t \in Tasks, Finish(w, t)
     PROVE  KeepInv'
  BY <1>15 DEF Finish
<1>16. ASSUME NEW w \in Workers, CallbackReturns(w)
     PROVE  KeepInv'
  BY <1>16 DEF CallbackReturns
<1>17. ASSUME NEW w \in Workers, RunReturns(w)
     PROVE  KeepInv'
  BY <1>17 DEF RunReturns
<1>18. CASE UNCHANGED vars
  BY <1>18 DEF vars
<1>19. QED
  BY <1>1, <1>2, <1>3, <1>4, <1>5, <1>6, <1>7, <1>8, <1>9,
     <1>10, <1>11, <1>12, <1>13, <1>14, <1>15, <1>16, <1>17, <1>18
  DEF Next, NativeStep, RunStep, AtRest

\* With one client, no worker lost and no failing run, no task is forgotten.
LEMMA StrandedStep ==
  ASSUME OneClient, ~MayFail("MakeWorker"), ~MayFail("Start"), ~MayFail("Run"),
         Inv, KeepInv, NoStrandedTask, [Next]_vars
  PROVE  NoStrandedTask'
<1> USE Singleton DEF FieldTypes, Statuses, WorkerStates, CallStates, RunStates,
          taskVars, workerVars, queueVars, callVars, runVars, Goto, Return,
          MayFail, Inv, CallInv, TokenInv, OwesPop, ClientInv, KeepInv,
          OneClient, StillAdding, Running, Unfinished, NoStrandedTask
<1>1. ASSUME NEW th \in Threads, NEW t \in Tasks, NEW c \in Clients,
            AddTask(th, t, c)
     PROVE  NoStrandedTask'
  <2> SUFFICES ASSUME NEW u \in Tasks, status'[u] \in {"new", "submitted"}
               PROVE  \/ StillAdding(u)'
                      \/ \E i \in DOMAIN m_TaskQueue : client'[m_TaskQueue[i]] = client'[u]
                      \/ \E w \in Workers : Running(w, client[u])'
    BY <1>1 DEF AddTask
  <2>1. CASE u = t
    BY <1>1, <2>1 DEF AddTask
  <2>2. CASE u # t
    <3>1. status[u] \in {"new", "submitted"} /\ client'[u] = client[u]
      BY <1>1, <2>2 DEF AddTask
    <3>2. CASE StillAdding(u)
      BY <1>1, <2>2, <3>2 DEF AddTask
    <3>3. CASE \E i \in DOMAIN m_TaskQueue : client[m_TaskQueue[i]] = client[u]
      BY <1>1, <3>1, <3>3 DEF AddTask
    <3>4. CASE \E w \in Workers : Running(w, client[u])
      BY <1>1, <3>1, <3>4 DEF AddTask
    <3>5. QED
      BY <3>1, <3>2, <3>3, <3>4
  <2>3. QED
    BY <2>1, <2>2
<1>2. ASSUME NEW th \in Threads, CheckWorker(th)
     PROVE  NoStrandedTask'
  BY <1>2 DEF CheckWorker
<1>3. ASSUME NEW th \in Threads, MakeWorker(th)
     PROVE  NoStrandedTask'
  <2>1. UNCHANGED <<taskVars, m_TaskQueue, arg, runVars>>
    BY <1>3 DEF MakeWorker
  <2>2. \A u \in Tasks : StillAdding(u) => StillAdding(u)'
    BY <1>3 DEF MakeWorker
  <2>3. \A u \in Tasks, w \in Workers : Running(w, client[u]) => Running(w, client[u])'
    BY <2>1
  <2>4. QED
    BY <2>1, <2>2, <2>3
<1>4. ASSUME NEW th \in Threads, StartWorker(th)
     PROVE  NoStrandedTask'
  <2>1. UNCHANGED <<taskVars, m_TaskQueue, arg, runVars>>
    BY <1>4 DEF StartWorker
  <2>2. \A u \in Tasks : StillAdding(u) => StillAdding(u)'
    BY <1>4 DEF StartWorker
  <2>3. \A u \in Tasks, w \in Workers : Running(w, client[u]) => Running(w, client[u])'
    BY <2>1
  <2>4. QED
    BY <2>1, <2>2, <2>3
<1>5. ASSUME NEW th \in Threads, ClearWorker(th)
     PROVE  NoStrandedTask'
  BY <1>5 DEF ClearWorker
<1>6. ASSUME NEW th \in Threads, LockQueue(th)
     PROVE  NoStrandedTask'
  BY <1>6 DEF LockQueue
<1>7. ASSUME NEW th \in Threads, TestQueue(th)
     PROVE  NoStrandedTask'
  <2>1. UNCHANGED <<taskVars, m_TaskQueue, runVars>>
    BY <1>7 DEF TestQueue
  <2>2. CASE m_TaskQueue = <<>>
    <3>1. \A u \in Tasks : StillAdding(u) => StillAdding(u)'
      BY <1>7, <2>2 DEF TestQueue
    <3>2. QED
      BY <2>1, <3>1
  <2>3. CASE m_TaskQueue # <<>>
    <3>1. PICK e \in Tasks : m_TaskQueue = <<e>> /\ client[e] \in Clients
      BY <2>3
    <3>2. \A u \in Tasks : status[u] \in {"new", "submitted"} => client[e] = client[u]
      BY <3>1
    <3>3. QED
      BY <2>1, <3>1, <3>2
  <2>4. QED
    BY <2>2, <2>3
<1>8. ASSUME NEW th \in Threads, PushTask(th)
     PROVE  NoStrandedTask'
  BY <1>8 DEF PushTask
<1>9. ASSUME NEW th \in Threads, MakeThread(th)
     PROVE  NoStrandedTask'
  BY <1>9 DEF MakeThread
<1>10. ASSUME NEW w \in Workers, BeginRun(w)
     PROVE  NoStrandedTask'
  <2>1. UNCHANGED <<taskVars, m_TaskQueue, callVars, ctx>>
    BY <1>10 DEF BeginRun
  <2>2. \A u \in Tasks : StillAdding(u) => StillAdding(u)'
    BY <2>1
  <2>3. \A u \in Tasks, v \in Workers : Running(v, client[u]) => Running(v, client[u])'
    BY <1>10 DEF BeginRun
  <2>4. QED
    BY <2>1, <2>2, <2>3
<1>11. ASSUME NEW w \in Workers, LockForPop(w)
     PROVE  NoStrandedTask'
  BY <1>11 DEF LockForPop
<1>12. ASSUME NEW w \in Workers, TakeFirst(w)
     PROVE  NoStrandedTask'
  <2>1. UNCHANGED <<taskVars, m_TaskQueue, callVars>>
    BY <1>12 DEF TakeFirst
  <2>2. \A u \in Tasks : StillAdding(u) => StillAdding(u)'
    BY <2>1
  <2>3. \A u \in Tasks, v \in Workers : Running(v, client[u]) => Running(v, client[u])'
    BY <1>12 DEF TakeFirst
  <2>4. QED
    BY <2>1, <2>2, <2>3
<1>13. ASSUME NEW w \in Workers, PopFirst(w)
     PROVE  NoStrandedTask'
  BY <1>13 DEF PopFirst
<1>14. ASSUME NEW w \in Workers, NEW t \in Tasks, Submit(w, t)
     PROVE  NoStrandedTask'
  BY <1>14 DEF Submit
<1>15. ASSUME NEW w \in Workers, NEW t \in Tasks, Finish(w, t)
     PROVE  NoStrandedTask'
  BY <1>15 DEF Finish
<1>16. ASSUME NEW w \in Workers, CallbackReturns(w)
     PROVE  NoStrandedTask'
  <2>1. UNCHANGED <<taskVars, m_TaskQueue, callVars, ctx>>
    BY <1>16 DEF CallbackReturns
  <2>2. \A u \in Tasks : StillAdding(u) => StillAdding(u)'
    BY <2>1
  <2>3. \A u \in Tasks, v \in Workers : Running(v, client[u]) => Running(v, client[u])'
    BY <1>16 DEF CallbackReturns
  <2>4. QED
    BY <2>1, <2>2, <2>3
<1>17. ASSUME NEW w \in Workers, RunReturns(w)
     PROVE  NoStrandedTask'
  BY <1>17 DEF RunReturns
<1>18. CASE UNCHANGED vars
  BY <1>18 DEF vars
<1>19. QED
  BY <1>1, <1>2, <1>3, <1>4, <1>5, <1>6, <1>7, <1>8, <1>9,
     <1>10, <1>11, <1>12, <1>13, <1>14, <1>15, <1>16, <1>17, <1>18
  DEF Next, NativeStep, RunStep, AtRest

\* Every step keeps Inv.
LEMMA InvStep ==
  ASSUME Inv, [Next]_vars
  PROVE  Inv'
BY TypeStep, CallStep, NestStep, LockStep, HeldStep, TokenStep, ClientStep DEF Inv

\* The initial state has no thread in a call and an empty queue.
LEMMA InvInit == Init => Inv
BY DEF Init, Inv, FieldTypes, CallInv, NestInv, LockInv, HeldInv, TokenInv,
       ClientInv, OwesPop, InSection, Statuses, WorkerStates, CallStates, RunStates

\* Inv holds for ever, whatever the callers, clients and faults.
LEMMA Invariance == Spec => []Inv
BY InvInit, InvStep, PTL DEF Spec

\* TypeOK for any callers, clients and faults: the variables keep their types, and
\* every Lock of the queue is followed by one Unlock by its own thread.
THEOREM TypeCorrect == Spec => []TypeOK
<1>1. Inv => TypeOK
  BY DEF Inv, TypeOK, LockInv, HeldInv, InSection
<1>2. QED
  BY <1>1, Invariance, PTL

\* Whatever fails and however many threads call AddTask, RunThread never finds
\* the queue empty and AddToQueue never queues a second entry.
THEOREM PopAlwaysFindsEntry == Spec => []PopFindsEntry
<1>1. ASSUME TokenInv PROVE PopFindsEntry
  <2>1. Len(m_TaskQueue) <= 1
    <3>1. CASE m_TaskQueue = <<>>
      BY <3>1
    <3>2. ASSUME NEW t \in Tasks, m_TaskQueue = <<t>> PROVE Len(m_TaskQueue) <= 1
      BY <3>2
    <3>3. QED
      BY <1>1, <3>1, <3>2 DEF TokenInv
  <2>2. ASSUME NEW w \in Workers, run[w] \in {"crit", "pop"} PROVE m_TaskQueue # <<>>
    BY <1>1, <2>2 DEF TokenInv, OwesPop
  <2>3. QED
    BY <2>1, <2>2 DEF PopFindsEntry
<1>2. Inv => TokenInv
  BY DEF Inv
<1>3. QED
  BY <1>1, <1>2, Invariance, PTL

\* With one caller WorkerInv holds for ever as well.
LEMMA WorkerInvariance ==
  ASSUME OneCaller
  PROVE  Spec => [](Inv /\ WorkerInv)
<1>1. Init => WorkerInv
  BY DEF Init, WorkerInv, OwesPop
<1>2. Inv /\ WorkerInv /\ [Next]_vars => WorkerInv'
  BY OneCaller, WorkerStep
<1>3. QED
  BY <1>1, <1>2, Invariance, PTL DEF Spec

\* With one calling thread the unsynchronised creation of m_pWorker is safe: two
\* workers never run together and a NULL or destroyed one is never used.
THEOREM OneWorkerAtATime ==
  ASSUME OneCaller
  PROVE  Spec => []SingleWorker
<1>1. WorkerInv => SingleWorker
  BY DEF WorkerInv, SingleWorker
<1>2. QED
  BY <1>1, WorkerInvariance, PTL

\* With one calling thread, and as long as MakeThread is not refused, a queued
\* entry always has somebody on the way to pop it.
THEOREM QueueKeepsMoving ==
  ASSUME OneCaller, ~MayFail("MakeThread")
  PROVE  Spec => []EntryHasThread
<1>1. Init => EntryHasThread
  BY DEF Init, EntryHasThread
<1>2. Inv /\ WorkerInv /\ EntryHasThread /\ [Next]_vars => EntryHasThread'
  BY EntryStep
<1>3. QED
  BY <1>1, <1>2, WorkerInvariance, PTL DEF Spec

\* With one client, any number of calling threads, and workers and runs that do
\* not fail, no accepted task is forgotten.
THEOREM NothingStranded ==
  ASSUME OneClient, ~MayFail("MakeWorker"), ~MayFail("Start"), ~MayFail("Run")
  PROVE  Spec => []NoStrandedTask
<1>1. Init => KeepInv /\ NoStrandedTask
  BY DEF Init, KeepInv, NoStrandedTask
<1>2. Inv /\ KeepInv /\ [Next]_vars => KeepInv'
  BY KeepStep
<1>3. Inv /\ KeepInv /\ NoStrandedTask /\ [Next]_vars => NoStrandedTask'
  BY StrandedStep
<1>4. QED
  BY <1>1, <1>2, <1>3, Invariance, PTL DEF Spec

\* A worker that runs a client is the one the refinement mapping sees.
LEMMA ServingOne ==
  ASSUME Inv, WorkerInv, NEW w \in Workers, run[w] \in {"run", "callback"}
  PROVE  Serving = client[ctx[w]] /\ Serving \in Clients
<1>1. {v \in Workers : run[v] \in {"run", "callback"}} = {w}
  BY DEF WorkerInv
<1>2. Serving = client[ctx[w]]
  BY <1>1 DEF Serving
<1>3. QED
  BY <1>2 DEF Inv, ClientInv

\* While no worker runs a client, nothing is served.
LEMMA ServingNone ==
  ASSUME \A w \in Workers : run[w] \notin {"run", "callback"}
  PROVE  Serving = NoClient
BY DEF Serving

\* A step that moves no worker in or out of run_tasks leaves what is served.
LEMMA ServingUnchanged ==
  ASSUME \A w \in Workers : run'[w] \in {"run",
         "callback"} <=> run[w] \in {"run", "callback"},
         \A w \in Workers : run[w] \in {"run", "callback"} => client'[ctx'[w]] = client[ctx[w]]
  PROVE  Serving' = Serving
<1> DEFINE busy == {w \in Workers : run[w] \in {"run", "callback"}}
           one  == CHOOSE w \in busy : TRUE
<1>1. busy' = busy
  OBVIOUS
<1>2. Serving = IF busy = {} THEN NoClient ELSE client[ctx[one]]
  BY DEF Serving
<1>3. Serving' = IF busy = {} THEN NoClient ELSE client'[ctx'[one]]
  BY <1>1 DEF Serving
<1>4. CASE busy = {}
  BY <1>2, <1>3, <1>4
<1>5. CASE busy # {}
  <2>1. one \in busy
    BY <1>5
  <2>2. QED
    BY <1>2, <1>3, <2>1
<1>6. QED
  BY <1>4, <1>5

\* A step is a step of TaskService: AddTask accepts, PopFirst serves, Submit and
\* Finish advance, RunReturns releases, and all the others are invisible.
LEMMA ServiceStep ==
  ASSUME ~MayFail("Run"), Inv, WorkerInv, Inv', WorkerInv', [Next]_vars
  PROVE  [Service!Next]_(Service!vars)
<1> USE DEF Inv, FieldTypes, ClientInv, MayFail, Service!vars, vars, taskVars, workerVars, queueVars,
            callVars, runVars, Goto, Return
<1>1. ASSUME NEW th \in Threads, NEW t \in Tasks, NEW c \in Clients,
            AddTask(th, t, c)
      PROVE  Service!Accept(t, c)
  <2>1. Serving' = Serving
    BY <1>1, ServingUnchanged DEF AddTask
  <2>2. QED
    BY <1>1, <2>1 DEF AddTask, Service!Accept
<1>2. ASSUME NEW th \in Threads, NativeStep(th)
      PROVE  UNCHANGED Service!vars
  <2>1. UNCHANGED <<taskVars, runVars>>
    BY <1>2 DEF NativeStep, CheckWorker, MakeWorker, StartWorker, ClearWorker, LockQueue,
                TestQueue, PushTask, MakeThread
  <2>2. QED
    BY <2>1, ServingUnchanged
<1>3. ASSUME NEW w \in Workers, BeginRun(w) \/ LockForPop(w) \/ TakeFirst(w) \/ CallbackReturns(w)
      PROVE  UNCHANGED Service!vars
  <2>1. UNCHANGED taskVars
    BY <1>3 DEF BeginRun, LockForPop, TakeFirst, CallbackReturns
  <2>2. \A v \in Workers : run'[v] \in {"run", "callback"} <=> run[v] \in {"run", "callback"}
    BY <1>3 DEF BeginRun, LockForPop, TakeFirst, CallbackReturns
  <2>3. \A v \in Workers : run[v] \in {"run", "callback"} => ctx'[v] = ctx[v]
    BY <1>3 DEF BeginRun, LockForPop, TakeFirst, CallbackReturns
  <2>4. QED
    BY <2>1, <2>2, <2>3, ServingUnchanged
<1>4. ASSUME NEW w \in Workers, PopFirst(w)
      PROVE  Service!Serve(client[ctx[w]])
  <2>1. run[w] = "pop" /\ UNCHANGED <<taskVars, ctx>>
    BY <1>4 DEF PopFirst
  <2>2. \A v \in Workers \ {w} : run[v] = "idle"
    BY <2>1 DEF WorkerInv
  <2>3. Serving = NoClient
    BY <2>1, <2>2, ServingNone
  <2>4. {v \in Workers : run'[v] \in {"run", "callback"}} = {w}
    BY <1>4, <2>2 DEF PopFirst
  <2>5. Serving' = client[ctx[w]]
    BY <2>1, <2>4 DEF Serving
  <2>6. QED
    BY <2>1, <2>3, <2>5 DEF Service!Serve
<1>5. ASSUME NEW w \in Workers, NEW t \in Tasks, Submit(w, t) \/ Finish(w, t)
      PROVE  Service!Advance(t)
  <2>1. Serving = client[t]
    BY <1>5, ServingOne DEF Submit, Finish
  <2>2. Serving' = Serving
    BY <1>5, ServingUnchanged DEF Submit, Finish
  <2>3. QED
    BY <1>5, <2>1, <2>2 DEF Submit, Finish, Service!Advance
<1>6. ASSUME NEW w \in Workers, RunReturns(w)
      PROVE  Service!Release
  <2>1. Serving = client[ctx[w]] /\ Serving \in Clients
    BY <1>6, ServingOne DEF RunReturns
  <2>2. \A v \in Workers \ {w} : run[v] = "idle"
    BY <1>6 DEF RunReturns, WorkerInv
  <2>3. \A v \in Workers : run'[v] = "idle"
    BY <1>6, <2>2 DEF RunReturns
  <2>4. Serving' = NoClient
    BY <2>3 DEF Serving
  <2>5. QED
    BY <1>6, <2>1, <2>4 DEF RunReturns, Unfinished, Service!Release
<1>7. CASE UNCHANGED vars
  BY <1>7, ServingUnchanged
<1>8. ASSUME NEW w \in Workers
      PROVE  PopFirst(w) => client[ctx[w]] \in Clients
  BY DEF PopFirst
<1>9. QED
  BY <1>1, <1>2, <1>3, <1>4,
     <1>5, <1>6, <1>7, <1>8
  DEF Next, RunStep, AtRest, Service!Next

\* With one calling thread, and when gearman_client_run_tasks does not fail,
\* TaskDispatch implements TaskService.
THEOREM ServesClientsInTurn ==
  ASSUME OneCaller, ~MayFail("Run")
  PROVE  Spec => ServiceSpec
<1>1. Init => Service!Init
  BY ServingNone DEF Init, Service!Init
<1>2. Inv /\ WorkerInv /\ (Inv /\ WorkerInv)' /\ [Next]_vars => [Service!Next]_(Service!vars)
  BY ServiceStep
<1>3. QED
  BY <1>1, <1>2, WorkerInvariance, PTL DEF Spec, ServiceSpec, Service!Spec

=============================================================================
