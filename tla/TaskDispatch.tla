---------------------------- MODULE TaskDispatch ----------------------------
(***************************************************************************)
(* How a task added by a plugin reaches gearman_client_run_tasks.          *)
(*                                                                         *)
(* GearmanClient_AddTask links a task into its libgearman client and calls *)
(* Gearman::AddToQueue, which creates the SourceMod worker thread on first *)
(* use, pushes the task context on m_TaskQueue unless the queue already    *)
(* holds something, and asks the worker for one run of Gearman::RunThread. *)
(* RunThread pops one context and runs every task of that context's client.*)
(*                                                                         *)
(* Plugin code, and so AddTask, runs on the game thread, on the threads of *)
(* gearman workers (Gearman_CallWorker) and, inside a task callback, on    *)
(* the SourceMod worker thread itself.                                     *)
(***************************************************************************)
EXTENDS Naturals, Sequences

CONSTANTS
  Callers,    \* threads other than the IThreadWorker's that execute plugin code
  Workers,    \* IThreadWorker objects MakeWorker can return, each with its thread
  Clients,    \* gearman_client_ctx objects
  Tasks,      \* gearman_task_ctx objects (bounds the number of AddTask calls)
  Faults,     \* which calls out of the extension may fail, see FaultKinds
  NoWorker, NoTask, NoClient, NoThread   \* NULL, by type

\* "AddTask": gearman_client_add_task* returns NULL, or the priority is none of
\* the three cases; "Race": adding to a client another thread is running loses
\* the task; "Run": gearman_client_run_tasks returns an error; the others: the
\* IThreader call of that name fails.
FaultKinds == {"AddTask", "Race", "MakeWorker", "Start", "MakeThread", "Run"}

Threads == Callers \cup Workers

ASSUME ConstantsAssumption ==
  /\ Callers \cap Workers = {}
  /\ Faults \subseteq FaultKinds
  /\ NoWorker \notin Workers /\ NoThread \notin Threads
  /\ NoTask \notin Tasks /\ NoClient \notin Clients

VARIABLES
  status,       \* the task as its libgearman client sees it
  client,       \* gearman_task_ctx::cContext
  m_pWorker,    \* Gearman::m_pWorker
  workerState,  \* the IThreadWorker objects
  requests,     \* per worker, MakeThread requests whose RunThread has not begun
  m_TaskQueue,  \* Gearman::m_TaskQueue
  lockOwner,    \* holder of Gearman::m_pQueueLock
  pc, arg,      \* per thread, where its AddTask call is and the task it adds
  run, ctx      \* per worker, where its RunThread is and the context it popped

taskVars   == <<status, client>>
workerVars == <<m_pWorker, workerState>>
queueVars  == <<m_TaskQueue, lockOwner>>
callVars   == <<pc, arg>>
runVars    == <<run, ctx>>
vars == <<taskVars, workerVars, requests, queueVars, callVars, runVars>>

Statuses     == {"absent", "new", "submitted", "finished", "unlinked"}
WorkerStates == {"absent", "made", "running", "destroyed"}
CallStates   == {"idle", "check", "make", "start", "clear", "lock", "crit",
                 "push", "spawn", "crashed"}
RunStates    == {"idle", "lock", "crit", "pop", "run", "callback"}

FieldTypes ==
  /\ status \in [Tasks -> Statuses]
  /\ client \in [Tasks -> Clients \cup {NoClient}]
  /\ m_pWorker \in Workers \cup {NoWorker}
  /\ workerState \in [Workers -> WorkerStates]
  /\ requests \in [Workers -> Nat]
  /\ m_TaskQueue \in Seq(Tasks)
  /\ lockOwner \in Threads \cup {NoThread}
  /\ pc \in [Threads -> CallStates]
  /\ arg \in [Threads -> Tasks \cup {NoTask}]
  /\ run \in [Workers -> RunStates]
  /\ ctx \in [Workers -> Tasks \cup {NoTask}]

\* Thread th is between the Lock and the Unlock of AddToQueue or of RunThread.
InSection(th) ==
  pc[th] \in {"crit", "push"} \/ (th \in Workers /\ run[th] \in {"crit", "pop"})

\* The state's shape: the variables have their types, and m_pQueueLock is held by the
\* thread between Lock and Unlock and by no other, on every path out of the two.
TypeOK ==
  /\ FieldTypes
  /\ \A th \in Threads : lockOwner = th <=> InSection(th)

Init ==
  /\ status = [t \in Tasks |-> "absent"]
  /\ client = [t \in Tasks |-> NoClient]
  /\ m_pWorker = NoWorker
  /\ workerState = [w \in Workers |-> "absent"]
  /\ requests = [w \in Workers |-> 0]
  /\ m_TaskQueue = <<>>
  /\ lockOwner = NoThread
  /\ pc = [th \in Threads |-> "idle"]
  /\ arg = [th \in Threads |-> NoTask]
  /\ run = [w \in Workers |-> "idle"]
  /\ ctx = [w \in Workers |-> NoTask]

MayFail(kind) == kind \in Faults

Goto(th, label) == pc' = [pc EXCEPT ![th] = label]

\* The call of th returns; AddTask ignores the result of AddToQueue.
Return(th) ==
  /\ pc' = [pc EXCEPT ![th] = "idle"]
  /\ arg' = [arg EXCEPT ![th] = NoTask]

\* Worker w is inside gearman_client_run_tasks for client c.
Running(w, c) == run[w] \in {"run", "callback"} /\ client[ctx[w]] = c

-----------------------------------------------------------------------------
(* Plausible mistakes in the steps below, never part of Next: each breaks   *)
(* one of the properties at the end of this module.                         *)

\* CheckWorker that creates a worker on every call.
CheckWorkerAnew(th) ==
  /\ pc[th] = "check"
  /\ Goto(th, "make")
  /\ UNCHANGED <<taskVars, workerVars, requests, queueVars, arg, runVars>>

\* CheckWorker that takes an existing worker for a run that is on its way.
CheckWorkerOnce(th) ==
  /\ pc[th] = "check"
  /\ IF m_pWorker = NoWorker THEN Goto(th, "make") /\ UNCHANGED arg ELSE Return(th)
  /\ UNCHANGED <<taskVars, workerVars, requests, queueVars, runVars>>

\* ClearWorker without the m_pWorker = NULL.
ClearWorkerNot(th) ==
  /\ pc[th] = "clear"
  /\ Return(th)
  /\ UNCHANGED <<taskVars, workerVars, requests, queueVars, runVars>>

\* TestQueue that queues whatever it finds.
TestQueueNot(th) ==
  /\ pc[th] = "crit"
  /\ Goto(th, "push")
  /\ UNCHANGED <<taskVars, workerVars, requests, queueVars, arg, runVars>>

\* TestQueue whose early return forgets the Unlock.
TestQueueLocked(th) ==
  /\ pc[th] = "crit"
  /\ IF m_TaskQueue # <<>> THEN Return(th) ELSE Goto(th, "push") /\ UNCHANGED arg
  /\ UNCHANGED <<taskVars, workerVars, requests, queueVars, runVars>>

\* PushTask that leaves the entry to a run somebody else asks for.
PushTaskOnly(th) ==
  /\ pc[th] = "push"
  /\ m_TaskQueue' = Append(m_TaskQueue, arg[th])
  /\ lockOwner' = NoThread
  /\ Return(th)
  /\ UNCHANGED <<taskVars, workerVars, requests, runVars>>

\* PopFirst without the pop().
PopFirstNot(w) ==
  /\ run[w] = "pop"
  /\ lockOwner' = NoThread
  /\ run' = [run EXCEPT ![w] = "run"]
  /\ UNCHANGED <<taskVars, workerVars, requests, m_TaskQueue, callVars, ctx>>

-----------------------------------------------------------------------------
(* GearmanClient_AddTask and Gearman::AddToQueue, executed by thread th.    *)

\* A new context t for client c, handed to gearman_client_add_task*. The task
\* exists for the client from here on, before it has a handle and before
\* AddToQueue is called. A worker thread is in plugin code only in a callback.
AddTask(th, t, c) ==
  /\ pc[th] = "idle"
  /\ th \in Workers => run[th] = "callback"
  /\ status[t] = "absent"
  /\ \/ status' = [status EXCEPT ![t] = "new"]
     \/ /\ \/ MayFail("AddTask")
           \/ MayFail("Race") /\ \E w \in Workers \ {th} : Running(w, c)
        /\ status' = [status EXCEPT ![t] = "unlinked"]
  /\ client' = [client EXCEPT ![t] = c]
  /\ arg' = [arg EXCEPT ![th] = t]
  /\ Goto(th, "check")
  /\ UNCHANGED <<workerVars, requests, queueVars, runVars>>

\* if (!m_pWorker)
CheckWorker(th) ==
  /\ pc[th] = "check"
  /\ Goto(th, IF m_pWorker = NoWorker THEN "make" ELSE "lock")
  /\ UNCHANGED <<taskVars, workerVars, requests, queueVars, arg, runVars>>

\* m_pWorker = MakeWorker(...), and the return when that gives NULL.
MakeWorker(th) ==
  /\ pc[th] = "make"
  /\ \/ \E w \in Workers :
          /\ workerState[w] = "absent"
          /\ workerState' = [workerState EXCEPT ![w] = "made"]
          /\ m_pWorker' = w
          /\ Goto(th, "start")
          /\ UNCHANGED arg
     \/ /\ MayFail("MakeWorker")
        /\ m_pWorker' = NoWorker
        /\ Return(th)
        /\ UNCHANGED workerState
  /\ UNCHANGED <<taskVars, requests, queueVars, runVars>>

\* m_pWorker->Start(); a worker that does not start is destroyed at once. Another
\* thread may have replaced, cleared or destroyed the worker in the meantime.
StartWorker(th) ==
  /\ pc[th] = "start"
  /\ IF m_pWorker = NoWorker \/ workerState[m_pWorker] = "destroyed"
       THEN Goto(th, "crashed") /\ UNCHANGED workerState
       ELSE \/ /\ workerState' = [workerState EXCEPT ![m_pWorker] = "running"]
               /\ Goto(th, "lock")
            \/ /\ MayFail("Start")
               /\ workerState' = [workerState EXCEPT ![m_pWorker] = "destroyed"]
               /\ Goto(th, "clear")
  /\ UNCHANGED <<taskVars, m_pWorker, requests, queueVars, arg, runVars>>

\* m_pWorker = NULL; return false
ClearWorker(th) ==
  /\ pc[th] = "clear"
  /\ m_pWorker' = NoWorker
  /\ Return(th)
  /\ UNCHANGED <<taskVars, workerState, requests, queueVars, runVars>>

\* m_pQueueLock->Lock()
LockQueue(th) ==
  /\ pc[th] = "lock"
  /\ lockOwner = NoThread
  /\ lockOwner' = th
  /\ Goto(th, "crit")
  /\ UNCHANGED <<taskVars, workerVars, requests, m_TaskQueue, arg, runVars>>

\* Under the lock: empty(), and the early return that unlocks.
TestQueue(th) ==
  /\ pc[th] = "crit"
  /\ IF m_TaskQueue # <<>>
       THEN lockOwner' = NoThread /\ Return(th)
       ELSE Goto(th, "push") /\ UNCHANGED <<lockOwner, arg>>
  /\ UNCHANGED <<taskVars, workerVars, requests, m_TaskQueue, runVars>>

\* Under the lock: push(ctx), then Unlock.
PushTask(th) ==
  /\ pc[th] = "push"
  /\ m_TaskQueue' = Append(m_TaskQueue, arg[th])
  /\ lockOwner' = NoThread
  /\ Goto(th, "spawn")
  /\ UNCHANGED <<taskVars, workerVars, requests, arg, runVars>>

\* m_pWorker->MakeThread(this), whose result is not looked at. A worker that
\* does not run takes no request; a NULL or destroyed one is not an object.
MakeThread(th) ==
  /\ pc[th] = "spawn"
  /\ IF m_pWorker = NoWorker \/ workerState[m_pWorker] = "destroyed"
       THEN Goto(th, "crashed") /\ UNCHANGED <<requests, arg>>
       ELSE /\ Return(th)
            /\ \/ /\ workerState[m_pWorker] = "running"
                  /\ requests' = [requests EXCEPT ![m_pWorker] = @ + 1]
               \/ /\ MayFail("MakeThread") \/ workerState[m_pWorker] # "running"
                  /\ UNCHANGED requests
  /\ UNCHANGED <<taskVars, workerVars, queueVars, runVars>>

-----------------------------------------------------------------------------
(* Gearman::RunThread on the thread of worker w, and the part of            *)
(* gearman_client_run_tasks it relies on.                                   *)

\* The worker takes the next request and enters RunThread.
BeginRun(w) ==
  /\ run[w] = "idle"
  /\ requests[w] > 0
  /\ requests' = [requests EXCEPT ![w] = @ - 1]
  /\ run' = [run EXCEPT ![w] = "lock"]
  /\ UNCHANGED <<taskVars, workerVars, queueVars, callVars, ctx>>

LockForPop(w) ==
  /\ run[w] = "lock"
  /\ lockOwner = NoThread
  /\ lockOwner' = w
  /\ run' = [run EXCEPT ![w] = "crit"]
  /\ UNCHANGED <<taskVars, workerVars, requests, m_TaskQueue, callVars, ctx>>

\* Under the lock: empty() and first(); with nothing to do, Unlock and return.
TakeFirst(w) ==
  /\ run[w] = "crit"
  /\ IF m_TaskQueue # <<>>
       THEN /\ ctx' = [ctx EXCEPT ![w] = Head(m_TaskQueue)]
            /\ run' = [run EXCEPT ![w] = "pop"]
            /\ UNCHANGED lockOwner
       ELSE /\ lockOwner' = NoThread
            /\ run' = [run EXCEPT ![w] = "idle"]
            /\ UNCHANGED ctx
  /\ UNCHANGED <<taskVars, workerVars, requests, m_TaskQueue, callVars>>

\* Under the lock: pop(), then Unlock.
PopFirst(w) ==
  /\ run[w] = "pop"
  /\ m_TaskQueue' = Tail(m_TaskQueue)
  /\ lockOwner' = NoThread
  /\ run' = [run EXCEPT ![w] = "run"]
  /\ UNCHANGED <<taskVars, workerVars, requests, callVars, ctx>>

\* run_tasks sends a new task of its client to the server: created callback.
Submit(w, t) ==
  /\ run[w] = "run"
  /\ status[t] = "new" /\ client[t] = client[ctx[w]]
  /\ status' = [status EXCEPT ![t] = "submitted"]
  /\ run' = [run EXCEPT ![w] = "callback"]
  /\ UNCHANGED <<client, workerVars, requests, queueVars, callVars, ctx>>

\* The server's last packet for a submitted task: complete or fail callback.
Finish(w, t) ==
  /\ run[w] = "run"
  /\ status[t] = "submitted" /\ client[t] = client[ctx[w]]
  /\ status' = [status EXCEPT ![t] = "finished"]
  /\ run' = [run EXCEPT ![w] = "callback"]
  /\ UNCHANGED <<client, workerVars, requests, queueVars, callVars, ctx>>

\* The plugin's callback ends, with every native it called.
CallbackReturns(w) ==
  /\ run[w] = "callback"
  /\ pc[w] = "idle"
  /\ run' = [run EXCEPT ![w] = "run"]
  /\ UNCHANGED <<taskVars, workerVars, requests, queueVars, callVars, ctx>>

Unfinished(c) == {t \in Tasks : client[t] = c /\ status[t] \in {"new", "submitted"}}

\* run_tasks returns when its client has nothing left to do, or with an error.
\* Either way RunThread drops the return code and ends.
RunReturns(w) ==
  /\ run[w] = "run"
  /\ Unfinished(client[ctx[w]]) = {} \/ MayFail("Run")
  /\ run' = [run EXCEPT ![w] = "idle"]
  /\ ctx' = [ctx EXCEPT ![w] = NoTask]
  /\ UNCHANGED <<taskVars, workerVars, requests, queueVars, callVars>>

-----------------------------------------------------------------------------
NativeStep(th) ==
  \/ CheckWorker(th) \/ MakeWorker(th) \/ StartWorker(th) \/ ClearWorker(th)
  \/ LockQueue(th) \/ TestQueue(th) \/ PushTask(th) \/ MakeThread(th)

RunStep(w) ==
  \/ BeginRun(w) \/ LockForPop(w) \/ TakeFirst(w) \/ PopFirst(w)
  \/ \E t \in Tasks : Submit(w, t) \/ Finish(w, t)
  \/ CallbackReturns(w) \/ RunReturns(w)

\* Nobody is in a call and no run is under way: the server may idle here for
\* ever. A process that has crashed stops too.
AtRest ==
  /\ \/ /\ \A th \in Threads : pc[th] = "idle"
        /\ \A w \in Workers : run[w] = "idle" /\ requests[w] = 0
     \/ \E th \in Threads : pc[th] = "crashed"
  /\ UNCHANGED vars

Next ==
  \/ \E th \in Threads :
       \/ NativeStep(th)
       \/ \E t \in Tasks, c \in Clients : AddTask(th, t, c)
  \/ \E w \in Workers : RunStep(w)
  \/ AtRest

Spec == Init /\ [][Next]_vars

\* Every thread inside a call keeps running; run_tasks is served by its server
\* and the plugin's callbacks return. Nobody is obliged to add a task, and no
\* failing branch is favoured.
Fairness ==
  /\ \A th \in Threads : WF_vars(NativeStep(th))
  /\ \A w \in Workers : WF_vars(RunStep(w))

FairSpec == Spec /\ Fairness

-----------------------------------------------------------------------------
(* Properties.                                                              *)

\* A RunThread that has reached the queue finds an entry in it: no request is
\* ever left over from an entry another run consumed, so the `if (!ctx)` return
\* of RunThread is never taken, and the queue holds one entry at most.
PopFindsEntry ==
  /\ Len(m_TaskQueue) <= 1
  /\ \A w \in Workers : run[w] \in {"crit", "pop"} => m_TaskQueue # <<>>

\* Worker w owes the queue a pop.
OwesPop(w) == requests[w] > 0 \/ run[w] \in {"lock", "crit", "pop"}

\* An entry in m_TaskQueue always has somebody on the way to pop it: a caller
\* about to ask for a thread, or a worker that has been asked. Since AddToQueue
\* adds nothing while an entry is there, an entry nobody pops would stop the
\* client half of the extension for good.
EntryHasThread ==
  m_TaskQueue # <<>> =>
    \/ \E th \in Threads : pc[th] = "spawn"
    \/ \E w \in Workers : OwesPop(w)

\* Some thread is adding t and has yet to look at the queue.
StillAdding(t) ==
  \E th \in Threads :
    arg[th] = t /\ pc[th] \in {"check", "make", "start", "lock", "crit", "push"}

\* A task AddTask has linked into its client is never forgotten: until it is
\* finished it is still being added, or an entry for its client is queued, or
\* its client is being run.
NoStrandedTask ==
  \A t \in Tasks : status[t] \in {"new", "submitted"} =>
    \/ StillAdding(t)
    \/ \E i \in DOMAIN m_TaskQueue : client[m_TaskQueue[i]] = client[t]
    \/ \E w \in Workers : Running(w, client[t])

\* The lazily created worker: two IThreadWorkers never run side by side (so
\* no client is ever inside two gearman_client_run_tasks), and no thread uses
\* m_pWorker when it is NULL or destroyed.
SingleWorker ==
  /\ \A v, w \in Workers :
       workerState[v] = "running" /\ workerState[w] = "running" => v = w
  /\ \A th \in Threads : pc[th] # "crashed"

\* Every task the client has accepted is finished, "the callback to call when
\* the task is done" of GearmanClient_AddTask gets its turn.
EveryTaskRuns == \A t \in Tasks : status[t] = "new" ~> status[t] = "finished"

\* The client some worker is running, seen from outside.
Serving ==
  LET busy == {w \in Workers : run[w] \in {"run", "callback"}}
  IN  IF busy = {} THEN NoClient ELSE client[ctx[CHOOSE w \in busy : TRUE]]

\* The promise this module implements.
Service == INSTANCE TaskService WITH state <- status, owner <- client, serving <- Serving

\* The steps above are steps of TaskService: one client at a time, each run
\* drains its client, a task advances only while its own client is run.
ServiceSpec == Service!Spec

=============================================================================
