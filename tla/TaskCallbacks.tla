---------------------------- MODULE TaskCallbacks ----------------------------
(***************************************************************************)
(* Who keeps a gearman_task_ctx alive, and for how long. The plugin has    *)
(* its SourceMod handle, libgearman the task that points back at it,       *)
(* m_TaskQueue and RunThread a pointer to it, and the client whose run     *)
(* reports the task has a handle of its own. The natives are called from   *)
(* three kinds of thread: the game's, the one IThreadWorker's inside a     *)
(* callback of a task, and those of gearman workers, which execute plugin  *)
(* code in Gearman_CallWorker whenever a job comes. The run reports a task *)
(* on the IThreadWorker's thread. There is one client, and one             *)
(* IThreadWorker: TaskDispatch says when it stays the only one, and how the *)
(* lock keeps one entry in the queue and one run at work.                  *)
(***************************************************************************)
EXTENDS FiniteSets

CONSTANTS
  Tasks,        \* gearman_task_ctx objects (bounds the number of AddTask calls)
  Packets,      \* what the server sends for a task, see PacketKinds
  FreeGranted,  \* whether FreeHandle(hndl, NULL) and RemoveType(type, NULL), which
                \* ask in nobody's name, are granted (TRUE) or refused
  Closing,      \* what else ends handles: plugins close those of a "task" or a
                \* "client", SourceMod decides to "unload" the extension
  Faults,       \* which calls out of the extension may fail, see FaultKinds
  JobThreads,   \* threads of gearman workers, in whose callbacks plugins call natives
  NoTask

PacketKinds == {"status", "warning", "complete", "fail"}
Events      == PacketKinds \cup {"created"}
Threads     == {"game", "worker"} \cup JobThreads

\* "AddTask": gearman_client_add_task* returns NULL; "CreateHandle": the handle
\* system is full; "MakeWorker": there is no worker to queue for; "Run":
\* gearman_client_run_tasks returns early.
FaultKinds == {"AddTask", "CreateHandle", "MakeWorker", "Run"}

ASSUME CallbackAssumption ==
  /\ NoTask \notin Tasks
  /\ Packets \subseteq PacketKinds
  /\ FreeGranted \in SUBSET BOOLEAN /\ FreeGranted # {}
  /\ Closing \subseteq {"task", "client", "unload"}
  /\ Faults \subseteq FaultKinds
  /\ {"game", "worker"} \cap JobThreads = {}

VARIABLES
  memory,       \* the memory of each gearman_task_ctx
  task,         \* its gearman_task_st; "lost" when it was freed with the client
  funcs,        \* the events whose funcid in the ctx is not 0
  hndl,         \* gearman_task_ctx::hndl
  handle,       \* its entry in the handle system: "freed" on completion, or
                \* "closed" by a plugin or the unload
  client,       \* the gearman_client_ctx and its handle
  server,       \* the client has a server
  createdFunc,  \* gearman_client_ctx::createdFunc is not 0
  pc, arg,      \* per thread, where its AddTask call is and the task it adds
  stage,        \* how far SDK_OnUnload is: "loaded", "unloading", "unloaded"
  entry,        \* the context in m_TaskQueue
  run, ctx,     \* where RunThread is, and the context it popped
  event, subject, \* the event whose plugin callback executes, and its task
  known,        \* the tasks whose handle a plugin has been given
  how,          \* how each task was added: at "rest", with nothing queued or run
                \* and no other call that could queue until it is queued; by a task's
                \* "callback"; or in an "overlap" with a run or another call
  raced,        \* the tasks whose client was freed under AddTask, between its lookup
                \* and its use
  misgiven,     \* the tasks some callback was given a wrong handle for
  misreturned   \* the tasks AddTask returned a wrong handle for

ctxVars    == <<memory, task, funcs, hndl, handle>>
clientVars == <<client, server, createdFunc, stage>>
callVars   == <<pc, arg, how, raced, misreturned>>
runVars    == <<entry, run, ctx>>
eventVars  == <<event, subject, misgiven>>
vars == <<ctxVars, clientVars, callVars, runVars, eventVars, known>>

\* A call in progress and a run about to begin have a context, and a callback
\* that executes has a task and a run below it.
TypeOK ==
  /\ memory \in [Tasks -> {"none", "live", "freed"}]
  /\ task \in [Tasks -> {"none", "new", "submitted", "finished", "lost"}]
  /\ funcs \in [Tasks -> SUBSET Events]
  /\ hndl \in [Tasks -> {"garbage", "set", "null"}]
  /\ handle \in [Tasks -> {"none", "open", "freed", "closed"}]
  /\ client \in {"none", "live", "freed"}
  /\ server \in BOOLEAN /\ createdFunc \in BOOLEAN
  /\ stage \in {"loaded", "unloading", "unloaded"}
  /\ pc \in [Threads -> {"idle", "link", "handle", "queue", "return"}]
  /\ arg \in [Threads -> Tasks \cup {NoTask}]
  /\ entry \in Tasks \cup {NoTask}
  /\ run \in {"no", "popped", "yes"} /\ ctx \in Tasks \cup {NoTask}
  /\ event \in Events \cup {"none"} /\ subject \in Tasks \cup {NoTask}
  /\ how \in [Tasks -> {"none", "rest", "callback", "overlap"}]
  /\ raced \subseteq Tasks
  /\ known \subseteq Tasks /\ misgiven \subseteq Tasks /\ misreturned \subseteq Tasks
  /\ \A th \in Threads : pc[th] # "idle" => arg[th] \in Tasks
  /\ run = "popped" => ctx \in Tasks
  /\ event # "none" => run = "yes" /\ subject \in Tasks

Init ==
  /\ memory = [t \in Tasks |-> "none"]
  /\ task = [t \in Tasks |-> "none"]
  /\ funcs = [t \in Tasks |-> {}]
  /\ hndl = [t \in Tasks |-> "garbage"]
  /\ handle = [t \in Tasks |-> "none"]
  /\ client = "none" /\ server = FALSE /\ createdFunc = FALSE /\ stage = "loaded"
  /\ pc = [th \in Threads |-> "idle"]
  /\ arg = [th \in Threads |-> NoTask]
  /\ entry = NoTask /\ run = "no" /\ ctx = NoTask
  /\ event = "none" /\ subject = NoTask
  /\ how = [t \in Tasks |-> "none"] /\ raced = {}
  /\ known = {} /\ misgiven = {} /\ misreturned = {}

MayFail(kind) == kind \in Faults

Goto(th, label) == pc' = [pc EXCEPT ![th] = label]

\* The code of the extension is there to be executed.
Loaded == stage # "unloaded"

\* Thread th is at this point of AddTask.
At(th, label) == Loaded /\ pc[th] = label

\* Thread th executes plugin code and is not inside a native: the worker's in a
\* callback, the game thread unless it is unloading the extension, that of a
\* gearman worker whenever a job comes.
InPlugin(th) ==
  /\ At(th, "idle")
  /\ th = "worker" => event # "none"
  /\ th = "game" => stage = "loaded"

\* Nothing is queued and RunThread is not at work.
AtRest == entry = NoTask /\ run = "no"

\* Inside AddTask, before the push.
Adders == {th \in Threads : pc[th] \in {"link", "handle", "queue"}}
Adding == {arg[th] : th \in Adders}

-----------------------------------------------------------------------------
(* Plausible mistakes in the steps below, never part of Next.               *)

\* MakeHandle that goes through AddToQueue first.
MakeHandleLast(th) ==
  /\ At(th, "handle")
  /\ entry' = IF entry = NoTask THEN arg[th] ELSE entry
  /\ Goto(th, "queue")
  /\ UNCHANGED <<ctxVars, clientVars, arg, how, raced, misreturned, run, ctx, eventVars, known>>

\* BeginRun without the test of ctx, for a queue that is empty by now.
BeginRunUnchecked ==
  /\ Loaded
  /\ run = "no"
  /\ ctx' = entry /\ entry' = NoTask
  /\ run' = "popped"
  /\ UNCHANGED <<ctxVars, clientVars, callVars, eventVars, known>>

\* OnHandleDestroy without the gearman_task_free.
OnHandleDestroyLinked(t, by) ==
  /\ handle' = [handle EXCEPT ![t] = by]
  /\ memory' = [memory EXCEPT ![t] = "freed"]
  /\ UNCHANGED task

\* BeginRun that reads first() and leaves the entry for the next run.
BeginRunPeeking ==
  /\ Loaded
  /\ run = "no" /\ entry # NoTask
  /\ ctx' = entry /\ run' = "popped"
  /\ UNCHANGED <<ctxVars, clientVars, callVars, entry, eventVars, known>>

\* CallbackReturns that lets run_tasks go on with a native still at work.
CallbackReturnsEarly ==
  /\ Loaded
  /\ event \in {"created", "status", "warning"}
  /\ event' = "none" /\ subject' = NoTask
  /\ UNCHANGED <<ctxVars, clientVars, callVars, runVars, misgiven, known>>

\* FindsClient that takes the handle of a closed client too.
FindsClientClosed == client # "none"

-----------------------------------------------------------------------------
(* The client's handle, on thread th.                                       *)

\* GearmanClient_Create
Create(th) ==
  /\ InPlugin(th)
  /\ client = "none"
  /\ client' = "live"
  /\ UNCHANGED <<ctxVars, server, createdFunc, stage, callVars, runVars, eventVars, known>>

\* GetGearmanClientInstanceByHandle: without it a client native throws.
FindsClient == client = "live"

\* GearmanClient_AddServer with a port that is one.
AddServer(th) ==
  /\ InPlugin(th) /\ FindsClient
  /\ server' = TRUE
  /\ UNCHANGED <<ctxVars, client, createdFunc, stage, callVars, runVars, eventVars, known>>

\* GearmanClient_SetCreatedCallback
SetClientCreated(th) ==
  /\ InPlugin(th) /\ FindsClient
  /\ createdFunc' = TRUE
  /\ UNCHANGED <<ctxVars, client, server, stage, callVars, runVars, eventVars, known>>

\* OnHandleDestroy for a client: gearman_client_free, which frees the tasks
\* linked into it, and free(ctx), while a call may have it looked up. A run under
\* way goes on in freed memory: the model follows it as long as it lives.
OnClientDestroy ==
  /\ client' = "freed"
  /\ raced' = raced \cup {arg[th] : th \in {x \in Threads : pc[x] = "link"}}
  /\ task' = [t \in Tasks |-> IF task[t] = "none" THEN "none" ELSE "lost"]

\* CloseHandle on the client.
CloseClient(th) ==
  /\ "client" \in Closing
  /\ InPlugin(th) /\ FindsClient
  /\ OnClientDestroy
  /\ UNCHANGED <<memory, funcs, hndl, handle, server, createdFunc, stage, pc, arg, how,
                 misreturned, runVars, eventVars, known>>

-----------------------------------------------------------------------------
(* GearmanClient_AddTask on thread th.                                      *)

\* The client is looked up and the context built, with or without a completion
\* callback, its hndl uninitialised.
AddTask(th, t) ==
  /\ InPlugin(th) /\ FindsClient
  /\ memory[t] = "none"
  /\ memory' = [memory EXCEPT ![t] = "live"]
  /\ \E set \in SUBSET {"complete"} : funcs' = [funcs EXCEPT ![t] = set]
  /\ arg' = [arg EXCEPT ![th] = t]
  /\ how' = [u \in Tasks |->
       CASE u = t /\ th = "worker" -> "callback"
         [] u = t /\ th # "worker" -> IF AtRest /\ Adders = {} THEN "rest" ELSE "overlap"
         [] u # t -> IF u \in Adding /\ how[u] = "rest" THEN "overlap" ELSE how[u]]
  /\ Goto(th, "link")
  /\ UNCHANGED <<task, hndl, handle, clientVars, raced, misreturned, runVars, eventVars, known>>

\* gearman_client_add_task* links the task into the client looked up before, or
\* refuses it. In a client freed meanwhile it links it, or not, as the memory has it.
LinkTask(th) ==
  /\ At(th, "link")
  /\ \/ task' = [task EXCEPT ![arg[th]] = "new"]
     \/ MayFail("AddTask") /\ UNCHANGED task
     \/ client = "freed" /\ UNCHANGED task
  /\ Goto(th, "handle")
  /\ UNCHANGED <<memory, funcs, hndl, handle, clientVars, arg, how, raced, misreturned, runVars,
                 eventVars, known>>

\* task->hndl = CreateHandle(...)
MakeHandle(th) ==
  /\ At(th, "handle")
  /\ \/ /\ handle' = [handle EXCEPT ![arg[th]] = "open"]
        /\ hndl' = [hndl EXCEPT ![arg[th]] = "set"]
     \/ /\ MayFail("CreateHandle")
        /\ hndl' = [hndl EXCEPT ![arg[th]] = "null"]
        /\ UNCHANGED handle
  /\ Goto(th, "queue")
  /\ UNCHANGED <<memory, task, funcs, clientVars, arg, how, raced, misreturned, runVars, eventVars,
                 known>>

\* AddToQueue: nothing is pushed while the queue holds an entry.
AddToQueue(th) ==
  /\ At(th, "queue")
  /\ \/ entry' = IF entry = NoTask THEN arg[th] ELSE entry
     \/ MayFail("MakeWorker") /\ UNCHANGED entry
  /\ Goto(th, "return")
  /\ UNCHANGED <<ctxVars, clientVars, arg, how, raced, misreturned, run, ctx, eventVars, known>>

\* return task->hndl, from memory that may have been given back, and written
\* or not, by now.
ReturnHandle(th) ==
  /\ At(th, "return")
  /\ LET t == arg[th]
         Right == hndl[t] = "set" \/ handle[t] = "none"
     IN  \/ /\ Right
            /\ known' = IF handle[t] = "none" THEN known ELSE known \cup {t}
            /\ UNCHANGED misreturned
         \/ /\ ~Right \/ memory[t] = "freed"
            /\ misreturned' = misreturned \cup {t}
            /\ UNCHANGED known
  /\ arg' = [arg EXCEPT ![th] = NoTask]
  /\ Goto(th, "idle")
  /\ UNCHANGED <<ctxVars, clientVars, how, raced, runVars, eventVars>>

-----------------------------------------------------------------------------
(* Gearman::RunThread and gearman_client_run_tasks on the worker's thread.  *)

\* Under the lock: ctx = first() and pop().
BeginRun ==
  /\ Loaded
  /\ run = "no" /\ entry # NoTask
  /\ ctx' = entry /\ entry' = NoTask
  /\ run' = "popped"
  /\ UNCHANGED <<ctxVars, clientVars, callVars, eventVars, known>>

\* ctx->cContext->client, read from the context that was queued, wherever its
\* memory is by now, and the call of run_tasks.
ReadClient ==
  /\ Loaded
  /\ run = "popped"
  /\ run' = "yes" /\ ctx' = NoTask
  /\ UNCHANGED <<ctxVars, clientVars, callVars, entry, eventVars, known>>

Unfinished == {t \in Tasks : task[t] \in {"new", "submitted"}}

\* run_tasks returns with nothing left to do, or with an error that nobody looks
\* at: it has no server, or lost it.
EndRun ==
  /\ Loaded
  /\ run = "yes" /\ event = "none"
  /\ Unfinished = {} \/ ~server \/ MayFail("Run")
  /\ run' = "no"
  /\ UNCHANGED <<ctxVars, clientVars, callVars, entry, ctx, eventVars, known>>

\* The funcid Gearman_Task*Fn tests before it calls the plugin, for the client or
\* for the task. Status packets go by completefunc, not by statusfunc.
Tested(e) == IF e = "status" THEN "complete" ELSE e
Executes(t, e) == Tested(e) \in funcs[t] \/ (e = "created" /\ createdFunc)

\* libgearman reports e for t, and the callback starts to execute with the handle
\* it finds in the context; without one, or with one the plugin no longer has,
\* Gearman_Task*Fn returns at once.
Report(t, e) ==
  /\ Loaded
  /\ run = "yes" /\ event = "none"
  /\ \/ /\ Executes(t, e)
        /\ event' = e /\ subject' = t
        /\ IF hndl[t] = "garbage" THEN misgiven' = misgiven \cup {t} /\ UNCHANGED known
           ELSE known' = (IF hndl[t] = "set" THEN known \cup {t} ELSE known) /\ UNCHANGED misgiven
     \/ UNCHANGED <<eventVars, known>>
  /\ UNCHANGED <<memory, funcs, hndl, handle, clientVars, callVars, runVars>>

Submit(t) ==
  /\ task[t] = "new" /\ server
  /\ Report(t, "created")
  /\ task' = [task EXCEPT ![t] = "submitted"]

Receive(t, e) ==
  /\ task[t] = "submitted"
  /\ Report(t, e)
  /\ task' = [task EXCEPT ![t] = IF e \in {"complete", "fail"} THEN "finished" ELSE @]

\* OnHandleDestroy for a task: gearman_task_free and free(ctx).
OnHandleDestroy(t, by) ==
  /\ handle' = [handle EXCEPT ![t] = by]
  /\ task' = [task EXCEPT ![t] = "none"]
  /\ memory' = [memory EXCEPT ![t] = "freed"]

\* The callback of a created, status or warning event returns.
CallbackReturns ==
  /\ Loaded
  /\ event \in {"created", "status", "warning"} /\ pc["worker"] = "idle"
  /\ event' = "none" /\ subject' = NoTask
  /\ UNCHANGED <<ctxVars, clientVars, callVars, runVars, misgiven, known>>

\* The last callback returns: FreeHandle(ctx->hndl, NULL), and for a complete
\* event ctx->hndl = NULL, in memory the first may have given back.
CompleteReturns ==
  /\ Loaded
  /\ event \in {"complete", "fail"} /\ pc["worker"] = "idle"
  /\ \E granted \in FreeGranted :
       IF granted /\ handle[subject] = "open" /\ hndl[subject] = "set"
         THEN OnHandleDestroy(subject, "freed")
         ELSE UNCHANGED <<memory, task, handle>>
  /\ hndl' = IF event = "fail" THEN hndl ELSE [hndl EXCEPT ![subject] = "null"]
  /\ event' = "none" /\ subject' = NoTask
  /\ UNCHANGED <<funcs, clientVars, callVars, runVars, misgiven, known>>

-----------------------------------------------------------------------------
(* What else plugin code on thread th does with a task's handle.            *)

\* CloseHandle on a task handle the plugin has.
CloseTask(th, t) ==
  /\ "task" \in Closing
  /\ InPlugin(th)
  /\ t \in known /\ handle[t] = "open"
  /\ OnHandleDestroy(t, "closed")
  /\ UNCHANGED <<funcs, hndl, clientVars, callVars, runVars, eventVars, known>>

\* GetGearmanTaskCtxInstanceByHandle asks the handle system for an object of
\* gearmanJobHandleType; the handle of a task is of gearmanTaskHandleType.
GetterType == "GearmanJob"
HandleType == "GearmanTask"
GetterFinds(t) == handle[t] = "open" /\ GetterType = HandleType

\* GearmanTask_Set{Created,Status,Fail,Warning}Callback
SetCallback(th, t, e) ==
  /\ InPlugin(th)
  /\ t \in known /\ handle[t] = "open"
  /\ IF GetterFinds(t)
       THEN funcs' = [funcs EXCEPT ![t] = @ \cup {e}]
       ELSE UNCHANGED funcs  \* throws "Invalid task handle"
  /\ UNCHANGED <<memory, task, hndl, handle, clientVars, callVars, runVars, eventVars, known>>

-----------------------------------------------------------------------------
(* SDK_OnUnload on the game thread, while the worker's goes on.             *)

\* RemoveType for clients, and for workers and jobs, which are not here: it
\* destroys every handle of the type.
RemoveClientType ==
  /\ "unload" \in Closing
  /\ stage = "loaded" /\ pc["game"] = "idle"
  /\ stage' = "unloading"
  /\ \E granted \in FreeGranted :
       IF granted /\ client = "live" THEN OnClientDestroy ELSE UNCHANGED <<client, task, raced>>
  /\ UNCHANGED <<memory, funcs, hndl, handle, server, createdFunc, pc, arg, how, misreturned,
                 runVars, eventVars, known>>

\* RemoveType for tasks. The code of the extension goes next, and nothing of
\* what a thread may still do in it is followed.
RemoveTaskType ==
  /\ stage = "unloading"
  /\ stage' = "unloaded"
  /\ \E granted \in FreeGranted :
       LET Open == {t \in Tasks : granted /\ handle[t] = "open"}
       IN  /\ handle' = [t \in Tasks |-> IF t \in Open THEN "closed" ELSE handle[t]]
           /\ task' = [t \in Tasks |-> IF t \in Open THEN "none" ELSE task[t]]
           /\ memory' = [t \in Tasks |-> IF t \in Open THEN "freed" ELSE memory[t]]
  /\ UNCHANGED <<funcs, hndl, client, server, createdFunc, callVars, runVars, eventVars, known>>

-----------------------------------------------------------------------------
\* The extension is unloaded, or nobody is inside a native and what is to be run
\* has been.
Silent ==
  /\ stage = "unloaded" \/ (AtRest /\ \A th \in Threads : pc[th] = "idle")
  /\ UNCHANGED vars

Next ==
  \/ \E th \in Threads :
       \/ LinkTask(th) \/ MakeHandle(th) \/ AddToQueue(th) \/ ReturnHandle(th)
       \/ Create(th) \/ AddServer(th) \/ SetClientCreated(th) \/ CloseClient(th)
       \/ \E t \in Tasks :
            \/ AddTask(th, t) \/ CloseTask(th, t)
            \/ \E e \in Events \ {"complete"} : SetCallback(th, t, e)
  \/ BeginRun \/ ReadClient \/ EndRun
  \/ \E t \in Tasks : Submit(t) \/ \E e \in Packets : Receive(t, e)
  \/ CallbackReturns \/ CompleteReturns
  \/ RemoveClientType \/ RemoveTaskType
  \/ Silent

Spec == Init /\ [][Next]_vars

-----------------------------------------------------------------------------
(* Properties.                                                              *)

\* A plugin that holds an open task handle holds a live context, and libgearman
\* reports nothing for a task whose context was freed. The client of a task it
\* can report is live too, but for a task whose client was closed between AddTask's
\* lookup and its link: no lock keeps it, and nothing else closes under a task.
LiveTogether ==
  \A t \in Tasks :
    /\ handle[t] = "open" => memory[t] = "live"
    /\ task[t] \notin {"none", "lost"} =>
         memory[t] = "live" /\ (client = "live" \/ t \in raced)

\* A callback is given a handle AddTask has not stored yet only for a task added
\* while a run was queued or under way, or while another thread was inside AddTask
\* too: one added at rest and alone, or by a task's callback, has its handle before
\* libgearman can report it.
HandleInTime == \A t \in misgiven : how[t] = "overlap"

\* AddTask returns something else than the task's handle only where it raced the
\* run that completes the task: never to a callback, whose return is what lets
\* the run go on.
ReturnInTime == \A t \in misreturned : how[t] # "callback"

\* The context of a task added at rest and alone is there when RunThread reads the
\* client from it, unless a plugin closed its handle: nothing can complete the task
\* before its own entry is popped.
EntryInTime ==
  run = "popped" /\ memory[ctx] = "freed" /\ handle[ctx] # "closed" => how[ctx] # "rest"

\* A client closed when nothing of it is queued, run or being added is never run
\* again: no native finds it, and no entry leads to it.
ClosedAtRest ==
  /\ client = "freed"
  /\ AtRest /\ \A th \in Threads : pc[th] = "idle"
ClosedClientRests == [][ClosedAtRest => ClosedAtRest']_vars

\* "@param task The task handle": no callback is given the uninitialised hndl of
\* a context AddTask has linked but not finished.
HandleKnown == misgiven = {}

\* "I have no idea if anything uses this still. This might not be needed." of the
\* context a task's handle takes along: RunThread has not popped it.
EntryLive == run = "popped" => memory[ctx] = "live"
=============================================================================
