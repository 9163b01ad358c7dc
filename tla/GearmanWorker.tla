---------------------------- MODULE GearmanWorker ----------------------------
(***************************************************************************)
(* The worker half of the extension: a plugin creates a gearman worker and *)
(* adds functions to it; the first one starts a thread that stays in       *)
(* gearman_worker_work, which calls Gearman_CallWorker for every job the   *)
(* server assigns, on that thread, and this calls the plugin.              *)
(***************************************************************************)
EXTENDS Naturals, FiniteSets

CONSTANTS
  Callers,     \* threads other than the workers' that execute plugin code
  Workers,     \* gearman_worker_ctx objects
  Loops,       \* operating system threads running GearmanWorkerThread::RunThread
  Functions,   \* names of gearman functions
  Jobs,        \* jobs the server may assign (bounds their number)
  Faults,      \* which calls out of the extension may fail, see FaultKinds
  Closing,     \* plugins close the handles of workers and jobs still in use
  NoWorker, NoFunction, NoJob

\* "Define": gearman_worker_define_function refuses; "MakeThread": the threader
\* gives no thread; "CreateHandle": the handle system is full; "Function": the
\* plugin no longer has the callback's funcid; "FreeHandle": the handle system
\* refuses what is asked with a NULL owner; "Work": gearman_worker_work returns an
\* error (timeout, lost connection...).
FaultKinds == {"Define", "MakeThread", "CreateHandle", "Function", "FreeHandle", "Work"}

Threads == Callers \cup Loops

ASSUME WorkerAssumption ==
  /\ Callers \cap Loops = {}
  /\ Faults \subseteq FaultKinds
  /\ Closing \in BOOLEAN
  /\ NoWorker \notin Workers /\ NoFunction \notin Functions /\ NoJob \notin Jobs

VARIABLES
  worker,      \* the gearman_worker_ctx objects
  thread,      \* the workers whose ctx->thread is not NULL
  servers,     \* the workers that have a server
  functions,   \* what is defined in each gearman_worker_st
  offered,     \* the <<worker, function>> pairs AddFunction returned SUCCESS for
  unmade,      \* the workers MakeThread gave no thread for
  pc, arg,     \* per thread, where its AddFunction call is and what it adds to
  loop,        \* per loop, where RunThread is
  loopCtx,     \* GearmanWorkerThread::ctx
  current,     \* per loop, the job Gearman_CallWorker has been given
  job, name,   \* per job, how far it is and the function it is for
  handle,      \* per job, its SourceMod handle: "freed" by the extension or
               \* "closed" by a plugin
  kept         \* the jobs whose handle FreeHandle refused to free

workerVars == <<worker, thread, servers, functions, offered, unmade>>
callVars   == <<pc, arg>>
loopVars   == <<loop, loopCtx, current>>
jobVars    == <<job, name, handle, kept>>
vars == <<workerVars, callVars, loopVars, jobVars>>

NoCall == [worker |-> NoWorker, function |-> NoFunction]
Calls  == [worker : Workers \cup {NoWorker}, function : Functions \cup {NoFunction}]

\* A loop that exists belongs to a worker, and one inside a callback has a job.
TypeOK ==
  /\ worker \in [Workers -> {"absent", "live", "freed"}]
  /\ thread \subseteq Workers /\ servers \subseteq Workers
  /\ functions \in [Workers -> SUBSET Functions]
  /\ offered \subseteq Workers \X Functions
  /\ unmade \subseteq Workers /\ kept \subseteq Jobs
  /\ pc \in [Threads -> {"idle", "define", "test", "new", "start"}]
  /\ arg \in [Threads -> Calls]
  /\ loop \in [Loops -> {"absent", "work", "callback", "returned", "failed", "ended"}]
  /\ loopCtx \in [Loops -> Workers \cup {NoWorker}]
  /\ current \in [Loops -> Jobs \cup {NoJob}]
  /\ job \in [Jobs -> {"absent", "queued", "running", "failed", "done", "in_progress",
                      "answered"}]
  /\ name \in [Jobs -> Functions \cup {NoFunction}]
  /\ handle \in [Jobs -> {"absent", "open", "freed", "closed"}]
  /\ \A l \in Loops : loop[l] # "absent" => loopCtx[l] \in Workers
  /\ \A l \in Loops : loop[l] = "callback" => current[l] \in Jobs

Init ==
  /\ worker = [w \in Workers |-> "absent"]
  /\ thread = {} /\ servers = {}
  /\ functions = [w \in Workers |-> {}]
  /\ offered = {} /\ unmade = {}
  /\ pc = [th \in Threads |-> "idle"]
  /\ arg = [th \in Threads |-> NoCall]
  /\ loop = [l \in Loops |-> "absent"]
  /\ loopCtx = [l \in Loops |-> NoWorker]
  /\ current = [l \in Loops |-> NoJob]
  /\ job = [j \in Jobs |-> "absent"]
  /\ name = [j \in Jobs |-> NoFunction]
  /\ handle = [j \in Jobs |-> "absent"]
  /\ kept = {}

MayFail(kind) == kind \in Faults

Goto(th, label) == pc' = [pc EXCEPT ![th] = label]

\* AddFunction returns, to a plugin that may call another native.
Return(th) ==
  /\ pc' = [pc EXCEPT ![th] = "idle"]
  /\ arg' = [arg EXCEPT ![th] = NoCall]

\* Thread th executes plugin code and is not inside a native.
InPlugin(th) == pc[th] = "idle" /\ (th \in Loops => loop[th] = "callback")

-----------------------------------------------------------------------------
(* Plausible mistakes in the steps below, never part of Next.               *)

\* DefineFunction that takes no notice of the result.
DefineFunctionAnyway(th) ==
  /\ pc[th] = "define"
  /\ \/ functions' = [functions EXCEPT ![arg[th].worker] = @ \cup {arg[th].function}]
     \/ MayFail("Define") /\ UNCHANGED functions
  /\ Goto(th, "test")
  /\ UNCHANGED <<worker, thread, servers, offered, unmade, arg, loopVars, jobVars>>

\* TestThread that starts a thread for every function.
TestThreadNot(th) ==
  /\ pc[th] = "test"
  /\ Goto(th, "new")
  /\ UNCHANGED <<workerVars, arg, loopVars, jobVars>>

\* StartThread that reports success when the threader gave no thread.
StartThreadAnyway(th) ==
  /\ pc[th] = "start"
  /\ offered' = offered \cup {<<arg[th].worker, arg[th].function>>}
  /\ unmade' = unmade \cup {arg[th].worker}
  /\ Return(th)
  /\ UNCHANGED <<worker, thread, servers, functions, loopVars, jobVars>>

\* StartThread for an object whose constructor did not keep its argument.
StartThreadBlind(th) ==
  /\ pc[th] = "start"
  /\ \E l \in Loops : loop[l] = "absent" /\ loop' = [loop EXCEPT ![l] = "work"]
  /\ Return(th)
  /\ UNCHANGED <<workerVars, loopCtx, current, jobVars>>

\* CallWorker for a job the server keeps until it is done.
CallWorkerKept(l, j) ==
  /\ loop[l] = "work"
  /\ loopCtx[l] \in servers
  /\ job[j] \in {"queued", "running"} /\ name[j] \in functions[loopCtx[l]]
  /\ handle' = [handle EXCEPT ![j] = "open"]
  /\ loop' = [loop EXCEPT ![l] = "callback"]
  /\ current' = [current EXCEPT ![l] = j]
  /\ job' = [job EXCEPT ![j] = "running"]
  /\ UNCHANGED <<workerVars, callVars, loopCtx, name, kept>>

\* CallbackReturns that frees the handle of no job.
CallbackReturnsOpen(l) ==
  /\ loop[l] = "callback" /\ pc[l] = "idle"
  /\ \E end \in {"in_progress", "done"} : job' = [job EXCEPT ![current[l]] = end]
  /\ loop' = [loop EXCEPT ![l] = "returned"]
  /\ current' = [current EXCEPT ![l] = NoJob]
  /\ UNCHANGED <<workerVars, callVars, loopCtx, name, handle, kept>>

-----------------------------------------------------------------------------
(* Natives of the worker handle, executed by thread th.                     *)

\* GearmanWorker_Create
Create(th, w) ==
  /\ InPlugin(th)
  /\ worker[w] = "absent"
  /\ worker' = [worker EXCEPT ![w] = "live"]
  /\ UNCHANGED <<thread, servers, functions, offered, unmade, callVars, loopVars, jobVars>>

\* GetGearmanWorkerInstanceByHandle: without an open handle a worker native throws.
FindsWorker(w) == worker[w] = "live"

\* GearmanWorker_AddServer with a port that is one.
AddServer(th, w) ==
  /\ InPlugin(th) /\ FindsWorker(w)
  /\ servers' = servers \cup {w}
  /\ UNCHANGED <<worker, thread, functions, offered, unmade, callVars, loopVars, jobVars>>

\* GearmanWorker_AddFunction looks the worker up...
AddFunction(th, w, f) ==
  /\ InPlugin(th) /\ FindsWorker(w)
  /\ arg' = [arg EXCEPT ![th] = [worker |-> w, function |-> f]]
  /\ Goto(th, "define")
  /\ UNCHANGED <<workerVars, loopVars, jobVars>>

\* ...and calls gearman_worker_define_function, which may refuse, and does what
\* the memory has it do in a worker that was closed meanwhile.
DefineFunction(th) ==
  /\ pc[th] = "define"
  /\ \/ /\ functions' = [functions EXCEPT ![arg[th].worker] = @ \cup {arg[th].function}]
        /\ Goto(th, "test") /\ UNCHANGED arg
     \/ /\ MayFail("Define") \/ worker[arg[th].worker] = "freed"
        /\ Return(th) /\ UNCHANGED functions
  /\ UNCHANGED <<worker, thread, servers, offered, unmade, loopVars, jobVars>>

\* ctx->thread == NULL; otherwise the result of the definition is returned.
TestThread(th) ==
  /\ pc[th] = "test"
  /\ IF arg[th].worker \notin thread
       THEN Goto(th, "new") /\ UNCHANGED <<arg, offered>>
       ELSE offered' = offered \cup {<<arg[th].worker, arg[th].function>>} /\ Return(th)
  /\ UNCHANGED <<worker, thread, servers, functions, unmade, loopVars, jobVars>>

\* ctx->thread = new GearmanWorkerThread(ctx)
NewThread(th) ==
  /\ pc[th] = "new"
  /\ thread' = thread \cup {arg[th].worker}
  /\ Goto(th, "start")
  /\ UNCHANGED <<worker, servers, functions, offered, unmade, arg, loopVars, jobVars>>

\* g_pThreader->MakeThread(ctx->thread, ...): without a thread the native throws.
StartThread(th) ==
  /\ pc[th] = "start"
  /\ \/ \E l \in Loops :
          /\ loop[l] = "absent"
          /\ loop' = [loop EXCEPT ![l] = "work"]
          /\ loopCtx' = [loopCtx EXCEPT ![l] = arg[th].worker]
          /\ offered' = offered \cup {<<arg[th].worker, arg[th].function>>}
          /\ UNCHANGED unmade
     \/ /\ MayFail("MakeThread")
        /\ unmade' = unmade \cup {arg[th].worker}
        /\ UNCHANGED <<loop, loopCtx, offered>>
  /\ Return(th)
  /\ UNCHANGED <<worker, thread, servers, functions, current, jobVars>>

\* CloseHandle on a worker: OnHandleDestroy frees it, and no loop is told.
CloseWorker(th, w) ==
  /\ Closing
  /\ InPlugin(th) /\ FindsWorker(w)
  /\ worker' = [worker EXCEPT ![w] = "freed"]
  /\ UNCHANGED <<thread, servers, functions, offered, unmade, callVars, loopVars, jobVars>>

-----------------------------------------------------------------------------
(* GearmanWorkerThread::RunThread and Gearman_CallWorker on loop l.         *)

\* The server receives a job for f.
Arrive(j, f) ==
  /\ job[j] = "absent"
  /\ job' = [job EXCEPT ![j] = "queued"]
  /\ name' = [name EXCEPT ![j] = f]
  /\ UNCHANGED <<workerVars, callVars, loopVars, handle, kept>>

\* gearman_worker_work calls Gearman_CallWorker: the job gets its handle, or none,
\* before the callback is looked up, and is given to the callback either way. A
\* missing callback fails the job there.
CallWorker(l, j) ==
  /\ loop[l] = "work"
  /\ loopCtx[l] \in servers
  /\ job[j] = "queued" /\ name[j] \in functions[loopCtx[l]]
  /\ \/ handle' = [handle EXCEPT ![j] = "open"]
     \/ MayFail("CreateHandle") /\ UNCHANGED handle
  /\ \/ /\ loop' = [loop EXCEPT ![l] = "callback"]
        /\ current' = [current EXCEPT ![l] = j]
        /\ job' = [job EXCEPT ![j] = "running"]
     \/ /\ MayFail("Function")
        /\ loop' = [loop EXCEPT ![l] = "failed"]
        /\ job' = [job EXCEPT ![j] = "failed"]
        /\ UNCHANGED current
  /\ UNCHANGED <<workerVars, callVars, loopCtx, name, kept>>

\* FreeHandle with a NULL owner, of a handle that may be closed or never was.
FreeHandle(j) ==
  \/ /\ handle' = [handle EXCEPT ![j] = IF @ = "open" THEN "freed" ELSE @]
     /\ UNCHANGED kept
  \/ /\ MayFail("FreeHandle")
     /\ kept' = kept \cup {j}
     /\ UNCHANGED handle

\* The callback returns IN_PROGRESS and keeps its handle, or any other result, which
\* gearman_worker_work gets whether the handle could be freed or not.
CallbackReturns(l) ==
  /\ loop[l] = "callback" /\ pc[l] = "idle"
  /\ \/ /\ job' = [job EXCEPT ![current[l]] = "in_progress"]
        /\ loop' = [loop EXCEPT ![l] = "returned"]
        /\ UNCHANGED <<handle, kept>>
     \/ /\ job' = [job EXCEPT ![current[l]] = "done"]
        /\ \E result \in {"returned", "failed"} : loop' = [loop EXCEPT ![l] = result]
        /\ FreeHandle(current[l])
  /\ current' = [current EXCEPT ![l] = NoJob]
  /\ UNCHANGED <<workerVars, callVars, loopCtx, name>>

\* GetGearmanJobInstanceByHandle: without an open handle a job native throws.
FindsJob(j) == handle[j] = "open"

\* A plugin answers an IN_PROGRESS job later, say on a timer. What it sends from
\* within the callback is libgearman's business.
Answer(th, j) ==
  /\ InPlugin(th)
  /\ FindsJob(j)
  /\ job[j] = "in_progress"
  /\ job' = [job EXCEPT ![j] = "answered"]
  /\ UNCHANGED <<workerVars, callVars, loopVars, name, handle, kept>>

\* CloseHandle on a job, which IN_PROGRESS hands to the plugin; one that closes
\* what it need not may do so from its callback on.
CloseJob(th, j) ==
  /\ InPlugin(th)
  /\ FindsJob(j)
  /\ job[j] \in {"in_progress", "answered"} \/ (Closing /\ job[j] \in {"running", "done"})
  /\ handle' = [handle EXCEPT ![j] = "closed"]
  /\ UNCHANGED <<workerVars, callVars, loopVars, job, name, kept>>

\* gearman_worker_work returns success after a job.
WorkSucceeds(l) ==
  /\ loop[l] \in {"returned", "failed"}
  /\ loop' = [loop EXCEPT ![l] = "work"]
  /\ UNCHANGED <<workerVars, callVars, loopCtx, current, jobVars>>

\* gearman_worker_work returns an error, with a job behind it or none: the do
\* loop is left and RunThread ends. So it may after a callback that returned an
\* error or was missing and when the ctx it reads was freed, and so it does for a
\* worker that has no server.
WorkFails(l) ==
  /\ \/ loop[l] = "failed"
     \/ /\ loop[l] \in {"work", "returned"}
        /\ MayFail("Work") \/ loopCtx[l] \notin servers \/ worker[loopCtx[l]] = "freed"
  /\ loop' = [loop EXCEPT ![l] = "ended"]
  /\ UNCHANGED <<workerVars, callVars, loopCtx, current, jobVars>>

-----------------------------------------------------------------------------
NativeStep(th) == DefineFunction(th) \/ TestThread(th) \/ NewThread(th) \/ StartThread(th)

LoopStep(l) ==
  \/ \E j \in Jobs : CallWorker(l, j)
  \/ CallbackReturns(l) \/ WorkSucceeds(l) \/ WorkFails(l)

\* Nobody is obliged to do anything: plugins and the server may fall silent.
AtRest ==
  /\ \A th \in Threads : pc[th] = "idle"
  /\ \A l \in Loops : loop[l] \notin {"callback", "returned", "failed"}
  /\ UNCHANGED vars

Next ==
  \/ \E th \in Threads :
       \/ NativeStep(th)
       \/ \E w \in Workers :
            \/ Create(th, w) \/ AddServer(th, w) \/ CloseWorker(th, w)
            \/ \E f \in Functions : AddFunction(th, w, f)
       \/ \E j \in Jobs : Answer(th, j) \/ CloseJob(th, j)
  \/ \E l \in Loops : LoopStep(l)
  \/ \E j \in Jobs, f \in Functions : Arrive(j, f)
  \/ AtRest

Spec == Init /\ [][Next]_vars

\* What a loop does while nothing goes wrong in gearman_worker_work, and with no
\* server to ask.
LoopGoesOn(l) ==
  /\ \/ \E j \in Jobs : CallWorker(l, j)
     \/ WorkSucceeds(l)
     \/ WorkFails(l) /\ loopCtx[l] \notin servers
  /\ worker[loopCtx[l]] = "live"

\* A native runs to its end, the server assigns a queued job to a worker that
\* waits for one, gearman_worker_work returns in the end, and so does a callback:
\* it does not call natives for ever. No failure has to happen, and nothing is
\* expected of a worker that was closed.
Fairness ==
  /\ \A th \in Threads : WF_vars(NativeStep(th))
  /\ \A l \in Loops : WF_vars(LoopGoesOn(l)) /\ SF_vars(CallbackReturns(l))

FairSpec == Spec /\ Fairness

-----------------------------------------------------------------------------
(* Properties.                                                              *)

Serves(l, w) == loop[l] \notin {"absent", "ended"} /\ loopCtx[l] = w

\* "one thread per worker": two threads never call gearman_worker_work for one
\* gearman_worker_st, though AddFunction tests and sets ctx->thread unlocked.
OneThreadPerWorker ==
  \A k, l \in Loops, w \in Workers : Serves(k, w) /\ Serves(l, w) => k = l

HasLoop(w) == \E l \in Loops : loop[l] # "absent" /\ loopCtx[l] = w

\* AddFunction tells a plugin GEARMAN_SUCCESS only once a thread was started for its
\* worker ("This needs a thread to call gearman_worker_work for 'worker'"), or where
\* the threader had refused one to an earlier call: ctx->thread stays set then, and
\* the retry is taken for a worker that runs.
OfferIsServed ==
  [][\A offer \in offered' \ offered : HasLoop(offer[1])' \/ offer[1] \in unmade]_vars

\* The extension frees a job's handle when its callback is over and not before: one
\* that answered IN_PROGRESS is not freed under the plugin, "Otherwise it auto
\* closes the handle", and only a refused FreeHandle leaves it open.
JobHandles ==
  \A j \in Jobs :
    /\ job[j] \in {"running", "in_progress", "answered"} => handle[j] # "freed"
    /\ job[j] = "done" /\ handle[j] = "open" => j \in kept

\* The workers, their threads and what may fail or be closed in them implement
\* JobService, which knows of none: no job is given to the plugin twice, and no
\* handle is lent again.
Service == INSTANCE JobService WITH lent <- {j \in Jobs : handle[j] = "open"}
ServiceSpec == Service!Spec

\* A plugin was told SUCCESS for the function of job j, and the thread of that
\* worker is there for it.
Served(j) ==
  \E w \in Workers, l \in Loops :
    <<w, name[j]>> \in offered /\ worker[w] = "live" /\ Serves(l, w)

\* A queued job for an offered function is taken, for the plugin's callback or, with
\* that gone, to fail, as long as a thread serves the worker: the other functions,
\* callbacks that add more, answers left for later and refused definitions keep it
\* from no job. The worker is closed or its thread ends otherwise.
JobsRun ==
  \A j \in Jobs : job[j] = "queued" /\ Served(j) ~> job[j] # "queued" \/ ~Served(j)
=============================================================================
