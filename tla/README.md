# A TLA+ model of sm-gearman

sm-gearman is a SourceMod extension that gives game-server plugins a gearman
client and gearman workers. The program is `extension.cpp`, `worker.cpp` and
the queue template `sm_queue.h`; libgearman and SourceMod are libraries it
calls. It is small, but three kinds of thread run its code with one mutex
between them, and objects are freed from either side of that boundary. The
modules here say what those interleavings can do. Line numbers are those of
the source at the commit modelled (`PROJECT.json` maps each definition to its lines).

## Inventory

| Part | State | Operations | Modelled in |
|---|---|---|---|
| Task dispatch (`AddTask`, `AddToQueue`, `RunThread`) | `m_TaskQueue`, `m_pQueueLock`, `m_pWorker`, the tasks linked into clients | add a task; create and start the IThreadWorker; queue; pop and run | `TaskDispatch`, `TaskService` |
| `Queue<T>` (`sm_queue.h`) | ring of nodes around a sentinel, `m_Size`, `m_FreeNodes` | push, pop, first, find, remove, erase, clear, destructor | `SmQueue`, `Fifo` |
| Gearman workers | `gearman_worker_ctx`, its `thread`, defined functions, job handles | Create, AddServer, AddFunction, the `GearmanWorkerThread` loop, `Gearman_CallWorker` | `GearmanWorker`, `JobService` |
| Tasks seen by plugins | `gearman_task_ctx`, its handle, the callbacks' funcids | the `Gearman_Task*Fn`, `OnHandleDestroy`, the setters | `TaskCallbacks` |
| Client handles | `gearman_client_ctx`, its handle, the tasks linked into it | Create, AddServer, SetCreatedCallback, CloseHandle | `TaskCallbacks` |
| Job natives | none of their own | look up the handle, call libgearman | `GearmanWorker` (`FindsJob`, `Answer`, `CloseJob`) |
| Life of the extension | interfaces, natives, handle types, lock, threads left behind | OnExtensionLoad, SDK_OnLoad, SDK_OnAllLoaded, QueryRunning, SDK_OnUnload | `Extension`; what the unload destroys under a running thread in `TaskCallbacks` |
| SDK glue | interface pointers | the load and unload callbacks, `SM_GET_IFACE`, `SM_CHECK_IFACE` | those used, in `Extension` |
| libgearman headers, include files, binaries | | declarations, build output | no |

How the parts meet:

- Plugin code runs on the **game thread**, on the thread of each gearman worker
  (inside `Gearman_CallWorker`) and, inside a task callback, on the
  **IThreadWorker's thread**. All of them call the natives.
- `AddTask` links a task into a libgearman client, makes its handle and calls
  `AddToQueue`. That pushes the task's context if `m_TaskQueue` is empty and asks
  the IThreadWorker for one `RunThread`, which pops a context and runs
  *all* tasks of that context's client. If the queue holds something,
  `AddToQueue` returns at once and relies on the pending run.
- `gearman_client_run_tasks` calls `Gearman_Task*Fn`, which call the plugin with
  the handle found in the context; the complete callback frees the handle, and with it the context.
- A client, a task and a job live as long as their **SourceMod handle**, which the
  extension, a plugin or the unload of the extension may end; libgearman and
  `m_TaskQueue` keep pointers to the same objects and are not asked.
- The first `AddFunction` of a worker starts a thread that loops in
  `gearman_worker_work` until that returns anything but success.

What is hard: `m_pWorker` and `ctx->thread` are tested and set without a lock; the
early return of `AddToQueue` hands a task over to a run that may be starting or
ending; callbacks start before `AddTask` has stored the handle and may free
the context it will return from; a context that is queued may be completed by
a run already under way; handles of tasks and clients are closed, and the
extension is unloaded, while a thread uses their objects; calls that fail
leave a state behind that looks like success.
`PROJECT.json` lists each hazard at its line with the properties aimed at it.

What makes each part correct:

- dispatch: no accepted task is forgotten, a queued entry always has somebody to
  pop it, a woken run finds its entry, there is one worker, clients are served in turn;
- queue: one ring, no node lost or used twice, first in first out;
- workers: one thread per worker, a thread behind every success, no queued job passed
  over while that thread lives, none given to the plugin twice, and job handles freed
  neither early nor, where that is granted, late;
- tasks and clients: handle, context and libgearman task live and die together,
  callbacks and `AddTask` pass on the task's handle, no freed context is popped,
  a client closed at rest is left alone;
- extension: what is used is there, in whatever order SourceMod asks, loads and
  unloads, and what can go wrong all the same is known.

## Modules

**TaskDispatch** follows each thread through `AddTask` and `AddToQueue`
(`pc`, `arg`), and each IThreadWorker through `RunThread` (`run`, `ctx`), one action
per stretch of code between two accesses to what threads share. So
`CheckWorker`, `MakeWorker`, `StartWorker`, `ClearWorker` are four steps because
nothing locks `m_pWorker`; `TestQueue` and `PushTask` are inside the lock and
separate so that the lock is what keeps them together. `Submit`, `Finish`
and `CallbackReturns` are what `gearman_client_run_tasks` does for the client
being run. `AddTask` ends with the link: the handle that line 384 makes and what line 388
returns are TaskCallbacks's. `Faults` says which calls out of the extension may fail. A thread
that uses a NULL or destroyed worker goes to `crashed`. `TypeOK` says of the lock that
it is held exactly between the `Lock` and the `Unlock` of the two functions, so that a
path that leaves without unlocking shows.

**TaskService** is its promise without queue, lock and threads: a task is accepted once, one
client is served at a time, a task advances only then, and a client is let go only when it
is drained. `TaskDispatch!ServiceSpec` states the refinement; the served
client is read off the worker that is inside `run_tasks`.

**SmQueue** has the fields of the nodes as functions on cells, so that a wrong pointer shows;
**Fifo** is the sequence it stands for.

**GearmanWorker** has the worker contexts, the callers inside `AddFunction` and the loops
and the jobs. `AddFunction` looks the worker up, `DefineFunction` uses it (another thread may
have closed it meanwhile), and `TestThread`, `NewThread` and `StartThread` are the test of `ctx->thread`, its
assignment and `MakeThread`: again no lock. A loop is `absent`, waiting for a job (`work`), in the
plugin (`callback`), past a `Gearman_CallWorker` that returned a success (`returned`) or an
error (`failed`), or `ended`. Every result the code ignores is a fault: a job may be given
to the plugin without a handle ("CreateHandle", line 523), its callback may be gone
("Function", line 527: the job fails with its handle open), the callback may return an error, which may
or may not end `gearman_worker_work`, and the `FreeHandle` of line 547, which names no owner, may be refused.
Two variables remember what the code does not: `unmade` are the workers `MakeThread` refused a thread, `kept` the
jobs whose handle `FreeHandle` refused to free. A worker may be closed at any moment, and a server
added before or after the functions.

**JobService** is what is left of it when workers, loops, functions and servers
are forgotten: a job is given to the plugin once, with a handle that is lent meanwhile
or with none, or fails before; it may come back with its handle or without; an answer
after `IN_PROGRESS` needs the handle, and a handle that has ended is not lent again. `GearmanWorker!ServiceSpec`
states the refinement; a job is lent while its handle is open.

**TaskCallbacks** puts together what points at a `gearman_task_ctx`: the handle
system, the task in libgearman, the entry of `m_TaskQueue`, `RunThread` between
its pop and its call of `run_tasks`, `AddTask` until it has returned, and
the callback being executed. Three kinds of thread call the natives: the game's, the
IThreadWorker's below a task's callback, and the `JobThreads`, those of gearman workers, which
execute plugin code whenever a job comes. `AddTask` is the lookup of the client and the new context,
`LinkTask` the use of that client some lines later, with no lock between
(`raced` remembers the tasks whose client was freed there), then `MakeHandle`, `AddToQueue` and `ReturnHandle`. `how`
remembers in what circumstances a task was added: at rest and alone, by a task's callback, or in an overlap with a run
or with another thread's `AddTask`, whichever came first. The memory of the context, its `hndl`
field and the entry of the handle system are apart, since the code lets them
disagree. `hndl` starts as "garbage": `new gearman_task_ctx` does not
set it. A garbage value never is a valid handle here. Handles are ended by the
completion callbacks ("freed"), by plugins or by `SDK_OnUnload` ("closed").
`FreeHandle(hndl, NULL)` and `RemoveType(type, NULL)` ask as nobody in
particular, and whether the handle system grants that is SourceMod's policy:
`FreeGranted` gives both answers. Closing the client frees the tasks linked into
it, which are "lost" from then on: their contexts stay. There is one client. Its queue
and its worker are TaskDispatch's with the lock's critical sections as single
steps: that a queued entry always has a run to pop it, and one at a time, is
what TaskDispatch shows. A context that was freed keeps its name, so a use
after that can be seen; what such a use does to the process is not followed.

**Extension** is the game thread's view: `OnExtensionLoad`, `SDK_OnAllLoaded`,
`QueryRunning` for each plugin, the natives that start threads, and
`OnExtensionUnload`, over `MaxLives` loads in one process. SourceMod may lack any interface (`Offers`).
`Plugins` require the extension and run when `QueryRunning` has answered TRUE; those in
`Optional` (`gearman.inc:346`, `required = 0`) call the natives as soon as there are any, and stay when the
extension goes. `held` are the types they have handles of, `leftover` the types
that a life could not remove: SourceMod still calls the code that is gone when such a handle is closed.
A use of a NULL pointer, code that goes away under a thread inside it, and such a call end
in `crashed`.

The MC modules add symmetry sets. Operators under "Plausible mistakes" in each module
are not part of any specification: they are the mutants `PROJECT.json` names,
variants of one action with a bug of the kind a change to the code could introduce, each of which
makes TLC report the property it is paired with.

## Runs

Bounds are the constants of each cfg: there is no other bound. `Tasks` also counts the
calls of `AddTask`, `Jobs` the jobs the server assigns, `Loops` the threads that can be started.

| Run | Instance | Result |
|---|---|---|
| `dispatch_one_client` | game thread, 1 worker, 1 client, 3 tasks, fair | `EntryHasThread`, `NoStrandedTask`, `EveryTaskRuns` hold |
| `dispatch_faults` | game thread, 2 workers, 2 clients, 3 tasks, all faults but `Run` | `SingleWorker`, `ServiceSpec` hold |
| `dispatch_job_threads` | 2 callers, 2 workers, 2 clients, 3 tasks, all faults | `TypeOK`, `PopFindsEntry` hold |
| `dispatch_two_clients` | game thread, 2 clients, 2 tasks, fair | `EveryTaskRuns` **fails** |
| `queue_fifo` | 3 nodes, 2 values | `TypeOK`, `Ring`, `Memory`, `FifoSpec` hold |
| `worker_service` | 1 worker, game thread and callbacks, 2 loops, 2 functions, 2 jobs, closing, all faults, fair | `OneThreadPerWorker`, `OfferIsServed`, `JobsRun` hold |
| `worker_faults` | 2 workers, game thread and callbacks, 3 loops, 2 jobs, closing, all faults | `TypeOK`, `JobHandles`, `ServiceSpec` hold |
| `worker_two_workers` | 2 workers, 3 loops, nothing failing | `OneThreadPerWorker` **fails** |
| `callbacks_handles` | 2 tasks, the game's thread, a gearman worker's and the run's, client and tasks closed, unload, setters, all faults, both answers of FreeHandle | `TypeOK`, `LiveTogether`, `HandleInTime`, `ReturnInTime`, `EntryInTime`, `ClosedClientRests` hold |
| `callbacks_overlap` | 2 tasks, no job thread, nothing closed | `HandleKnown` **fails** |
| `callbacks_entry` | 2 tasks, no job thread, nothing closed, FreeHandle frees | `EntryLive` **fails** |
| `extension_life` | 2 plugins that require it and 1 that does not, any interfaces missing, types removed or not, 2 loops, 3 lives | `TypeOK`, `NoOtherCrash` hold |

The bounds suffice for the cases that matter: three tasks are one being run, one queued and one that meets a queue
that is not empty; two workers are one replaced by another; two callers are the
pair that races; three nodes are a first, a middle and a last. In `TaskCallbacks` two tasks are
one being run and one being added, queued or closed meanwhile, and the game's thread and one
job thread are two that may be inside `AddTask` at once. Three lives are a first, one after a
life that was normal or left its types behind, and one after that; a second plugin is one that asks again while the
first is trusted. The theorems below then cover every number. In
`dispatch_one_client` and `worker_service`, which check liveness, there is no symmetry.

`queue_fifo` switches the deadlock check off because a destroyed queue has no next step; the other
modules have an explicit `AtRest` step for a process in which nobody is obliged to do anything.

### What the failing runs show

Each is a disagreement between the code and a line of the repository, quoted under "findings" in `PROJECT.json`.

- `dispatch_two_clients`: `AddToQueue` skips the push while *another* client's entry is queued; the second client is never run.
- `worker_two_workers`: two unlocked tests of `ctx->thread` start two loops for one worker. A callback of another worker is the second thread.
- `callbacks_overlap`: a callback is given `hndl` before `AddTask` has set it. `HandleInTime`, which holds, says when that can happen at all.
- `callbacks_entry`: a task added while its client runs is also pushed; the run
  under way completes it, which frees its context, and the next `RunThread` pops that context and reads
  `ctx->cContext->client` from it. A plugin that adds a task from a callback
  gets there, and so does one that closes a task's handle right after `AddTask`.
  `EntryInTime`, which holds, says when it cannot happen.

Other weaknesses the models contain and no run is spent on, because they
need no interleaving, because a property that holds names them as its exception, or because they
follow from one removed assumption. Dispatch: a failed `MakeThread` of the IThreadWorker
leaves an entry nobody pops (`EntryHasThread`, in `dispatch_one_client`, has it out of `Faults`); two threads that add their first task at once
test `m_pWorker` together (`SingleWorker` is for one caller); a run begun before
`AddServer` ends at once and its tasks wait for a later one (`EndRun`). Workers: the loop
of a worker ends at its first error, and at once when a function was added before a server, and stays
ended (the way out `JobsRun` allows); after a failed `MakeThread` a second `AddFunction` reports success with no
thread (the way out of `OfferIsServed`); a job whose callback is gone, and one whose handle could not be freed, leave
it open (`JobHandles` is silent about the first and names the second). Tasks: a client closed inside `AddTask`, by a callback or
another thread, leaves a task linked into freed memory (`raced`; `LiveTogether` says that it is the only
way); with job threads two calls of `AddTask` overlap, and the run one of them starts may
complete and free the other's task (`how`; `HandleInTime` and `EntryInTime` say that a task added at rest and alone is
safe); `AddTask` returns `task->hndl` after a completion
may have cleared it (`misreturned`; `ReturnInTime` says when); `ctx->hndl = NULL` at
`extension.cpp:270` writes to the context the line before has freed; a handle that outlives its client ends in a second
`gearman_task_free` (a "lost" task, `CloseTask`); with a full handle table the
context is run and never freed (`"CreateHandle"`); the setters look a task's handle up under
the job's type (`GetterFinds`); status, warning and fail events take the
completion callback (`Tested`). Extension: without the THREADER interface
`SDK_OnAllLoaded` uses a NULL pointer before `QueryRunning` can say so, and a plugin that does not wait for the answer can do
the same; unloading does not stop the threads; a type whose `RemoveType` with a NULL identity is refused takes the process with it when a
plugin that outlived the extension closes a handle of it (`NoOtherCrash` allows these and no other), and
cannot be created in the next life. Queue: `erase` on an empty queue does not work as `sm_queue.h:272`
says (`takeFirst` tests first, as RunThread does).

The repository's `README.md:3` says of the worker: "It works for 3 times and on the fourth it times
out, then works again for another 3". `JobsRun` does not contradict it and does not explain it. Nothing in
`extension.cpp` or `worker.cpp` counts jobs, and the loop that would time out by itself (`gearman_worker_work`
returning an error) ends for good, so what comes and goes must be outside the models: in libgearman, whose job
`extension.cpp:91` frees while `gearman_worker_work` still owns it (line 547), or on the server. The models take from
libgearman only that an assigned job reaches `Gearman_CallWorker`.

## Fairness

`TaskDispatch!FairSpec`: weak fairness for each thread's steps inside a native (the operating system runs every
thread; the queue's lock is held for a few instructions, and is given to
a waiter) and for each worker's steps in `RunThread`, which includes that the
server answers and that callbacks return. Nobody is obliged to
add a task. `GearmanWorker!FairSpec`: weak fairness of the natives and of `LoopGoesOn`, which is a loop whose
worker was not closed taking a job, going on after one, and ending when it has no server to ask; and strong
fairness of `CallbackReturns`, because a callback may call natives, during which
its return is disabled, but does not call them for ever. No failure is owed by anybody, neither that of a
call nor the error that ends a loop, and nothing is expected of a loop whose worker's memory was freed.

## Theorems

Each is proved from the assumption its module makes about its constants (thread sets
are disjoint, NULLs are not objects...) and what the table says besides, for every number of threads, objects and lives.

| Theorem of `TaskDispatchProofs` | Assumes besides | States |
|---|---|---|
| `TypeCorrect` | nothing | `TypeOK`, with the lock's two critical sections |
| `PopAlwaysFindsEntry` | nothing | `PopFindsEntry`, with every fault |
| `OneWorkerAtATime` | one caller | `SingleWorker` |
| `QueueKeepsMoving` | one caller, MakeThread does not fail | `EntryHasThread` |
| `NothingStranded` | one client, workers start, runs do not fail | `NoStrandedTask` |
| `ServesClientsInTurn` | one caller, runs do not fail | `TaskDispatch` implements `TaskService` |

`OneCaller` (`Callers` has at most one element) is a server without gearman workers
of its own: the game thread, and the IThreadWorker's thread in its callbacks.
Without it `SingleWorker` is false: two threads test `m_pWorker` together.

| Theorem of `SmQueueProofs` | Assumes besides | States |
|---|---|---|
| `TypeCorrect` | nothing | `TypeOK`, so `m_Size` does not wrap |
| `OneRing` | nothing | `Ring` |
| `NoNodeLost` | nothing | `Memory` |
| `FirstInFirstOut` | nothing | `SmQueue` implements `Fifo` |

The assumption of `SmQueue` asks that a `size_t` can count the nodes there are. `takeFirst` is
guarded as its one caller, `RunThread`, guards it; without that guard none of the four is true.

| Theorem of `GearmanWorkerProofs` | Assumes besides | States |
|---|---|---|
| `TypeCorrect` | nothing | `TypeOK` |
| `HandlesOpenAndClose` | nothing | `JobHandles`, with every fault and closing |
| `ServesJobs` | nothing | `GearmanWorker` implements `JobService` |
| `OneLoop` | one worker, one caller | `OneThreadPerWorker` |
| `OffersAreServed` | one worker, one caller | `OfferIsServed`, with every fault and closing |

| Theorem of `TaskCallbacksProofs` | Assumes besides | States |
|---|---|---|
| `TypeCorrect` | nothing | `TypeOK` |
| `HandlesHaveContexts` | nothing | `LiveTogether` |
| `HandleReachesCallback` | nothing | `HandleInTime` |
| `CallbackGetsHandle` | nothing | `ReturnInTime` |
| `EntryStays` | nothing | `EntryInTime` |
| `ClosedStaysClosed` | nothing | `ClosedClientRests` |

| Theorem of `ExtensionProofs` | Assumes besides | States |
|---|---|---|
| `TypeCorrect` | nothing | `TypeOK` |
| `CrashesAreThree` | nothing | `NoOtherCrash` |

The argument for the dispatcher. `PopFindsEntry` is not inductive: nothing in it says why there
is one run per entry. `TokenInv` does: the entry of the queue and the duty to
pop it are one token, held by the pusher on its way to `MakeThread`, by
one pending request or by one `RunThread`, and by nobody while the queue is
empty. It needs the lock (`LockInv`: who is in a critical section owns it; `HeldInv`, for `TypeOK`, is the
converse), `CallInv`
(a thread in a call has a task) and `NestInv` (a worker's thread is in a native only below a callback, so its call
and its `RunThread` do not run at once). `ClientInv` says that what is queued or run
has been built. Their conjunction `Inv` is inductive with no assumption. `WorkerInv` is
inductive with one caller and says who may be between the test of `m_pWorker` and
its start; `KeepInv` is inductive when workers start and says that a worker,
once there, is there for good. `NoStrandedTask` then follows step by step, the interesting
steps being the early return of `TestQueue` (the queued entry is of the same
client) and the end of a run (which needs the client drained). The refinement
maps `AddTask` to `Accept`, `Submit` and `Finish` to `Advance`, `PopFirst` to
`Serve`, `RunReturns` to `Release` and the rest to stuttering; `WorkerInv` makes the served client unique.

For the queue, `Ring` and `Memory` speak of `Chain`, which is computed by walking along `next`,
and neither is inductive alone. `Holds(s)` says what a sequence `s` of nodes is
to the pointers: `next` and `prev` lead through it from sentinel to sentinel, `m_Size`
is its length, its nodes and those of `m_FreeNodes` are all different, and `heap` is
exactly these and the sentinel. That there is such an `s` is `RingInv`, and it is inductive without
any assumption: `push` appends to `s`, `erase` removes at a
place, `clear` leaves the empty sequence, and the pointers each step writes are
the ones that change places in `s` (`PushLinks`, `EraseLinks`). Distinct nodes are
no more than there are nodes (`PigeonHole`), so the size cannot wrap. `ChainIs` ties the two
together: `Walk` steps along any `s` that is linked, so `Chain` is `s`. The equation of the
recursive function `Walk` is proved too (`WalkIs`), by induction on the number of steps; the
library's induction theorems take a predicate as a parameter, so `Induction` is proved
about sets instead, from the library's fact that `<` is well-founded on the naturals. `FifoSpec` follows step by step:
`Contents` is read off `s`, and `find` picks in it what `Fifo` removes.

For the workers, `CallInv` and `JobInv` hold whatever happens: a loop is in a native only below its
callback, and a job runs in one callback. `HandleInv` adds to `JobHandles` what handle a job can have before it
runs, and is inductive with them, whatever fails; every step of
a loop, a plugin or the server is then one of `JobService` or none. `LoneInv` is what one
worker and one caller add: who is between the test of `ctx->thread` and `MakeThread` is
alone, since other threads are callbacks and there is no loop yet. `OfferInv` adds that a thread that is
set has its loop, or its starter, or is one `MakeThread` has refused.

For the tasks, `CallInv` gives each call of `AddTask` a context of its own, with no handle that could be closed
before `MakeHandle`, and a client that was live unless it was freed during that very call. `LinkInv` says that a linked task without a handle belongs to such
a call; in a report that call is another thread's, as the worker's own is below a callback and keeps
the run waiting. `RestInv` adds that while a task added at rest is on its way to the queue nobody
else is (`Adders`: the threads inside `AddTask` before the push), so that no run is at work from its lookup
to its pop, and `ReturnInv` that nobody else can know, or free, what a callback is adding. Their
conjunction `Inv` is inductive for any number of job threads, with every fault, every kind of closing and both answers of `FreeHandle`.

For the extension, `LifeInv` says what has been found by each stage: the THREADER
interface is asked for last, so an answer TRUE of `QueryRunning` implies the rest, and an absent
extension has no natives to call. `CrashStep` then goes through the steps that can crash.

TLC has checked the strengthened invariants, as invariants, on the instances above before they were
proved (`RingInv` with sequences no longer than the number of nodes).

Only model-checked: the liveness properties `EveryTaskRuns` and `JobsRun`, since the prover
has no fairness or ENABLED, and what the failing runs refute. Every invariant and every refinement of
a passing run has its theorem; each assumption in the tables is needed:
with any one of them dropped, and the others kept, TLC finds a counterexample on the instances above.

## Not modelled

- Strings, payloads, ports, priorities: data the code passes on. A priority with no case is a task that is not linked (`"AddTask"`).
- Which answer the handle system gives to a NULL owner or identity: both are tried.
- libgearman's inside: what it does to a client two threads use at once is one fault (`"Race"`: the added task is lost).
- Unloading a plugin that owns callbacks: seen as its handles being closed and its functions lost (`"Function"`).
- `SetIdentifier`, timeouts given to `AddFunction`, and the job natives that only read or
  send: each looks its handle up and makes one libgearman call, whose effect is not state of this program.
  `GearmanJob_FunctionName` returns a string's length where `gearman.inc:265` says "GearmanReturn value".
- `DoBackground`: `gearman.inc` declares it, but it is not in `GearmanNatives`, so no plugin reaches it.
- The memory of a `gearman_job_st`: `gearman_worker_work` and the job's handle both free
  it, by rules src/ shows only through libgearman's headers.
- What a freed object does to the process that uses it: a freed context keeps its own identity, and only *that* it is used is modelled.
- The Metamod half of `sdk/smsdk_ext.cpp`: `smsdk_config.h` does not compile it in. The rest of the SDK
  glue has no state: getters of names and versions.
- Queue's copy constructor and assignment: they call `push_back`, which does not exist.
- `KillWorkerThread`: nothing calls it.
- The headers under `libgearman-1.0/`: declarations of a library, without code to
  translate. They are about three in five of the repository's lines of C and C++; together with
  the unused SDK glue and licence texts they are why the modules stand for
  a small share of all lines, and for most of those of `extension.cpp`, `worker.cpp` and `sm_queue.h`.

## Plan

1. `TaskDispatch`, `TaskService`, `TaskDispatchProofs`: done.
2. `SmQueue`, `Fifo`, `SmQueueProofs`: done.
3. `GearmanWorker`, `JobService`, `GearmanWorkerProofs`: done.
4. `TaskCallbacks` with queue entry, client and unload, `TaskCallbacksProofs`: done.
5. `Extension`, `ExtensionProofs`: done.
6. Left out: `TaskDispatch` over `SmQueue` in the place of its sequence. `FifoSpec` and the lock already give that step by step.
