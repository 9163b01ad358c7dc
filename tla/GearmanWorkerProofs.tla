------------------------ MODULE GearmanWorkerProofs ------------------------
(***************************************************************************)
(* Proofs about GearmanWorker, for every number of threads, workers,       *)
(* functions and jobs.                                                     *)
(*                                                                         *)
(* CallInv, JobInv and HandleInv, which the job handles and the refinement *)
(* rest on, are inductive whatever calls what and whatever fails; LoneInv  *)
(* and OfferInv, which the threads rest on, while there is one worker and  *)
(* one thread besides its callbacks.                                       *)
(***************************************************************************)
EXTENDS GearmanWorker, TLAPS

\* A thread inside AddFunction adds a function to a worker; a loop is only there
\* below a job's callback.
CallInv ==
  /\ \A th \in Threads : pc[th] # "idle" =>
       arg[th].worker \in Workers /\ arg[th].function \in Functions
  /\ \A l \in Loops : pc[l] # "idle" => loop[l] = "callback"

\* The job of a callback runs, and in no other callback.
JobInv ==
  /\ \A l \in Loops : loop[l] = "callback" => job[current[l]] = "running"
  /\ \A k, l \in Loops :
       loop[k] = "callback" /\ loop[l] = "callback" /\ current[k] = current[l] => k = l

Inv == TypeOK /\ CallInv /\ JobInv

\* What the threader's success makes of loop l in StartThread(th).
StartsLoop(th, l) ==
  /\ loop[l] = "absent"
  /\ loop' = [loop EXCEPT ![l] = "work"]
  /\ loopCtx' = [loopCtx EXCEPT ![l] = arg[th].worker]
  /\ offered' = offered \cup {<<arg[th].worker, arg[th].function>>}
  /\ unmade' = unmade

-----------------------------------------------------------------------------
LEMMA InvInit == Init => Inv
<1> SUFFICES ASSUME Init PROVE Inv
  OBVIOUS
<1>. QED
  BY WorkerAssumption DEF Init, Inv, TypeOK, CallInv, JobInv, Threads, Calls, NoCall

LEMMA CallsHaveNone == NoCall \in Calls
  BY DEF NoCall, Calls

\* The shape of the state.
LEMMA TypeStep == TypeOK /\ CallInv /\ [Next]_vars => TypeOK'
<1> SUFFICES ASSUME TypeOK, CallInv, [Next]_vars PROVE TypeOK'
  OBVIOUS
<1> USE WorkerAssumption DEF TypeOK, CallInv, Calls, NoCall, Threads, workerVars,
      callVars, loopVars, jobVars
<1>1. ASSUME NEW th \in Threads, TestThread(th) PROVE TypeOK'
  <2>1. arg[th].worker \in Workers /\ arg[th].function \in Functions
    BY <1>1 DEF TestThread
  <2>2. offered' \subseteq Workers \X Functions
    <3>1. <<arg[th].worker, arg[th].function>> \in Workers \X Functions
      BY <2>1
    <3>2. offered' = offered \/ offered' = offered \cup {<<arg[th].worker, arg[th].function>>}
      BY <1>1 DEF TestThread
    <3>. QED BY <3>1, <3>2, Zenon
  <2>3. pc' \in [Threads -> {"idle", "define", "test", "new", "start"}]
        /\ arg' \in [Threads -> Calls]
    <3>1. CASE pc' = [pc EXCEPT ![th] = "new"] /\ arg' = arg
      BY <3>1
    <3>2. CASE pc' = [pc EXCEPT ![th] = "idle"] /\ arg' = [arg EXCEPT ![th] = NoCall]
      BY <3>2, CallsHaveNone
    <3>. QED BY <1>1, <3>1, <3>2 DEF TestThread, Goto, Return
  <2>. QED
    BY <1>1, <2>2, <2>3, Zenon DEF TestThread
<1>2. ASSUME NEW th \in Threads, NewThread(th) PROVE TypeOK'
  BY <1>2 DEF NewThread, Goto
<1>3. ASSUME NEW th \in Threads, StartThread(th) PROVE TypeOK'
  <2>1. CASE \E l \in Loops : StartsLoop(th, l)
    <3>1. PICK l \in Loops : StartsLoop(th, l)
      BY <2>1
    <3>2. arg[th].worker \in Workers /\ <<arg[th].worker,
          arg[th].function>> \in Workers \X Functions
      BY <1>3 DEF StartThread
    <3>3. loop' \in [Loops -> {"absent", "work", "callback", "returned", "failed", "ended"}]
          /\ loopCtx' \in [Loops -> Workers \cup {NoWorker}]
      BY <3>1, <3>2 DEF StartsLoop
    <3>4. offered' \subseteq Workers \X Functions
      BY <3>1, <3>2, Zenon DEF StartsLoop
    <3>5. pc' \in [Threads -> {"idle", "define", "test", "new", "start"}]
          /\ arg' \in [Threads -> Calls]
      BY <1>3 DEF StartThread, Return
    <3>6. /\ \A k \in Loops : loop'[k] # "absent" => loopCtx'[k] \in Workers
          /\ \A k \in Loops : loop'[k] = "callback" => current[k] \in Jobs
      BY <3>1, <3>2 DEF StartsLoop
    <3>. QED
      BY <1>3, <3>1, <3>3, <3>4, <3>5, <3>6, Zenon DEF StartThread, StartsLoop
  <2>2. CASE unmade' = unmade \cup {arg[th].worker} /\ UNCHANGED <<loop, loopCtx, offered>>
    BY <1>3, <2>2 DEF StartThread, Return
  <2>. QED
    BY <1>3, <2>1, <2>2 DEF StartThread, StartsLoop
<1>4. ASSUME NEW th \in Threads, NEW w \in Workers, Create(th, w) PROVE TypeOK'
  BY <1>4 DEF Create
<1>5. ASSUME NEW th \in Threads, NEW w \in Workers, AddServer(th, w) PROVE TypeOK'
  BY <1>5 DEF AddServer
<1>6. ASSUME NEW th \in Threads, NEW w \in Workers, CloseWorker(th, w) PROVE TypeOK'
  BY <1>6 DEF CloseWorker
<1>7. ASSUME NEW th \in Threads, NEW w \in Workers, NEW f \in Functions,
             AddFunction(th, w, f) PROVE TypeOK'
  <2>1. pc' \in [Threads -> {"idle", "define", "test", "new", "start"}]
    BY <1>7 DEF AddFunction, Goto
  <2>2. arg' \in [Threads -> Calls]
    <3>1. [worker |-> w, function |-> f] \in Calls
      OBVIOUS
    <3>2. arg' = [arg EXCEPT ![th] = [worker |-> w, function |-> f]]
      BY <1>7 DEF AddFunction
    <3> HIDE DEF Calls
    <3>. QED BY <3>1, <3>2
  <2>. QED
    BY <1>7, <2>1, <2>2, Zenon DEF AddFunction
<1>8. ASSUME NEW th \in Threads, NEW j \in Jobs, Answer(th, j) PROVE TypeOK'
  BY <1>8 DEF Answer
<1>9. ASSUME NEW th \in Threads, NEW j \in Jobs, CloseJob(th, j) PROVE TypeOK'
  BY <1>9 DEF CloseJob
<1>10. ASSUME NEW l \in Loops, NEW j \in Jobs, CallWorker(l, j) PROVE TypeOK'
  <2>1. /\ loop' \in [Loops -> {"absent", "work", "callback", "returned", "failed", "ended"}]
        /\ current' \in [Loops -> Jobs \cup {NoJob}]
    <3>1. CASE current' = [current EXCEPT ![l] = j] /\ loop' = [loop EXCEPT ![l] = "callback"]
      BY <3>1
    <3>2. CASE current' = current /\ loop' = [loop EXCEPT ![l] = "returned"]
      BY <3>2
    <3>. QED BY <1>10, <3>1, <3>2 DEF CallWorker
  <2>2. /\ job' \in [Jobs -> {"absent", "queued", "running", "failed", "done",
                          "in_progress", "answered"}]
        /\ handle' \in [Jobs -> {"absent", "open", "freed", "closed"}]
    BY <1>10 DEF CallWorker
  <2>3. /\ \A k \in Loops : loop'[k] # "absent" => loopCtx[k] \in Workers
        /\ \A k \in Loops : loop'[k] = "callback" => current'[k] \in Jobs
    BY <1>10 DEF CallWorker
  <2>. QED
    BY <1>10, <2>1, <2>2, <2>3, Zenon DEF CallWorker
<1>11. ASSUME NEW l \in Loops, CallbackReturns(l) PROVE TypeOK'
  <2>1. /\ loop' \in [Loops -> {"absent", "work", "callback", "returned", "failed", "ended"}]
        /\ current' \in [Loops -> Jobs \cup {NoJob}]
    BY <1>11 DEF CallbackReturns, FreeHandle
  <2>2. current[l] \in Jobs
    BY <1>11 DEF CallbackReturns
  <2>3. job' \in [Jobs -> {"absent", "queued", "running", "failed", "done",
                        "in_progress", "answered"}]
    BY <1>11, <2>2 DEF CallbackReturns
  <2>4. handle' \in [Jobs -> {"absent", "open", "freed", "closed"}] /\ kept' \subseteq Jobs
    <3>1. CASE UNCHANGED <<handle, kept>>
      BY <3>1
    <3>2. CASE FreeHandle(current[l])
      BY <3>2, <2>2 DEF FreeHandle
    <3>. QED BY <1>11, <3>1, <3>2 DEF CallbackReturns
  <2>5. /\ \A k \in Loops : loop'[k] # "absent" => loopCtx[k] \in Workers
        /\ \A k \in Loops : loop'[k] = "callback" => current'[k] \in Jobs
    BY <1>11 DEF CallbackReturns
  <2>. QED
    <3>1. UNCHANGED <<worker, thread, servers, functions, offered, unmade, pc, arg, loopCtx, name>>
      BY <1>11 DEF CallbackReturns
    <3>. QED BY <2>1, <2>3, <2>4, <2>5, <3>1, Zenon
<1>12. ASSUME NEW l \in Loops, WorkSucceeds(l) PROVE TypeOK'
  BY <1>12 DEF WorkSucceeds
<1>13. ASSUME NEW l \in Loops, WorkFails(l) PROVE TypeOK'
  BY <1>13 DEF WorkFails
<1>14. ASSUME NEW j \in Jobs, NEW f \in Functions, Arrive(j, f) PROVE TypeOK'
  BY <1>14 DEF Arrive
<1>15. CASE UNCHANGED vars
  BY <1>15 DEF vars
<1>16. ASSUME NEW th \in Threads, DefineFunction(th) PROVE TypeOK'
  <2>1. functions' \in [Workers -> SUBSET Functions]
    <3>1. arg[th].worker \in Workers /\ arg[th].function \in Functions
      BY <1>16 DEF DefineFunction
    <3>2. \/ functions' = functions
          \/ functions' = [functions EXCEPT ![arg[th].worker] = @ \cup {arg[th].function}]
      BY <1>16 DEF DefineFunction
    <3>. QED BY <3>1, <3>2
  <2>2. pc' \in [Threads -> {"idle", "define", "test", "new", "start"}]
        /\ arg' \in [Threads -> Calls]
    <3>1. CASE pc' = [pc EXCEPT ![th] = "test"] /\ arg' = arg
      BY <3>1
    <3>2. CASE pc' = [pc EXCEPT ![th] = "idle"] /\ arg' = [arg EXCEPT ![th] = NoCall]
      BY <3>2, CallsHaveNone
    <3>. QED BY <1>16, <3>1, <3>2 DEF DefineFunction, Goto, Return
  <2>. QED
    BY <1>16, <2>1, <2>2, Zenon DEF DefineFunction
<1> HIDE DEF TypeOK, CallInv, Calls, NoCall
<1>. QED
  BY <1>1, <1>2, <1>3, <1>4, <1>5, <1>6, <1>7, <1>8, <1>9, <1>10, <1>11, <1>12,
     <1>13, <1>14, <1>15, <1>16
     DEF Next, NativeStep, LoopStep, AtRest

\* A loop leaves its callback only when it is in no native.
LEMMA CallStep == TypeOK /\ CallInv /\ [Next]_vars => CallInv'
<1> SUFFICES ASSUME TypeOK, CallInv, [Next]_vars PROVE CallInv'
  OBVIOUS
<1> USE WorkerAssumption DEF TypeOK, CallInv, InPlugin, Calls, Threads, workerVars,
      callVars, loopVars, jobVars
<1>1. ASSUME NEW th \in Threads, TestThread(th) PROVE CallInv'
  BY <1>1 DEF TestThread, Goto, Return
<1>2. ASSUME NEW th \in Threads, NewThread(th) PROVE CallInv'
  BY <1>2 DEF NewThread, Goto
<1>3. ASSUME NEW th \in Threads, StartThread(th) PROVE CallInv'
  BY <1>3 DEF StartThread, Return
<1>4. ASSUME NEW th \in Threads, NEW w \in Workers, Create(th, w) PROVE CallInv'
  BY <1>4 DEF Create
<1>5. ASSUME NEW th \in Threads, NEW w \in Workers, AddServer(th, w) PROVE CallInv'
  BY <1>5 DEF AddServer
<1>6. ASSUME NEW th \in Threads, NEW w \in Workers, CloseWorker(th, w) PROVE CallInv'
  BY <1>6 DEF CloseWorker
<1>7. ASSUME NEW th \in Threads, NEW w \in Workers, NEW f \in Functions,
             AddFunction(th, w, f) PROVE CallInv'
  BY <1>7 DEF AddFunction, Goto
<1>8. ASSUME NEW th \in Threads, NEW j \in Jobs, Answer(th, j) PROVE CallInv'
  BY <1>8 DEF Answer
<1>9. ASSUME NEW th \in Threads, NEW j \in Jobs, CloseJob(th, j) PROVE CallInv'
  BY <1>9 DEF CloseJob
<1>10. ASSUME NEW l \in Loops, NEW j \in Jobs, CallWorker(l, j) PROVE CallInv'
  BY <1>10 DEF CallWorker
<1>11. ASSUME NEW l \in Loops, CallbackReturns(l) PROVE CallInv'
  BY <1>11 DEF CallbackReturns, FreeHandle
<1>12. ASSUME NEW l \in Loops, WorkSucceeds(l) PROVE CallInv'
  BY <1>12 DEF WorkSucceeds
<1>13. ASSUME NEW l \in Loops, WorkFails(l) PROVE CallInv'
  BY <1>13 DEF WorkFails
<1>14. ASSUME NEW j \in Jobs, NEW f \in Functions, Arrive(j, f) PROVE CallInv'
  BY <1>14 DEF Arrive
<1>15. CASE UNCHANGED vars
  BY <1>15 DEF vars
<1>16. ASSUME NEW th \in Threads, DefineFunction(th) PROVE CallInv'
  BY <1>16 DEF DefineFunction, Goto, Return
<1> HIDE DEF TypeOK, CallInv, InPlugin, Calls
<1>. QED
  BY <1>1, <1>2, <1>3, <1>4, <1>5, <1>6, <1>7, <1>8, <1>9, <1>10, <1>11, <1>12,
     <1>13, <1>14, <1>15, <1>16
     DEF Next, NativeStep, LoopStep, AtRest

\* The server gives a queued job to one loop, and its callback ends it.
LEMMA JobStep == TypeOK /\ JobInv /\ [Next]_vars => JobInv'
<1> SUFFICES ASSUME TypeOK, JobInv, [Next]_vars PROVE JobInv'
  OBVIOUS
<1> USE WorkerAssumption DEF TypeOK, JobInv, Threads, workerVars, callVars, loopVars,
      jobVars
<1>1. ASSUME NEW th \in Threads, TestThread(th) PROVE JobInv'
  BY <1>1 DEF TestThread, Goto, Return
<1>2. ASSUME NEW th \in Threads, NewThread(th) PROVE JobInv'
  BY <1>2 DEF NewThread, Goto
<1>3. ASSUME NEW th \in Threads, StartThread(th) PROVE JobInv'
  BY <1>3 DEF StartThread, Return
<1>4. ASSUME NEW th \in Threads, NEW w \in Workers, Create(th, w) PROVE JobInv'
  BY <1>4 DEF Create
<1>5. ASSUME NEW th \in Threads, NEW w \in Workers, AddServer(th, w) PROVE JobInv'
  BY <1>5 DEF AddServer
<1>6. ASSUME NEW th \in Threads, NEW w \in Workers, CloseWorker(th, w) PROVE JobInv'
  BY <1>6 DEF CloseWorker
<1>7. ASSUME NEW th \in Threads, NEW w \in Workers, NEW f \in Functions,
             AddFunction(th, w, f) PROVE JobInv'
  BY <1>7 DEF AddFunction, Goto
<1>8. ASSUME NEW th \in Threads, NEW j \in Jobs, Answer(th, j) PROVE JobInv'
  BY <1>8 DEF Answer
<1>9. ASSUME NEW th \in Threads, NEW j \in Jobs, CloseJob(th, j) PROVE JobInv'
  BY <1>9 DEF CloseJob
<1>10. ASSUME NEW l \in Loops, NEW j \in Jobs, CallWorker(l, j) PROVE JobInv'
  BY <1>10 DEF CallWorker
<1>11. ASSUME NEW l \in Loops, CallbackReturns(l) PROVE JobInv'
  BY <1>11 DEF CallbackReturns, FreeHandle
<1>12. ASSUME NEW l \in Loops, WorkSucceeds(l) PROVE JobInv'
  BY <1>12 DEF WorkSucceeds
<1>13. ASSUME NEW l \in Loops, WorkFails(l) PROVE JobInv'
  BY <1>13 DEF WorkFails
<1>14. ASSUME NEW j \in Jobs, NEW f \in Functions, Arrive(j, f) PROVE JobInv'
  BY <1>14 DEF Arrive
<1>15. CASE UNCHANGED vars
  BY <1>15 DEF vars
<1>16. ASSUME NEW th \in Threads, DefineFunction(th) PROVE JobInv'
  BY <1>16 DEF DefineFunction, Goto, Return
<1> HIDE DEF TypeOK, JobInv
<1>. QED
  BY <1>1, <1>2, <1>3, <1>4, <1>5, <1>6, <1>7, <1>8, <1>9, <1>10, <1>11, <1>12,
     <1>13, <1>14, <1>15, <1>16
     DEF Next, NativeStep, LoopStep, AtRest

LEMMA InvStep == Inv /\ [Next]_vars => Inv'
  BY TypeStep, CallStep, JobStep DEF Inv

LEMMA InvAlways == Spec => []Inv
  BY InvInit, InvStep, PTL DEF Spec

\* TypeOK, for every number of threads, workers and jobs, whatever fails or is
\* closed.
THEOREM TypeCorrect == Spec => []TypeOK
<1>1. Inv => TypeOK BY DEF Inv
<1>. QED BY <1>1, InvAlways, PTL

-----------------------------------------------------------------------------
\* A job has no handle before a worker takes it.
HandleInv ==
  /\ JobHandles
  /\ \A j \in Jobs : job[j] \in {"absent", "queued"} => handle[j] = "absent"

\* A job's handle is opened only as it is taken and freed as it is done.
LEMMA HandlesStep ==
  TypeOK /\ JobInv /\ HandleInv /\ [Next]_vars => HandleInv'
<1> SUFFICES ASSUME TypeOK, JobInv, HandleInv, [Next]_vars PROVE HandleInv'
  OBVIOUS
<1> USE WorkerAssumption DEF TypeOK, JobInv, JobHandles, HandleInv, FindsJob, Threads, workerVars, callVars,
      loopVars, jobVars
<1>1. ASSUME NEW th \in Threads, TestThread(th) PROVE HandleInv'
  BY <1>1 DEF TestThread, Goto, Return
<1>2. ASSUME NEW th \in Threads, NewThread(th) PROVE HandleInv'
  BY <1>2 DEF NewThread, Goto
<1>3. ASSUME NEW th \in Threads, StartThread(th) PROVE HandleInv'
  BY <1>3 DEF StartThread, Return
<1>4. ASSUME NEW th \in Threads, NEW w \in Workers, Create(th, w) PROVE HandleInv'
  BY <1>4 DEF Create
<1>5. ASSUME NEW th \in Threads, NEW w \in Workers, AddServer(th, w) PROVE HandleInv'
  BY <1>5 DEF AddServer
<1>6. ASSUME NEW th \in Threads, NEW w \in Workers, CloseWorker(th, w) PROVE HandleInv'
  BY <1>6 DEF CloseWorker
<1>7. ASSUME NEW th \in Threads, NEW w \in Workers, NEW f \in Functions,
             AddFunction(th, w, f) PROVE HandleInv'
  BY <1>7 DEF AddFunction, Goto
<1>8. ASSUME NEW th \in Threads, NEW j \in Jobs, Answer(th, j) PROVE HandleInv'
  BY <1>8 DEF Answer
<1>9. ASSUME NEW th \in Threads, NEW j \in Jobs, CloseJob(th, j) PROVE HandleInv'
  BY <1>9 DEF CloseJob
<1>10. ASSUME NEW l \in Loops, NEW j \in Jobs, CallWorker(l, j) PROVE HandleInv'
  BY <1>10 DEF CallWorker
<1>11. ASSUME NEW l \in Loops, CallbackReturns(l) PROVE HandleInv'
  BY <1>11 DEF CallbackReturns, FreeHandle
<1>12. ASSUME NEW l \in Loops, WorkSucceeds(l) PROVE HandleInv'
  BY <1>12 DEF WorkSucceeds
<1>13. ASSUME NEW l \in Loops, WorkFails(l) PROVE HandleInv'
  BY <1>13 DEF WorkFails
<1>14. ASSUME NEW j \in Jobs, NEW f \in Functions, Arrive(j, f) PROVE HandleInv'
  BY <1>14 DEF Arrive
<1>15. CASE UNCHANGED vars
  BY <1>15 DEF vars
<1>16. ASSUME NEW th \in Threads, DefineFunction(th) PROVE HandleInv'
  BY <1>16 DEF DefineFunction, Goto, Return
<1> HIDE DEF TypeOK, JobInv, JobHandles, HandleInv
<1>. QED
  BY <1>1, <1>2, <1>3, <1>4, <1>5, <1>6, <1>7, <1>8, <1>9, <1>10, <1>11, <1>12,
     <1>13, <1>14, <1>15, <1>16
     DEF Next, NativeStep, LoopStep, AtRest

LEMMA HandlesAlways == Spec => []HandleInv
<1>1. Init => HandleInv
  BY DEF Init, HandleInv, JobHandles
<1>2. Inv /\ HandleInv /\ [Next]_vars => HandleInv'
  BY HandlesStep DEF Inv
<1>. QED BY <1>1, <1>2, InvAlways, PTL DEF Spec

\* JobHandles, with workers, jobs and functions closed, failing and starting at
\* any time, and handles refused or not.
THEOREM HandlesOpenAndClose == Spec => []JobHandles
<1>1. Spec => []HandleInv
  BY HandlesAlways
<1>2. HandleInv => JobHandles
  BY DEF HandleInv
<1>. QED BY <1>1, <1>2, PTL

-----------------------------------------------------------------------------
\* Every step is one of JobService, or is not seen by it.
LEMMA ServiceStep ==
  TypeOK /\ JobInv /\ HandleInv /\ [Next]_vars => [Service!Next]_Service!vars
<1> SUFFICES ASSUME TypeOK, JobInv, HandleInv, [Next]_vars
      PROVE [Service!Next]_Service!vars
  OBVIOUS
<1> USE WorkerAssumption DEF TypeOK, JobInv, HandleInv, Service!Next, Service!vars,
      Threads, workerVars, callVars, loopVars, jobVars
<1>1. ASSUME NEW th \in Threads, TestThread(th) PROVE [Service!Next]_Service!vars
  BY <1>1 DEF TestThread, Goto, Return
<1>2. ASSUME NEW th \in Threads, NewThread(th) PROVE [Service!Next]_Service!vars
  BY <1>2 DEF NewThread, Goto
<1>3. ASSUME NEW th \in Threads, StartThread(th) PROVE [Service!Next]_Service!vars
  BY <1>3 DEF StartThread, Return
<1>4. ASSUME NEW th \in Threads, NEW w \in Workers, Create(th, w)
      PROVE [Service!Next]_Service!vars
  BY <1>4 DEF Create
<1>5. ASSUME NEW th \in Threads, NEW w \in Workers, AddServer(th, w)
      PROVE [Service!Next]_Service!vars
  BY <1>5 DEF AddServer
<1>6. ASSUME NEW th \in Threads, NEW w \in Workers, CloseWorker(th, w)
      PROVE [Service!Next]_Service!vars
  BY <1>6 DEF CloseWorker
<1>7. ASSUME NEW th \in Threads, NEW w \in Workers, NEW f \in Functions,
             AddFunction(th, w, f) PROVE [Service!Next]_Service!vars
  BY <1>7 DEF AddFunction, Goto
<1>8. ASSUME NEW th \in Threads, NEW j \in Jobs, Answer(th, j)
      PROVE [Service!Next]_Service!vars
  BY <1>8 DEF Answer, Service!Answer, FindsJob
<1>9. ASSUME NEW th \in Threads, NEW j \in Jobs, CloseJob(th, j)
      PROVE [Service!Next]_Service!vars
  BY <1>9 DEF CloseJob, Service!Close, FindsJob
<1>10. ASSUME NEW l \in Loops, NEW j \in Jobs, CallWorker(l, j)
      PROVE [Service!Next]_Service!vars
  BY <1>10 DEF CallWorker, Service!Give, Service!Fail
<1>11. ASSUME NEW l \in Loops, CallbackReturns(l) PROVE [Service!Next]_Service!vars
  <2>1. PICK j \in Jobs : j = current[l] /\ job[j] = "running"
    BY <1>11 DEF CallbackReturns
  <2>2. CASE job' = [job EXCEPT ![current[l]] = "in_progress"] /\ UNCHANGED <<handle, kept>>
    BY <2>1, <2>2 DEF Service!Postpone
  <2>3. CASE job' = [job EXCEPT ![current[l]] = "done"] /\ FreeHandle(current[l])
    <3>1. \/ {i \in Jobs : handle'[i] = "open"} = {i \in Jobs : handle[i] = "open"}
          \/ {i \in Jobs : handle'[i] = "open"} = {i \in Jobs : handle[i] = "open"} \ {j}
      BY <2>1, <2>3 DEF FreeHandle
    <3>2. Service!Finish(j)
      BY <2>1, <2>3, <3>1 DEF Service!Finish
    <3>. QED BY <3>2
  <2>. QED BY <1>11, <2>2, <2>3 DEF CallbackReturns
<1>12. ASSUME NEW l \in Loops, WorkSucceeds(l) PROVE [Service!Next]_Service!vars
  BY <1>12 DEF WorkSucceeds
<1>13. ASSUME NEW l \in Loops, WorkFails(l) PROVE [Service!Next]_Service!vars
  BY <1>13 DEF WorkFails
<1>14. ASSUME NEW j \in Jobs, NEW f \in Functions, Arrive(j, f)
      PROVE [Service!Next]_Service!vars
  <2>1. {i \in Jobs : handle'[i] = "open"} = {i \in Jobs : handle[i] = "open"}
    BY <1>14 DEF Arrive
  <2>2. Service!Accept(j)
    BY <1>14, <2>1 DEF Arrive, Service!Accept
  <2>. QED BY <2>2
<1>15. CASE UNCHANGED vars
  BY <1>15 DEF vars
<1>16. ASSUME NEW th \in Threads, DefineFunction(th) PROVE [Service!Next]_Service!vars
  BY <1>16 DEF DefineFunction, Goto, Return
<1> HIDE DEF TypeOK, JobInv, HandleInv, Service!Next, Service!vars
<1>. QED
  BY <1>1, <1>2, <1>3, <1>4, <1>5, <1>6, <1>7, <1>8, <1>9, <1>10, <1>11, <1>12,
     <1>13, <1>14, <1>15, <1>16
     DEF Next, NativeStep, LoopStep, AtRest

\* ServiceSpec: GearmanWorker implements JobService, however its workers and
\* threads come and go and whatever is refused.
THEOREM ServesJobs == Spec => ServiceSpec
<1>1. Init => Service!Init
  BY DEF Init, Service!Init
<1>2. Inv /\ HandleInv /\ [Next]_vars => [Service!Next]_Service!vars
  BY ServiceStep DEF Inv
<1>3. Spec => []HandleInv
  BY HandlesAlways
<1>. QED BY <1>1, <1>2, <1>3, InvAlways, PTL DEF Spec, ServiceSpec, Service!Spec

-----------------------------------------------------------------------------
\* One worker, and one thread besides those of its callbacks.
OneWorker ==
  /\ \A v, w \in Workers : v = w
  /\ \A a, b \in Callers : a = b

\* The one worker's thread as one creating thread leaves it: who is about to make
\* or start it is alone, and a loop that has been started stays the only one.
LoneInv ==
  /\ \A th \in Threads : pc[th] \in {"new", "start"} => th \in Callers
  /\ \A th \in Threads : pc[th] = "new" => thread = {}
  /\ \A th \in Threads : pc[th] = "start" => arg[th].worker \in thread
  /\ \A th \in Threads : pc[th] \in {"new", "start"} => \A l \in Loops : loop[l] = "absent"
  /\ \A l \in Loops : loop[l] # "absent" => loopCtx[l] \in thread
  /\ \A k, l \in Loops : loop[k] # "absent" /\ loop[l] # "absent" => k = l

\* Whoever starts the first loop is the one caller; the callbacks of that loop find
\* ctx->thread set.
LEMMA LoneStep ==
  ASSUME OneWorker
  PROVE  TypeOK /\ CallInv /\ LoneInv /\ [Next]_vars => LoneInv'
<1> SUFFICES ASSUME TypeOK, CallInv, LoneInv, [Next]_vars PROVE LoneInv'
  OBVIOUS
<1> USE WorkerAssumption, OneWorker DEF OneWorker, TypeOK, CallInv, LoneInv, Threads,
      workerVars, callVars, loopVars, jobVars
<1>1. ASSUME NEW th \in Threads, TestThread(th) PROVE LoneInv'
  BY <1>1 DEF TestThread, Goto, Return
<1>2. ASSUME NEW th \in Threads, NewThread(th) PROVE LoneInv'
  BY <1>2 DEF NewThread, Goto
<1>3. ASSUME NEW th \in Threads, StartThread(th) PROVE LoneInv'
  BY <1>3 DEF StartThread, Return
<1>4. ASSUME NEW th \in Threads, NEW w \in Workers, Create(th, w) PROVE LoneInv'
  BY <1>4 DEF Create
<1>5. ASSUME NEW th \in Threads, NEW w \in Workers, AddServer(th, w) PROVE LoneInv'
  BY <1>5 DEF AddServer
<1>6. ASSUME NEW th \in Threads, NEW w \in Workers, CloseWorker(th, w) PROVE LoneInv'
  BY <1>6 DEF CloseWorker
<1>7. ASSUME NEW th \in Threads, NEW w \in Workers, NEW f \in Functions,
             AddFunction(th, w, f) PROVE LoneInv'
  BY <1>7 DEF AddFunction, Goto, InPlugin
<1>8. ASSUME NEW th \in Threads, NEW j \in Jobs, Answer(th, j) PROVE LoneInv'
  BY <1>8 DEF Answer
<1>9. ASSUME NEW th \in Threads, NEW j \in Jobs, CloseJob(th, j) PROVE LoneInv'
  BY <1>9 DEF CloseJob
<1>10. ASSUME NEW l \in Loops, NEW j \in Jobs, CallWorker(l, j) PROVE LoneInv'
  BY <1>10 DEF CallWorker
<1>11. ASSUME NEW l \in Loops, CallbackReturns(l) PROVE LoneInv'
  BY <1>11 DEF CallbackReturns, FreeHandle
<1>12. ASSUME NEW l \in Loops, WorkSucceeds(l) PROVE LoneInv'
  BY <1>12 DEF WorkSucceeds
<1>13. ASSUME NEW l \in Loops, WorkFails(l) PROVE LoneInv'
  BY <1>13 DEF WorkFails
<1>14. ASSUME NEW j \in Jobs, NEW f \in Functions, Arrive(j, f) PROVE LoneInv'
  BY <1>14 DEF Arrive
<1>15. CASE UNCHANGED vars
  BY <1>15 DEF vars
<1>16. ASSUME NEW th \in Threads, DefineFunction(th) PROVE LoneInv'
  BY <1>16 DEF DefineFunction, Goto, Return
<1> HIDE DEF OneWorker, TypeOK, CallInv, LoneInv
<1>. QED
  BY <1>1, <1>2, <1>3, <1>4, <1>5, <1>6, <1>7, <1>8, <1>9, <1>10, <1>11, <1>12,
     <1>13, <1>14, <1>15, <1>16
     DEF Next, NativeStep, LoopStep, AtRest

\* OneThreadPerWorker, for a plugin with one worker: neither its game thread nor its
\* callbacks start a second loop.
THEOREM OneLoop == ASSUME OneWorker PROVE Spec => []OneThreadPerWorker
<1>1. Init => LoneInv
  BY DEF Init, LoneInv, Threads
<1>2. Inv /\ LoneInv /\ [Next]_vars => LoneInv'
  BY OneWorker, LoneStep DEF Inv
<1>3. LoneInv => OneThreadPerWorker
  BY DEF LoneInv, OneThreadPerWorker, Serves
<1>. QED BY <1>1, <1>2, <1>3, InvAlways, PTL DEF Spec

-----------------------------------------------------------------------------
\* A worker with a thread has a loop, or had none made, or a call is about to
\* start it.
OfferInv ==
  \A w \in thread :
    \/ HasLoop(w) \/ w \in unmade
    \/ \E th \in Callers : pc[th] = "start" /\ arg[th].worker = w

\* A thread that finds ctx->thread set has no starting thread beside it.
LEMMA OfferStep ==
  ASSUME OneWorker
  PROVE  TypeOK /\ CallInv /\ LoneInv /\ OfferInv /\ [Next]_vars => OfferInv'
<1> SUFFICES ASSUME TypeOK, CallInv, LoneInv, OfferInv, [Next]_vars PROVE OfferInv'
  OBVIOUS
<1> USE WorkerAssumption, OneWorker DEF OneWorker, TypeOK,
      CallInv, LoneInv, OfferInv, HasLoop, Threads, workerVars,
            callVars, loopVars, jobVars
<1>1. ASSUME NEW th \in Threads, TestThread(th) PROVE OfferInv'
  BY <1>1 DEF TestThread, Goto, Return
<1>2. ASSUME NEW th \in Threads, NewThread(th) PROVE OfferInv'
  BY <1>2 DEF NewThread, Goto
<1>3. ASSUME NEW th \in Threads, StartThread(th) PROVE OfferInv'
  BY <1>3 DEF StartThread, Return
<1>4. ASSUME NEW th \in Threads, NEW w \in Workers, Create(th, w) PROVE OfferInv'
  BY <1>4 DEF Create
<1>5. ASSUME NEW th \in Threads, NEW w \in Workers, AddServer(th, w) PROVE OfferInv'
  BY <1>5 DEF AddServer
<1>6. ASSUME NEW th \in Threads, NEW w \in Workers, CloseWorker(th, w) PROVE OfferInv'
  BY <1>6 DEF CloseWorker
<1>7. ASSUME NEW th \in Threads, NEW w \in Workers, NEW f \in Functions,
             AddFunction(th, w, f) PROVE OfferInv'
  BY <1>7 DEF AddFunction, Goto, InPlugin
<1>8. ASSUME NEW th \in Threads, NEW j \in Jobs, Answer(th, j) PROVE OfferInv'
  BY <1>8 DEF Answer
<1>9. ASSUME NEW th \in Threads, NEW j \in Jobs, CloseJob(th, j) PROVE OfferInv'
  BY <1>9 DEF CloseJob
<1>10. ASSUME NEW l \in Loops, NEW j \in Jobs, CallWorker(l, j) PROVE OfferInv'
  BY <1>10 DEF CallWorker
<1>11. ASSUME NEW l \in Loops, CallbackReturns(l) PROVE OfferInv'
  BY <1>11 DEF CallbackReturns, FreeHandle
<1>12. ASSUME NEW l \in Loops, WorkSucceeds(l) PROVE OfferInv'
  BY <1>12 DEF WorkSucceeds
<1>13. ASSUME NEW l \in Loops, WorkFails(l) PROVE OfferInv'
  BY <1>13 DEF WorkFails
<1>14. ASSUME NEW j \in Jobs, NEW f \in Functions, Arrive(j, f) PROVE OfferInv'
  BY <1>14 DEF Arrive
<1>15. CASE UNCHANGED vars
  BY <1>15 DEF vars
<1>16. ASSUME NEW th \in Threads, DefineFunction(th) PROVE OfferInv'
  BY <1>16 DEF DefineFunction, Goto, Return
<1> HIDE DEF OneWorker, TypeOK, CallInv, LoneInv, OfferInv, HasLoop
<1>. QED
  BY <1>1, <1>2, <1>3, <1>4, <1>5, <1>6, <1>7, <1>8, <1>9, <1>10, <1>11, <1>12,
     <1>13, <1>14, <1>15, <1>16
     DEF Next, NativeStep, LoopStep, AtRest

\* Only TestThread and StartThread add to offered.
LEMMA OfferedStep ==
  ASSUME OneWorker
  PROVE  TypeOK /\ CallInv /\ LoneInv /\ OfferInv /\ [Next]_vars =>
           [\A offer \in offered' \ offered : HasLoop(offer[1])' \/ offer[1] \in unmade]_vars
<1> SUFFICES ASSUME TypeOK, CallInv, LoneInv, OfferInv, Next, NEW offer \in offered' \ offered
      PROVE  HasLoop(offer[1])' \/ offer[1] \in unmade
  OBVIOUS
<1>1. offered' # offered
  OBVIOUS
<1>2. PICK th \in Threads : TestThread(th) \/ StartThread(th)
  BY <1>1 DEF Next, NativeStep, LoopStep, AtRest, DefineFunction, NewThread, Create, AddServer,
       AddFunction, CloseWorker, Answer, CloseJob, CallWorker, CallbackReturns, WorkSucceeds,
       WorkFails, Arrive, vars, workerVars
<1>3. CASE TestThread(th)
  <2>1. offer = <<arg[th].worker, arg[th].function>> /\ arg[th].worker \in thread
        /\ pc[th] = "test" /\ UNCHANGED <<loop, loopCtx>>
    BY <1>3 DEF TestThread, loopVars
  <2>2. HasLoop(arg[th].worker) \/ arg[th].worker \in unmade
    BY <2>1, OneWorker DEF OneWorker, OfferInv, LoneInv, CallInv, Threads, TypeOK
  <2>. QED BY <2>1, <2>2 DEF HasLoop
<1>4. CASE StartThread(th)
  BY <1>4, WorkerAssumption DEF StartThread, HasLoop, TypeOK
<1>. QED BY <1>2, <1>3, <1>4

\* OfferIsServed, for a plugin with one worker: success from AddFunction means that
\* a thread was started for the worker, or that one was refused before.
THEOREM OffersAreServed == ASSUME OneWorker PROVE Spec => OfferIsServed
<1>1. Init => LoneInv /\ OfferInv
  BY DEF Init, LoneInv, OfferInv, Threads
<1>2. Inv /\ LoneInv /\ [Next]_vars => LoneInv'
  BY OneWorker, LoneStep DEF Inv
<1>3. Inv /\ LoneInv /\ OfferInv /\ [Next]_vars => OfferInv'
  BY OneWorker, OfferStep DEF Inv
<1>4. Inv /\ LoneInv /\ OfferInv /\ [Next]_vars =>
        [\A offer \in offered' \ offered : HasLoop(offer[1])' \/ offer[1] \in unmade]_vars
  BY OneWorker, OfferedStep DEF Inv
<1>. QED BY <1>1, <1>2, <1>3, <1>4, InvAlways, PTL DEF Spec, OfferIsServed
=============================================================================
