------------------------ MODULE TaskCallbacksProofs ------------------------
(***************************************************************************)
(* Proofs about TaskCallbacks, for every number of tasks and of threads of *)
(* gearman workers, whatever fails, is closed or is refused.               *)
(*                                                                         *)
(* CallInv says whose context a thread inside AddTask works on; the other  *)
(* parts rest on it. LinkInv says who may still have to store a handle,    *)
(* RestInv what a run cannot have done yet, and ReturnInv why a callback's *)
(* AddTask is not disturbed. Each part is shown to survive a step, action  *)
(* by action, and the theorems follow from their conjunction.              *)
(***************************************************************************)
EXTENDS TaskCallbacks, TLAPS

\* Each call of AddTask has a context of its own, that nobody frees before its
\* handle is there; a call on the worker's thread is below a callback; and a client
\* freed before a call's link was freed during that call.
CallInv ==
  /\ \A t \in Tasks : memory[t] = "none" <=> how[t] = "none"
  /\ \A t \in Tasks : memory[t] = "none" =>
       handle[t] = "none" /\ t \notin known /\ task[t] = "none"
  /\ \A th \in Threads : pc[th] # "idle" =>
       /\ memory[arg[th]] # "none"
       /\ how[arg[th]] = "callback" <=> th = "worker"
  /\ \A x, y \in Threads : x # y /\ pc[x] # "idle" /\ pc[y] # "idle" => arg[x] # arg[y]
  /\ pc["worker"] # "idle" => event # "none"
  /\ \A th \in Threads : pc[th] \in {"link", "handle"} =>
       memory[arg[th]] = "live" /\ handle[arg[th]] = "none"
  /\ \A th \in Threads : pc[th] = "link" =>
       task[arg[th]] = "none" /\ (client = "live" \/ arg[th] \in raced)

\* A linked task whose context has no handle belongs to a call about to store it.
LinkInv ==
  \A t \in Tasks : hndl[t] = "garbage" /\ task[t] \in {"new", "submitted"} =>
    \E th \in Threads : pc[th] = "handle" /\ arg[th] = t

\* Only a plugin, or the unload, can have freed t.
Unfreed(t) == memory[t] = "freed" => handle[t] = "closed"

\* From the lookup of a task added at rest to the read of its client nobody else
\* queues, and no run is at work that could complete it.
RestInv ==
  /\ entry # NoTask => memory[entry] # "none"
  /\ run = "popped" => memory[ctx] # "none"
  /\ \A th \in Adders : how[arg[th]] = "rest" =>
       AtRest /\ Unfreed(arg[th]) /\ \A x \in Adders : x = th
  /\ entry # NoTask /\ how[entry] = "rest" => run = "no" /\ Unfreed(entry)
  /\ run = "popped" /\ how[ctx] = "rest" => Unfreed(ctx)

\* What a callback is adding is known to nobody, stays, and has the handle AddTask
\* returns.
ReturnInv ==
  /\ \A t \in misreturned : how[t] \notin {"none", "callback"}
  /\ pc["worker"] # "idle" /\ stage # "unloaded" =>
       /\ arg["worker"] \notin known
       /\ memory[arg["worker"]] = "live"
       /\ pc["worker"] \notin {"link", "handle"} =>
            hndl[arg["worker"]] = "set" \/ handle[arg["worker"]] = "none"

Inv == TypeOK /\ CallInv /\ LiveTogether /\ LinkInv /\ HandleInTime /\ RestInv /\ ReturnInv

-----------------------------------------------------------------------------
LEMMA InvInit == Init => Inv
<1> SUFFICES ASSUME Init PROVE Inv
  OBVIOUS
<1>. QED
  BY CallbackAssumption DEF Init, Inv, TypeOK, CallInv, LiveTogether, LinkInv, HandleInTime,
     RestInv, ReturnInv, Adders, Threads

\* The shape of the state.
LEMMA TypeStep ==
  TypeOK /\ [Next]_vars => TypeOK'
<1> SUFFICES ASSUME TypeOK, [Next]_vars PROVE TypeOK'
  OBVIOUS
<1> USE CallbackAssumption DEF TypeOK, At, Loaded, Threads, ctxVars, clientVars, callVars, runVars,
      eventVars
<1>1. ASSUME NEW th \in Threads, MakeHandle(th) PROVE TypeOK'
  BY <1>1 DEF MakeHandle, Goto
<1>2. ASSUME NEW th \in Threads, AddToQueue(th) PROVE TypeOK'
  BY <1>2 DEF AddToQueue, Goto
<1>3. ASSUME NEW th \in Threads, ReturnHandle(th) PROVE TypeOK'
  BY <1>3 DEF ReturnHandle, Goto
<1>4. ASSUME NEW th \in Threads, Create(th) PROVE TypeOK'
  BY <1>4 DEF Create
<1>5. ASSUME NEW th \in Threads, AddServer(th) PROVE TypeOK'
  BY <1>5 DEF AddServer
<1>6. ASSUME NEW th \in Threads, SetClientCreated(th) PROVE TypeOK'
  BY <1>6 DEF SetClientCreated
<1>7. ASSUME NEW th \in Threads, CloseClient(th) PROVE TypeOK'
  BY <1>7 DEF CloseClient, OnClientDestroy
<1>8. ASSUME NEW th \in Threads, NEW t \in Tasks, AddTask(th, t) PROVE TypeOK'
  <2>1. funcs' \in [Tasks -> SUBSET Events]
    <3>1. PICK set \in SUBSET {"complete"} : funcs' = [funcs EXCEPT ![t] = set]
      BY <1>8 DEF AddTask
    <3>. QED BY <3>1 DEF Events, PacketKinds
  <2>2. how' \in [Tasks -> {"none", "rest", "callback", "overlap"}]
    BY <1>8 DEF AddTask
  <2>3. /\ pc' \in [Threads -> {"idle", "link", "handle", "queue", "return"}]
        /\ arg' \in [Threads -> Tasks \cup {NoTask}]
        /\ \A a \in Threads : pc'[a] # "idle" => arg'[a] \in Tasks
    BY <1>8 DEF AddTask, Goto
  <2>4. memory' \in [Tasks -> {"none", "live", "freed"}]
    BY <1>8 DEF AddTask
  <2>. QED
    BY <1>8, <2>1, <2>2, <2>3, <2>4 DEF AddTask
<1>9. ASSUME NEW th \in Threads, NEW t \in Tasks, CloseTask(th, t) PROVE TypeOK'
  BY <1>9 DEF CloseTask, OnHandleDestroy
<1>10. ASSUME NEW th \in Threads, NEW t \in Tasks, NEW e \in Events, SetCallback(th, t,
      e) PROVE TypeOK'
  BY <1>10 DEF SetCallback
<1>11. CASE BeginRun
  BY <1>11 DEF BeginRun
<1>12. CASE ReadClient
  BY <1>12 DEF ReadClient
<1>13. CASE EndRun
  BY <1>13 DEF EndRun
<1>14. ASSUME NEW t \in Tasks, Submit(t) PROVE TypeOK'
  BY <1>14 DEF Submit, Report, Events
<1>15. ASSUME NEW t \in Tasks, NEW e \in Events, Receive(t, e) PROVE TypeOK'
  BY <1>15 DEF Receive, Report
<1>16. CASE CallbackReturns
  BY <1>16 DEF CallbackReturns, Events, PacketKinds
<1>17. CASE CompleteReturns
  BY <1>17 DEF CompleteReturns, OnHandleDestroy, Events, PacketKinds
<1>18. CASE RemoveClientType
  BY <1>18 DEF RemoveClientType, OnClientDestroy
<1>19. CASE RemoveTaskType
  BY <1>19 DEF RemoveTaskType
<1>20. CASE UNCHANGED vars
  BY <1>20 DEF vars
<1>21. ASSUME NEW th \in Threads, LinkTask(th) PROVE TypeOK'
  BY <1>21 DEF LinkTask, Goto
<1> HIDE DEF TypeOK
<1>. QED
  BY CallbackAssumption, <1>1, <1>2, <1>3, <1>4, <1>5, <1>6, <1>7, <1>8, <1>9, <1>10,
        <1>11, <1>12, <1>13,
     <1>14, <1>15, <1>16, <1>17, <1>18, <1>19, <1>20, <1>21
     DEF Next, Silent, Events, PacketKinds

\* AddTask takes a context nobody has, and a handle is closed only once it is open.
LEMMA CallStep ==
  TypeOK /\ CallInv /\ LiveTogether /\ [Next]_vars => CallInv'
<1> SUFFICES ASSUME TypeOK, CallInv, LiveTogether, [Next]_vars PROVE CallInv'
  OBVIOUS
<1> USE DEF TypeOK, CallInv, LiveTogether, InPlugin, At, Loaded, Threads, ctxVars, clientVars,
      callVars, runVars, eventVars
<1>1. ASSUME NEW th \in Threads, MakeHandle(th) PROVE CallInv'
  BY <1>1 DEF MakeHandle, Goto
<1>2. ASSUME NEW th \in Threads, AddToQueue(th) PROVE CallInv'
  BY <1>2 DEF AddToQueue, Goto
<1>3. ASSUME NEW th \in Threads, ReturnHandle(th) PROVE CallInv'
  BY <1>3 DEF ReturnHandle, Goto
<1>4. ASSUME NEW th \in Threads, Create(th) PROVE CallInv'
  BY <1>4 DEF Create
<1>5. ASSUME NEW th \in Threads, AddServer(th) PROVE CallInv'
  BY <1>5 DEF AddServer
<1>6. ASSUME NEW th \in Threads, SetClientCreated(th) PROVE CallInv'
  BY <1>6 DEF SetClientCreated
<1>7. ASSUME NEW th \in Threads, CloseClient(th) PROVE CallInv'
  BY <1>7 DEF CloseClient, OnClientDestroy
<1>8. ASSUME NEW th \in Threads, NEW t \in Tasks, AddTask(th, t) PROVE CallInv'
  <2>1. memory' = [memory EXCEPT ![t] = "live"] /\ memory[t] = "none"
    BY <1>8 DEF AddTask
  <2>2. /\ how'[t] # "none"
        /\ how'[t] = "callback" <=> th = "worker"
        /\ \A u \in Tasks \ {t} : how'[u] = how[u] \/ (how[u] = "rest" /\ how'[u] = "overlap")
    BY <1>8 DEF AddTask
  <2>3. /\ arg' = [arg EXCEPT ![th] = t] /\ pc' = [pc EXCEPT ![th] = "link"]
        /\ pc[th] = "idle" /\ (th = "worker" => event # "none") /\ client = "live"
        /\ UNCHANGED <<handle, event, known, task, client, raced>>
    BY <1>8 DEF AddTask, Goto, FindsClient
  <2>. QED
    BY <2>1, <2>2, <2>3
<1>9. ASSUME NEW th \in Threads, NEW t \in Tasks, CloseTask(th, t) PROVE CallInv'
  BY <1>9 DEF CloseTask, OnHandleDestroy
<1>10. ASSUME NEW th \in Threads, NEW t \in Tasks, NEW e \in Events, SetCallback(th, t,
      e) PROVE CallInv'
  BY <1>10 DEF SetCallback
<1>11. CASE BeginRun
  BY <1>11 DEF BeginRun
<1>12. CASE ReadClient
  BY <1>12 DEF ReadClient
<1>13. CASE EndRun
  BY <1>13 DEF EndRun
<1>14. ASSUME NEW t \in Tasks, Submit(t) PROVE CallInv'
  BY <1>14 DEF Submit, Report
<1>15. ASSUME NEW t \in Tasks, NEW e \in Events, Receive(t, e) PROVE CallInv'
  BY <1>15 DEF Receive, Report
<1>16. CASE CallbackReturns
  BY <1>16 DEF CallbackReturns
<1>17. CASE CompleteReturns
  BY <1>17 DEF CompleteReturns, OnHandleDestroy
<1>18. CASE RemoveClientType
  BY <1>18 DEF RemoveClientType, OnClientDestroy
<1>19. CASE RemoveTaskType
  BY <1>19 DEF RemoveTaskType
<1>20. CASE UNCHANGED vars
  BY <1>20 DEF vars
<1>21. ASSUME NEW th \in Threads, LinkTask(th) PROVE CallInv'
  BY <1>21 DEF LinkTask, Goto
<1> HIDE DEF TypeOK, CallInv, LiveTogether
<1>. QED
  BY CallbackAssumption, <1>1, <1>2, <1>3, <1>4, <1>5, <1>6, <1>7, <1>8, <1>9, <1>10,
        <1>11, <1>12, <1>13,
     <1>14, <1>15, <1>16, <1>17, <1>18, <1>19, <1>20, <1>21
     DEF Next, Silent, Events, PacketKinds

\* A context goes with its handle, its task with either, or with the client.
LEMMA LiveStep ==
  TypeOK /\ CallInv /\ LiveTogether /\ [Next]_vars => LiveTogether'
<1> SUFFICES ASSUME TypeOK, CallInv, LiveTogether, [Next]_vars PROVE LiveTogether'
  OBVIOUS
<1> USE DEF TypeOK, CallInv, LiveTogether, At, Loaded, Threads, ctxVars, clientVars, callVars,
      runVars, eventVars
<1>1. ASSUME NEW th \in Threads, MakeHandle(th) PROVE LiveTogether'
  BY <1>1 DEF MakeHandle, Goto
<1>2. ASSUME NEW th \in Threads, AddToQueue(th) PROVE LiveTogether'
  BY <1>2 DEF AddToQueue, Goto
<1>3. ASSUME NEW th \in Threads, ReturnHandle(th) PROVE LiveTogether'
  BY <1>3 DEF ReturnHandle, Goto
<1>4. ASSUME NEW th \in Threads, Create(th) PROVE LiveTogether'
  BY <1>4 DEF Create
<1>5. ASSUME NEW th \in Threads, AddServer(th) PROVE LiveTogether'
  BY <1>5 DEF AddServer
<1>6. ASSUME NEW th \in Threads, SetClientCreated(th) PROVE LiveTogether'
  BY <1>6 DEF SetClientCreated
<1>7. ASSUME NEW th \in Threads, CloseClient(th) PROVE LiveTogether'
  BY <1>7 DEF CloseClient, OnClientDestroy
<1>8. ASSUME NEW th \in Threads, NEW t \in Tasks, AddTask(th, t) PROVE LiveTogether'
  BY <1>8 DEF AddTask, Goto, FindsClient
<1>9. ASSUME NEW th \in Threads, NEW t \in Tasks, CloseTask(th, t) PROVE LiveTogether'
  BY <1>9 DEF CloseTask, OnHandleDestroy
<1>10. ASSUME NEW th \in Threads, NEW t \in Tasks, NEW e \in Events, SetCallback(th, t,
      e) PROVE LiveTogether'
  BY <1>10 DEF SetCallback
<1>11. CASE BeginRun
  BY <1>11 DEF BeginRun
<1>12. CASE ReadClient
  BY <1>12 DEF ReadClient
<1>13. CASE EndRun
  BY <1>13 DEF EndRun
<1>14. ASSUME NEW t \in Tasks, Submit(t) PROVE LiveTogether'
  BY <1>14 DEF Submit, Report
<1>15. ASSUME NEW t \in Tasks, NEW e \in Events, Receive(t, e) PROVE LiveTogether'
  BY <1>15 DEF Receive, Report
<1>16. CASE CallbackReturns
  BY <1>16 DEF CallbackReturns
<1>17. CASE CompleteReturns
  BY <1>17 DEF CompleteReturns, OnHandleDestroy
<1>18. CASE RemoveClientType
  BY <1>18 DEF RemoveClientType, OnClientDestroy
<1>19. CASE RemoveTaskType
  BY <1>19 DEF RemoveTaskType
<1>20. CASE UNCHANGED vars
  BY <1>20 DEF vars
<1>21. ASSUME NEW th \in Threads, LinkTask(th) PROVE LiveTogether'
  BY <1>21 DEF LinkTask, Goto
<1> HIDE DEF TypeOK, CallInv, LiveTogether
<1>. QED
  BY CallbackAssumption, <1>1, <1>2, <1>3, <1>4, <1>5, <1>6, <1>7, <1>8, <1>9, <1>10,
        <1>11, <1>12, <1>13,
     <1>14, <1>15, <1>16, <1>17, <1>18, <1>19, <1>20, <1>21
     DEF Next, Silent, Events, PacketKinds

\* Only MakeHandle ends the time between the link of a task and its handle.
LEMMA LinkStep ==
  TypeOK /\ CallInv /\ LiveTogether /\ LinkInv /\ [Next]_vars => LinkInv'
<1> SUFFICES ASSUME TypeOK, CallInv, LiveTogether, LinkInv, [Next]_vars PROVE LinkInv'
  OBVIOUS
<1> USE DEF TypeOK, CallInv, LiveTogether, LinkInv, At, Loaded, Threads, ctxVars, clientVars,
      callVars, runVars, eventVars
<1>1. ASSUME NEW th \in Threads, MakeHandle(th) PROVE LinkInv'
  BY <1>1 DEF MakeHandle, Goto
<1>2. ASSUME NEW th \in Threads, AddToQueue(th) PROVE LinkInv'
  BY <1>2 DEF AddToQueue, Goto
<1>3. ASSUME NEW th \in Threads, ReturnHandle(th) PROVE LinkInv'
  BY <1>3 DEF ReturnHandle, Goto
<1>4. ASSUME NEW th \in Threads, Create(th) PROVE LinkInv'
  BY <1>4 DEF Create
<1>5. ASSUME NEW th \in Threads, AddServer(th) PROVE LinkInv'
  BY <1>5 DEF AddServer
<1>6. ASSUME NEW th \in Threads, SetClientCreated(th) PROVE LinkInv'
  BY <1>6 DEF SetClientCreated
<1>7. ASSUME NEW th \in Threads, CloseClient(th) PROVE LinkInv'
  BY <1>7 DEF CloseClient, OnClientDestroy
<1>8. ASSUME NEW th \in Threads, NEW t \in Tasks, AddTask(th, t) PROVE LinkInv'
  BY <1>8 DEF AddTask, Goto, InPlugin
<1>9. ASSUME NEW th \in Threads, NEW t \in Tasks, CloseTask(th, t) PROVE LinkInv'
  BY <1>9 DEF CloseTask, OnHandleDestroy
<1>10. ASSUME NEW th \in Threads, NEW t \in Tasks, NEW e \in Events, SetCallback(th, t,
      e) PROVE LinkInv'
  BY <1>10 DEF SetCallback
<1>11. CASE BeginRun
  BY <1>11 DEF BeginRun
<1>12. CASE ReadClient
  BY <1>12 DEF ReadClient
<1>13. CASE EndRun
  BY <1>13 DEF EndRun
<1>14. ASSUME NEW t \in Tasks, Submit(t) PROVE LinkInv'
  BY <1>14 DEF Submit, Report
<1>15. ASSUME NEW t \in Tasks, NEW e \in Events, Receive(t, e) PROVE LinkInv'
  BY <1>15 DEF Receive, Report
<1>16. CASE CallbackReturns
  BY <1>16 DEF CallbackReturns
<1>17. CASE CompleteReturns
  BY <1>17 DEF CompleteReturns, OnHandleDestroy
<1>18. CASE RemoveClientType
  BY <1>18 DEF RemoveClientType, OnClientDestroy
<1>19. CASE RemoveTaskType
  BY <1>19 DEF RemoveTaskType
<1>20. CASE UNCHANGED vars
  BY <1>20 DEF vars
<1>21. ASSUME NEW th \in Threads, LinkTask(th) PROVE LinkInv'
  BY <1>21 DEF LinkTask, Goto
<1> HIDE DEF TypeOK, CallInv, LiveTogether, LinkInv
<1>. QED
  BY CallbackAssumption, <1>1, <1>2, <1>3, <1>4, <1>5, <1>6, <1>7, <1>8, <1>9, <1>10,
        <1>11, <1>12, <1>13,
     <1>14, <1>15, <1>16, <1>17, <1>18, <1>19, <1>20, <1>21
     DEF Next, Silent, Events, PacketKinds

\* The report of a task without its handle is a report during the game thread's call.
LEMMA InTimeStep ==
  TypeOK /\ CallInv /\ LiveTogether /\ LinkInv /\ RestInv /\ HandleInTime /\ [Next]_vars
    => HandleInTime'
<1> SUFFICES ASSUME TypeOK, CallInv, LiveTogether, LinkInv, RestInv, HandleInTime,
      [Next]_vars PROVE HandleInTime'
  OBVIOUS
<1> USE DEF TypeOK, CallInv, LiveTogether, HandleInTime, At, Loaded, Threads, ctxVars, clientVars,
      callVars, runVars, eventVars
<1>1. ASSUME NEW th \in Threads, MakeHandle(th) PROVE HandleInTime'
  BY <1>1 DEF MakeHandle, Goto
<1>2. ASSUME NEW th \in Threads, AddToQueue(th) PROVE HandleInTime'
  BY <1>2 DEF AddToQueue, Goto
<1>3. ASSUME NEW th \in Threads, ReturnHandle(th) PROVE HandleInTime'
  BY <1>3 DEF ReturnHandle, Goto
<1>4. ASSUME NEW th \in Threads, Create(th) PROVE HandleInTime'
  BY <1>4 DEF Create
<1>5. ASSUME NEW th \in Threads, AddServer(th) PROVE HandleInTime'
  BY <1>5 DEF AddServer
<1>6. ASSUME NEW th \in Threads, SetClientCreated(th) PROVE HandleInTime'
  BY <1>6 DEF SetClientCreated
<1>7. ASSUME NEW th \in Threads, CloseClient(th) PROVE HandleInTime'
  BY <1>7 DEF CloseClient, OnClientDestroy
<1>8. ASSUME NEW th \in Threads, NEW t \in Tasks, AddTask(th, t) PROVE HandleInTime'
  BY <1>8 DEF AddTask, Goto
<1>9. ASSUME NEW th \in Threads, NEW t \in Tasks, CloseTask(th, t) PROVE HandleInTime'
  BY <1>9 DEF CloseTask, OnHandleDestroy
<1>10. ASSUME NEW th \in Threads, NEW t \in Tasks, NEW e \in Events, SetCallback(th, t,
      e) PROVE HandleInTime'
  BY <1>10 DEF SetCallback
<1>11. CASE BeginRun
  BY <1>11 DEF BeginRun
<1>12. CASE ReadClient
  BY <1>12 DEF ReadClient
<1>13. CASE EndRun
  BY <1>13 DEF EndRun
<1>14. ASSUME NEW t \in Tasks, Submit(t) PROVE HandleInTime'
  BY <1>14 DEF Submit, Report, LinkInv, RestInv, AtRest, Adders
<1>15. ASSUME NEW t \in Tasks, NEW e \in Events, Receive(t, e) PROVE HandleInTime'
  BY <1>15 DEF Receive, Report, LinkInv, RestInv, AtRest, Adders
<1>16. CASE CallbackReturns
  BY <1>16 DEF CallbackReturns
<1>17. CASE CompleteReturns
  BY <1>17 DEF CompleteReturns, OnHandleDestroy
<1>18. CASE RemoveClientType
  BY <1>18 DEF RemoveClientType, OnClientDestroy
<1>19. CASE RemoveTaskType
  BY <1>19 DEF RemoveTaskType
<1>20. CASE UNCHANGED vars
  BY <1>20 DEF vars
<1>21. ASSUME NEW th \in Threads, LinkTask(th) PROVE HandleInTime'
  BY <1>21 DEF LinkTask, Goto
<1> HIDE DEF TypeOK, CallInv, LiveTogether, HandleInTime
<1>. QED
  BY CallbackAssumption, <1>1, <1>2, <1>3, <1>4, <1>5, <1>6, <1>7, <1>8, <1>9, <1>10,
        <1>11, <1>12, <1>13,
     <1>14, <1>15, <1>16, <1>17, <1>18, <1>19, <1>20, <1>21
     DEF Next, Silent, Events, PacketKinds

\* No run begins between the link of a task added at rest and its own push.
LEMMA RestStep ==
  TypeOK /\ CallInv /\ LiveTogether /\ RestInv /\ [Next]_vars => RestInv'
<1> SUFFICES ASSUME TypeOK, CallInv, LiveTogether, RestInv, [Next]_vars PROVE RestInv'
  OBVIOUS
<1> USE CallbackAssumption DEF TypeOK, CallInv, LiveTogether, RestInv, AtRest, Adders, Unfreed,
      At, Loaded, Threads, ctxVars, clientVars, callVars, runVars, eventVars
<1>1. ASSUME NEW th \in Threads, MakeHandle(th) PROVE RestInv'
  BY <1>1 DEF MakeHandle, Goto
<1>2. ASSUME NEW th \in Threads, AddToQueue(th) PROVE RestInv'
  BY <1>2 DEF AddToQueue, Goto
<1>3. ASSUME NEW th \in Threads, ReturnHandle(th) PROVE RestInv'
  BY <1>3 DEF ReturnHandle, Goto
<1>4. ASSUME NEW th \in Threads, Create(th) PROVE RestInv'
  BY <1>4 DEF Create
<1>5. ASSUME NEW th \in Threads, AddServer(th) PROVE RestInv'
  BY <1>5 DEF AddServer
<1>6. ASSUME NEW th \in Threads, SetClientCreated(th) PROVE RestInv'
  BY <1>6 DEF SetClientCreated
<1>7. ASSUME NEW th \in Threads, CloseClient(th) PROVE RestInv'
  BY <1>7 DEF CloseClient, OnClientDestroy
<1>8. ASSUME NEW th \in Threads, NEW t \in Tasks, AddTask(th, t) PROVE RestInv'
  <2>1. /\ memory' = [memory EXCEPT ![t] = "live"] /\ memory[t] = "none" /\ how[t] = "none"
        /\ arg' = [arg EXCEPT ![th] = t] /\ pc' = [pc EXCEPT ![th] = "link"]
        /\ UNCHANGED <<entry, run, ctx, handle>>
    BY <1>8 DEF AddTask, Goto
  <2>2. how'[t] = "rest" => AtRest /\ Adders = {}
    BY <1>8 DEF AddTask
  <2>3. \A u \in Tasks \ {t} : how'[u] = "rest" => how[u] = "rest"
    BY <1>8 DEF AddTask
  <2>4. \A x \in Adders : arg[x] # t /\ arg[x] \in Tasks /\ how'[arg[x]] # "rest"
    BY <1>8, <2>1 DEF AddTask, Adding
  <2>5. Adders' = Adders \cup {th} /\ th \notin Adders
    BY <1>8, <2>1 DEF AddTask, InPlugin
  <2>6. \A x \in Adders : arg'[x] = arg[x]
    BY <2>1, <2>5
  <2>. QED
    BY <2>1, <2>2, <2>3, <2>4, <2>5, <2>6
<1>9. ASSUME NEW th \in Threads, NEW t \in Tasks, CloseTask(th, t) PROVE RestInv'
  BY <1>9 DEF CloseTask, OnHandleDestroy
<1>10. ASSUME NEW th \in Threads, NEW t \in Tasks, NEW e \in Events, SetCallback(th, t,
      e) PROVE RestInv'
  BY <1>10 DEF SetCallback
<1>11. CASE BeginRun
  BY <1>11 DEF BeginRun
<1>12. CASE ReadClient
  BY <1>12 DEF ReadClient
<1>13. CASE EndRun
  BY <1>13 DEF EndRun
<1>14. ASSUME NEW t \in Tasks, Submit(t) PROVE RestInv'
  BY <1>14 DEF Submit, Report
<1>15. ASSUME NEW t \in Tasks, NEW e \in Events, Receive(t, e) PROVE RestInv'
  BY <1>15 DEF Receive, Report
<1>16. CASE CallbackReturns
  BY <1>16 DEF CallbackReturns
<1>17. CASE CompleteReturns
  BY <1>17 DEF CompleteReturns, OnHandleDestroy
<1>18. CASE RemoveClientType
  BY <1>18 DEF RemoveClientType, OnClientDestroy
<1>19. CASE RemoveTaskType
  BY <1>19 DEF RemoveTaskType
<1>20. CASE UNCHANGED vars
  BY <1>20 DEF vars
<1>21. ASSUME NEW th \in Threads, LinkTask(th) PROVE RestInv'
  BY <1>21 DEF LinkTask, Goto
<1> HIDE DEF TypeOK, CallInv, LiveTogether, RestInv
<1>. QED
  BY CallbackAssumption, <1>1, <1>2, <1>3, <1>4, <1>5, <1>6, <1>7, <1>8, <1>9, <1>10,
        <1>11, <1>12, <1>13,
     <1>14, <1>15, <1>16, <1>17, <1>18, <1>19, <1>20, <1>21
     DEF Next, Silent, Events, PacketKinds

\* Nobody else has the handle of what a callback is adding, and no completion can
\* be executed meanwhile.
LEMMA ReturnStep ==
  TypeOK /\ CallInv /\ LiveTogether /\ ReturnInv /\ [Next]_vars => ReturnInv'
<1> SUFFICES ASSUME TypeOK, CallInv, LiveTogether, ReturnInv, [Next]_vars PROVE ReturnInv'
  OBVIOUS
<1> USE DEF TypeOK, CallInv, LiveTogether, ReturnInv, InPlugin, At, Loaded, Threads, ctxVars,
      clientVars, callVars, runVars, eventVars
<1>1. ASSUME NEW th \in Threads, MakeHandle(th) PROVE ReturnInv'
  BY <1>1 DEF MakeHandle, Goto
<1>2. ASSUME NEW th \in Threads, AddToQueue(th) PROVE ReturnInv'
  BY <1>2 DEF AddToQueue, Goto
<1>3. ASSUME NEW th \in Threads, ReturnHandle(th) PROVE ReturnInv'
  BY <1>3 DEF ReturnHandle, Goto
<1>4. ASSUME NEW th \in Threads, Create(th) PROVE ReturnInv'
  BY <1>4 DEF Create
<1>5. ASSUME NEW th \in Threads, AddServer(th) PROVE ReturnInv'
  BY <1>5 DEF AddServer
<1>6. ASSUME NEW th \in Threads, SetClientCreated(th) PROVE ReturnInv'
  BY <1>6 DEF SetClientCreated
<1>7. ASSUME NEW th \in Threads, CloseClient(th) PROVE ReturnInv'
  BY <1>7 DEF CloseClient, OnClientDestroy
<1>8. ASSUME NEW th \in Threads, NEW t \in Tasks, AddTask(th, t) PROVE ReturnInv'
  BY <1>8 DEF AddTask, Goto
<1>9. ASSUME NEW th \in Threads, NEW t \in Tasks, CloseTask(th, t) PROVE ReturnInv'
  BY <1>9 DEF CloseTask, OnHandleDestroy
<1>10. ASSUME NEW th \in Threads, NEW t \in Tasks, NEW e \in Events, SetCallback(th, t,
      e) PROVE ReturnInv'
  BY <1>10 DEF SetCallback
<1>11. CASE BeginRun
  BY <1>11 DEF BeginRun
<1>12. CASE ReadClient
  BY <1>12 DEF ReadClient
<1>13. CASE EndRun
  BY <1>13 DEF EndRun
<1>14. ASSUME NEW t \in Tasks, Submit(t) PROVE ReturnInv'
  BY <1>14 DEF Submit, Report
<1>15. ASSUME NEW t \in Tasks, NEW e \in Events, Receive(t, e) PROVE ReturnInv'
  BY <1>15 DEF Receive, Report
<1>16. CASE CallbackReturns
  BY <1>16 DEF CallbackReturns
<1>17. CASE CompleteReturns
  BY <1>17 DEF CompleteReturns, OnHandleDestroy
<1>18. CASE RemoveClientType
  BY <1>18 DEF RemoveClientType, OnClientDestroy
<1>19. CASE RemoveTaskType
  BY <1>19 DEF RemoveTaskType
<1>20. CASE UNCHANGED vars
  BY <1>20 DEF vars
<1>21. ASSUME NEW th \in Threads, LinkTask(th) PROVE ReturnInv'
  BY <1>21 DEF LinkTask, Goto
<1> HIDE DEF TypeOK, CallInv, LiveTogether, ReturnInv
<1>. QED
  BY CallbackAssumption, <1>1, <1>2, <1>3, <1>4, <1>5, <1>6, <1>7, <1>8, <1>9, <1>10,
        <1>11, <1>12, <1>13,
     <1>14, <1>15, <1>16, <1>17, <1>18, <1>19, <1>20, <1>21
     DEF Next, Silent, Events, PacketKinds

LEMMA InvStep == Inv /\ [Next]_vars => Inv'
  BY TypeStep, CallStep, LiveStep, LinkStep, InTimeStep, RestStep, ReturnStep DEF Inv

LEMMA InvAlways == Spec => []Inv
  BY InvInit, InvStep, PTL DEF Spec

-----------------------------------------------------------------------------
\* TypeOK, for every number of tasks.
THEOREM TypeCorrect == Spec => []TypeOK
<1>1. Inv => TypeOK BY DEF Inv
<1>. QED BY <1>1, InvAlways, PTL

\* LiveTogether: an open task handle has a live context, and libgearman has no
\* task whose context was freed, with everything closed at any time.
THEOREM HandlesHaveContexts == Spec => []LiveTogether
<1>1. Inv => LiveTogether BY DEF Inv
<1>. QED BY <1>1, InvAlways, PTL

\* HandleInTime: only a task added from outside during a run can reach a callback
\* before AddTask has stored its handle.
THEOREM HandleReachesCallback == Spec => []HandleInTime
<1>1. Inv => HandleInTime BY DEF Inv
<1>. QED BY <1>1, InvAlways, PTL

\* ReturnInTime: AddTask called by a callback returns the handle it has made.
THEOREM CallbackGetsHandle == Spec => []ReturnInTime
<1>1. Inv => ReturnInTime BY DEF Inv, ReturnInv, ReturnInTime
<1>. QED BY <1>1, InvAlways, PTL

\* EntryInTime: RunThread finds the context of a task added at rest in memory,
\* unless a plugin has closed its handle.
THEOREM EntryStays == Spec => []EntryInTime
<1>1. Inv => EntryInTime BY DEF Inv, RestInv, Unfreed, EntryInTime
<1>. QED BY <1>1, InvAlways, PTL

\* ClosedClientRests: whatever happens after a client was closed at rest, nothing
\* is queued or run for it any more.
THEOREM ClosedStaysClosed == Spec => ClosedClientRests
<1>1. [Next]_vars => [ClosedAtRest => ClosedAtRest']_vars
  <2> SUFFICES ASSUME ClosedAtRest, Next PROVE ClosedAtRest'
    BY DEF vars, ctxVars, clientVars, callVars, runVars, eventVars
  <2> USE DEF ClosedAtRest, AtRest, At, Loaded, Threads, ctxVars, clientVars, callVars, runVars,
        eventVars
  <2>1. ASSUME NEW th \in Threads,
               LinkTask(th) \/ MakeHandle(th) \/ AddToQueue(th) \/ ReturnHandle(th)
        PROVE ClosedAtRest'
    BY <2>1 DEF LinkTask, MakeHandle, AddToQueue, ReturnHandle
  <2>2. ASSUME NEW th \in Threads,
               Create(th) \/ AddServer(th) \/ SetClientCreated(th) \/ CloseClient(th)
        PROVE ClosedAtRest'
    BY <2>2 DEF Create, AddServer, SetClientCreated, CloseClient, FindsClient
  <2>3. ASSUME NEW th \in Threads, NEW t \in Tasks, AddTask(th, t) \/ CloseTask(th, t)
        PROVE ClosedAtRest'
    BY <2>3 DEF AddTask, CloseTask, FindsClient
  <2>4. ASSUME NEW th \in Threads, NEW t \in Tasks, NEW e \in Events, SetCallback(th, t, e)
        PROVE ClosedAtRest'
    BY <2>4 DEF SetCallback
  <2>5. CASE BeginRun \/ ReadClient \/ EndRun
    BY <2>5 DEF BeginRun, ReadClient, EndRun
  <2>6. ASSUME NEW t \in Tasks, Submit(t) PROVE ClosedAtRest'
    BY <2>6 DEF Submit, Report
  <2>7. ASSUME NEW t \in Tasks, NEW e \in Packets, Receive(t, e) PROVE ClosedAtRest'
    BY <2>7 DEF Receive, Report
  <2>8. CASE CallbackReturns \/ CompleteReturns
    BY <2>8 DEF CallbackReturns, CompleteReturns
  <2>9. CASE RemoveClientType \/ RemoveTaskType
    BY <2>9 DEF RemoveClientType, RemoveTaskType
  <2>10. CASE Silent
    BY <2>10 DEF Silent, vars
  <2> HIDE DEF ClosedAtRest
  <2>. QED
    BY <2>1, <2>2, <2>3, <2>4, <2>5, <2>6, <2>7, <2>8, <2>9, <2>10 DEF Next
<1>. QED BY <1>1, PTL DEF Spec, ClosedClientRests
=============================================================================
