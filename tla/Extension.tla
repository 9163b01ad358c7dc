------------------------------ MODULE Extension ------------------------------
(***************************************************************************)
(* The life of the extension in a server process: SourceMod loads it, tells*)
(* it that all extensions are loaded, asks whether it is running, lets     *)
(* plugins call its natives, unloads it, and may load it again. A plugin   *)
(* that requires the extension waits for its answer; one that does not     *)
(* calls the natives as soon as there are any, and outlives the extension. *)
(* These are callbacks and natives on one thread, the game's. The threads  *)
(* they start are not: one that is inside the extension's code when that   *)
(* goes away takes the process with it, and so does a handle whose type is *)
(* still registered with that code.                                        *)
(***************************************************************************)
EXTENDS Naturals, FiniteSets

CONSTANTS
  Plugins,        \* plugins that require the extension
  Optional,       \* plugins that use it without requiring it
  Offers,         \* what SourceMod may offer: sets of Interfaces
  RemoveGranted,  \* whether RemoveType(type, NULL) is granted or refused
  MaxLoops,       \* bound on the threads of gearman workers
  MaxLives        \* bound on the number of loads

Interfaces == {"SOURCEMOD", "HANDLESYSTEM", "THREADER"}
Types      == {"GearmanClient", "GearmanWorker", "GearmanJob", "GearmanTask"}

\* The interfaces smsdk_config.h has OnExtensionLoad ask for.
Enabled == {"SOURCEMOD", "HANDLESYSTEM"}

ASSUME ExtensionAssumption ==
  /\ Offers \subseteq SUBSET Interfaces /\ Offers # {}
  /\ RemoveGranted \subseteq BOOLEAN /\ RemoveGranted # {}
  /\ MaxLoops \in Nat /\ MaxLives \in Nat

VARIABLES
  offered,    \* what SourceMod offers in this process
  stage,      \* where the extension is in its life
  lives,      \* how often it has been loaded
  found,      \* the interfaces it has a pointer to
  natives,    \* AddNatives has been called
  types,      \* the types it has a HandleType_t for
  leftover,   \* the types registered by a life that is over
  held,       \* the types that a plugin in Optional has a handle of
  lock,       \* m_pQueueLock is a mutex
  worker,     \* m_pWorker's thread: "none", "idle", or "busy" in RunThread
  loops,      \* the number of threads in GearmanWorkerThread::RunThread
  trusted     \* the plugins that run because QueryRunning has answered TRUE

imageVars  == <<found, natives, types, lock>>
handleVars == <<leftover, held>>
threadVars == <<worker, loops>>
vars == <<offered, stage, lives, imageVars, handleVars, threadVars, trusted>>

\* The extension is not there, and nothing of it is but what it has left behind.
Nothing ==
  /\ found = {} /\ ~natives /\ types = {} /\ ~lock
  /\ trusted = {} /\ worker = "none" /\ loops = 0

TypeOK ==
  /\ offered \in Offers
  /\ stage \in {"absent", "loaded", "ready", "crashed"}
  /\ lives \in 0..MaxLives
  /\ found \subseteq Interfaces
  /\ natives \in BOOLEAN /\ lock \in BOOLEAN
  /\ types \subseteq Types /\ leftover \subseteq Types \ types
  /\ held \subseteq types \cup leftover
  /\ worker \in {"none", "idle", "busy"} /\ loops \in 0..MaxLoops
  /\ trusted \subseteq Plugins
  /\ stage = "absent" => Nothing

Init ==
  /\ offered \in Offers
  /\ stage = "absent" /\ lives = 0
  /\ found = {} /\ natives = FALSE /\ types = {} /\ lock = FALSE
  /\ leftover = {} /\ held = {}
  /\ worker = "none" /\ loops = 0
  /\ trusted = {}

-----------------------------------------------------------------------------
(* Plausible mistakes in the steps below, never part of Next.               *)

\* SM_CHECK_IFACE on the interface that was found by then.
CheckIfaceAny(i) == i \in offered

\* OnExtensionLoad that calls SDK_OnLoad before it asks for the interfaces.
OnExtensionLoadFirst ==
  /\ stage = "absent" /\ lives < MaxLives
  /\ lives' = lives + 1
  /\ natives' = TRUE /\ types' = Types \ leftover
  /\ IF Enabled \subseteq offered
       THEN stage' = "loaded" /\ found' = Enabled
       ELSE UNCHANGED <<stage, found>>
  /\ UNCHANGED <<offered, handleVars, lock, threadVars, trusted>>

-----------------------------------------------------------------------------
(* Loading.                                                                 *)

\* SM_GET_IFACE: RequestInterface finds i, or the load is refused.
GetIface(i) == i \in offered

\* SM_CHECK_IFACE
CheckIface(i) == i \in found

\* Gearman::SDK_OnLoad: natives and handle types, whose CreateType fails for a
\* name that is still registered.
SDK_OnLoad ==
  /\ natives' = TRUE
  /\ types' = Types \ leftover

\* SDKExtension::OnExtensionLoad
OnExtensionLoad ==
  /\ stage = "absent" /\ lives < MaxLives
  /\ lives' = lives + 1
  /\ IF \A i \in Enabled : GetIface(i)
       THEN stage' = "loaded" /\ found' = Enabled /\ SDK_OnLoad
       ELSE UNCHANGED <<stage, found, natives, types>>
  /\ UNCHANGED <<offered, handleVars, lock, threadVars, trusted>>

\* Gearman::SDK_OnAllLoaded: SM_GET_LATE_IFACE does not look at its result, and
\* MakeMutex is called on what it left in g_pThreader.
SDK_OnAllLoaded ==
  /\ stage = "loaded"
  /\ IF GetIface("THREADER")
       THEN stage' = "ready" /\ found' = found \cup {"THREADER"} /\ lock' = TRUE
       ELSE stage' = "crashed" /\ UNCHANGED <<found, lock>>
  /\ UNCHANGED <<offered, lives, natives, types, handleVars, threadVars, trusted>>

\* Gearman::QueryRunning. SourceMod may ask at any time after the load, and starts
\* plugin p when the answer is TRUE.
QueryRunning(p) ==
  /\ stage \in {"loaded", "ready"}
  /\ trusted' = IF CheckIface("THREADER") THEN trusted \cup {p} ELSE trusted \ {p}
  /\ UNCHANGED <<offered, stage, lives, imageVars, handleVars, threadVars>>

\* SourceMod unloads plugin p, which stops none of the threads it has started.
UnloadPlugin(p) ==
  /\ stage # "crashed"
  /\ p \in trusted
  /\ trusted' = trusted \ {p}
  /\ UNCHANGED <<offered, stage, lives, imageVars, handleVars, threadVars>>

-----------------------------------------------------------------------------
(* Plugins, by way of the natives, and the threads they start.              *)

\* There is a native to call and a plugin that runs, which can have the handle of
\* type t the native looks up.
Called(t) == natives /\ t \in types /\ trusted \cup Optional # {}

\* AddToQueue: m_pWorker is made with g_pThreader on first use, m_pQueueLock is
\* taken, and the worker enters RunThread.
AddToQueue ==
  /\ stage # "crashed"
  /\ Called("GearmanClient")
  /\ IF (worker = "none" /\ "THREADER" \notin found) \/ ~lock
       THEN stage' = "crashed" /\ UNCHANGED worker
       ELSE worker' = "busy" /\ UNCHANGED stage
  /\ UNCHANGED <<offered, lives, imageVars, handleVars, loops, trusted>>

\* RunThread returns, and the IThreadWorker waits outside the extension.
RunReturns ==
  /\ stage # "crashed"
  /\ worker = "busy"
  /\ worker' = "idle"
  /\ UNCHANGED <<offered, stage, lives, imageVars, handleVars, loops, trusted>>

\* GearmanWorker_AddFunction for a worker without a thread.
AddFunction ==
  /\ stage # "crashed"
  /\ Called("GearmanWorker")
  /\ loops < MaxLoops
  /\ IF "THREADER" \notin found
       THEN stage' = "crashed" /\ UNCHANGED loops
       ELSE loops' = loops + 1 /\ UNCHANGED stage
  /\ UNCHANGED <<offered, lives, imageVars, handleVars, worker, trusted>>

\* GearmanWorkerThread::RunThread ends.
LoopEnds ==
  /\ stage # "crashed"
  /\ loops > 0
  /\ loops' = loops - 1
  /\ UNCHANGED <<offered, stage, lives, imageVars, handleVars, worker, trusted>>

\* A native, or Gearman_CallWorker, creates a handle of type t for a plugin in
\* Optional. The handles of the others are closed with them before the unload.
CreateHandle(t) ==
  /\ stage # "crashed"
  /\ natives /\ Optional # {}
  /\ t \in types
  /\ held' = held \cup {t}
  /\ UNCHANGED <<offered, stage, lives, imageVars, leftover, threadVars, trusted>>

\* The last handle of type t is closed, by the plugin or with it. The handle system
\* calls OnHandleDestroy of the extension that registered t, loaded or not.
CloseHandle(t) ==
  /\ stage # "crashed"
  /\ t \in held
  /\ held' = held \ {t}
  /\ stage' = IF t \in leftover THEN "crashed" ELSE stage
  /\ UNCHANGED <<offered, lives, imageVars, leftover, threadVars, trusted>>

-----------------------------------------------------------------------------
(* Unloading.                                                               *)

\* Gearman::SDK_OnUnload: a type is removed with its handles. One whose removal is
\* refused stays registered: the results are not looked at. KillWorkerThread is not
\* called.
SDK_OnUnload ==
  \E granted \in RemoveGranted :
    IF granted THEN held' = held \ types /\ UNCHANGED leftover
               ELSE leftover' = leftover \cup types /\ UNCHANGED held

\* SDKExtension::OnExtensionUnload, after SourceMod has unloaded the plugins that
\* require the extension, and the end of its code and data. A thread inside is
\* lost with them; an IThreadWorker that waits is only forgotten.
OnExtensionUnload ==
  /\ stage \in {"loaded", "ready"}
  /\ SDK_OnUnload
  /\ trusted' = {}
  /\ found' = {} /\ natives' = FALSE /\ types' = {} /\ lock' = FALSE
  /\ stage' = IF worker = "busy" \/ loops > 0 THEN "crashed" ELSE "absent"
  /\ worker' = "none" /\ loops' = 0
  /\ UNCHANGED <<offered, lives>>

-----------------------------------------------------------------------------
\* The process has crashed, or nobody loads the extension any more.
Stopped ==
  /\ stage = "crashed" \/ (stage = "absent" /\ lives = MaxLives)
  /\ UNCHANGED vars

Next ==
  \/ OnExtensionLoad \/ SDK_OnAllLoaded
  \/ \E p \in Plugins : QueryRunning(p) \/ UnloadPlugin(p)
  \/ AddToQueue \/ RunReturns \/ AddFunction \/ LoopEnds
  \/ \E t \in Types : CreateHandle(t) \/ CloseHandle(t)
  \/ OnExtensionUnload
  \/ Stopped

Spec == Init /\ [][Next]_vars

-----------------------------------------------------------------------------
(* Properties.                                                              *)

\* The process crashes in three ways only. While the extension is loaded, and has
\* told no plugin that it runs: SDK_OnAllLoaded does without the THREADER interface,
\* or a plugin that did not ask calls a native. At the unload, under a thread that is
\* inside the extension. Or when a plugin that outlived it closes a handle of a type
\* that could not be removed. So QueryRunning's answer is worth waiting for, in every
\* life, and once SDK_OnAllLoaded is over no native meets a NULL pointer.
NoOtherCrash ==
  [][stage # "crashed" /\ stage' = "crashed" =>
       \/ stage = "loaded" /\ trusted = {} /\ ("THREADER" \notin offered \/ Optional # {})
       \/ natives /\ ~natives' /\ (worker = "busy" \/ loops > 0)
       \/ held \cap leftover # {} /\ held' # held]_vars
=============================================================================
