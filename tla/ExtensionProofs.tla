-------------------------- MODULE ExtensionProofs --------------------------
(***************************************************************************)
(* Proofs about Extension, for every number of plugins, threads and lives. *)
(*                                                                         *)
(* LifeInv is what a running plugin rests on: it says what has been done by*)
(* the stage the extension has reached. It is inductive whatever is missing*)
(* and whatever is refused.                                                *)
(***************************************************************************)
EXTENDS Extension, TLAPS

\* What the extension has found and made by each stage of its life, and which plugins
\* may be running on it.
LifeInv ==
  /\ stage \in {"absent", "loaded", "ready", "crashed"}
  /\ stage = "absent" => Nothing
  /\ stage = "loaded" => found = Enabled /\ trusted = {}
  /\ stage = "ready" => "THREADER" \in found /\ lock
  /\ stage \in {"loaded", "ready"} => natives

-----------------------------------------------------------------------------
LEMMA TypeInit == Init => TypeOK
<1> SUFFICES ASSUME Init PROVE TypeOK
  OBVIOUS
<1>1. lives \in 0..MaxLives /\ loops \in 0..MaxLoops
  BY ExtensionAssumption DEF Init
<1>2. Nothing
  BY DEF Init, Nothing
<1>. QED
  BY <1>1, <1>2, Zenon DEF Init, TypeOK

\* The shape of the state, and what the type conjuncts of TypeOK say of the handles.
LEMMA TypeStep == TypeOK /\ [Next]_vars => TypeOK'
<1> SUFFICES ASSUME TypeOK, [Next]_vars PROVE TypeOK'
  OBVIOUS
<1> USE ExtensionAssumption DEF TypeOK
<1>1. CASE OnExtensionLoad
  <2>1. lives' \in 0..MaxLives
    BY <1>1 DEF OnExtensionLoad
  <2>2. Enabled \subseteq Interfaces
    BY DEF Enabled, Interfaces
  <2>3. found' \subseteq Interfaces /\ natives' \in BOOLEAN
    BY <1>1, <2>2 DEF OnExtensionLoad, SDK_OnLoad
  <2>4. types' \subseteq Types /\ leftover' \subseteq Types \ types'
    BY <1>1 DEF OnExtensionLoad, SDK_OnLoad, handleVars
  <2>5. held' \subseteq types' \cup leftover'
    BY <1>1 DEF OnExtensionLoad, SDK_OnLoad, handleVars
  <2>6. stage' \in {"absent", "loaded", "ready", "crashed"} /\ (stage' = "absent" => Nothing')
    BY <1>1 DEF OnExtensionLoad, Nothing, threadVars
  <2>. QED
    BY <1>1, <2>1, <2>3, <2>4, <2>5, <2>6, Zenon DEF OnExtensionLoad, threadVars
<1>2. CASE SDK_OnAllLoaded
  <2>1. found' \subseteq Interfaces /\ lock' \in BOOLEAN
    BY <1>2 DEF SDK_OnAllLoaded, Interfaces
  <2>2. stage' \in {"ready", "crashed"}
    BY <1>2 DEF SDK_OnAllLoaded
  <2>3. leftover' \subseteq Types \ types' /\ held' \subseteq types' \cup leftover'
    BY <1>2 DEF SDK_OnAllLoaded, handleVars
  <2>. QED
    BY <1>2, <2>1, <2>2, <2>3 DEF SDK_OnAllLoaded, threadVars
<1>3. ASSUME NEW p \in Plugins, QueryRunning(p) PROVE TypeOK'
  BY <1>3 DEF QueryRunning, imageVars, handleVars, threadVars
<1>4. ASSUME NEW p \in Plugins, UnloadPlugin(p) PROVE TypeOK'
  BY <1>4 DEF UnloadPlugin, imageVars, handleVars, threadVars, Nothing
<1>5. CASE AddToQueue
  BY <1>5 DEF AddToQueue, Called, Nothing, imageVars, handleVars
<1>6. CASE RunReturns
  BY <1>6 DEF RunReturns, Nothing, imageVars, handleVars
<1>7. CASE AddFunction
  BY <1>7 DEF AddFunction, Called, Nothing, imageVars, handleVars
<1>8. CASE LoopEnds
  BY <1>8 DEF LoopEnds, Nothing, imageVars, handleVars
<1>9. CASE OnExtensionUnload
  <2>1. loops' \in 0..MaxLoops
    BY <1>9 DEF OnExtensionUnload
  <2>2. leftover' \subseteq Types \ types' /\ held' \subseteq types' \cup leftover'
    <3>1. PICK granted \in RemoveGranted :
            IF granted THEN held' = held \ types /\ UNCHANGED leftover
                       ELSE leftover' = leftover \cup types /\ UNCHANGED held
      BY <1>9 DEF OnExtensionUnload, SDK_OnUnload
    <3>2. types' = {}
      BY <1>9 DEF OnExtensionUnload
    <3>. QED BY <3>1, <3>2
  <2>3. stage' = "absent" => Nothing'
    BY <1>9 DEF OnExtensionUnload, Nothing
  <2>. QED
    BY <1>9, <2>1, <2>2, <2>3, Zenon DEF OnExtensionUnload
<1>10. ASSUME NEW t \in Types, CreateHandle(t) PROVE TypeOK'
  BY <1>10 DEF CreateHandle, Nothing, imageVars, threadVars
<1>11. ASSUME NEW t \in Types, CloseHandle(t) PROVE TypeOK'
  BY <1>11 DEF CloseHandle, Nothing, imageVars, threadVars
<1>12. CASE UNCHANGED vars
  BY <1>12 DEF vars, imageVars, handleVars, threadVars, Nothing
<1>. QED
  BY <1>1, <1>2, <1>3, <1>4, <1>5, <1>6, <1>7, <1>8, <1>9, <1>10, <1>11, <1>12 DEF Next, Stopped

\* TypeOK, for any number of plugins, threads and lives: whatever is refused, an
\* extension that is not there has no natives, interfaces or threads, and every handle
\* a plugin holds is of a type that is registered.
THEOREM TypeCorrect == Spec => []TypeOK
<1>1. Init => TypeOK BY TypeInit
<1>2. TypeOK /\ [Next]_vars => TypeOK' BY TypeStep
<1>. QED BY <1>1, <1>2, PTL DEF Spec

-----------------------------------------------------------------------------
LEMMA LifeInit == Init => LifeInv
  BY DEF Init, LifeInv, Nothing

\* TRUE from QueryRunning needs the THREADER interface, which is looked for only
\* after everything else has been found: hence nothing is trusted before.
LEMMA LifeStep == LifeInv /\ [Next]_vars => LifeInv'
<1> SUFFICES ASSUME LifeInv, [Next]_vars PROVE LifeInv'
  OBVIOUS
<1> USE DEF LifeInv, Nothing
<1>1. CASE OnExtensionLoad
  BY <1>1 DEF OnExtensionLoad, SDK_OnLoad, threadVars
<1>2. CASE SDK_OnAllLoaded
  BY <1>2 DEF SDK_OnAllLoaded, GetIface, threadVars
<1>3. ASSUME NEW p \in Plugins, QueryRunning(p) PROVE LifeInv'
  BY <1>3 DEF QueryRunning, CheckIface, Enabled, imageVars, threadVars
<1>4. ASSUME NEW p \in Plugins, UnloadPlugin(p) PROVE LifeInv'
  BY <1>4 DEF UnloadPlugin, imageVars, threadVars
<1>5. CASE AddToQueue
  BY <1>5 DEF AddToQueue, Called, imageVars
<1>6. CASE RunReturns
  BY <1>6 DEF RunReturns, imageVars
<1>7. CASE AddFunction
  BY <1>7 DEF AddFunction, Called, imageVars
<1>8. CASE LoopEnds
  BY <1>8 DEF LoopEnds, imageVars
<1>9. CASE OnExtensionUnload
  BY <1>9 DEF OnExtensionUnload
<1>10. ASSUME NEW t \in Types, CreateHandle(t) PROVE LifeInv'
  BY <1>10 DEF CreateHandle, imageVars, threadVars
<1>11. ASSUME NEW t \in Types, CloseHandle(t) PROVE LifeInv'
  BY <1>11 DEF CloseHandle, imageVars, threadVars
<1>12. CASE UNCHANGED vars
  BY <1>12 DEF vars, imageVars, threadVars
<1>. QED
  BY <1>1, <1>2, <1>3, <1>4, <1>5, <1>6, <1>7, <1>8, <1>9, <1>10, <1>11, <1>12 DEF Next, Stopped

\* A way in which the process may crash.
AllowedCrash ==
  \/ stage = "loaded" /\ trusted = {} /\ ("THREADER" \notin offered \/ Optional # {})
  \/ natives /\ ~natives' /\ (worker = "busy" \/ loops > 0)
  \/ held \cap leftover # {} /\ held' # held

\* No other step crashes it.
LEMMA CrashStep ==
  LifeInv /\ [Next]_vars => (stage # "crashed" /\ stage' = "crashed" => AllowedCrash)
<1> SUFFICES ASSUME LifeInv, [Next]_vars, stage # "crashed", stage' = "crashed" PROVE AllowedCrash
  OBVIOUS
<1> USE DEF LifeInv, Nothing, AllowedCrash
<1>1. CASE OnExtensionLoad
  BY <1>1 DEF OnExtensionLoad
<1>2. CASE SDK_OnAllLoaded
  BY <1>2 DEF SDK_OnAllLoaded, GetIface
<1>3. CASE AddToQueue
  BY <1>3 DEF AddToQueue, Called
<1>4. CASE AddFunction
  BY <1>4 DEF AddFunction, Called
<1>5. CASE OnExtensionUnload
  BY <1>5 DEF OnExtensionUnload
<1>6. ASSUME NEW t \in Types, CloseHandle(t) PROVE AllowedCrash
  BY <1>6 DEF CloseHandle
<1>. QED
  BY <1>1, <1>2, <1>3, <1>4, <1>5, <1>6
     DEF Next, Stopped, QueryRunning, UnloadPlugin, RunReturns, LoopEnds, CreateHandle, vars

\* NoOtherCrash, whatever SourceMod offers, whatever plugins run, and in whatever order
\* it loads, asks and unloads: there are no ways to crash but the three.
THEOREM CrashesAreThree == Spec => NoOtherCrash
<1>1. Init => LifeInv BY LifeInit
<1>2. LifeInv /\ [Next]_vars => LifeInv' BY LifeStep
<1>3. LifeInv /\ [Next]_vars => [stage # "crashed" /\ stage' = "crashed" => AllowedCrash]_vars
  BY CrashStep
<1>4. NoOtherCrash <=> [][stage # "crashed" /\ stage' = "crashed" => AllowedCrash]_vars
  BY DEF NoOtherCrash, AllowedCrash
<1>. QED BY <1>1, <1>2, <1>3, <1>4, PTL DEF Spec
=============================================================================
