----------------------------- MODULE TaskService -----------------------------
(***************************************************************************)
(* What the client half of the extension promises a plugin: a task handed  *)
(* to GearmanClient_AddTask is accepted once, clients are served one at a   *)
(* time, a task advances only while its own client is served, and a client *)
(* is let go only when nothing it has accepted is left undone.              *)
(* TaskDispatch implements this with its queue, lock and worker thread.     *)
(***************************************************************************)
CONSTANTS Tasks, Clients, NoClient

VARIABLES
  state,     \* what has become of each task
  owner,     \* the client it was added to
  serving    \* the client being served, or NoClient

vars == <<state, owner, serving>>

Init ==
  /\ state = [t \in Tasks |-> "absent"]
  /\ owner = [t \in Tasks |-> NoClient]
  /\ serving = NoClient

\* A plugin adds t to client c; the client may refuse it.
Accept(t, c) ==
  /\ state[t] = "absent"
  /\ \E answer \in {"new", "unlinked"} : state' = [state EXCEPT ![t] = answer]
  /\ owner' = [owner EXCEPT ![t] = c]
  /\ UNCHANGED serving

Serve(c) ==
  /\ serving = NoClient
  /\ serving' = c
  /\ UNCHANGED <<state, owner>>

\* A task of the served client is sent, or answered.
Advance(t) ==
  /\ serving = owner[t]
  /\ \/ state[t] = "new" /\ state' = [state EXCEPT ![t] = "submitted"]
     \/ state[t] = "submitted" /\ state' = [state EXCEPT ![t] = "finished"]
  /\ UNCHANGED <<owner, serving>>

Release ==
  /\ serving # NoClient
  /\ \A t \in Tasks : owner[t] = serving => state[t] \notin {"new", "submitted"}
  /\ serving' = NoClient
  /\ UNCHANGED <<state, owner>>

Next ==
  \/ \E t \in Tasks : Advance(t) \/ \E c \in Clients : Accept(t, c)
  \/ \E c \in Clients : Serve(c)
  \/ Release

Spec == Init /\ [][Next]_vars
=============================================================================
