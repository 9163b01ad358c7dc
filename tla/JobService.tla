----------------------------- MODULE JobService -----------------------------
(***************************************************************************)
(* What a plugin and the job server may rely on, whatever workers, threads *)
(* and functions there are: a job is given to the plugin once, or fails    *)
(* without; its handle is lent then or never, and not taken back before    *)
(* the callback is over; and the job ends with the callback or, when that  *)
(* says IN_PROGRESS, with an answer the plugin gives while it has the      *)
(* handle.                                                                 *)
(***************************************************************************)
CONSTANT Jobs

VARIABLES
  job,   \* how far each job is
  lent   \* the jobs whose handle is open

vars == <<job, lent>>

Init ==
  /\ job = [j \in Jobs |-> "absent"]
  /\ lent = {}

Accept(j) ==
  /\ job[j] = "absent"
  /\ job' = [job EXCEPT ![j] = "queued"]
  /\ UNCHANGED lent

Give(j) ==
  /\ job[j] = "queued"
  /\ job' = [job EXCEPT ![j] = "running"]
  /\ lent' \in {lent, lent \cup {j}}

Fail(j) ==
  /\ job[j] = "queued"
  /\ job' = [job EXCEPT ![j] = "failed"]
  /\ lent' \in {lent, lent \cup {j}}

Finish(j) ==
  /\ job[j] = "running"
  /\ job' = [job EXCEPT ![j] = "done"]
  /\ lent' \in {lent, lent \ {j}}

Postpone(j) ==
  /\ job[j] = "running"
  /\ job' = [job EXCEPT ![j] = "in_progress"]
  /\ UNCHANGED lent

Answer(j) ==
  /\ job[j] = "in_progress" /\ j \in lent
  /\ job' = [job EXCEPT ![j] = "answered"]
  /\ UNCHANGED lent

Close(j) ==
  /\ job[j] \notin {"absent", "queued", "failed"} /\ j \in lent
  /\ lent' = lent \ {j}
  /\ UNCHANGED job

Next == \E j \in Jobs :
  Accept(j) \/ Give(j) \/ Fail(j) \/ Finish(j) \/ Postpone(j) \/ Answer(j) \/ Close(j)

Spec == Init /\ [][Next]_vars
=============================================================================
