--------------------------- MODULE JobLifecycle ---------------------------
(***************************************************************************)
(* What a job promises its owner, whatever the queue, the workers and the  *)
(* reaper do: the states a job shows through GET /jobs/{id}, and the only  *)
(* ways it moves between them (docs/contract.md; the module docstring of   *)
(* app/worker/tasks.py; HlsStatus in app/models/job.py).                   *)
(*                                                                         *)
(* A finished video never unfinishes and a settled ladder never changes:   *)
(* the three done states are left only by deletion, two of them not at all *)
(* otherwise.                                                              *)
(***************************************************************************)
CONSTANT Jobs

VARIABLE shown   \* per job, the state it shows

DoneStates == {"pending", "ready", "unavailable"}
Shown == {"none", "queued", "processing", "failed", "gone"} \union DoneStates

Move(j, from, to) == shown[j] \in from /\ \E s \in to : shown' = [shown EXCEPT ![j] = s]

Submit(j)  == Move(j, {"none"}, {"queued"})
Begin(j)   == Move(j, {"queued"}, {"processing"})
PutBack(j) == Move(j, {"processing"}, {"queued"})
Fail(j)    == Move(j, {"processing"}, {"failed"})
Complete(j) == Move(j, {"processing"}, {"pending", "unavailable"})
Settle(j)  == Move(j, {"pending"}, {"ready", "unavailable"})
TryAgain(j) == Move(j, {"failed"}, {"queued"})
Vanish(j)  == Move(j, Shown \ {"gone"}, {"gone"})

LifecycleInit == shown = [j \in Jobs |-> "none"]

LifecycleNext ==
    \E j \in Jobs : \/ Submit(j) \/ Begin(j) \/ PutBack(j) \/ Fail(j)
                    \/ Complete(j) \/ Settle(j) \/ TryAgain(j) \/ Vanish(j)

LifecycleSpec == LifecycleInit /\ [][LifecycleNext]_shown
=============================================================================
