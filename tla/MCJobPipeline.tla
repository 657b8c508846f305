--------------------------- MODULE MCJobPipeline ---------------------------
(***************************************************************************)
(* TLC instances of JobPipeline.  Each says what may go wrong in it, and   *)
(* how often; what it does not name never happens there.                   *)
(***************************************************************************)
EXTENDS JobPipeline, TLC

Nothing == [what \in Bounded |-> 0]

(* Interrupted runs and retries of failed jobs, one of them rolled back    *)
(* after it was published: deliveries that come twice.                     *)
EncodeLimits == "stop" :> 3 @@ "retry" :> 2 @@ "refuse" :> 1 @@ Nothing

(* Interrupted runs, lost enqueues, unconfirmed retries, a run or request  *)
(* slower than the reaper and a delete; no worker dies.                    *)
DeliveryLimits ==
    "stop" :> 2 @@ "retry" :> 1 @@ "refuse" :> 2 @@ "slow" :> 1 @@ "delete" :> 1 @@ Nothing

(* Ladders whose worker, error handling or queue entry is lost, whose      *)
(* worker loses its heartbeat, or whose preview is recorded unconfirmed.   *)
LadderLimits ==
    "crash" :> 1 @@ "error" :> 1 @@ "loss" :> 1 @@ "lapse" :> 1 @@ "doubt" :> 1 @@ Nothing

(* Videos deleted at any moment, with and without the trash, while their   *)
(* workers are stopped.                                                    *)
DeleteLimits ==
    "delete" :> 1 @@ "trash" :> 1 @@ "refuse" :> 1 @@ "stop" :> 1 @@ Nothing

(* The disagreements with what the repository says.                        *)
OneCrash == "crash" :> 1 @@ Nothing
OneLoss == "loss" :> 1 @@ Nothing
OneTrash == "trash" :> 1 @@ Nothing

(* Workers are interchangeable: none is named in the code.                 *)
WorkerSymmetry == Permutations(Workers)
=============================================================================
