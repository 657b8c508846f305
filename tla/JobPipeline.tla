---------------------------- MODULE JobPipeline ----------------------------
(***************************************************************************)
(* A video's way from the upload request to the library: the API's job     *)
(* routes (app/api/uploads.py, app/api/jobs.py), the RQ queue entries they *)
(* and the worker share (app/queue.py), the worker's two tasks             *)
(* (app/worker/tasks.py), the reaper (app/worker/reaper.py) and the object *)
(* store, all working on one table of rows (JobRow).                       *)
(*                                                                         *)
(* PostgreSQL commits one statement at a time, so an action holds at most  *)
(* one commit; what the code does between two commits, two Redis calls or  *)
(* two calls to the object store can be interleaved with anybody else's.   *)
(***************************************************************************)
EXTENDS JobRow

CONSTANTS
    Jobs,             \* job ids
    Workers,          \* worker processes, each running one queue entry at a time
    NoJob, NoWorker,  \* what stands for "none" of them
    Results,          \* what a step can return here: "ladder" and/or "plain"
    MaxInterruptions, \* MAX_INTERRUPTIONS, also the max of the returned Retry
    Limits            \* how often each of Bounded may happen

(* What the environment does a bounded number of times: a worker process   *)
(* killed, told to stop, or cut off from Redis long enough to lose its     *)
(* heartbeat; a run, request or pass slower than the others allow for;     *)
(* Redis losing an entry; an unhandled error; a refused call to Redis or   *)
(* storage; the confirmation of a preview's commit lost; a user's          *)
(* committed retries, moves to the trash and immediate deletes.            *)
Bounded == {"crash", "stop", "lapse", "slow", "loss", "error", "refuse",
            "doubt", "retry", "trash", "delete"}

ASSUME PipelineAssumption ==
    /\ NoJob \notin Jobs /\ NoWorker \notin Workers
    /\ Results \subseteq {"ladder", "plain"}
    /\ MaxInterruptions \in Nat \ {0}
    /\ Limits \in [Bounded -> Nat]

VARIABLES
    row,       \* the jobs table
    store,     \* per job, which of its objects are in the bucket
    purge,     \* per job, the objects a delete that took the row still has to remove
    api,       \* per job, where the request that is working on it stands
    entry,     \* per kind and job, the RQ entry: its state and number_of_retries
    waiting,   \* per kind and job, how often its id is on the queue's list
    run,       \* per worker, the run in hand
    stopping,  \* workers that received SIGTERM during their run
    silent,    \* workers whose heartbeat lapsed although they still run
    reaper,    \* the pass in progress
    left,      \* what remains of Limits
    claimant   \* history: the worker that last moved the job to processing

vars == <<row, store, purge, api, entry, waiting, run, stopping, silent,
          reaper, left, claimant>>

Kinds == {"mp4", "ladder"}
Objects == {"source", "mp4", "hls", "preview"}

(* RQ's status of an entry; "none" when Redis has no such entry.           *)
EntryState == {"none", "queued", "started", "finished", "failed"}
Entries == [state : EntryState, tries : Nat]
NoEntry == [state |-> "none", tries |-> 0]

(* Where a request stands.  "prepared" and "delivered" are the retry route *)
(* between prepare_retry and its commit: it holds the row lock.            *)
ApiState == {"new", "stored", "created", "idle", "prepared", "delivered"}
NeverLocked(j) == TRUE
Unlocked(j) == api[j] \notin {"prepared", "delivered"}

Mp4Pc == {"claim", "running", "stepped", "raised", "handoff"}
LadderPc == {"read", "building", "built", "broken", "unrecorded", "after", "previewed"}
RunPc == Mp4Pc \union LadderPc \union {"giveup", "finish", "retry"}

IdleRun == [pc |-> "idle", kind |-> "mp4", job |-> NoJob, tries |-> 0, result |-> Null]
Runs == [pc : RunPc, kind : Kinds, job : Jobs, tries : Nat,
         result : {Null, "ladder", "plain"}] \union {IdleRun}

Phases == {"rest", "processing", "queued", "ladders", "sweep", "trash"}
Passes == [phase : Phases, todo : SUBSET Jobs, doomed : SUBSET Jobs]
RestingReaper == [phase |-> "rest", todo |-> {}, doomed |-> {}]

TypeOK ==
    /\ row \in [Jobs -> Row]
    /\ store \in [Jobs -> SUBSET Objects]
    /\ purge \in [Jobs -> SUBSET Objects]
    /\ api \in [Jobs -> ApiState]
    /\ entry \in [Kinds -> [Jobs -> Entries]]
    /\ waiting \in [Kinds -> [Jobs -> Nat]]
    /\ run \in [Workers -> Runs]
    /\ stopping \subseteq Workers
    /\ silent \subseteq Workers
    /\ reaper \in Passes
    /\ left \in [Bounded -> Nat]
    /\ claimant \in [Jobs -> Workers \union {NoWorker}]

Init ==
    /\ row = [j \in Jobs |-> NoRow]
    /\ store = [j \in Jobs |-> {}]
    /\ purge = [j \in Jobs |-> {}]
    /\ api = [j \in Jobs |-> "new"]
    /\ entry = [k \in Kinds |-> [j \in Jobs |-> NoEntry]]
    /\ waiting = [k \in Kinds |-> [j \in Jobs |-> 0]]
    /\ run = [w \in Workers |-> IdleRun]
    /\ stopping = {}
    /\ silent = {}
    /\ reaper = RestingReaper
    /\ left = Limits
    /\ claimant = [j \in Jobs |-> NoWorker]

Spend(what) == left[what] > 0 /\ left' = [left EXCEPT ![what] = @ - 1]

(* enqueue_job and enqueue_ladder: RQ writes the entry under its fixed id  *)
(* and pushes the id on the queue's list.                                  *)
Enqueue(k, j) ==
    /\ entry' = [entry EXCEPT ![k][j] = [state |-> "queued", tries |-> 0]]
    /\ waiting' = [waiting EXCEPT ![k][j] = @ + 1]

Present(j) == row[j].status # "absent"
Write(j, r) == row' = [row EXCEPT ![j] = r]

-----------------------------------------------------------------------------
(* The API: the upload route stores the source, inserts the row, enqueues. *)

StoreSource(j) ==
    /\ api[j] = "new"
    /\ store' = [store EXCEPT ![j] = @ \union {"source"}]
    /\ api' = [api EXCEPT ![j] = "stored"]
    /\ UNCHANGED <<row, purge, entry, waiting, run, stopping, silent, reaper, left, claimant>>

CreateJob(j) ==
    /\ api[j] = "stored"
    /\ Write(j, NewRow)
    /\ api' = [api EXCEPT ![j] = "created"]
    /\ UNCHANGED <<store, purge, entry, waiting, run, stopping, silent, reaper, left, claimant>>

EnqueueNew(j) ==
    /\ api[j] = "created"
    /\ Enqueue("mp4", j)
    /\ api' = [api EXCEPT ![j] = "idle"]
    /\ UNCHANGED <<row, store, purge, run, stopping, silent, reaper, left, claimant>>

(* The request dies before its row or its enqueue: nothing is undone.      *)
UploadFails(j) ==
    /\ api[j] \in {"stored", "created"}
    /\ Spend("refuse")
    /\ api' = [api EXCEPT ![j] = "idle"]
    /\ UNCHANGED <<row, store, purge, entry, waiting, run, stopping, silent, reaper, claimant>>

(* POST /jobs/{id}/retry: prepare_retry's uncommitted UPDATE (nobody sees  *)
(* it, the row lock is held), the enqueue, the commit -- or the rollback   *)
(* when the enqueue raised, was accepted but not confirmed, or the commit  *)
(* failed.                                                                 *)
RetryPrepare(j) ==
    /\ api[j] = "idle"
    /\ row[j].status = "failed"
    /\ left["retry"] > 0
    /\ api' = [api EXCEPT ![j] = "prepared"]
    /\ UNCHANGED <<row, store, purge, entry, waiting, run, stopping, silent, reaper, left, claimant>>

RetryDeliver(j) ==
    /\ api[j] = "prepared"
    /\ Enqueue("mp4", j)
    /\ api' = [api EXCEPT ![j] = "delivered"]
    /\ UNCHANGED <<row, store, purge, run, stopping, silent, reaper, left, claimant>>

RetryCommit(j) ==
    /\ api[j] = "delivered"
    /\ Spend("retry")
    /\ Write(j, PrepareRetry(row[j]))
    /\ api' = [api EXCEPT ![j] = "idle"]
    /\ UNCHANGED <<store, purge, entry, waiting, run, stopping, silent, reaper, claimant>>

RetryRollback(j) ==
    /\ api[j] \in {"prepared", "delivered"}
    /\ Spend("refuse")
    /\ api' = [api EXCEPT ![j] = "idle"]
    /\ UNCHANGED <<row, store, purge, entry, waiting, run, stopping, silent, reaper, claimant>>

(* DELETE /jobs/{id} with a trash, POST /jobs/{id}/restore, and the month. *)
TrashJob(j) ==
    /\ Unlocked(j) /\ Present(j) /\ row[j].deleted_at = Null
    /\ Spend("trash")
    /\ Write(j, TrashRow(row[j]))
    /\ UNCHANGED <<store, purge, api, entry, waiting, run, stopping, silent, reaper, claimant>>

RestoreJob(j) ==
    /\ Unlocked(j) /\ Present(j) /\ row[j].deleted_at # Null
    /\ Write(j, RestoreRow(row[j]))
    /\ UNCHANGED <<store, purge, api, entry, waiting, run, stopping, silent, reaper, left, claimant>>

TrashExpires(j) ==
    /\ row[j].deleted_at = "trashed"
    /\ Write(j, ExpireRow(row[j]))
    /\ UNCHANGED <<store, purge, api, entry, waiting, run, stopping, silent, reaper, left, claimant>>

(* delete_job_storage: the source is the upload's own; the rest is found   *)
(* through the keys of the row as it was when it was deleted.              *)
KeysOf(r) ==
    {"source"} \union (IF r.output_key # Null THEN {"mp4"} ELSE {})
               \union (IF r.hls_key # Null THEN {"hls"} ELSE {})
               \union (IF r.preview_key # Null THEN {"preview"} ELSE {})

(* delete_job: the row goes first, its objects are left to PurgeStorage.   *)
DeleteRow(j) ==
    /\ Unlocked(j) /\ Present(j)
    /\ Write(j, NoRow)
    /\ purge' = [purge EXCEPT ![j] = KeysOf(row[j])]

DeleteJobNow(j) ==
    /\ DeleteRow(j)
    /\ Spend("delete")
    /\ UNCHANGED <<store, api, entry, waiting, run, stopping, silent, reaper, claimant>>

(* Best effort: objects whose delete is refused stay behind.               *)
PurgeStorage(j) ==
    /\ purge[j] # {}
    /\ store' = [store EXCEPT ![j] = @ \ purge[j]]
    /\ purge' = [purge EXCEPT ![j] = {}]
    /\ UNCHANGED <<row, api, entry, waiting, run, stopping, silent, reaper, left, claimant>>

PurgeRefused(j) ==
    /\ purge[j] # {}
    /\ Spend("refuse")
    /\ purge' = [purge EXCEPT ![j] = {}]
    /\ UNCHANGED <<row, store, api, entry, waiting, run, stopping, silent, reaper, claimant>>

-----------------------------------------------------------------------------
(* RQ and Redis (external): delivery, expiry of finished entries, cleanup  *)
(* of entries whose heartbeat lapsed, and the loss of an entry.            *)

Running(w, k, j) == run[w].pc # "idle" /\ run[w].kind = k /\ run[w].job = j

(* _heartbeat_alive: some execution of the entry is still kept alive.      *)
HeartbeatUnread(k, j) == FALSE
HeartbeatAlive(k, j) == \E w \in Workers \ silent : Running(w, k, j)

(* The worker's queues in order: an MP4 before any ladder.                 *)
Deliver(w, k, j) ==
    /\ run[w].pc = "idle"
    /\ waiting[k][j] > 0 /\ entry[k][j].state # "none"
    /\ k = "ladder" => \A i \in Jobs : waiting["mp4"][i] = 0
    /\ waiting' = [waiting EXCEPT ![k][j] = @ - 1]
    /\ entry' = [entry EXCEPT ![k][j].state = "started"]
    /\ run' = [run EXCEPT ![w] =
                 [pc |-> IF k = "mp4" THEN "claim" ELSE "read", kind |-> k, job |-> j,
                  tries |-> entry[k][j].tries, result |-> Null]]
    /\ UNCHANGED <<row, store, purge, api, stopping, silent, reaper, left, claimant>>

DropUnknown(k, j) ==
    /\ waiting[k][j] > 0 /\ entry[k][j].state = "none"
    /\ waiting' = [waiting EXCEPT ![k][j] = @ - 1]
    /\ UNCHANGED <<row, store, purge, api, entry, run, stopping, silent, reaper, left, claimant>>

(* result_ttl, minutes: longer than a retry's transaction.                 *)
EntryExpires(k, j) ==
    /\ entry[k][j].state = "finished" /\ Unlocked(j)
    /\ entry' = [entry EXCEPT ![k][j] = NoEntry]
    /\ UNCHANGED <<row, store, purge, api, waiting, run, stopping, silent, reaper, left, claimant>>

EntryAbandoned(k, j) ==
    /\ entry[k][j].state = "started" /\ ~HeartbeatAlive(k, j)
    /\ entry' = [entry EXCEPT ![k][j].state = "failed"]
    /\ UNCHANGED <<row, store, purge, api, waiting, run, stopping, silent, reaper, left, claimant>>

RedisLoses(k, j) ==
    /\ entry[k][j].state # "none"
    /\ Spend("loss")
    /\ entry' = [entry EXCEPT ![k][j] = NoEntry]
    /\ waiting' = [waiting EXCEPT ![k][j] = 0]
    /\ UNCHANGED <<row, store, purge, api, run, stopping, silent, reaper, claimant>>

-----------------------------------------------------------------------------
(* The worker's tasks.  Go moves a run on; End hands the entry back to RQ. *)

Go(w, pc) == run' = [run EXCEPT ![w].pc = pc]

Leave(w) ==
    /\ run' = [run EXCEPT ![w] = IdleRun]
    /\ stopping' = stopping \ {w}
    /\ silent' = silent \ {w}

(* mark_processing's WHERE clause; what would happen without it.           *)
ClaimableTwice(r) == r.status \in {"queued", "processing"}
Claimable(r) == r.status = "queued"

(* mark_processing locks the row by id first, so it waits out a retry that *)
(* has enqueued but not committed; a row that is not queued is someone     *)
(* else's, or finished, or gone: the run is skipped.  A claim that finds   *)
(* its job on the list the reaper is still working off means that the pass *)
(* stalled after it listed an earlier run: "slow", like the other delays.  *)
PassStalled(j) == reaper.phase = "processing" /\ j \in reaper.todo \union reaper.doomed

Claim(w) ==
    LET j == run[w].job IN
    /\ run[w].pc = "claim"
    /\ Unlocked(j)
    /\ \/ /\ Claimable(row[j])
          /\ Write(j, MarkProcessing(row[j]))
          /\ claimant' = [claimant EXCEPT ![j] = w]
          /\ IF PassStalled(j) THEN Spend("slow") ELSE UNCHANGED left
          /\ Go(w, "running")
       \/ /\ ~Claimable(row[j])
          /\ Go(w, "finish")
          /\ UNCHANGED <<row, left, claimant>>
    /\ UNCHANGED <<store, purge, api, entry, waiting, stopping, silent, reaper>>

(* The same with the result of the upload ignored.                         *)
StepReturnsUnsaved(w) ==
    /\ run[w].pc = "running"
    /\ "source" \in store[run[w].job]
    /\ \E result \in Results :
         run' = [run EXCEPT ![w].pc = "stepped", ![w].result = result]
    /\ UNCHANGED <<row, store, purge, api, entry, waiting, stopping, silent, reaper, left, claimant>>

(* The step: it needs the source, and uploads the MP4 before it returns.   *)
StepReturns(w) ==
    LET j == run[w].job IN
    /\ run[w].pc = "running"
    /\ "source" \in store[j]
    /\ store' = [store EXCEPT ![j] = @ \union {"mp4"}]
    /\ \E result \in Results :
         run' = [run EXCEPT ![w].pc = "stepped", ![w].result = result]
    /\ UNCHANGED <<row, purge, api, entry, waiting, stopping, silent, reaper, left, claimant>>

StepRaises(w) ==
    /\ run[w].pc = "running"
    /\ Go(w, "raised")
    /\ UNCHANGED <<row, store, purge, api, entry, waiting, stopping, silent, reaper, left, claimant>>

RecordDone(w) ==
    LET j == run[w].job IN
    /\ run[w].pc = "stepped"
    /\ \/ /\ row[j].status = "processing"
          /\ Write(j, MarkDone(row[j], run[w].result))
          /\ Go(w, IF run[w].result = "ladder" THEN "handoff" ELSE "finish")
       \/ /\ row[j].status # "processing"
          /\ Go(w, "finish")
          /\ UNCHANGED row
    /\ UNCHANGED <<store, purge, api, entry, waiting, stopping, silent, reaper, left, claimant>>

RecordFailure(w) ==
    LET j == run[w].job IN
    /\ run[w].pc = "raised" /\ w \notin stopping
    /\ Write(j, IF row[j].status = "processing" THEN MarkFailed(row[j]) ELSE row[j])
    /\ Go(w, "finish")
    /\ UNCHANGED <<store, purge, api, entry, waiting, stopping, silent, reaper, left, claimant>>

(* interruptions + 1 >= MAX_INTERRUPTIONS.                                 *)
NeverOutOfTries(tries) == FALSE
OutOfTries(tries) == tries + 1 >= MaxInterruptions

(* _give_back: back to the queue, or failed the MaxInterruptions-th time.  *)
GiveBack(w) ==
    LET j == run[w].job IN
    /\ run[w].pc = "raised" /\ w \in stopping
    /\ \/ /\ row[j].status = "processing"
          /\ OutOfTries(run[w].tries)
          /\ Write(j, MarkFailed(row[j]))
          /\ Go(w, "finish")
       \/ /\ row[j].status = "processing"
          /\ ~OutOfTries(run[w].tries)
          /\ Write(j, MarkInterrupted(row[j]))
          /\ Go(w, "retry")
       \/ /\ row[j].status # "processing"
          /\ Go(w, "finish")
          /\ UNCHANGED row
    /\ UNCHANGED <<store, purge, api, entry, waiting, stopping, silent, reaper, left, claimant>>

(* _hand_off_ladder, after the commit; a refused enqueue settles the       *)
(* ladder at once.                                                         *)
HandOffLadder(w) ==
    /\ run[w].pc = "handoff"
    /\ Enqueue("ladder", run[w].job)
    /\ Go(w, "finish")
    /\ UNCHANGED <<row, store, purge, api, stopping, silent, reaper, left, claimant>>

(* The enqueue raised; RQ may have accepted it all the same.               *)
HandOffRefused(w) ==
    /\ run[w].pc = "handoff"
    /\ Spend("refuse")
    /\ \/ UNCHANGED <<entry, waiting>>
       \/ Enqueue("ladder", run[w].job)
    /\ Go(w, "giveup")
    /\ UNCHANGED <<row, store, purge, api, stopping, silent, reaper, claimant>>

(* build_ladder_async reads the row once; the MP4's dimensions size it.    *)
ReadRow(w) ==
    LET j == run[w].job IN
    /\ run[w].pc = "read"
    /\ Go(w, IF ~AwaitsLadder(row[j]) THEN "finish"
             ELSE IF row[j].dims = Null THEN "giveup" ELSE "building")
    /\ UNCHANGED <<row, store, purge, api, entry, waiting, stopping, silent, reaper, left, claimant>>

BuildReturnsUnsaved(w) ==
    /\ run[w].pc = "building"
    /\ "source" \in store[run[w].job]
    /\ Go(w, "built")
    /\ UNCHANGED <<row, store, purge, api, entry, waiting, stopping, silent, reaper, left, claimant>>

BuildReturns(w) ==
    LET j == run[w].job IN
    /\ run[w].pc = "building"
    /\ "source" \in store[j]
    /\ store' = [store EXCEPT ![j] = @ \union {"hls"}]
    /\ Go(w, "built")
    /\ UNCHANGED <<row, purge, api, entry, waiting, stopping, silent, reaper, left, claimant>>

(* A build that raises may have uploaded some of its segments.             *)
BuildRaises(w) ==
    LET j == run[w].job IN
    /\ run[w].pc = "building"
    /\ \E partial \in {{}, {"hls"}} : store' = [store EXCEPT ![j] = @ \union partial]
    /\ Go(w, "broken")
    /\ UNCHANGED <<row, purge, api, entry, waiting, stopping, silent, reaper, left, claimant>>

LadderGoesBack(w) == w \in stopping /\ ~OutOfTries(run[w].tries)

(* mark_ladder_unavailable, from each of the three places that call it.    *)
GiveUpLadder(w) ==
    LET j == run[w].job IN
    /\ \/ run[w].pc = "giveup"
       \/ run[w].pc = "broken" /\ ~LadderGoesBack(w)
    /\ Write(j, IF AwaitsLadder(row[j]) THEN MarkLadderUnavailable(row[j]) ELSE row[j])
    /\ Go(w, "finish")
    /\ UNCHANGED <<store, purge, api, entry, waiting, stopping, silent, reaper, left, claimant>>

(* A stopped build discards what it uploaded (errors suppressed) and asks  *)
(* RQ to run the entry again.                                              *)
GiveBackLadder(w) ==
    LET j == run[w].job IN
    /\ run[w].pc = "broken" /\ LadderGoesBack(w)
    /\ \E gone \in {{}, {"hls"}} : store' = [store EXCEPT ![j] = @ \ gone]
    /\ Go(w, "retry")
    /\ UNCHANGED <<row, purge, api, entry, waiting, stopping, silent, reaper, left, claimant>>

RecordLadder(w) ==
    LET j == run[w].job IN
    /\ run[w].pc = "built"
    /\ \/ /\ AwaitsLadder(row[j])
          /\ Write(j, MarkLadderReady(row[j]))
          /\ Go(w, "after")
       \/ /\ ~AwaitsLadder(row[j])
          /\ Go(w, "unrecorded")
          /\ UNCHANGED row
    /\ UNCHANGED <<store, purge, api, entry, waiting, stopping, silent, reaper, left, claimant>>

(* A ladder that could not be recorded is discarded; a failed discard is   *)
(* only logged.                                                            *)
DiscardLadder(w) ==
    LET j == run[w].job IN
    /\ run[w].pc = "unrecorded"
    /\ \E gone \in {{}, {"hls"}} : store' = [store EXCEPT ![j] = @ \ gone]
    /\ Go(w, "finish")
    /\ UNCHANGED <<row, purge, api, entry, waiting, stopping, silent, reaper, left, claimant>>

(* The after_ladder hook PreviewSprite.run: sheet and index, then the row. *)
StorePreview(w) ==
    LET j == run[w].job IN
    /\ run[w].pc = "after"
    /\ "mp4" \in store[j]
    /\ store' = [store EXCEPT ![j] = @ \union {"preview"}]
    /\ Go(w, "previewed")
    /\ UNCHANGED <<row, purge, api, entry, waiting, stopping, silent, reaper, left, claimant>>

(* The hook logs what it raises.  The sheet is removed if it can be: what  *)
(* was uploaded of it stays when that fails too.                           *)
PreviewRaises(w) ==
    LET j == run[w].job IN
    /\ run[w].pc \in {"after", "previewed"}
    /\ \E kept \in {{}, {"preview"}} :
         store' = [store EXCEPT ![j] = (@ \ {"preview"}) \union kept]
    /\ Go(w, "finish")
    /\ UNCHANGED <<row, purge, api, entry, waiting, stopping, silent, reaper, left, claimant>>

(* The row says that it has a preview, or has moved on and the sheet is    *)
(* removed if it can be.  _record raises when the commit's confirmation is *)
(* lost too: the sheet is then removed although the row names it.          *)
RecordPreview(w) ==
    LET j == run[w].job IN
    /\ run[w].pc = "previewed"
    /\ \/ /\ AwaitsPreview(row[j])
          /\ Write(j, MarkPreviewReady(row[j]))
          /\ UNCHANGED <<store, left>>
       \/ /\ ~AwaitsPreview(row[j])
          /\ \E gone \in {{}, {"preview"}} : store' = [store EXCEPT ![j] = @ \ gone]
          /\ UNCHANGED <<row, left>>
       \/ /\ AwaitsPreview(row[j])
          /\ Spend("doubt")
          /\ Write(j, MarkPreviewReady(row[j]))
          /\ \E gone \in {{}, {"preview"}} : store' = [store EXCEPT ![j] = @ \ gone]
    /\ Go(w, "finish")
    /\ UNCHANGED <<purge, api, entry, waiting, stopping, silent, reaper, claimant>>

(* The task returned: RQ marks the entry finished, or runs it again after  *)
(* a returned Retry, at most max times by the count the run started with.  *)
Finish(w) ==
    /\ run[w].pc = "finish"
    /\ entry' = [entry EXCEPT ![run[w].kind][run[w].job].state = "finished"]
    /\ Leave(w)
    /\ UNCHANGED <<row, store, purge, api, waiting, reaper, left, claimant>>

ReturnRetry(w) ==
    LET k == run[w].kind
        j == run[w].job IN
    /\ run[w].pc = "retry"
    /\ \/ /\ run[w].tries < MaxInterruptions
          /\ entry' = [entry EXCEPT ![k][j] = [state |-> "queued", tries |-> run[w].tries + 1]]
          /\ waiting' = [waiting EXCEPT ![k][j] = @ + 1]
       \/ /\ run[w].tries >= MaxInterruptions
          /\ entry' = [entry EXCEPT ![k][j].state = "failed"]
          /\ UNCHANGED waiting
    /\ Leave(w)
    /\ UNCHANGED <<row, store, purge, api, reaper, left, claimant>>

(* An exception the task does not catch -- PostgreSQL unreachable, RQ's    *)
(* job timeout: RQ fails the entry, the row stays as it is.                *)
RunErrors(w) ==
    /\ run[w].pc \in RunPc \ {"finish", "retry"}
    /\ Spend("error")
    /\ entry' = [entry EXCEPT ![run[w].kind][run[w].job].state = "failed"]
    /\ Leave(w)
    /\ UNCHANGED <<row, store, purge, api, waiting, reaper, claimant>>

(* The worker's process is gone: its entry stays "started".                *)
Crash(w) ==
    /\ run[w].pc # "idle"
    /\ Spend("crash")
    /\ Leave(w)
    /\ UNCHANGED <<row, store, purge, api, entry, waiting, reaper, claimant>>

SigTerm(w) ==
    /\ run[w].pc \in RunPc \ {"finish", "retry"} /\ w \notin stopping
    /\ Spend("stop")
    /\ stopping' = stopping \union {w}
    /\ UNCHANGED <<row, store, purge, api, entry, waiting, run, silent, reaper, claimant>>

HeartbeatLapses(w) ==
    /\ run[w].pc # "idle" /\ w \notin silent
    /\ Spend("lapse")
    /\ silent' = silent \union {w}
    /\ UNCHANGED <<row, store, purge, api, entry, waiting, run, stopping, reaper, claimant>>

-----------------------------------------------------------------------------
(* The reaper.  A pass lists, then works the list off; what it listed can  *)
(* be out of date by the time it gets to it.                               *)

Reaping(phase) == reaper.phase = phase
ListedOut(phase) == Reaping(phase) /\ reaper.todo = {} /\ reaper.doomed = {}
Turn(phase, todo, doomed) == reaper' = [phase |-> phase, todo |-> todo, doomed |-> doomed]
Tackled(j) == reaper' = [reaper EXCEPT !.todo = @ \ {j}]

(* list_stale(processing): a row past its lease is condemned by the list   *)
(* itself, a younger one is checked against its heartbeat first.           *)
ListProcessing ==
    /\ ListedOut("rest")
    /\ LET stale == {j \in Jobs : row[j].status = "processing" /\ row[j].age >= Abandoned}
           hung == {j \in stale : row[j].age >= LeaseOver}
       IN Turn("processing", stale \ hung, hung)
    /\ UNCHANGED <<row, store, purge, api, entry, waiting, run, stopping, silent, left, claimant>>

CheckHeartbeat(j) ==
    /\ Reaping("processing") /\ j \in reaper.todo
    /\ IF HeartbeatAlive("mp4", j)
       THEN Tackled(j)
       ELSE reaper' = [reaper EXCEPT !.todo = @ \ {j}, !.doomed = @ \union {j}]
    /\ UNCHANGED <<row, store, purge, api, entry, waiting, run, stopping, silent, left, claimant>>

FailStale(j) ==
    /\ Reaping("processing") /\ j \in reaper.doomed
    /\ Write(j, IF row[j].status = "processing" THEN MarkStaleFailed(row[j]) ELSE row[j])
    /\ reaper' = [reaper EXCEPT !.doomed = @ \ {j}]
    /\ UNCHANGED <<store, purge, api, entry, waiting, run, stopping, silent, left, claimant>>

ListQueued ==
    /\ ListedOut("processing")
    /\ Turn("queued", {j \in Jobs : row[j].status = "queued" /\ row[j].age >= GraceOver}, {})
    /\ UNCHANGED <<row, store, purge, api, entry, waiting, run, stopping, silent, left, claimant>>

(* Re-enqueued only when RQ has no entry of that id at all.                *)
NeverRequeueable(j) == FALSE
Requeueable(j) == entry["mp4"][j].state = "none"

RequeueStale(j) ==
    /\ Reaping("queued") /\ j \in reaper.todo
    /\ \/ Requeueable(j) /\ Enqueue("mp4", j)
       \/ ~Requeueable(j) /\ UNCHANGED <<entry, waiting>>
    /\ Tackled(j)
    /\ UNCHANGED <<row, store, purge, api, run, stopping, silent, left, claimant>>

ListLadders ==
    /\ ListedOut("queued")
    /\ Turn("ladders", {j \in Jobs : AwaitsLadder(row[j]) /\ row[j].age >= Abandoned}, {})
    /\ UNCHANGED <<row, store, purge, api, entry, waiting, run, stopping, silent, left, claimant>>

(* _LADDER_STILL_COMING, and not a started entry nobody keeps alive.       *)
LadderComingIfKnown(j) == entry["ladder"][j].state # "none"
LadderComing(j) ==
    \/ entry["ladder"][j].state = "queued"
    \/ entry["ladder"][j].state = "started" /\ HeartbeatAlive("ladder", j)

SettleStaleLadder(j) ==
    /\ Reaping("ladders") /\ j \in reaper.todo
    /\ \/ LadderComing(j) /\ UNCHANGED <<row, entry, waiting>>
       \/ entry["ladder"][j].state = "none" /\ Enqueue("ladder", j) /\ UNCHANGED row
       \/ /\ ~LadderComing(j) /\ entry["ladder"][j].state # "none"
          /\ Write(j, IF AwaitsLadder(row[j]) THEN MarkLadderUnavailable(row[j]) ELSE row[j])
          /\ UNCHANGED <<entry, waiting>>
    /\ Tackled(j)
    /\ UNCHANGED <<store, purge, api, run, stopping, silent, left, claimant>>

(* list_source_keys, then the sweep of uploads/: only sources are under    *)
(* that prefix.  A request that has stored its source but not inserted its *)
(* row yet is inside the grace period.                                     *)
OrphanedUnclaimed(j) == /\ ~Present(j) /\ "source" \in store[j] /\ api[j] # "stored"
                        /\ claimant[j] = NoWorker
Orphaned(j) == ~Present(j) /\ "source" \in store[j] /\ api[j] # "stored"

ListOrphans ==
    /\ ListedOut("ladders")
    /\ Turn("sweep", {j \in Jobs : Orphaned(j)}, {})
    /\ UNCHANGED <<row, store, purge, api, entry, waiting, run, stopping, silent, left, claimant>>

SweepSource(j) ==
    /\ Reaping("sweep") /\ j \in reaper.todo
    /\ store' = [store EXCEPT ![j] = @ \ {"source"}]
    /\ Tackled(j)
    /\ UNCHANGED <<row, purge, api, entry, waiting, run, stopping, silent, left, claimant>>

ListTrash ==
    /\ ListedOut("sweep")
    /\ Turn("trash", {j \in Jobs : Present(j) /\ row[j].deleted_at = "expired"}, {})
    /\ UNCHANGED <<row, store, purge, api, entry, waiting, run, stopping, silent, left, claimant>>

(* empty_trash deletes by id what it listed, whatever the row says now.    *)
EmptyTrash(j) ==
    /\ Reaping("trash") /\ j \in reaper.todo
    /\ \/ DeleteRow(j)
       \/ ~Present(j) /\ UNCHANGED <<row, purge>>
    /\ Tackled(j)
    /\ UNCHANGED <<store, api, entry, waiting, run, stopping, silent, left, claimant>>

EndPass ==
    /\ ListedOut("trash")
    /\ reaper' = RestingReaper
    /\ UNCHANGED <<row, store, purge, api, entry, waiting, run, stopping, silent, left, claimant>>

(* main catches whatever a pass raises and starts over after its interval. *)
PassFails ==
    /\ reaper.phase # "rest"
    /\ Spend("error")
    /\ reaper' = RestingReaper
    /\ UNCHANGED <<row, store, purge, api, entry, waiting, run, stopping, silent, claimant>>

(* updated_at falls behind.  RQ's job timeout is far below the lease, and  *)
(* an enqueue follows its commit at once: a run that outlasts the lease,   *)
(* or a request or run that is still to enqueue when the reaper thinks the *)
(* entry lost, is a fault of its own ("slow").                             *)
TooSlow(j) ==
    \/ row[j].age = LeaseOver /\ api[j] = "created"
    \/ row[j].age = Abandoned /\ \E w \in Workers :
           Running(w, "mp4", j) /\ run[w].pc \in {"running", "stepped", "raised"}
    \/ row[j].age = Fresh /\ \E w \in Workers :
           Running(w, "mp4", j) /\ run[w].pc = "handoff"

TimePasses(j) ==
    /\ Present(j) /\ row[j].age < GraceOver
    /\ IF TooSlow(j) THEN Spend("slow") ELSE UNCHANGED left
    /\ Write(j, AgeRow(row[j]))
    /\ UNCHANGED <<store, purge, api, entry, waiting, run, stopping, silent, reaper, claimant>>

-----------------------------------------------------------------------------
ApiStep(j) == CreateJob(j) \/ EnqueueNew(j) \/ RetryDeliver(j) \/ RetryCommit(j) \/ PurgeStorage(j)

UserStep(j) ==
    \/ StoreSource(j) \/ UploadFails(j) \/ RetryPrepare(j) \/ RetryRollback(j)
    \/ TrashJob(j) \/ RestoreJob(j) \/ DeleteJobNow(j) \/ PurgeRefused(j)

QueueStep(k, j) == DropUnknown(k, j) \/ EntryExpires(k, j) \/ EntryAbandoned(k, j)

WorkerStep(w) ==
    \/ \E k \in Kinds, j \in Jobs : Deliver(w, k, j)
    \/ Claim(w) \/ StepReturns(w) \/ StepRaises(w) \/ RecordDone(w) \/ RecordFailure(w)
    \/ GiveBack(w) \/ HandOffLadder(w)
    \/ ReadRow(w) \/ BuildReturns(w) \/ BuildRaises(w) \/ GiveUpLadder(w) \/ GiveBackLadder(w)
    \/ RecordLadder(w) \/ DiscardLadder(w) \/ StorePreview(w) \/ PreviewRaises(w) \/ RecordPreview(w)
    \/ Finish(w) \/ ReturnRetry(w)

WorkerFault(w) ==
    HandOffRefused(w) \/ RunErrors(w) \/ Crash(w) \/ SigTerm(w) \/ HeartbeatLapses(w)

ReaperStep ==
    \/ ListProcessing \/ ListQueued \/ ListLadders \/ ListOrphans \/ ListTrash \/ EndPass
    \/ \E j \in Jobs : \/ CheckHeartbeat(j) \/ FailStale(j) \/ RequeueStale(j)
                       \/ SettleStaleLadder(j) \/ SweepSource(j) \/ EmptyTrash(j)

Next ==
    \/ \E j \in Jobs : ApiStep(j) \/ UserStep(j) \/ TimePasses(j) \/ TrashExpires(j)
    \/ \E k \in Kinds, j \in Jobs : QueueStep(k, j) \/ RedisLoses(k, j)
    \/ \E w \in Workers : WorkerStep(w) \/ WorkerFault(w)
    \/ ReaperStep \/ PassFails

Spec == Init /\ [][Next]_vars

(* The code's processes keep going: a request runs to its end, a worker    *)
(* that is alive moves its run on and takes the next entry, RQ's clocks    *)
(* and updated_at advance, the reaper's loop never ends.  Users and faults *)
(* owe nothing.                                                            *)
Fairness ==
    /\ \A j \in Jobs : WF_vars(ApiStep(j)) /\ WF_vars(TimePasses(j)) /\ WF_vars(TrashExpires(j))
    /\ \A k \in Kinds, j \in Jobs : WF_vars(QueueStep(k, j))
    /\ \A w \in Workers : WF_vars(WorkerStep(w))
    /\ WF_vars(ReaperStep)

FairSpec == Spec /\ Fairness

-----------------------------------------------------------------------------
(* Properties.                                                             *)

(* No write the program makes ever leaves a row that the table's CHECK     *)
(* constraints reject, whoever's conditional updates it mixes: partial     *)
(* updates (prepare_retry, mark_stale_failed, mark_preview_ready) meet     *)
(* only rows whose other columns already fit.                              *)
RowsLegal == \A j \in Jobs : Present(j) => CheckConstraints(row[j])

(* A job is encoded by one worker at a time (process_job_async, "exactly   *)
(* one of them moves queued -> processing"), through crashes, give-backs,  *)
(* retries and duplicate deliveries -- as long as no heartbeat lapses and  *)
(* nobody is slower than the reaper's clocks allow for.                    *)
HoldsClaim(w, j) == Running(w, "mp4", j) /\ run[w].pc \in {"running", "stepped", "raised"}
AtMostOneRunner ==
    \A j \in Jobs : \A v, w \in Workers : HoldsClaim(v, j) /\ HoldsClaim(w, j) => v = w

(* A run gives back only its own claim: mark_interrupted's "a job that has *)
(* moved on since is left alone".                                          *)
GiveBackOwnClaim ==
    [][\A j \in Jobs :
         row[j].status = "processing" /\ row'[j].status = "queued" =>
             \E w \in Workers : /\ claimant[j] = w
                                /\ HoldsClaim(w, j) /\ run'[w].pc = "retry"]_vars

(* A queued row is on its way to a worker -- its request is about to       *)
(* enqueue it, its id is on the list or in a worker's hands, its run is    *)
(* about to be returned to RQ -- or RQ has no entry for it, or a finished  *)
(* one about to expire: the only rows run_once can tell are lost.          *)
QueuedIsRecoverable ==
    \A j \in Jobs : row[j].status = "queued" =>
        \/ api[j] = "created" \/ waiting["mp4"][j] > 0
        \/ entry["mp4"][j].state \in {"none", "finished"}
        \/ \E w \in Workers : Running(w, "mp4", j) /\ run[w].pc \in {"claim", "retry"}

(* When a retry commits, the delivery it published is still to be used: on *)
(* the list, or with a worker that waits for the row (prepare_retry, "a    *)
(* fast worker's mark_processing waits for the commit").                   *)
RetryIsDelivered ==
    [][\A j \in Jobs : row[j].status = "failed" /\ row'[j].status = "queued" =>
          \/ waiting["mp4"][j] > 0
          \/ \E w \in Workers : Running(w, "mp4", j) /\ run[w].pc = "claim"]_vars

(* What a row says can be played or shown is in the bucket: the MP4 of a   *)
(* done job and the preview sheet, through retries, late runs and deletes. *)
RecordedIsStored ==
    \A j \in Jobs : /\ row[j].output_key # Null => "mp4" \in store[j]
                    /\ row[j].preview_key # Null => "preview" \in store[j]

(* A ladder the row calls ready is in the bucket: nobody discards a ladder *)
(* that was recorded (build_ladder_async, "hls_key, which was never        *)
(* written").                                                              *)
ReadyIsStored == \A j \in Jobs : row[j].hls_status = "ready" => "hls" \in store[j]

(* A queued or processing job ends: done, failed or deleted (N3; the       *)
(* reaper "re-enqueues" stale queued rows and fails stale processing ones).*)
InFlight(j) == row[j].status \in {"queued", "processing"}
JobSettles == \A j \in Jobs : InFlight(j) ~> ~InFlight(j)

(* A done job's pending ladder is settled in the end, whichever of its     *)
(* worker, its queue entry or its enqueue was lost (_settle_stale_ladders).*)
LadderSettles == \A j \in Jobs : AwaitsLadder(row[j]) ~> ~AwaitsLadder(row[j])

(* The source of a deleted or never created job leaves the bucket, by the  *)
(* delete or by the reaper's sweep of uploads/.                            *)
SourceGoes ==
    \A j \in Jobs : ~Present(j) /\ "source" \in store[j] ~> Present(j) \/ "source" \notin store[j]

(* The reaper deletes for good only what is in the trash past its time     *)
(* (empty_trash); a restored video is back in the library.                 *)
EmptiesOnlyTrash ==
    [][\A j \in Jobs : Present(j) /\ row'[j].status = "absent" /\ reaper' # reaper
           => row[j].deleted_at = "expired"]_vars

(* The pipeline implements JobLifecycle: a row shows its status, a done    *)
(* row its ladder's.                                                       *)
ShownOf(r, state) ==
    IF r.status = "absent" THEN IF state \in {"new", "stored"} THEN "none" ELSE "gone"
    ELSE IF r.status = "done" THEN r.hls_status ELSE r.status

Lifecycle == INSTANCE JobLifecycle
                 WITH Jobs <- Jobs, shown <- [j \in Jobs |-> ShownOf(row[j], api[j])]

(* No interleaving of requests, workers and reaper shows an owner a move   *)
(* the contract does not have: done -> anything else, ready -> unavailable *)
(* and back, a deleted job returning.                                      *)
ImplementsLifecycle == Lifecycle!LifecycleSpec
=============================================================================
