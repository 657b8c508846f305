----------------------------- MODULE JobRunProofs -----------------------------
(***************************************************************************)
(* What JobPipeline's runs, deliveries and files have to do with the rows: *)
(* who holds a claim, what a row names is in the bucket, a committed retry *)
(* has its delivery.  Builds on the types and the rows of                  *)
(* JobPipelineProofs.                                                      *)
(***************************************************************************)
EXTENDS JobPipelineProofs

Listed == reaper.todo \union reaper.doomed

(* A job whose row was not inserted yet concerns nobody but its request:   *)
(* a row that is gone never comes back under a run or a delete of it.      *)
Unbegun(j) ==
    /\ purge[j] = {}
    /\ \A k \in Kinds : waiting[k][j] = 0
    /\ \A w \in Workers : run[w].job # j
    /\ j \notin Listed
    /\ api[j] = "new" => store[j] = {}

FirstUse == \A j \in Jobs : api[j] \in {"new", "stored"} => Unbegun(j)

(* A worker's step is of the run it has in hand; the others keep theirs.   *)
LEMMA GoKeeps ==
    ASSUME TypeOK, NEW w \in Workers, NEW pc, Go(w, pc)
    PROVE  /\ run'[w] = [run[w] EXCEPT !.pc = pc]
           /\ run'[w].pc = pc /\ run'[w].job = run[w].job /\ run'[w].kind = run[w].kind
           /\ run'[w].tries = run[w].tries /\ run'[w].result = run[w].result
           /\ \A v \in Workers \ {w} : run'[v] = run[v]
<1>1. run \in [Workers -> Runs] /\ run[w] \in Runs
  BY DEF TypeOK
<1>2. run'[w] = [run[w] EXCEPT !.pc = pc]
  BY <1>1 DEF Go
<1>3. DOMAIN run[w] = {"pc", "kind", "job", "tries", "result"}
  BY <1>1 DEF Runs, IdleRun
<1> QED
  BY <1>1, <1>2, <1>3 DEF Go

(* A run that ends leaves an idle worker.                                  *)
LEMMA LeaveKeeps ==
    ASSUME TypeOK, NEW w \in Workers, Leave(w)
    PROVE  /\ run'[w] = IdleRun /\ run'[w].pc = "idle" /\ run'[w].job = NoJob
           /\ \A v \in Workers \ {w} : run'[v] = run[v]
  BY DEF TypeOK, Leave, IdleRun

(* An enqueue is of one entry.                                             *)
LEMMA EnqueueKeeps ==
    ASSUME TypeOK, NEW k \in Kinds, NEW j \in Jobs, Enqueue(k, j)
    PROVE  /\ waiting'[k][j] = waiting[k][j] + 1
           /\ entry'[k][j] = [state |-> "queued", tries |-> 0]
           /\ \A l \in Kinds, i \in Jobs : l # k \/ i # j =>
                 waiting'[l][i] = waiting[l][i] /\ entry'[l][i] = entry[l][i]
<1>1. /\ waiting \in [Kinds -> [Jobs -> Nat]]
      /\ entry \in [Kinds -> [Jobs -> Entries]]
  BY DEF TypeOK
<1> QED
  BY <1>1 DEF Enqueue

(* A job whose row is not there yet stays out of everybody's hands.        *)
LEMMA FirstUseStep ==
    ASSUME TypeOK, RowsConsistent, FirstUse, [Next]_vars
    PROVE  FirstUse'
<1> SUFFICES ASSUME NEW i \in Jobs, api'[i] \in {"new", "stored"}
             PROVE  Unbegun(i)'
  BY DEF FirstUse
<1>1. api[i] \in {"new", "stored"} /\ (api'[i] = "new" => api[i] = "new")
  <2>1. api \in [Jobs -> ApiState]
    BY DEF TypeOK
  <2>2. ASSUME NEW j \in Jobs, RowStep(j)
        PROVE  api[i] \in {"new", "stored"} /\ (api'[i] = "new" => api[i] = "new")
    BY <2>1, <2>2 DEF RowStep, RowMove, RequestMove
  <2> QED
    BY <2>2, StepMovesOneRow DEF vars
<1>2. Unbegun(i) /\ row[i].status = "absent"
  BY <1>1 DEF FirstUse, RowsConsistent, Consistent
<1>3. row'[i].status = "absent"
  BY RowsConsistentStep DEF RowsConsistent, Consistent
<1>4. /\ row \in [Jobs -> Row] /\ store \in [Jobs -> SUBSET Objects]
      /\ purge \in [Jobs -> SUBSET Objects] /\ api \in [Jobs -> ApiState]
      /\ entry \in [Kinds -> [Jobs -> Entries]] /\ waiting \in [Kinds -> [Jobs -> Nat]]
      /\ run \in [Workers -> Runs] /\ reaper \in Passes /\ i # NoJob
  BY PipelineAssumption DEF TypeOK
<1>5. \A w \in Workers : run[w].pc # "idle" => run[w].job \in Jobs /\ run[w].kind \in Kinds
  BY RunTyped DEF TypeOK
<1>6. \A w \in Workers : run[w].job # i
  BY <1>2 DEF Unbegun
<1>7. "mp4" \in Kinds /\ "ladder" \in Kinds
  BY DEF Kinds
(* The requests.                                                           *)
<1>10. ASSUME NEW j \in Jobs, CreateJob(j) PROVE Unbegun(i)'
  BY <1>1, <1>2, <1>4, <1>10 DEF CreateJob, Unbegun, Listed
<1>11. ASSUME NEW j \in Jobs, EnqueueNew(j) PROVE Unbegun(i)'
  BY <1>1, <1>2, <1>4, <1>7, <1>11 DEF EnqueueNew, Enqueue, Unbegun, Listed
<1>12. ASSUME NEW j \in Jobs, RetryDeliver(j) PROVE Unbegun(i)'
  BY <1>1, <1>2, <1>4, <1>7, <1>12 DEF RetryDeliver, Enqueue, Unbegun, Listed
<1>13. ASSUME NEW j \in Jobs,
              \/ RetryCommit(j) \/ UploadFails(j) \/ RetryPrepare(j) \/ RetryRollback(j)
              \/ TrashJob(j) \/ RestoreJob(j) \/ TimePasses(j) \/ TrashExpires(j)
       PROVE  Unbegun(i)'
  BY <1>1, <1>2, <1>13
  DEF RetryCommit, UploadFails, RetryPrepare, RetryRollback, TrashJob, RestoreJob, TimePasses,
      TrashExpires, Unbegun, Listed
<1>14. ASSUME NEW j \in Jobs, StoreSource(j) PROVE Unbegun(i)'
  BY <1>1, <1>2, <1>4, <1>14 DEF StoreSource, Unbegun, Listed
<1>15. ASSUME NEW j \in Jobs, DeleteJobNow(j) PROVE Unbegun(i)'
  BY <1>1, <1>2, <1>4, <1>15 DEF DeleteJobNow, DeleteRow, Present, Unbegun, Listed
<1>16. ASSUME NEW j \in Jobs, PurgeStorage(j) \/ PurgeRefused(j) PROVE Unbegun(i)'
  BY <1>1, <1>2, <1>4, <1>16 DEF PurgeStorage, PurgeRefused, Unbegun, Listed
(* RQ.                                                                     *)
<1>20. ASSUME NEW k \in Kinds, NEW j \in Jobs,
              DropUnknown(k, j) \/ RedisLoses(k, j)
       PROVE  Unbegun(i)'
  BY <1>1, <1>2, <1>4, <1>20 DEF DropUnknown, RedisLoses, Unbegun, Listed
<1>21. ASSUME NEW k \in Kinds, NEW j \in Jobs,
              EntryExpires(k, j) \/ EntryAbandoned(k, j)
       PROVE  Unbegun(i)'
  BY <1>1, <1>2, <1>21 DEF EntryExpires, EntryAbandoned, Unbegun, Listed
<1>22. ASSUME NEW w \in Workers, NEW k \in Kinds, NEW j \in Jobs, Deliver(w, k, j)
       PROVE  Unbegun(i)'
  <2>1. j # i
    BY <1>2, <1>22 DEF Deliver, Unbegun
  <2>2. \A v \in Workers : run'[v].job # i
    BY <1>4, <1>6, <1>22, <2>1 DEF Deliver
  <2>3. \A l \in Kinds : waiting'[l][i] = waiting[l][i]
    BY <1>4, <1>22, <2>1 DEF Deliver
  <2> QED
    BY <1>1, <1>2, <1>22, <2>2, <2>3 DEF Deliver, Unbegun, Listed
(* The workers.                                                            *)
<1>30. ASSUME NEW w \in Workers, NEW pc, Go(w, pc)
       PROVE  \A v \in Workers : run'[v].job # i
  BY <1>6, <1>30, GoKeeps
<1>31. ASSUME NEW w \in Workers, Leave(w)
       PROVE  \A v \in Workers : run'[v].job # i
  BY <1>4, <1>6, <1>31, LeaveKeeps
<1>32. ASSUME NEW w \in Workers,
              \/ Claim(w) \/ StepRaises(w) \/ RecordDone(w) \/ RecordFailure(w) \/ GiveBack(w)
              \/ ReadRow(w) \/ GiveUpLadder(w) \/ RecordLadder(w)
       PROVE  Unbegun(i)'
  <2>1. \A v \in Workers : run'[v].job # i
    BY <1>30, <1>32
    DEF Claim, StepRaises, RecordDone, RecordFailure, GiveBack, ReadRow, GiveUpLadder, RecordLadder
  <2> QED
    BY <1>1, <1>2, <1>32, <2>1
    DEF Claim, StepRaises, RecordDone, RecordFailure, GiveBack, ReadRow, GiveUpLadder,
        RecordLadder, Unbegun, Listed
<1>33. ASSUME NEW w \in Workers,
              \/ BuildReturns(w) \/ BuildRaises(w) \/ GiveBackLadder(w) \/ DiscardLadder(w)
              \/ StorePreview(w) \/ PreviewRaises(w) \/ RecordPreview(w)
       PROVE  Unbegun(i)'
  <2>1. \A v \in Workers : run'[v].job # i
    BY <1>30, <1>33
    DEF BuildReturns, BuildRaises, GiveBackLadder, DiscardLadder, StorePreview, PreviewRaises,
        RecordPreview
  <2>2. store'[i] = store[i]
    BY <1>4, <1>6, <1>33
    DEF BuildReturns, BuildRaises, GiveBackLadder, DiscardLadder, StorePreview, PreviewRaises,
        RecordPreview
  <2> QED
    BY <1>1, <1>2, <1>33, <2>1, <2>2
    DEF BuildReturns, BuildRaises, GiveBackLadder, DiscardLadder, StorePreview, PreviewRaises,
        RecordPreview, Unbegun, Listed
<1>34. ASSUME NEW w \in Workers, StepReturns(w) PROVE Unbegun(i)'
  <2>1. \A v \in Workers : run'[v].job # i
    BY <1>4, <1>6, <1>34 DEF StepReturns, Runs, IdleRun
  <2>2. store'[i] = store[i]
    BY <1>4, <1>6, <1>34 DEF StepReturns
  <2> QED
    BY <1>1, <1>2, <1>34, <2>1, <2>2 DEF StepReturns, Unbegun, Listed
<1>35. ASSUME NEW w \in Workers, HandOffLadder(w) \/ HandOffRefused(w) PROVE Unbegun(i)'
  <2>1. \A v \in Workers : run'[v].job # i
    BY <1>30, <1>35 DEF HandOffLadder, HandOffRefused
  <2>2. \A k \in Kinds : waiting'[k][i] = waiting[k][i]
    <3>1. run[w].job \in Jobs /\ run[w].job # i
      BY <1>5, <1>6, <1>35 DEF HandOffLadder, HandOffRefused
    <3> QED
      BY <3>1, <1>7, <1>35, EnqueueKeeps DEF HandOffLadder, HandOffRefused
  <2> QED
    BY <1>1, <1>2, <1>35, <2>1, <2>2 DEF HandOffLadder, HandOffRefused, Unbegun, Listed
<1>36. ASSUME NEW w \in Workers, ReturnRetry(w) PROVE Unbegun(i)'
  <2>1. \A v \in Workers : run'[v].job # i
    BY <1>31, <1>36 DEF ReturnRetry
  <2>2. \A k \in Kinds : waiting'[k][i] = waiting[k][i]
    <3>1. run[w].job \in Jobs /\ run[w].job # i /\ run[w].kind \in Kinds
      BY <1>5, <1>6, <1>36 DEF ReturnRetry
    <3>2. \/ waiting' = waiting
          \/ waiting' = [waiting EXCEPT ![run[w].kind][run[w].job] = @ + 1]
      BY <1>36 DEF ReturnRetry
    <3> QED
      BY <1>4, <3>1, <3>2
  <2> QED
    BY <1>1, <1>2, <1>36, <2>1, <2>2 DEF ReturnRetry, Unbegun, Listed
<1>37. ASSUME NEW w \in Workers, Finish(w) \/ RunErrors(w) \/ Crash(w) PROVE Unbegun(i)'
  <2>1. \A v \in Workers : run'[v].job # i
    BY <1>31, <1>37 DEF Finish, RunErrors, Crash
  <2> QED
    BY <1>1, <1>2, <1>37, <2>1 DEF Finish, RunErrors, Crash, Unbegun, Listed
<1>38. ASSUME NEW w \in Workers, SigTerm(w) \/ HeartbeatLapses(w) PROVE Unbegun(i)'
  BY <1>1, <1>2, <1>38 DEF SigTerm, HeartbeatLapses, Unbegun, Listed
(* The reaper.                                                             *)
<1>40. ASSUME \/ ListProcessing \/ ListQueued \/ ListLadders \/ ListOrphans \/ ListTrash
              \/ EndPass \/ PassFails
       PROVE  Unbegun(i)'
  <2>1. i \notin Listed'
    BY <1>1, <1>2, <1>40
    DEF ListProcessing, ListQueued, ListLadders, ListOrphans, ListTrash, EndPass, PassFails, Turn,
        RestingReaper, AwaitsLadder, Orphaned, Present, Unbegun, Listed
  <2> QED
    BY <1>1, <1>2, <1>40, <2>1
    DEF ListProcessing, ListQueued, ListLadders, ListOrphans, ListTrash, EndPass, PassFails, Unbegun
<1>41. ASSUME NEW j \in Jobs, j # i,
              \/ CheckHeartbeat(j) \/ FailStale(j) \/ RequeueStale(j) \/ SettleStaleLadder(j)
              \/ SweepSource(j) \/ EmptyTrash(j)
       PROVE  Unbegun(i)'
  <2>1. i \notin Listed'
    <3>1. /\ reaper'.todo \subseteq reaper.todo \union {j}
          /\ reaper'.doomed \subseteq reaper.doomed \union {j}
      BY <1>4, <1>41
      DEF CheckHeartbeat, FailStale, RequeueStale, SettleStaleLadder, SweepSource, EmptyTrash,
          Tackled, Passes
    <3> QED
      BY <1>2, <1>41, <3>1 DEF Unbegun, Listed
  <2>2. /\ \A k \in Kinds : waiting'[k][i] = waiting[k][i]
        /\ purge'[i] = purge[i] /\ store'[i] = store[i] /\ run' = run
    <3>1. CASE RequeueStale(j) \/ SettleStaleLadder(j)
      <4>1. UNCHANGED waiting \/ Enqueue("mp4", j) \/ Enqueue("ladder", j)
        BY <3>1 DEF RequeueStale, SettleStaleLadder
      <4>2. \A k \in Kinds : waiting'[k][i] = waiting[k][i]
        BY <1>7, <1>41, <4>1, EnqueueKeeps
      <4> QED
        BY <3>1, <4>2 DEF RequeueStale, SettleStaleLadder
    <3>2. CASE CheckHeartbeat(j) \/ FailStale(j) \/ SweepSource(j) \/ EmptyTrash(j)
      BY <1>4, <1>41, <3>2 DEF CheckHeartbeat, FailStale, SweepSource, EmptyTrash, DeleteRow
    <3> QED
      BY <1>41, <3>1, <3>2
  <2> QED
    BY <1>1, <1>2, <2>1, <2>2 DEF Unbegun
<1>42. ASSUME NEW j \in Jobs,
              \/ CheckHeartbeat(j) \/ FailStale(j) \/ RequeueStale(j) \/ SettleStaleLadder(j)
              \/ SweepSource(j) \/ EmptyTrash(j)
       PROVE  Unbegun(i)'
  <2>1. j # i
    BY <1>2, <1>42
    DEF CheckHeartbeat, FailStale, RequeueStale, SettleStaleLadder, SweepSource, EmptyTrash,
        Unbegun, Listed
  <2> QED
    BY <1>41, <1>42, <2>1
<1>50. CASE UNCHANGED vars
  BY <1>1, <1>2, <1>50 DEF vars, Unbegun, Listed
<1> QED
  BY <1>10, <1>11, <1>12, <1>13, <1>14, <1>15, <1>16, <1>20, <1>21, <1>22, <1>32, <1>33,
     <1>34, <1>35, <1>36, <1>37, <1>38, <1>40, <1>42, <1>50
  DEF Next, ApiStep, UserStep, QueueStep, WorkerStep, WorkerFault, ReaperStep
LEMMA FirstUseInit == Init => FirstUse
  BY PipelineAssumption DEF Init, FirstUse, Unbegun, Listed, RestingReaper, IdleRun

-----------------------------------------------------------------------------
(* What the environment has left to do only shrinks: a fault that the      *)
(* limits exclude never happens.                                           *)
LEMMA LimitsHold ==
    ASSUME TypeOK, [Next]_vars, NEW what \in Bounded, left[what] = 0
    PROVE  left'[what] = 0
<1> DEFINE Goal == left' = left \/ \E x \in Bounded : Spend(x)
<1>1. {"crash", "stop", "lapse", "slow", "loss", "error", "refuse", "doubt", "retry", "trash",
        "delete"} = Bounded
  BY DEF Bounded
<1>2. ASSUME NEW j \in Jobs, ApiStep(j) PROVE Goal
  BY <1>1, <1>2 DEF ApiStep, CreateJob, EnqueueNew, RetryDeliver, RetryCommit, PurgeStorage
<1>3. ASSUME NEW j \in Jobs, UserStep(j) PROVE Goal
  BY <1>1, <1>3
  DEF UserStep, StoreSource, UploadFails, RetryPrepare, RetryRollback, TrashJob, RestoreJob,
      DeleteJobNow, PurgeRefused
<1>4. ASSUME NEW j \in Jobs, TimePasses(j) \/ TrashExpires(j) PROVE Goal
  BY <1>1, <1>4 DEF TimePasses, TrashExpires
<1>5. ASSUME NEW k \in Kinds, NEW j \in Jobs, QueueStep(k, j) \/ RedisLoses(k, j) PROVE Goal
  BY <1>1, <1>5 DEF QueueStep, DropUnknown, EntryExpires, EntryAbandoned, RedisLoses
<1>6. ASSUME NEW w \in Workers, WorkerStep(w) PROVE Goal
  BY <1>1, <1>6
  DEF WorkerStep, Deliver, Claim, StepReturns, StepRaises, RecordDone, RecordFailure, GiveBack,
      HandOffLadder, ReadRow, BuildReturns, BuildRaises, GiveUpLadder, GiveBackLadder,
      RecordLadder, DiscardLadder, StorePreview, PreviewRaises, RecordPreview, Finish, ReturnRetry
<1>7. ASSUME NEW w \in Workers, WorkerFault(w) PROVE Goal
  BY <1>1, <1>7 DEF WorkerFault, HandOffRefused, RunErrors, Crash, SigTerm, HeartbeatLapses
<1>8. ASSUME ReaperStep \/ PassFails PROVE Goal
  BY <1>1, <1>8
  DEF ReaperStep, ListProcessing, ListQueued, ListLadders, ListOrphans, ListTrash, EndPass,
      CheckHeartbeat, FailStale, RequeueStale, SettleStaleLadder, SweepSource, EmptyTrash, PassFails
<1>9. Goal
  BY <1>2, <1>3, <1>4, <1>5, <1>6, <1>7, <1>8 DEF Next, vars
<1> QED
  BY <1>9 DEF TypeOK, Spend

(* The steps that are of no run.                                           *)
NobodysRun ==
    \/ \E j \in Jobs : ApiStep(j) \/ UserStep(j) \/ TimePasses(j) \/ TrashExpires(j)
    \/ \E k \in Kinds, j \in Jobs : QueueStep(k, j) \/ RedisLoses(k, j)
    \/ ReaperStep \/ PassFails
    \/ UNCHANGED vars

LEMMA NobodyRuns ==
    ASSUME NobodysRun
    PROVE  UNCHANGED <<run, stopping, silent, claimant>>
<1>2. ASSUME NEW j \in Jobs, ApiStep(j) PROVE UNCHANGED <<run, stopping, silent, claimant>>
  BY <1>2 DEF ApiStep, CreateJob, EnqueueNew, RetryDeliver, RetryCommit, PurgeStorage
<1>3. ASSUME NEW j \in Jobs, UserStep(j) PROVE UNCHANGED <<run, stopping, silent, claimant>>
  BY <1>3
  DEF UserStep, StoreSource, UploadFails, RetryPrepare, RetryRollback, TrashJob, RestoreJob,
      DeleteJobNow, PurgeRefused
<1>4. ASSUME NEW j \in Jobs, TimePasses(j) \/ TrashExpires(j)
      PROVE  UNCHANGED <<run, stopping, silent, claimant>>
  BY <1>4 DEF TimePasses, TrashExpires
<1>5. ASSUME NEW k \in Kinds, NEW j \in Jobs, QueueStep(k, j) \/ RedisLoses(k, j)
      PROVE  UNCHANGED <<run, stopping, silent, claimant>>
  BY <1>5 DEF QueueStep, DropUnknown, EntryExpires, EntryAbandoned, RedisLoses
<1>6. ASSUME ReaperStep \/ PassFails PROVE UNCHANGED <<run, stopping, silent, claimant>>
  BY <1>6
  DEF ReaperStep, ListProcessing, ListQueued, ListLadders, ListOrphans, ListTrash, EndPass,
      CheckHeartbeat, FailStale, RequeueStale, SettleStaleLadder, SweepSource, EmptyTrash, PassFails
<1> QED
  BY <1>2, <1>3, <1>4, <1>5, <1>6 DEF NobodysRun, vars

(* Each pc belongs to one kind of task.                                    *)
KindOfPc ==
    \A w \in Workers : /\ run[w].pc \in Mp4Pc => run[w].kind = "mp4"
                       /\ run[w].pc \in LadderPc => run[w].kind = "ladder"

LEMMA KindOfPcStep ==
    ASSUME TypeOK, KindOfPc, [Next]_vars
    PROVE  KindOfPc'
<1> USE DEF KindOfPc, Mp4Pc, LadderPc
<1>1. run \in [Workers -> Runs]
  BY DEF TypeOK
<1>2. ASSUME run' = run PROVE KindOfPc'
  BY <1>2
<1>3. ASSUME NEW w \in Workers, NEW pc, Go(w, pc),
             \/ pc \in {"giveup", "finish", "retry"}
             \/ pc \in Mp4Pc /\ run[w].pc \in Mp4Pc
             \/ pc \in LadderPc /\ run[w].pc \in LadderPc
      PROVE  KindOfPc'
  <2>1. /\ run'[w].pc = pc /\ run'[w].kind = run[w].kind
        /\ \A v \in Workers \ {w} : run'[v] = run[v]
    BY <1>3, GoKeeps
  <2> QED
    BY <1>3, <2>1
<1>4. ASSUME NEW w \in Workers, Leave(w) PROVE KindOfPc'
  BY <1>4, LeaveKeeps
<1>5. ASSUME NEW w \in Workers, NEW k \in Kinds, NEW j \in Jobs, Deliver(w, k, j)
      PROVE  KindOfPc'
  BY <1>1, <1>5 DEF Deliver, Kinds
<1>6. ASSUME NEW w \in Workers, StepReturns(w) PROVE KindOfPc'
  BY <1>1, <1>6 DEF StepReturns, Runs, IdleRun
<1>7. ASSUME NEW w \in Workers,
             \/ Claim(w) \/ StepRaises(w) \/ RecordDone(w) \/ RecordFailure(w) \/ GiveBack(w)
             \/ HandOffLadder(w) \/ HandOffRefused(w)
      PROVE  KindOfPc'
  BY <1>3, <1>7
  DEF Claim, StepRaises, RecordDone, RecordFailure, GiveBack, HandOffLadder, HandOffRefused
<1>8. ASSUME NEW w \in Workers,
             \/ ReadRow(w) \/ BuildReturns(w) \/ BuildRaises(w) \/ GiveUpLadder(w)
             \/ GiveBackLadder(w) \/ RecordLadder(w) \/ DiscardLadder(w) \/ StorePreview(w)
             \/ PreviewRaises(w) \/ RecordPreview(w)
      PROVE  KindOfPc'
  BY <1>3, <1>8
  DEF ReadRow, BuildReturns, BuildRaises, GiveUpLadder, GiveBackLadder, RecordLadder,
      DiscardLadder, StorePreview, PreviewRaises, RecordPreview
<1>9. ASSUME NEW w \in Workers, Finish(w) \/ ReturnRetry(w) \/ RunErrors(w) \/ Crash(w)
      PROVE  KindOfPc'
  BY <1>4, <1>9 DEF Finish, ReturnRetry, RunErrors, Crash
<1>10. ASSUME NEW w \in Workers, SigTerm(w) \/ HeartbeatLapses(w) PROVE KindOfPc'
  BY <1>2, <1>10 DEF SigTerm, HeartbeatLapses
<1>11. ASSUME NobodysRun PROVE KindOfPc'
  BY <1>2, <1>11, NobodyRuns
<1> QED
  BY <1>5, <1>6, <1>7, <1>8, <1>9, <1>10, <1>11 DEF Next, WorkerStep, WorkerFault, NobodysRun


LEMMA KindOfPcInit == Init => KindOfPc
  BY DEF Init, KindOfPc, IdleRun, Mp4Pc, LadderPc

(* Who queues a job: its request, its retry, or the run that gives it back. *)
GivesBack(w, j) == run[w].job = j /\ row[j].status = "processing" /\ GiveBack(w) /\ Go(w, "retry")

LEMMA WhoQueues ==
    ASSUME TypeOK, [Next]_vars,
           NEW j \in Jobs, row[j].status # "queued", row'[j].status = "queued"
    PROVE  CreateJob(j) \/ RetryCommit(j) \/ \E w \in Workers : GivesBack(w, j)
<1> DEFINE Given == CreateJob(j) \/ RetryCommit(j) \/ \E w \in Workers : GivesBack(w, j)
<1>1. row \in [Jobs -> Row]
  BY DEF TypeOK
<1>3. /\ NoRow.status = "absent" /\ NewRow.status = "queued"
      /\ \A r \in Row : /\ MarkFailed(r).status = "failed" /\ MarkStaleFailed(r).status = "failed"
                        /\ MarkProcessing(r).status = "processing"
                        /\ \A res : MarkDone(r, res).status = "done"
                        /\ TrashRow(r).status = r.status /\ RestoreRow(r).status = r.status
                        /\ ExpireRow(r).status = r.status /\ AgeRow(r).status = r.status
                        /\ MarkLadderReady(r).status = r.status
                        /\ MarkLadderUnavailable(r).status = r.status
                        /\ MarkPreviewReady(r).status = r.status
  BY DEF NoRow, NewRow, MarkFailed, MarkStaleFailed, MarkProcessing, MarkDone, TrashRow, RestoreRow,
         ExpireRow, AgeRow, MarkLadderReady, MarkLadderUnavailable, MarkPreviewReady, SettleLadder,
         Transition, Row
<1>4. ASSUME NEW i \in Jobs, NEW r, Write(i, r), r.status # "queued" PROVE FALSE
  BY <1>1, <1>4 DEF Write
<1>5. ASSUME NEW i \in Jobs, NEW r, Write(i, r), i # j PROVE FALSE
  BY <1>1, <1>5 DEF Write
<1>6. ASSUME NEW i \in Jobs, NEW r, Write(i, r), r.status = row[i].status PROVE FALSE
  BY <1>1, <1>6 DEF Write
<1>7. row' # row
  OBVIOUS
(* The requests and the clock.                                             *)
<1>10. ASSUME NEW i \in Jobs, ApiStep(i) PROVE Given
  <2>1. CASE CreateJob(i)
    BY <1>5, <2>1 DEF CreateJob
  <2>2. CASE RetryCommit(i)
    BY <1>5, <2>2 DEF RetryCommit
  <2>3. CASE EnqueueNew(i) \/ RetryDeliver(i) \/ PurgeStorage(i)
    BY <1>7, <2>3 DEF EnqueueNew, RetryDeliver, PurgeStorage
  <2> QED
    BY <1>10, <2>1, <2>2, <2>3 DEF ApiStep
<1>11. ASSUME NEW i \in Jobs, UserStep(i) \/ TimePasses(i) \/ TrashExpires(i) PROVE Given
  <2>1. CASE TrashJob(i) \/ RestoreJob(i) \/ TimePasses(i) \/ TrashExpires(i)
    BY <1>1, <1>3, <1>6, <2>1 DEF TrashJob, RestoreJob, TimePasses, TrashExpires
  <2>2. CASE DeleteJobNow(i)
    BY <1>3, <1>4, <2>2 DEF DeleteJobNow, DeleteRow
  <2>3. CASE \/ StoreSource(i) \/ UploadFails(i) \/ RetryPrepare(i) \/ RetryRollback(i)
             \/ PurgeRefused(i)
    BY <1>7, <2>3 DEF StoreSource, UploadFails, RetryPrepare, RetryRollback, PurgeRefused
  <2> QED
    BY <1>11, <2>1, <2>2, <2>3 DEF UserStep
<1>12. ASSUME NEW k \in Kinds, NEW i \in Jobs, QueueStep(k, i) \/ RedisLoses(k, i) PROVE Given
  BY <1>7, <1>12 DEF QueueStep, DropUnknown, EntryExpires, EntryAbandoned, RedisLoses
(* The reaper.                                                             *)
<1>20. ASSUME ReaperStep \/ PassFails PROVE Given
  <2>1. CASE \/ ListProcessing \/ ListQueued \/ ListLadders \/ ListOrphans \/ ListTrash \/ EndPass
             \/ PassFails
    BY <1>7, <2>1
    DEF ListProcessing, ListQueued, ListLadders, ListOrphans, ListTrash, EndPass, PassFails
  <2>2. ASSUME NEW i \in Jobs, CheckHeartbeat(i) \/ RequeueStale(i) \/ SweepSource(i) PROVE Given
    BY <1>7, <2>2 DEF CheckHeartbeat, RequeueStale, SweepSource
  <2>3. ASSUME NEW i \in Jobs, FailStale(i) PROVE Given
    <3>1. Write(i, row[i]) \/ Write(i, MarkStaleFailed(row[i]))
      BY <2>3 DEF FailStale
    <3> QED
      BY <1>1, <1>3, <1>4, <1>6, <3>1
  <2>4. ASSUME NEW i \in Jobs, SettleStaleLadder(i) PROVE Given
    <3>1. row' = row \/ Write(i, row[i]) \/ Write(i, MarkLadderUnavailable(row[i]))
      BY <2>4 DEF SettleStaleLadder
    <3> QED
      BY <1>1, <1>3, <1>6, <1>7, <3>1
  <2>5. ASSUME NEW i \in Jobs, EmptyTrash(i) PROVE Given
    BY <1>3, <1>4, <1>7, <2>5 DEF EmptyTrash, DeleteRow
  <2> QED
    BY <1>20, <2>1, <2>2, <2>3, <2>4, <2>5 DEF ReaperStep
(* The workers.                                                            *)
<1>30. ASSUME NEW w \in Workers, WorkerFault(w) PROVE Given
  BY <1>7, <1>30 DEF WorkerFault, HandOffRefused, RunErrors, Crash, SigTerm, HeartbeatLapses
<1>31. ASSUME NEW w \in Workers,
              \/ \E k \in Kinds, i \in Jobs : Deliver(w, k, i)
              \/ StepReturns(w) \/ StepRaises(w) \/ HandOffLadder(w) \/ ReadRow(w)
              \/ BuildReturns(w) \/ BuildRaises(w) \/ GiveBackLadder(w) \/ DiscardLadder(w)
              \/ StorePreview(w) \/ PreviewRaises(w) \/ Finish(w) \/ ReturnRetry(w)
       PROVE  Given
  BY <1>7, <1>31
  DEF Deliver, StepReturns, StepRaises, HandOffLadder, ReadRow, BuildReturns, BuildRaises,
      GiveBackLadder, DiscardLadder, StorePreview, PreviewRaises, Finish, ReturnRetry
<1>32. ASSUME NEW w \in Workers,
              \/ Claim(w) \/ RecordDone(w) \/ RecordFailure(w) \/ GiveBack(w)
              \/ GiveUpLadder(w) \/ RecordLadder(w) \/ RecordPreview(w)
       PROVE  Given
  <2>1. run[w].pc # "idle"
    BY <1>32 DEF Claim, RecordDone, RecordFailure, GiveBack, GiveUpLadder, RecordLadder, RecordPreview
  <2>2. run[w].job \in Jobs /\ row[run[w].job] \in Row
    BY <1>1, <2>1, RunTyped DEF TypeOK
  <2>3. CASE Claim(w)
    BY <1>3, <1>4, <1>7, <2>2, <2>3 DEF Claim
  <2>4. CASE RecordDone(w)
    BY <1>3, <1>4, <1>7, <2>2, <2>4 DEF RecordDone
  <2>5. CASE RecordFailure(w)
    <3>1. Write(run[w].job, row[run[w].job]) \/ Write(run[w].job, MarkFailed(row[run[w].job]))
      BY <2>5 DEF RecordFailure
    <3> QED
      BY <1>3, <1>4, <1>6, <2>2, <3>1
  <2>6. CASE GiveBack(w)
    <3>1. \/ Write(run[w].job, MarkFailed(row[run[w].job]))
          \/ Write(run[w].job, MarkInterrupted(row[run[w].job])) /\ Go(w, "retry")
          \/ row' = row
      BY <2>6 DEF GiveBack
    <3>2. Write(run[w].job, MarkInterrupted(row[run[w].job])) /\ Go(w, "retry")
      BY <1>3, <1>4, <1>7, <2>2, <3>1
    <3>3. run[w].job = j
      BY <1>1, <2>2, <3>2 DEF Write
    <3>4. row[j].status = "processing"
      BY <1>7, <2>6, <3>3 DEF GiveBack
    <3> QED
      BY <2>6, <3>2, <3>3, <3>4 DEF GivesBack
  <2>7. CASE GiveUpLadder(w)
    <3>1. \/ Write(run[w].job, row[run[w].job])
          \/ Write(run[w].job, MarkLadderUnavailable(row[run[w].job]))
      BY <2>7 DEF GiveUpLadder
    <3> QED
      BY <1>3, <1>6, <2>2, <3>1
  <2>8. CASE RecordLadder(w) \/ RecordPreview(w)
    BY <1>3, <1>6, <1>7, <2>2, <2>8 DEF RecordLadder, RecordPreview
  <2> QED
    BY <1>32, <2>3, <2>4, <2>5, <2>6, <2>7, <2>8
<1> QED
  BY <1>7, <1>10, <1>11, <1>12, <1>20, <1>30, <1>31, <1>32 DEF Next, WorkerStep, vars

-----------------------------------------------------------------------------
(* One runner per job, where no heartbeat lapses and nobody is slower than *)
(* the reaper's clocks.                                                    *)

(* A claim in hand: its row is still the worker's, or gone; it is younger  *)
(* than the lease and the reaper has not condemned it.                     *)
ClaimIsGood(w, j) ==
    HoldsClaim(w, j) =>
        /\ row[j].status \in {"processing", "absent"}
        /\ row[j].age <= Abandoned
        /\ j \notin reaper.doomed
        /\ Present(j) => claimant[j] = w

Punctual ==
    /\ left["lapse"] = 0 /\ left["slow"] = 0
    /\ silent = {}
    /\ reaper.doomed # {} => reaper.phase = "processing"

ClaimsHold ==
    /\ Punctual
    /\ \A w \in Workers, j \in Jobs : ClaimIsGood(w, j)
    /\ AtMostOneRunner

(* Nobody claims in this step, and the claims in hand stay good.           *)
LEMMA ClaimsStay ==
    ASSUME TypeOK, ClaimsHold, Punctual',
           \A w \in Workers, j \in Jobs : HoldsClaim(w, j)' => HoldsClaim(w, j),
           \A w \in Workers, j \in Jobs :
               HoldsClaim(w, j) /\ HoldsClaim(w, j)' =>
                   /\ row'[j].status \in {row[j].status, "absent"}
                   /\ row'[j].age <= Abandoned
                   /\ j \notin reaper'.doomed
                   /\ claimant'[j] = claimant[j]
    PROVE  ClaimsHold'
<1>1. ASSUME NEW w \in Workers, NEW j \in Jobs PROVE ClaimIsGood(w, j)'
  <2> SUFFICES ASSUME HoldsClaim(w, j)'
               PROVE  /\ row'[j].status \in {"processing", "absent"}
                      /\ row'[j].age <= Abandoned
                      /\ j \notin reaper'.doomed
                      /\ Present(j)' => claimant'[j] = w
    BY DEF ClaimIsGood
  <2>1. HoldsClaim(w, j)
    OBVIOUS
  <2> QED
    BY <2>1 DEF ClaimsHold, ClaimIsGood, Present
<1>2. AtMostOneRunner'
  <2> SUFFICES ASSUME NEW j \in Jobs, NEW v \in Workers, NEW w \in Workers,
                      HoldsClaim(v, j)', HoldsClaim(w, j)'
               PROVE  v = w
    BY DEF AtMostOneRunner
  <2> QED
    BY DEF ClaimsHold, AtMostOneRunner
<1> QED
  BY <1>1, <1>2 DEF ClaimsHold

(* The pass, and the heartbeats, in every step.                            *)
LEMMA PunctualStep ==
    ASSUME TypeOK, Punctual, [Next]_vars
    PROVE  Punctual'
<1>1. left'["lapse"] = 0 /\ left'["slow"] = 0
  BY LimitsHold DEF Punctual, Bounded
<1>2. ASSUME NEW w \in Workers, WorkerStep(w) \/ WorkerFault(w)
      PROVE  silent' = {} /\ reaper' = reaper
  <2>1. CASE WorkerStep(w)
    BY <2>1
    DEF WorkerStep, Deliver, Claim, StepReturns, StepRaises, RecordDone, RecordFailure, GiveBack,
        HandOffLadder, ReadRow, BuildReturns, BuildRaises, GiveUpLadder, GiveBackLadder,
        RecordLadder, DiscardLadder, StorePreview, PreviewRaises, RecordPreview, Finish,
        ReturnRetry, Leave, Punctual
  <2>2. CASE WorkerFault(w)
    <3>1. ~ HeartbeatLapses(w)
      BY DEF HeartbeatLapses, Spend, Punctual
    <3> QED
      BY <2>2, <3>1 DEF WorkerFault, HandOffRefused, RunErrors, Crash, SigTerm, Leave, Punctual
  <2> QED
    BY <1>2, <2>1, <2>2
<1>3. ASSUME NEW j \in Jobs, ApiStep(j) PROVE reaper' = reaper
  BY <1>3 DEF ApiStep, CreateJob, EnqueueNew, RetryDeliver, RetryCommit, PurgeStorage
<1>4. ASSUME NEW j \in Jobs, UserStep(j) PROVE reaper' = reaper
  BY <1>4
  DEF UserStep, StoreSource, UploadFails, RetryPrepare, RetryRollback, TrashJob, RestoreJob,
      DeleteJobNow, PurgeRefused
<1>5. ASSUME NEW j \in Jobs, TimePasses(j) \/ TrashExpires(j) PROVE reaper' = reaper
  BY <1>5 DEF TimePasses, TrashExpires
<1>6. ASSUME NEW k \in Kinds, NEW j \in Jobs, QueueStep(k, j) \/ RedisLoses(k, j)
      PROVE  reaper' = reaper
  BY <1>6 DEF QueueStep, DropUnknown, EntryExpires, EntryAbandoned, RedisLoses
<1>7. ASSUME ReaperStep \/ PassFails
      PROVE  reaper'.doomed # {} => reaper'.phase = "processing"
  <2>1. reaper \in Passes
    BY DEF TypeOK
  <2>2. CASE \/ ListProcessing \/ ListQueued \/ ListLadders \/ ListOrphans \/ ListTrash \/ EndPass
             \/ PassFails
    BY <2>2
    DEF ListProcessing, ListQueued, ListLadders, ListOrphans, ListTrash, EndPass, PassFails, Turn,
        RestingReaper
  <2>3. ASSUME NEW j \in Jobs,
               \/ CheckHeartbeat(j) \/ FailStale(j) \/ RequeueStale(j) \/ SettleStaleLadder(j)
               \/ SweepSource(j) \/ EmptyTrash(j)
        PROVE  reaper'.doomed # {} => reaper'.phase = "processing"
    BY <2>1, <2>3
    DEF CheckHeartbeat, FailStale, RequeueStale, SettleStaleLadder, SweepSource, EmptyTrash, Tackled,
        Reaping, Passes, Punctual
  <2> QED
    BY <1>7, <2>2, <2>3 DEF ReaperStep
<1>8. silent' = {}
  BY <1>2, NobodyRuns DEF Next, NobodysRun, Punctual, vars
<1>9. reaper'.doomed # {} => reaper'.phase = "processing"
  BY <1>2, <1>3, <1>4, <1>5, <1>6, <1>7 DEF Next, vars, Punctual
<1> QED
  BY <1>1, <1>8, <1>9 DEF Punctual

(* Whatever a step does, a claim in hand stays good, and a new one is the  *)
(* only one.                                                               *)
LEMMA ClaimsHoldStep ==
    ASSUME TypeOK, RowsConsistent, FirstUse, KindOfPc, ClaimsHold, [Next]_vars
    PROVE  ClaimsHold'
<1> DEFINE Holding == {"running", "stepped", "raised"}
           Stays(j) == /\ row'[j].status \in {row[j].status, "absent"}
                       /\ row'[j].age <= Abandoned
                       /\ j \notin reaper'.doomed
                       /\ claimant'[j] = claimant[j]
<1>1. Punctual'
  BY PunctualStep DEF ClaimsHold
<1>2. /\ row \in [Jobs -> Row] /\ api \in [Jobs -> ApiState] /\ reaper \in Passes
      /\ run \in [Workers -> Runs] /\ claimant \in [Jobs -> Workers \union {NoWorker}]
  BY DEF TypeOK
<1>3. \A w \in Workers : run[w].pc # "idle" => run[w].job \in Jobs /\ run[w].kind \in Kinds
  BY RunTyped DEF TypeOK
<1>4. \A w \in Workers : run[w].pc \in Holding => HoldsClaim(w, run[w].job)
  BY DEF KindOfPc, Mp4Pc, HoldsClaim, Running
<1>5. \A w \in Workers, j \in Jobs : HoldsClaim(w, j) =>
          /\ run[w].pc \in Holding /\ run[w].job = j /\ Running(w, "mp4", j)
          /\ row[j].status \in {"processing", "absent"} /\ row[j].age <= Abandoned
          /\ j \notin reaper.doomed
  BY DEF ClaimsHold, ClaimIsGood, HoldsClaim, Running
<1>6. left["lapse"] = 0 /\ left["slow"] = 0 /\ silent = {}
  BY DEF ClaimsHold, Punctual
<1>7. Fresh = 0 /\ Abandoned = 1 /\ LeaseOver = 2 /\ GraceOver = 3
  BY DEF Fresh, Abandoned, LeaseOver, GraceOver
<1>8. ~ Spend("slow") /\ ~ Spend("lapse")
  BY <1>6 DEF Spend
(* Nobody's step: what the requests, time and the reaper do to a row that  *)
(* is in a runner's hands.                                                 *)
<1>10. ASSUME NobodysRun PROVE ClaimsHold'
  <2>1. run' = run /\ claimant' = claimant
    BY <1>10, NobodyRuns
  <2>2. \A w \in Workers, j \in Jobs : HoldsClaim(w, j)' <=> HoldsClaim(w, j)
    BY <2>1 DEF HoldsClaim, Running
  <2> SUFFICES ASSUME NEW w \in Workers, NEW j \in Jobs, HoldsClaim(w, j)
               PROVE  Stays(j)
    BY <1>1, <2>2, ClaimsStay
  <2>3. /\ run[w].job = j /\ Running(w, "mp4", j) /\ run[w].pc \in Holding
        /\ row[j].status \in {"processing", "absent"} /\ row[j].age <= Abandoned
        /\ j \notin reaper.doomed
    BY <1>5
  <2>4. row[j] \in Row
    BY <1>2
  <2>5. ASSUME NEW i \in Jobs, CreateJob(i) PROVE Stays(j)
    <3>1. i # j
      BY <2>3, <2>5 DEF CreateJob, FirstUse, Unbegun
    <3> QED
      BY <1>2, <2>1, <2>3, <2>5, <3>1 DEF CreateJob, Write
  <2>6. ASSUME NEW i \in Jobs, RetryCommit(i) PROVE Stays(j)
    <3>1. i # j
      BY <2>3, <2>6 DEF RetryCommit, RowsConsistent, Consistent
    <3> QED
      BY <1>2, <2>1, <2>3, <2>6, <3>1 DEF RetryCommit, Write
  <2>7. ASSUME NEW i \in Jobs,
               \/ EnqueueNew(i) \/ RetryDeliver(i) \/ PurgeStorage(i) \/ StoreSource(i)
               \/ UploadFails(i) \/ RetryPrepare(i) \/ RetryRollback(i) \/ PurgeRefused(i)
        PROVE  Stays(j)
    BY <2>1, <2>3, <2>7
    DEF EnqueueNew, RetryDeliver, PurgeStorage, StoreSource, UploadFails, RetryPrepare,
        RetryRollback, PurgeRefused
  <2>8. ASSUME NEW i \in Jobs, TrashJob(i) \/ RestoreJob(i) \/ TrashExpires(i) PROVE Stays(j)
    <3>1. reaper' = reaper /\ \E at \in {Null, "trashed", "expired"} :
             row' = [row EXCEPT ![i] = [row[i] EXCEPT !.deleted_at = at]]
      BY <2>8
      DEF TrashJob, RestoreJob, TrashExpires, Write, TrashRow, RestoreRow, ExpireRow
    <3>2. row'[j].status = row[j].status /\ row'[j].age = row[j].age
      BY <1>2, <2>4, <3>1 DEF Row
    <3> QED
      BY <2>1, <2>3, <3>1, <3>2
  <2>9. ASSUME NEW i \in Jobs, DeleteJobNow(i) \/ EmptyTrash(i) PROVE Stays(j)
    <3>1. /\ row' = [row EXCEPT ![i] = NoRow] \/ row' = row
          /\ reaper' = reaper \/ Tackled(i)
      BY <2>9 DEF DeleteJobNow, EmptyTrash, DeleteRow, Write
    <3>2. NoRow.status = "absent" /\ NoRow.age = Fresh
      BY DEF NoRow
    <3> QED
      BY <1>2, <1>7, <2>1, <2>3, <3>1, <3>2 DEF Tackled, Passes
  <2>10. ASSUME NEW i \in Jobs, TimePasses(i) PROVE Stays(j)
    <3>1. row' = [row EXCEPT ![i] = AgeRow(row[i])] /\ reaper' = reaper /\ ~ TooSlow(i)
      BY <1>8, <2>10 DEF TimePasses, Write
    <3>2. /\ AgeRow(row[j]).status = row[j].status
          /\ AgeRow(row[j]).age = row[j].age + 1
      BY <2>4 DEF AgeRow, Row
    <3>3. i = j => row[j].age # Abandoned
      BY <2>3, <3>1 DEF TooSlow
    <3>4. row[j].age \in Fresh..GraceOver
      BY <2>4 DEF Row
    <3> QED
      BY <1>2, <1>7, <2>1, <2>3, <3>1, <3>2, <3>3, <3>4
  <2>11. ASSUME NEW k \in Kinds, NEW i \in Jobs, QueueStep(k, i) \/ RedisLoses(k, i)
         PROVE  Stays(j)
    BY <2>1, <2>3, <2>11 DEF QueueStep, DropUnknown, EntryExpires, EntryAbandoned, RedisLoses
  <2>12. CASE ListProcessing
    <3>1. j \notin reaper'.doomed
      <4>1. row[j].age \in Fresh..GraceOver
        BY <2>4 DEF Row
      <4>2. ~ (row[j].age >= LeaseOver)
        BY <1>7, <2>3, <4>1
      <4> QED
        BY <2>12, <4>2 DEF ListProcessing, Turn
    <3> QED
      BY <2>1, <2>3, <2>12, <3>1 DEF ListProcessing
  <2>13. CASE ListQueued \/ ListLadders \/ ListOrphans \/ ListTrash \/ EndPass \/ PassFails
    BY <2>1, <2>3, <2>13
    DEF ListQueued, ListLadders, ListOrphans, ListTrash, EndPass, PassFails, Turn, RestingReaper
  <2>14. ASSUME NEW i \in Jobs, CheckHeartbeat(i) PROVE Stays(j)
    <3>1. HeartbeatAlive("mp4", j)
      BY <1>6, <2>3 DEF HeartbeatAlive
    <3>2. j \notin reaper'.doomed
      <4>1. CASE i = j
        BY <1>2, <2>3, <2>14, <3>1, <4>1 DEF CheckHeartbeat, Tackled, Passes
      <4>2. CASE i # j
        <5>1. reaper'.doomed \subseteq reaper.doomed \union {i}
          BY <1>2, <2>14 DEF CheckHeartbeat, Tackled, Passes
        <5> QED
          BY <2>3, <4>2, <5>1
      <4> QED
        BY <4>1, <4>2
    <3> QED
      BY <2>1, <2>3, <2>14, <3>2 DEF CheckHeartbeat
  <2>15. ASSUME NEW i \in Jobs, FailStale(i) PROVE Stays(j)
    <3>1. i # j
      BY <2>3, <2>15 DEF FailStale
    <3> QED
      BY <1>2, <2>1, <2>3, <2>15, <3>1 DEF FailStale, Write, Passes
  <2>16. ASSUME NEW i \in Jobs, SettleStaleLadder(i) PROVE Stays(j)
    <3>1. row'[j] = row[j]
      <4>1. \/ row' = row
            \/ row' = [row EXCEPT ![i] = row[i]]
            \/ row[i].status = "done" /\ row' = [row EXCEPT ![i] = MarkLadderUnavailable(row[i])]
        BY <2>16 DEF SettleStaleLadder, Write, AwaitsLadder
      <4> QED
        BY <1>2, <2>3, <4>1
    <3> QED
      BY <1>2, <2>1, <2>3, <2>16, <3>1 DEF SettleStaleLadder, Tackled, Passes
  <2>17. ASSUME NEW i \in Jobs, RequeueStale(i) \/ SweepSource(i) PROVE Stays(j)
    BY <1>2, <2>1, <2>3, <2>17 DEF RequeueStale, SweepSource, Tackled, Passes
  <2>18. CASE UNCHANGED vars
    BY <2>1, <2>3, <2>18 DEF vars
  <2> QED
    BY <1>10, <2>5, <2>6, <2>7, <2>8, <2>9, <2>10, <2>11, <2>12, <2>13, <2>14, <2>15, <2>16,
       <2>17, <2>18
    DEF NobodysRun, ApiStep, UserStep, ReaperStep
(* A worker's step that is no claim: either the row is left alone, or the  *)
(* worker writes the row of its own run.                                   *)
<1>20. ASSUME NEW w \in Workers, reaper' = reaper, claimant' = claimant,
              \A v \in Workers \ {w} : run'[v] = run[v],
              \A j \in Jobs : HoldsClaim(w, j)' => HoldsClaim(w, j),
              \A v \in Workers, j \in Jobs :
                  HoldsClaim(v, j) /\ HoldsClaim(v, j)' => row'[j] = row[j]
       PROVE  ClaimsHold'
  <2>1. \A v \in Workers \ {w}, j \in Jobs : HoldsClaim(v, j)' => HoldsClaim(v, j)
    BY <1>20 DEF HoldsClaim, Running
  <2>2. \A v \in Workers, j \in Jobs : HoldsClaim(v, j)' => HoldsClaim(v, j)
    BY <1>20, <2>1
  <2>3. \A v \in Workers, j \in Jobs : HoldsClaim(v, j) /\ HoldsClaim(v, j)' => Stays(j)
    BY <1>5, <1>20
  <2> QED
    BY <1>1, <2>2, <2>3, ClaimsStay
<1>21. ASSUME NEW w \in Workers, NEW pc, Go(w, pc), reaper' = reaper, claimant' = claimant,
              pc \in Holding => run[w].pc \in Holding,
              \A j \in Jobs : HoldsClaim(w, j) \/ row[j].status \in {"processing", "absent"}
                                 => row'[j] = row[j]
       PROVE  ClaimsHold'
  <2>1. /\ run'[w].pc = pc /\ run'[w].job = run[w].job /\ run'[w].kind = run[w].kind
        /\ \A v \in Workers \ {w} : run'[v] = run[v]
    BY <1>21, GoKeeps
  <2>2. \A j \in Jobs : HoldsClaim(w, j)' => HoldsClaim(w, j)
    BY <1>21, <2>1 DEF HoldsClaim, Running
  <2>3. \A v \in Workers, j \in Jobs : HoldsClaim(v, j) => row'[j] = row[j]
    BY <1>5, <1>21
  <2> QED
    BY <1>20, <1>21, <2>1, <2>2, <2>3
<1>22. ASSUME NEW w \in Workers,
              \/ StepRaises(w) \/ HandOffLadder(w) \/ HandOffRefused(w) \/ ReadRow(w)
              \/ BuildReturns(w) \/ BuildRaises(w) \/ GiveBackLadder(w) \/ DiscardLadder(w)
              \/ StorePreview(w) \/ PreviewRaises(w)
       PROVE  ClaimsHold'
  BY <1>21, <1>22
  DEF StepRaises, HandOffLadder, HandOffRefused, ReadRow, BuildReturns, BuildRaises,
      GiveBackLadder, DiscardLadder, StorePreview, PreviewRaises
<1>23. ASSUME NEW w \in Workers, GiveUpLadder(w) \/ RecordLadder(w) \/ RecordPreview(w)
       PROVE  ClaimsHold'
  <2>1. reaper' = reaper /\ claimant' = claimant /\ run[w].pc # "idle"
        /\ \E pc \in {"finish", "after", "unrecorded"} : Go(w, pc)
    BY <1>23 DEF GiveUpLadder, RecordLadder, RecordPreview
  <2>2. run[w].job \in Jobs
    BY <1>3, <2>1
  <2>3. \/ row' = row
        \/ row' = [row EXCEPT ![run[w].job] = row[run[w].job]]
        \/ /\ row[run[w].job].status = "done"
           /\ \E r \in Row : row' = [row EXCEPT ![run[w].job] = r]
    <3>1. row[run[w].job] \in Row
      BY <1>2, <2>2
    <3>2. /\ MarkLadderUnavailable(row[run[w].job]) \in Row
          /\ MarkLadderReady(row[run[w].job]) \in Row
          /\ MarkPreviewReady(row[run[w].job]) \in Row
      BY <3>1, WritesAreRows
    <3> QED
      BY <1>23, <3>2
      DEF GiveUpLadder, RecordLadder, RecordPreview, Write, AwaitsLadder, AwaitsPreview
  <2>4. \A j \in Jobs : HoldsClaim(w, j) \/ row[j].status \in {"processing", "absent"}
                           => row'[j] = row[j]
    BY <1>2, <1>5, <2>2, <2>3
  <2> QED
    BY <1>21, <2>1, <2>4
<1>24. ASSUME NEW w \in Workers, NEW pc, Go(w, pc), reaper' = reaper, claimant' = claimant,
              run[w].pc \in Holding, pc \notin Holding,
              \A j \in Jobs : j # run[w].job => row'[j] = row[j]
       PROVE  ClaimsHold'
  <2>1. /\ run'[w].pc = pc /\ \A v \in Workers \ {w} : run'[v] = run[v]
    BY <1>24, GoKeeps
  <2>2. \A j \in Jobs : ~ HoldsClaim(w, j)'
    BY <1>24, <2>1 DEF HoldsClaim
  <2>3. HoldsClaim(w, run[w].job) /\ run[w].job \in Jobs
    BY <1>3, <1>4, <1>24
  <2>4. \A v \in Workers, j \in Jobs : HoldsClaim(v, j) /\ HoldsClaim(v, j)' => row'[j] = row[j]
    BY <1>24, <2>2, <2>3 DEF ClaimsHold, AtMostOneRunner
  <2> QED
    BY <1>20, <1>24, <2>1, <2>2, <2>4
<1>25. ASSUME NEW w \in Workers, RecordDone(w) \/ RecordFailure(w) \/ GiveBack(w)
       PROVE  ClaimsHold'
  <2>1. /\ reaper' = reaper /\ claimant' = claimant /\ run[w].pc \in Holding
        /\ \E pc \in {"finish", "handoff", "retry"} : Go(w, pc)
    BY <1>25 DEF RecordDone, RecordFailure, GiveBack
  <2>2. row' = row \/ \E r : row' = [row EXCEPT ![run[w].job] = r]
    BY <1>25 DEF RecordDone, RecordFailure, GiveBack, Write
  <2>3. \A j \in Jobs : j # run[w].job => row'[j] = row[j]
    BY <1>2, <2>2
  <2> QED
    BY <1>24, <2>1, <2>3
<1>26. ASSUME NEW w \in Workers, StepReturns(w) PROVE ClaimsHold'
  <2>1. /\ run'[w].job = run[w].job /\ run'[w].kind = run[w].kind /\ run[w].pc = "running"
        /\ \A v \in Workers \ {w} : run'[v] = run[v]
    BY <1>2, <1>26 DEF StepReturns, Runs, IdleRun
  <2>2. \A j \in Jobs : HoldsClaim(w, j)' => HoldsClaim(w, j)
    BY <2>1 DEF HoldsClaim, Running
  <2>3. reaper' = reaper /\ claimant' = claimant /\ row' = row
    BY <1>26 DEF StepReturns
  <2> QED
    BY <1>20, <2>1, <2>2, <2>3
<1>27. ASSUME NEW w \in Workers, Finish(w) \/ ReturnRetry(w) \/ RunErrors(w) \/ Crash(w)
       PROVE  ClaimsHold'
  <2>1. Leave(w) /\ reaper' = reaper /\ claimant' = claimant /\ row' = row
    BY <1>27 DEF Finish, ReturnRetry, RunErrors, Crash
  <2>2. run'[w].pc = "idle" /\ \A v \in Workers \ {w} : run'[v] = run[v]
    BY <2>1, LeaveKeeps
  <2>3. \A j \in Jobs : ~ HoldsClaim(w, j)'
    BY <2>2 DEF HoldsClaim
  <2> QED
    BY <1>20, <2>1, <2>2, <2>3
<1>28. ASSUME NEW w \in Workers, NEW k \in Kinds, NEW i \in Jobs, Deliver(w, k, i)
       PROVE  ClaimsHold'
  <2>1. run'[w].pc \in {"claim", "read"} /\ \A v \in Workers \ {w} : run'[v] = run[v]
    BY <1>2, <1>28 DEF Deliver
  <2>2. \A j \in Jobs : ~ HoldsClaim(w, j)'
    BY <2>1 DEF HoldsClaim
  <2>3. reaper' = reaper /\ claimant' = claimant /\ row' = row
    BY <1>28 DEF Deliver
  <2> QED
    BY <1>20, <2>1, <2>2, <2>3
<1>29. ASSUME NEW w \in Workers, SigTerm(w) \/ HeartbeatLapses(w) PROVE ClaimsHold'
  <2>1. run' = run /\ reaper' = reaper /\ claimant' = claimant /\ row' = row
    BY <1>8, <1>29 DEF SigTerm, HeartbeatLapses
  <2>2. \A j \in Jobs : HoldsClaim(w, j)' => HoldsClaim(w, j)
    BY <2>1 DEF HoldsClaim, Running
  <2> QED
    BY <1>20, <2>1, <2>2
(* The claim: the row was queued, so nobody held it, and no pass in        *)
(* progress has it on its list.                                            *)
<1>30. ASSUME NEW w \in Workers, Claim(w) PROVE ClaimsHold'
  <2> DEFINE j == run[w].job
  <2>1. j \in Jobs /\ run[w].pc = "claim" /\ run[w].kind = "mp4"
    BY <1>3, <1>30 DEF Claim, KindOfPc, Mp4Pc
  <2>2. reaper' = reaper
    BY <1>30 DEF Claim
  <2>3. CASE Go(w, "finish") /\ UNCHANGED <<row, left, claimant>>
    BY <1>21, <2>2, <2>3
  <2>4. CASE /\ row[j].status = "queued"
             /\ row' = [row EXCEPT ![j] = MarkProcessing(row[j])]
             /\ claimant' = [claimant EXCEPT ![j] = w]
             /\ ~ PassStalled(j)
             /\ Go(w, "running")
    <3>1. /\ run'[w].pc = "running" /\ run'[w].job = j /\ run'[w].kind = "mp4"
          /\ \A v \in Workers \ {w} : run'[v] = run[v]
      BY <2>1, <2>4, GoKeeps
    <3>2. MarkProcessing(row[j]).status = "processing" /\ MarkProcessing(row[j]).age = Fresh
      <4>1. row[j] \in Row
        BY <1>2, <2>1
      <4> QED
        BY <4>1 DEF MarkProcessing, Transition, Row
    <3>3. \A v \in Workers : ~ HoldsClaim(v, j)
      BY <1>5, <2>1, <2>4
    <3>4. j \notin reaper.doomed
      BY <2>4 DEF PassStalled, ClaimsHold, Punctual
    <3>5. /\ row'[j].status = "processing" /\ row'[j].age <= Abandoned
          /\ j \notin reaper'.doomed /\ claimant'[j] = w
      BY <1>2, <1>7, <2>1, <2>2, <2>4, <3>2, <3>4
    <3>6. \A v \in Workers, i \in Jobs : HoldsClaim(v, i)' =>
             \/ v = w /\ i = j
             \/ i # j /\ HoldsClaim(v, i) /\ row'[i] = row[i] /\ claimant'[i] = claimant[i]
      <4> SUFFICES ASSUME NEW v \in Workers, NEW i \in Jobs, HoldsClaim(v, i)'
                   PROVE  \/ v = w /\ i = j
                          \/ /\ i # j /\ HoldsClaim(v, i) /\ row'[i] = row[i]
                             /\ claimant'[i] = claimant[i]
        OBVIOUS
      <4>1. CASE v = w
        BY <3>1, <4>1 DEF HoldsClaim, Running
      <4>2. CASE v # w
        <5>1. HoldsClaim(v, i)
          BY <3>1, <4>2 DEF HoldsClaim, Running
        <5> QED
          BY <1>2, <2>1, <2>4, <3>3, <5>1
      <4> QED
        BY <4>1, <4>2
    <3>7. \A v \in Workers, i \in Jobs : ClaimIsGood(v, i)'
      <4> SUFFICES ASSUME NEW v \in Workers, NEW i \in Jobs, HoldsClaim(v, i)'
                   PROVE  /\ row'[i].status \in {"processing", "absent"}
                          /\ row'[i].age <= Abandoned
                          /\ i \notin reaper'.doomed
                          /\ Present(i)' => claimant'[i] = v
        BY DEF ClaimIsGood
      <4>1. CASE v = w /\ i = j
        BY <3>5, <4>1
      <4>2. CASE i # j /\ HoldsClaim(v, i) /\ row'[i] = row[i] /\ claimant'[i] = claimant[i]
        BY <2>2, <4>2 DEF ClaimsHold, ClaimIsGood, Present
      <4> QED
        BY <3>6, <4>1, <4>2
    <3>8. AtMostOneRunner'
      <4> SUFFICES ASSUME NEW i \in Jobs, NEW u \in Workers, NEW v \in Workers,
                          HoldsClaim(u, i)', HoldsClaim(v, i)'
                   PROVE  u = v
        BY DEF AtMostOneRunner
      <4> QED
        BY <3>6 DEF ClaimsHold, AtMostOneRunner
    <3> QED
      BY <1>1, <3>7, <3>8 DEF ClaimsHold
  <2> QED
    BY <1>8, <1>30, <2>3, <2>4 DEF Claim, Claimable, Write
<1> QED
  BY <1>10, <1>22, <1>23, <1>25, <1>26, <1>27, <1>28, <1>29, <1>30
  DEF Next, NobodysRun, WorkerStep, WorkerFault

LEMMA ClaimsHoldInit ==
    ASSUME PipelineAssumption, Init, Limits["lapse"] = 0, Limits["slow"] = 0
    PROVE  ClaimsHold
  BY DEF Init, ClaimsHold, Punctual, ClaimIsGood, AtMostOneRunner, HoldsClaim, RestingReaper,
         IdleRun

(* A job is encoded by one worker at a time where no heartbeat lapses and  *)
(* no run, request or pass outlasts the clocks the reaper trusts; crashes, *)
(* give-backs, retries, lost entries and duplicate deliveries are allowed. *)
THEOREM OneRunner ==
    ASSUME Limits["lapse"] = 0, Limits["slow"] = 0
    PROVE  Spec => []AtMostOneRunner
<1>1. Init => ClaimsHold
  BY PipelineAssumption, ClaimsHoldInit
<1>2. ClaimsHold => AtMostOneRunner
  BY DEF ClaimsHold
<1> QED
  BY <1>1, <1>2, TypeCorrect, RowsConsistentInit, RowsConsistentStep, FirstUseInit, FirstUseStep,
     KindOfPcInit, KindOfPcStep, ClaimsHoldStep, PTL DEF Spec

(* A run gives back only its own claim, under the same limits: a worker    *)
(* that has overslept its lease would give back its successor's.           *)
THEOREM GivesBackOwnClaim ==
    ASSUME Limits["lapse"] = 0, Limits["slow"] = 0
    PROVE  Spec => GiveBackOwnClaim
<1> DEFINE A == \A j \in Jobs :
                    row[j].status = "processing" /\ row'[j].status = "queued" =>
                        \E w \in Workers : /\ claimant[j] = w
                                           /\ HoldsClaim(w, j) /\ run'[w].pc = "retry"
<1>1. Init => ClaimsHold
  BY PipelineAssumption, ClaimsHoldInit
<1>2. ASSUME TypeOK, RowsConsistent, KindOfPc, ClaimsHold, [Next]_vars PROVE [A]_vars
  <2> SUFFICES ASSUME NEW j \in Jobs, row[j].status = "processing", row'[j].status = "queued"
               PROVE  \E w \in Workers : /\ claimant[j] = w
                                         /\ HoldsClaim(w, j) /\ run'[w].pc = "retry"
    OBVIOUS
  <2>1. PICK w \in Workers : run[w].job = j /\ run[w].pc = "raised" /\ Go(w, "retry")
    <3>1. ~ CreateJob(j) /\ ~ RetryCommit(j)
      BY <1>2 DEF CreateJob, RetryCommit, RowsConsistent, Consistent
    <3> QED
      BY <1>2, <3>1, WhoQueues DEF GivesBack, GiveBack
  <2>2. HoldsClaim(w, j)
    BY <1>2, <2>1 DEF HoldsClaim, Running, KindOfPc, Mp4Pc
  <2>3. claimant[j] = w
    BY <1>2, <2>2 DEF ClaimsHold, ClaimIsGood, Present
  <2>4. run'[w].pc = "retry"
    BY <1>2, <2>1, GoKeeps
  <2> QED
    BY <2>2, <2>3, <2>4
<1>3. Spec => [][A]_vars
  BY <1>1, <1>2, TypeCorrect, RowsConsistentInit, RowsConsistentStep, FirstUseInit, FirstUseStep,
     KindOfPcInit, KindOfPcStep, ClaimsHoldStep, PTL DEF Spec
<1> QED
  BY <1>3 DEF GiveBackOwnClaim

-----------------------------------------------------------------------------
(* A committed retry and its delivery, where no worker crashes, no run     *)
(* meets an unhandled error and Redis loses nothing.                       *)

Waits(w, j) == Running(w, "mp4", j) /\ run[w].pc = "claim"

(* Between a retry's enqueue and its commit the entry stays known, and its *)
(* id is on the list or with a worker that waits for the row's lock.       *)
Published(j) ==
    /\ entry["mp4"][j].state # "none"
    /\ waiting["mp4"][j] > 0 \/ \E w \in Workers : Waits(w, j)

Dependable == left["crash"] = 0 /\ left["error"] = 0 /\ left["loss"] = 0

Deliveries == Dependable /\ \A j \in Jobs : api[j] = "delivered" => Published(j)

LEMMA DeliveriesStep ==
    ASSUME TypeOK, Deliveries, [Next]_vars
    PROVE  Deliveries'
<1>1. Dependable'
  BY LimitsHold DEF Deliveries, Dependable, Bounded
<1>2. /\ api \in [Jobs -> ApiState] /\ run \in [Workers -> Runs]
      /\ entry \in [Kinds -> [Jobs -> Entries]] /\ waiting \in [Kinds -> [Jobs -> Nat]]
  BY DEF TypeOK
<1>3. \A w \in Workers : run[w].pc # "idle" => run[w].job \in Jobs /\ run[w].kind \in Kinds
  BY RunTyped DEF TypeOK
<1>4. ~ Spend("crash") /\ ~ Spend("error") /\ ~ Spend("loss")
  BY DEF Spend, Deliveries, Dependable
<1>5. "mp4" \in Kinds /\ "ladder" \in Kinds
  BY DEF Kinds
<1> SUFFICES ASSUME NEW j \in Jobs, api'[j] = "delivered"
             PROVE  Published(j)'
  BY <1>1 DEF Deliveries
<1>6. waiting["mp4"][j] \in Nat
  BY <1>2, <1>5
(* The entry stays known, the id stays on the list, the worker keeps waiting. *)
<1>7. ASSUME api' = api, run' = run, entry' = entry, waiting' = waiting PROVE Published(j)'
  BY <1>7 DEF Deliveries, Published, Waits, Running
<1>8. ASSUME api[j] = "delivered", run' = run, NEW k \in Kinds, NEW i \in Jobs, Enqueue(k, i)
      PROVE  Published(j)'
  <2>1. waiting'["mp4"][j] >= waiting["mp4"][j] /\ entry'["mp4"][j].state # "none"
    BY <1>5, <1>6, <1>8, EnqueueKeeps DEF Deliveries, Published
  <2>2. waiting'["mp4"][j] \in Nat
    BY <1>5, <1>6, <1>8, EnqueueKeeps
  <2> QED
    BY <1>6, <1>8, <2>1, <2>2 DEF Deliveries, Published, Waits, Running
<1>9. ASSUME api[j] = "delivered", NEW w \in Workers, run[w].pc # "claim",
             \A v \in Workers \ {w} : run'[v] = run[v],
             entry'["mp4"][j].state # "none", waiting'["mp4"][j] = waiting["mp4"][j]
      PROVE  Published(j)'
  <2>1. \A v \in Workers : Waits(v, j) => Waits(v, j)'
    BY <1>9 DEF Waits, Running
  <2> QED
    BY <1>9, <2>1 DEF Deliveries, Published
(* The requests.                                                           *)
<1>10. ASSUME NEW i \in Jobs, RetryDeliver(i) PROVE Published(j)'
  <2>1. CASE i = j
    <3>1. /\ waiting'["mp4"][j] = waiting["mp4"][j] + 1
          /\ entry'["mp4"][j] = [state |-> "queued", tries |-> 0]
      BY <1>5, <1>10, <2>1, EnqueueKeeps DEF RetryDeliver
    <3> QED
      BY <1>6, <3>1 DEF Published
  <2>2. CASE i # j
    BY <1>2, <1>5, <1>8, <1>10, <2>2 DEF RetryDeliver
  <2> QED
    BY <2>1, <2>2
<1>11. ASSUME NEW i \in Jobs, EnqueueNew(i) PROVE Published(j)'
  BY <1>2, <1>5, <1>8, <1>11 DEF EnqueueNew
<1>12. ASSUME NEW i \in Jobs,
              \/ CreateJob(i) \/ RetryCommit(i) \/ StoreSource(i) \/ UploadFails(i)
              \/ RetryPrepare(i) \/ RetryRollback(i)
       PROVE  Published(j)'
  <2>1. api[j] = "delivered" /\ run' = run /\ entry' = entry /\ waiting' = waiting
    BY <1>2, <1>12 DEF CreateJob, RetryCommit, StoreSource, UploadFails, RetryPrepare, RetryRollback
  <2> QED
    BY <2>1 DEF Deliveries, Published, Waits, Running
<1>13. ASSUME NEW i \in Jobs,
              \/ PurgeStorage(i) \/ TrashJob(i) \/ RestoreJob(i) \/ DeleteJobNow(i)
              \/ PurgeRefused(i) \/ TimePasses(i) \/ TrashExpires(i)
       PROVE  Published(j)'
  BY <1>7, <1>13
  DEF PurgeStorage, TrashJob, RestoreJob, DeleteJobNow, PurgeRefused, TimePasses, TrashExpires
(* RQ: a finished entry expires only when no retry has the row locked.     *)
<1>20. ASSUME NEW k \in Kinds, NEW i \in Jobs, QueueStep(k, i) \/ RedisLoses(k, i)
       PROVE  Published(j)'
  <2>1. api[j] = "delivered" /\ run' = run
    BY <1>20 DEF QueueStep, DropUnknown, EntryExpires, EntryAbandoned, RedisLoses
  <2>2. Published(j)
    BY <2>1 DEF Deliveries
  <2>3. ~ RedisLoses(k, i)
    BY <1>4 DEF RedisLoses
  <2>4. CASE DropUnknown(k, i)
    <3>1. k # "mp4" \/ i # j
      BY <2>2, <2>4 DEF DropUnknown, Published
    <3>2. waiting'["mp4"][j] = waiting["mp4"][j] /\ entry' = entry
      BY <1>2, <1>5, <2>4, <3>1 DEF DropUnknown
    <3> QED
      BY <2>1, <2>2, <3>2 DEF Published, Waits, Running
  <2>5. CASE EntryExpires(k, i)
    <3>1. i # j
      BY <2>1, <2>5 DEF EntryExpires, Unlocked
    <3>2. entry'["mp4"][j] = entry["mp4"][j] /\ waiting' = waiting
      BY <1>2, <1>5, <2>5, <3>1 DEF EntryExpires
    <3> QED
      BY <2>1, <2>2, <3>2 DEF Published, Waits, Running
  <2>6. CASE EntryAbandoned(k, i)
    <3>1. waiting' = waiting /\ entry' = [entry EXCEPT ![k][i].state = "failed"]
      BY <2>6 DEF EntryAbandoned
    <3>2. entry'["mp4"][j].state \in {"failed", entry["mp4"][j].state}
      BY <1>2, <1>5, <3>1 DEF Entries
    <3> QED
      BY <2>1, <2>2, <3>1, <3>2 DEF Published, Waits, Running
  <2> QED
    BY <1>20, <2>3, <2>4, <2>5, <2>6 DEF QueueStep
<1>21. ASSUME NEW w \in Workers, NEW k \in Kinds, NEW i \in Jobs, Deliver(w, k, i)
       PROVE  Published(j)'
  <2>1. Published(j) /\ api' = api /\ run[w].pc = "idle"
    BY <1>21 DEF Deliver, Deliveries
  <2>2. entry' = [entry EXCEPT ![k][i].state = "started"]
    BY <1>21 DEF Deliver
  <2>3. entry'["mp4"][j].state \in {"started", entry["mp4"][j].state}
    BY <1>2, <1>5, <2>2 DEF Entries
  <2>4. CASE k = "mp4" /\ i = j
    <3>1. Waits(w, j)'
      BY <1>2, <1>21, <2>4 DEF Deliver, Waits, Running
    <3> QED
      BY <2>1, <2>3, <3>1 DEF Published
  <2>5. CASE k # "mp4" \/ i # j
    <3>1. waiting'["mp4"][j] = waiting["mp4"][j]
      BY <1>2, <1>5, <1>21, <2>5 DEF Deliver
    <3>2. \A v \in Workers \ {w} : run'[v] = run[v]
      BY <1>2, <1>21 DEF Deliver
    <3> QED
      BY <1>9, <2>1, <2>3, <3>1, <3>2 DEF Published
  <2> QED
    BY <2>4, <2>5
(* The workers.  A claim waits for the retry's transaction to end.         *)
<1>30. ASSUME NEW w \in Workers, Claim(w) PROVE Published(j)'
  <2>1. PICK pc : Go(w, pc)
    BY <1>30 DEF Claim
  <2>2. api[j] = "delivered" /\ run[w].job # j /\ entry' = entry /\ waiting' = waiting
    BY <1>30 DEF Claim, Unlocked
  <2>3. \A v \in Workers \ {w} : run'[v] = run[v]
    BY <2>1, GoKeeps
  <2>4. \A v \in Workers : Waits(v, j) => Waits(v, j)'
    BY <2>2, <2>3 DEF Waits, Running
  <2> QED
    BY <2>2, <2>4 DEF Deliveries, Published
<1>31. ASSUME NEW w \in Workers, NEW pc, Go(w, pc), run[w].pc # "claim",
              api' = api, entry' = entry, waiting' = waiting
       PROVE  Published(j)'
  <2>1. \A v \in Workers \ {w} : run'[v] = run[v]
    BY <1>31, GoKeeps
  <2> QED
    BY <1>9, <1>31, <2>1 DEF Deliveries, Published
<1>32. ASSUME NEW w \in Workers,
              \/ StepRaises(w) \/ RecordDone(w) \/ RecordFailure(w) \/ GiveBack(w) \/ ReadRow(w)
              \/ BuildReturns(w) \/ BuildRaises(w) \/ GiveUpLadder(w) \/ GiveBackLadder(w)
              \/ RecordLadder(w) \/ DiscardLadder(w) \/ StorePreview(w) \/ PreviewRaises(w)
              \/ RecordPreview(w)
       PROVE  Published(j)'
  BY <1>31, <1>32
  DEF StepRaises, RecordDone, RecordFailure, GiveBack, ReadRow, BuildReturns, BuildRaises,
      GiveUpLadder, GiveBackLadder, RecordLadder, DiscardLadder, StorePreview, PreviewRaises,
      RecordPreview
<1>33. ASSUME NEW w \in Workers, HandOffLadder(w) \/ HandOffRefused(w) PROVE Published(j)'
  <2>1. PICK pc : Go(w, pc)
    BY <1>33 DEF HandOffLadder, HandOffRefused
  <2>2. api[j] = "delivered" /\ run[w].pc = "handoff" /\ run[w].job \in Jobs
    BY <1>3, <1>33 DEF HandOffLadder, HandOffRefused
  <2>3. UNCHANGED <<entry, waiting>> \/ Enqueue("ladder", run[w].job)
    BY <1>33 DEF HandOffLadder, HandOffRefused
  <2>4. waiting'["mp4"][j] = waiting["mp4"][j] /\ entry'["mp4"][j] = entry["mp4"][j]
    BY <1>5, <2>2, <2>3, EnqueueKeeps
  <2>5. \A v \in Workers \ {w} : run'[v] = run[v]
    BY <2>1, GoKeeps
  <2> QED
    BY <1>9, <2>2, <2>4, <2>5 DEF Deliveries, Published
<1>34. ASSUME NEW w \in Workers, StepReturns(w) PROVE Published(j)'
  <2>1. run[w].pc = "running" /\ \A v \in Workers \ {w} : run'[v] = run[v]
    BY <1>2, <1>34 DEF StepReturns
  <2> QED
    BY <1>9, <1>34, <2>1 DEF StepReturns, Deliveries, Published
<1>35. ASSUME NEW w \in Workers, Finish(w) \/ ReturnRetry(w) PROVE Published(j)'
  <2>1. api[j] = "delivered" /\ run[w].pc \in {"finish", "retry"} /\ Leave(w)
    BY <1>35 DEF Finish, ReturnRetry
  <2>2. run[w].job \in Jobs /\ run[w].kind \in Kinds
    BY <1>3, <2>1
  <2>3. \A v \in Workers \ {w} : run'[v] = run[v]
    BY <2>1, LeaveKeeps
  <2>4. entry'["mp4"][j].state # "none"
    <3>1. \/ \E x \in {"finished", "failed"} :
                entry' = [entry EXCEPT ![run[w].kind][run[w].job].state = x]
          \/ entry' = [entry EXCEPT ![run[w].kind][run[w].job] =
                                       [state |-> "queued", tries |-> run[w].tries + 1]]
      BY <1>35 DEF Finish, ReturnRetry
    <3>2. entry'["mp4"][j].state \in {"finished", "failed", "queued", entry["mp4"][j].state}
      <4> DEFINE k == run[w].kind
                 i == run[w].job
      <4>1. entry[k][i] \in Entries /\ entry["mp4"][j] \in Entries
        BY <1>2, <1>5, <2>2
      <4>2. CASE k # "mp4" \/ i # j
        BY <1>2, <1>5, <2>2, <3>1, <4>2
      <4>3. CASE k = "mp4" /\ i = j
        <5>1. \/ \E x \in {"finished", "failed"} :
                    entry'["mp4"][j] = [entry["mp4"][j] EXCEPT !.state = x]
              \/ entry'["mp4"][j] = [state |-> "queued", tries |-> run[w].tries + 1]
          BY <1>2, <1>5, <2>2, <3>1, <4>3
        <5> QED
          BY <4>1, <5>1 DEF Entries
      <4> QED
        BY <4>2, <4>3
    <3> QED
      BY <2>1, <3>2 DEF Deliveries, Published
  <2>5. \/ waiting'["mp4"][j] = waiting["mp4"][j]
        \/ waiting'["mp4"][j] = waiting["mp4"][j] + 1
    <3>1. \/ waiting' = waiting
          \/ waiting' = [waiting EXCEPT ![run[w].kind][run[w].job] = @ + 1]
      BY <1>35 DEF Finish, ReturnRetry
    <3> QED
      BY <1>2, <1>5, <2>2, <3>1
  <2>6. CASE waiting'["mp4"][j] = waiting["mp4"][j]
    BY <1>9, <2>1, <2>3, <2>4, <2>6
  <2>7. CASE waiting'["mp4"][j] = waiting["mp4"][j] + 1
    BY <1>6, <2>4, <2>7 DEF Published
  <2> QED
    BY <2>5, <2>6, <2>7
<1>36. ASSUME NEW w \in Workers, RunErrors(w) \/ Crash(w) \/ SigTerm(w) \/ HeartbeatLapses(w)
       PROVE  Published(j)'
  BY <1>4, <1>7, <1>36 DEF RunErrors, Crash, SigTerm, HeartbeatLapses
(* The reaper.                                                             *)
<1>40. ASSUME ReaperStep \/ PassFails PROVE Published(j)'
  <2>1. api' = api /\ run' = run
    BY <1>40
    DEF ReaperStep, ListProcessing, ListQueued, ListLadders, ListOrphans, ListTrash, EndPass,
        CheckHeartbeat, FailStale, RequeueStale, SettleStaleLadder, SweepSource, EmptyTrash, PassFails
  <2>2. \/ UNCHANGED <<entry, waiting>>
        \/ \E i \in Jobs : Enqueue("mp4", i) \/ Enqueue("ladder", i)
    BY <1>40
    DEF ReaperStep, ListProcessing, ListQueued, ListLadders, ListOrphans, ListTrash, EndPass,
        CheckHeartbeat, FailStale, RequeueStale, SettleStaleLadder, SweepSource, EmptyTrash, PassFails
  <2> QED
    BY <1>5, <1>7, <1>8, <2>1, <2>2
<1>50. CASE UNCHANGED vars
  BY <1>7, <1>50 DEF vars
<1> QED
  BY <1>10, <1>11, <1>12, <1>13, <1>20, <1>21, <1>30, <1>32, <1>33, <1>34, <1>35, <1>36, <1>40,
     <1>50
  DEF Next, ApiStep, UserStep, WorkerStep, WorkerFault

LEMMA DeliveriesInit ==
    ASSUME Init, Limits["crash"] = 0, Limits["error"] = 0, Limits["loss"] = 0
    PROVE  Deliveries
  BY DEF Init, Deliveries, Dependable

(* When a retry commits, the delivery it published is still to be used.    *)
(* The limits are needed: a worker that takes the delivery and crashes, or *)
(* fails, before the commit has used it up, and so has a loss in Redis.    *)
THEOREM CommittedRetryIsDelivered ==
    ASSUME Limits["crash"] = 0, Limits["error"] = 0, Limits["loss"] = 0
    PROVE  Spec => RetryIsDelivered
<1> DEFINE A == \A j \in Jobs : row[j].status = "failed" /\ row'[j].status = "queued" =>
                    \/ waiting["mp4"][j] > 0
                    \/ \E w \in Workers : Running(w, "mp4", j) /\ run[w].pc = "claim"
<1>1. Init => Deliveries
  BY DeliveriesInit
<1>2. ASSUME TypeOK, RowsConsistent, Deliveries, [Next]_vars PROVE [A]_vars
  <2> SUFFICES ASSUME NEW j \in Jobs, row[j].status = "failed", row'[j].status = "queued"
               PROVE  waiting["mp4"][j] > 0 \/ \E w \in Workers : Waits(w, j)
    BY DEF Waits
  <2>1. ~ CreateJob(j) /\ \A w \in Workers : ~ GivesBack(w, j)
    BY <1>2 DEF CreateJob, GivesBack, RowsConsistent, Consistent
  <2>2. api[j] = "delivered"
    BY <1>2, <2>1, WhoQueues DEF RetryCommit
  <2> QED
    BY <1>2, <2>2 DEF Deliveries, Published
<1>3. Spec => [][A]_vars
  BY <1>1, <1>2, TypeCorrect, RowsConsistentInit, RowsConsistentStep, DeliveriesStep, PTL DEF Spec
<1> QED
  BY <1>3 DEF RetryIsDelivered

-----------------------------------------------------------------------------
(* A queued row, where no worker crashes and no run errs.                   *)

OnItsWay(j) ==
    \/ waiting["mp4"][j] > 0
    \/ entry["mp4"][j].state \in {"none", "finished"}
    \/ \E w \in Workers : Running(w, "mp4", j) /\ run[w].pc \in {"claim", "retry"}

(* RQ has had no entry of a job that has no row yet, a task asks for its   *)
(* next try only where RQ still grants one, and what is true of a queued   *)
(* row is true as soon as its retry is delivered, before it is committed.  *)
Steady == left["crash"] = 0 /\ left["error"] = 0

QueuedHold ==
    /\ Steady
    /\ \A j \in Jobs : api[j] \in {"new", "stored"} => entry["mp4"][j].state = "none"
    /\ \A w \in Workers : run[w].pc = "retry" => run[w].tries < MaxInterruptions
    /\ \A j \in Jobs : row[j].status = "queued" \/ api[j] = "delivered" => OnItsWay(j)

(* Only the retry route's enqueue delivers a retry.                        *)
LEMMA WhoDelivers ==
    ASSUME TypeOK, [Next]_vars, NEW j \in Jobs, api'[j] = "delivered", api[j] # "delivered"
    PROVE  RetryDeliver(j)
<1>1. api \in [Jobs -> ApiState] /\ api' # api
  BY DEF TypeOK
<1>2. ASSUME NEW i \in Jobs, NEW to, api' = [api EXCEPT ![i] = to] PROVE i = j /\ to = "delivered"
  BY <1>1, <1>2
<1>3. ASSUME NEW i \in Jobs, ApiStep(i) PROVE RetryDeliver(j)
  BY <1>1, <1>2, <1>3
  DEF ApiStep, CreateJob, EnqueueNew, RetryDeliver, RetryCommit, PurgeStorage
<1>4. ASSUME NEW i \in Jobs, UserStep(i) \/ TimePasses(i) \/ TrashExpires(i) PROVE FALSE
  BY <1>1, <1>2, <1>4
  DEF UserStep, StoreSource, UploadFails, RetryPrepare, RetryRollback, TrashJob, RestoreJob,
      DeleteJobNow, PurgeRefused, TimePasses, TrashExpires
<1>5. ASSUME NEW k \in Kinds, NEW i \in Jobs, QueueStep(k, i) \/ RedisLoses(k, i) PROVE FALSE
  BY <1>1, <1>5 DEF QueueStep, DropUnknown, EntryExpires, EntryAbandoned, RedisLoses
<1>6. ASSUME NEW w \in Workers, WorkerStep(w) PROVE FALSE
  BY <1>1, <1>6
  DEF WorkerStep, Deliver, Claim, StepReturns, StepRaises, RecordDone, RecordFailure, GiveBack,
      HandOffLadder, ReadRow, BuildReturns, BuildRaises, GiveUpLadder, GiveBackLadder,
      RecordLadder, DiscardLadder, StorePreview, PreviewRaises, RecordPreview, Finish, ReturnRetry
<1>7. ASSUME NEW w \in Workers, WorkerFault(w) PROVE FALSE
  BY <1>1, <1>7 DEF WorkerFault, HandOffRefused, RunErrors, Crash, SigTerm, HeartbeatLapses
<1>8. ASSUME ReaperStep \/ PassFails PROVE FALSE
  BY <1>1, <1>8
  DEF ReaperStep, ListProcessing, ListQueued, ListLadders, ListOrphans, ListTrash, EndPass,
      CheckHeartbeat, FailStale, RequeueStale, SettleStaleLadder, SweepSource, EmptyTrash, PassFails
<1> QED
  BY <1>1, <1>3, <1>4, <1>5, <1>6, <1>7, <1>8 DEF Next, vars

(* What a step may do to the MP4 entry of a job: nobody takes a delivery   *)
(* off the list or out of a worker's hands without leaving a trace.        *)
LEMMA WayStep ==
    ASSUME TypeOK, KindOfPc, QueuedHold, [Next]_vars, NEW j \in Jobs
    PROVE  /\ OnItsWay(j) =>
                  OnItsWay(j)' \/ (row'[j].status # "queued" /\ api'[j] # "delivered")
           /\ entry'["mp4"][j].state # "none" =>
                  \/ entry["mp4"][j].state # "none"
                  \/ api'[j] \notin {"new", "stored"} \/ j \in Listed
                  \/ \E w \in Workers : run[w].job = j
<1> DEFINE Held(w) == Running(w, "mp4", j) /\ run[w].pc \in {"claim", "retry"}
           Way == OnItsWay(j) =>
                      OnItsWay(j)' \/ (row'[j].status # "queued" /\ api'[j] # "delivered")
           New == entry'["mp4"][j].state # "none" =>
                      \/ entry["mp4"][j].state # "none"
                      \/ api'[j] \notin {"new", "stored"} \/ j \in Listed
                      \/ \E w \in Workers : run[w].job = j
<1>1. /\ run \in [Workers -> Runs] /\ api \in [Jobs -> ApiState] /\ row \in [Jobs -> Row]
      /\ entry \in [Kinds -> [Jobs -> Entries]] /\ waiting \in [Kinds -> [Jobs -> Nat]]
  BY DEF TypeOK
<1>2. \A w \in Workers : run[w].pc # "idle" => run[w].job \in Jobs /\ run[w].kind \in Kinds
  BY RunTyped DEF TypeOK
<1>3. ~ Spend("crash") /\ ~ Spend("error")
  BY DEF Spend, QueuedHold, Steady
<1>4. "mp4" \in Kinds /\ "ladder" \in Kinds
  BY DEF Kinds
<1>5. waiting["mp4"][j] \in Nat /\ entry["mp4"][j] \in Entries
  BY <1>1, <1>4
(* Steps that leave the entry and its list alone.                          *)
<1>6. ASSUME run' = run, UNCHANGED <<entry, waiting>> PROVE Way /\ New
  BY <1>6 DEF OnItsWay, Running
<1>7. ASSUME NEW w \in Workers, ~ Held(w), \A v \in Workers \ {w} : run'[v] = run[v],
             waiting'["mp4"][j] = waiting["mp4"][j], entry'["mp4"][j] = entry["mp4"][j]
      PROVE  Way /\ New
  <2>1. \A v \in Workers : Held(v) => Held(v)'
    BY <1>7 DEF Running
  <2> QED
    BY <1>7, <2>1 DEF OnItsWay
<1>8. ASSUME NEW w \in Workers, NEW pc, Go(w, pc), run[w].pc \notin {"claim", "retry"},
             UNCHANGED <<entry, waiting>>
      PROVE  Way /\ New
  BY <1>7, <1>8, GoKeeps
(* An enqueue puts the id on the list.                                     *)
<1>9. ASSUME NEW k \in Kinds, NEW i \in Jobs, Enqueue(k, i), k = "mp4" /\ i = j PROVE OnItsWay(j)'
  <2>1. waiting'["mp4"][j] = waiting["mp4"][j] + 1
    BY <1>4, <1>9, EnqueueKeeps
  <2> QED
    BY <1>5, <2>1 DEF OnItsWay
<1>10. ASSUME NEW k \in Kinds, NEW i \in Jobs, Enqueue(k, i), k # "mp4" \/ i # j
       PROVE  waiting'["mp4"][j] = waiting["mp4"][j] /\ entry'["mp4"][j] = entry["mp4"][j]
  BY <1>4, <1>10, EnqueueKeeps
<1>11. ASSUME run' = run, NEW k \in Kinds, NEW i \in Jobs, Enqueue(k, i), k # "mp4" \/ i # j
       PROVE  Way /\ New
  <2>1. waiting'["mp4"][j] = waiting["mp4"][j] /\ entry'["mp4"][j] = entry["mp4"][j]
    BY <1>10, <1>11
  <2> QED
    BY <1>11, <2>1 DEF OnItsWay, Running
<1>20. ASSUME NEW i \in Jobs, EnqueueNew(i) \/ RetryDeliver(i) PROVE Way /\ New
  <2>1. run' = run /\ Enqueue("mp4", i) /\ (i = j => api'[j] \in {"idle", "delivered"})
    BY <1>1, <1>20 DEF EnqueueNew, RetryDeliver
  <2> QED
    BY <1>4, <1>9, <1>11, <2>1
<1>21. ASSUME NEW i \in Jobs,
              \/ CreateJob(i) \/ RetryCommit(i) \/ PurgeStorage(i) \/ StoreSource(i)
              \/ UploadFails(i) \/ RetryPrepare(i) \/ RetryRollback(i) \/ TrashJob(i)
              \/ RestoreJob(i) \/ DeleteJobNow(i) \/ PurgeRefused(i) \/ TimePasses(i)
              \/ TrashExpires(i)
       PROVE  Way /\ New
  BY <1>6, <1>21
  DEF CreateJob, RetryCommit, PurgeStorage, StoreSource, UploadFails, RetryPrepare, RetryRollback,
      TrashJob, RestoreJob, DeleteJobNow, PurgeRefused, TimePasses, TrashExpires
<1>22. ASSUME NEW k \in Kinds, NEW i \in Jobs, DropUnknown(k, i) PROVE Way /\ New
  <2>1. run' = run /\ entry' = entry /\ entry[k][i].state = "none"
    BY <1>22 DEF DropUnknown
  <2>2. (k = "mp4" /\ i = j) \/ waiting'["mp4"][j] = waiting["mp4"][j]
    BY <1>1, <1>4, <1>22 DEF DropUnknown
  <2> QED
    BY <2>1, <2>2 DEF OnItsWay, Running
<1>23. ASSUME NEW k \in Kinds, NEW i \in Jobs, EntryExpires(k, i) \/ EntryAbandoned(k, i)
       PROVE  Way /\ New
  <2>1. /\ run' = run /\ waiting' = waiting
        /\ \/ entry[k][i].state = "finished" /\ entry' = [entry EXCEPT ![k][i] = NoEntry]
           \/ entry[k][i].state = "started" /\ entry' = [entry EXCEPT ![k][i].state = "failed"]
    BY <1>23 DEF EntryExpires, EntryAbandoned
  <2>2. CASE k = "mp4" /\ i = j
    <3>1. \/ entry["mp4"][j].state = "finished" /\ entry'["mp4"][j].state = "none"
          \/ entry["mp4"][j].state = "started"
      BY <1>1, <1>4, <2>1, <2>2 DEF NoEntry
    <3> QED
      BY <2>1, <3>1 DEF OnItsWay, Running
  <2>3. CASE k # "mp4" \/ i # j
    <3>1. entry'["mp4"][j] = entry["mp4"][j]
      BY <1>1, <1>4, <2>1, <2>3
    <3> QED
      BY <2>1, <3>1 DEF OnItsWay, Running
  <2> QED
    BY <2>2, <2>3
<1>24. ASSUME NEW k \in Kinds, NEW i \in Jobs, RedisLoses(k, i) PROVE Way /\ New
  <2>1. run' = run
    BY <1>24 DEF RedisLoses
  <2>2. CASE k = "mp4" /\ i = j
    <3>1. entry'["mp4"][j].state = "none"
      BY <1>1, <1>4, <1>24, <2>2 DEF RedisLoses, NoEntry
    <3> QED
      BY <3>1 DEF OnItsWay
  <2>3. CASE k # "mp4" \/ i # j
    <3>1. waiting'["mp4"][j] = waiting["mp4"][j] /\ entry'["mp4"][j] = entry["mp4"][j]
      BY <1>1, <1>4, <1>24, <2>3 DEF RedisLoses
    <3> QED
      BY <2>1, <3>1 DEF OnItsWay, Running
  <2> QED
    BY <2>2, <2>3
<1>25. ASSUME NEW w \in Workers, NEW k \in Kinds, NEW i \in Jobs, Deliver(w, k, i) PROVE Way /\ New
  <2>1. run[w].pc = "idle" /\ entry[k][i].state # "none" /\ \A v \in Workers \ {w} : run'[v] = run[v]
    BY <1>1, <1>25 DEF Deliver
  <2>2. CASE k = "mp4" /\ i = j
    <3>1. Held(w)'
      BY <1>1, <1>25, <2>2 DEF Deliver, Running
    <3> QED
      BY <2>1, <2>2, <3>1 DEF OnItsWay
  <2>3. CASE k # "mp4" \/ i # j
    <3>1. waiting'["mp4"][j] = waiting["mp4"][j] /\ entry'["mp4"][j] = entry["mp4"][j]
      BY <1>1, <1>4, <1>25, <2>3 DEF Deliver
    <3> QED
      BY <1>7, <2>1, <3>1
  <2> QED
    BY <2>2, <2>3
(* A claim that finds its row queued takes it; one that does not leaves    *)
(* nothing queued.                                                         *)
<1>30. ASSUME NEW w \in Workers, Claim(w) PROVE Way /\ New
  <2>1. UNCHANGED <<entry, waiting>> /\ \E pc \in {"running", "finish"} : Go(w, pc)
    BY <1>30 DEF Claim
  <2>2. \A v \in Workers \ {w} : run'[v] = run[v]
    BY <2>1, GoKeeps
  <2>3. CASE Held(w)
    <3>1. run[w].job = j
      BY <2>3 DEF Running
    <3>2. MarkProcessing(row[j]).status = "processing"
      BY <1>1 DEF MarkProcessing, Transition, Row
    <3>3. row'[j].status # "queued"
      BY <1>1, <1>30, <3>1, <3>2 DEF Claim, Claimable, Write
    <3>4. api'[j] # "delivered"
      BY <1>30, <3>1 DEF Claim, Unlocked
    <3> QED
      BY <2>1, <3>3, <3>4
  <2>4. CASE ~ Held(w)
    BY <1>7, <2>1, <2>2, <2>4
  <2> QED
    BY <2>3, <2>4
<1>31. ASSUME NEW w \in Workers,
              \/ StepRaises(w) \/ RecordDone(w) \/ RecordFailure(w) \/ GiveBack(w) \/ ReadRow(w)
              \/ BuildReturns(w) \/ BuildRaises(w) \/ GiveUpLadder(w) \/ GiveBackLadder(w)
              \/ RecordLadder(w) \/ DiscardLadder(w) \/ StorePreview(w) \/ PreviewRaises(w)
              \/ RecordPreview(w)
       PROVE  Way /\ New
  BY <1>8, <1>31
  DEF StepRaises, RecordDone, RecordFailure, GiveBack, ReadRow, BuildReturns, BuildRaises,
      GiveUpLadder, GiveBackLadder, RecordLadder, DiscardLadder, StorePreview, PreviewRaises,
      RecordPreview
<1>32. ASSUME NEW w \in Workers, StepReturns(w) PROVE Way /\ New
  <2>1. run[w].pc = "running" /\ \A v \in Workers \ {w} : run'[v] = run[v]
    BY <1>1, <1>32 DEF StepReturns
  <2> QED
    BY <1>7, <1>32, <2>1 DEF StepReturns
<1>33. ASSUME NEW w \in Workers, HandOffLadder(w) \/ HandOffRefused(w) PROVE Way /\ New
  <2>1. run[w].pc = "handoff" /\ \E pc \in {"finish", "giveup"} : Go(w, pc)
    BY <1>33 DEF HandOffLadder, HandOffRefused
  <2>2. run[w].job \in Jobs /\ (UNCHANGED <<entry, waiting>> \/ Enqueue("ladder", run[w].job))
    BY <1>2, <1>33, <2>1 DEF HandOffLadder, HandOffRefused
  <2>3. waiting'["mp4"][j] = waiting["mp4"][j] /\ entry'["mp4"][j] = entry["mp4"][j]
    BY <1>4, <1>10, <2>2
  <2> QED
    BY <1>7, <2>1, <2>3, GoKeeps
<1>34. ASSUME NEW w \in Workers, Finish(w) PROVE Way /\ New
  <2>1. run[w].pc = "finish" /\ Leave(w) /\ waiting' = waiting
        /\ entry' = [entry EXCEPT ![run[w].kind][run[w].job].state = "finished"]
    BY <1>34 DEF Finish
  <2>2. run[w].kind \in Kinds /\ run[w].job \in Jobs
    BY <1>2, <2>1
  <2>3. CASE run[w].kind = "mp4" /\ run[w].job = j
    <3>1. entry'["mp4"][j] = [entry["mp4"][j] EXCEPT !.state = "finished"]
      BY <1>1, <1>4, <2>1, <2>3
    <3>2. entry'["mp4"][j].state = "finished"
      BY <1>5, <3>1 DEF Entries
    <3> QED
      BY <2>3, <3>2 DEF OnItsWay
  <2>4. CASE run[w].kind # "mp4" \/ run[w].job # j
    <3>1. entry'["mp4"][j] = entry["mp4"][j]
      BY <1>1, <1>4, <2>1, <2>2, <2>4
    <3> QED
      BY <1>7, <2>1, <3>1, LeaveKeeps
  <2> QED
    BY <2>3, <2>4
<1>35. ASSUME NEW w \in Workers, ReturnRetry(w) PROVE Way /\ New
  <2>1. /\ run[w].pc = "retry" /\ Leave(w)
        /\ entry' = [entry EXCEPT ![run[w].kind][run[w].job] =
                                     [state |-> "queued", tries |-> run[w].tries + 1]]
        /\ waiting' = [waiting EXCEPT ![run[w].kind][run[w].job] = @ + 1]
    <3>1. run[w].tries < MaxInterruptions /\ run[w].tries \in Nat
      BY <1>35, RunTyped DEF ReturnRetry, QueuedHold, TypeOK
    <3> QED
      BY <1>35, <3>1, PipelineAssumption DEF ReturnRetry
  <2>2. run[w].kind \in Kinds /\ run[w].job \in Jobs
    BY <1>2, <2>1
  <2>3. CASE run[w].kind = "mp4" /\ run[w].job = j
    <3>1. waiting'["mp4"][j] = waiting["mp4"][j] + 1
      BY <1>1, <1>4, <2>1, <2>3
    <3> QED
      BY <1>5, <2>3, <3>1 DEF OnItsWay
  <2>4. CASE run[w].kind # "mp4" \/ run[w].job # j
    <3>1. waiting'["mp4"][j] = waiting["mp4"][j] /\ entry'["mp4"][j] = entry["mp4"][j]
      BY <1>1, <1>4, <2>1, <2>2, <2>4
    <3>2. ~ Held(w)
      BY <2>4 DEF Running
    <3> QED
      BY <1>7, <2>1, <3>1, <3>2, LeaveKeeps
  <2> QED
    BY <2>3, <2>4
<1>36. ASSUME NEW w \in Workers, RunErrors(w) \/ Crash(w) \/ SigTerm(w) \/ HeartbeatLapses(w)
       PROVE  Way /\ New
  BY <1>3, <1>6, <1>36 DEF RunErrors, Crash, SigTerm, HeartbeatLapses
(* The reaper.                                                             *)
<1>40. ASSUME NEW i \in Jobs, RequeueStale(i) PROVE Way /\ New
  <2>1. run' = run /\ i \in Listed /\ (UNCHANGED <<entry, waiting>> \/ Enqueue("mp4", i))
    BY <1>40 DEF RequeueStale, Listed
  <2> QED
    BY <1>4, <1>6, <1>9, <1>11, <2>1
<1>41. ASSUME NEW i \in Jobs, SettleStaleLadder(i) PROVE Way /\ New
  BY <1>4, <1>6, <1>11, <1>41 DEF SettleStaleLadder
<1>42. ASSUME \/ ListProcessing \/ ListQueued \/ ListLadders \/ ListOrphans \/ ListTrash \/ EndPass
              \/ PassFails
              \/ \E i \in Jobs : CheckHeartbeat(i) \/ FailStale(i) \/ SweepSource(i) \/ EmptyTrash(i)
       PROVE  Way /\ New
  BY <1>6, <1>42
  DEF ListProcessing, ListQueued, ListLadders, ListOrphans, ListTrash, EndPass, PassFails,
      CheckHeartbeat, FailStale, SweepSource, EmptyTrash
<1>50. CASE UNCHANGED vars
  BY <1>6, <1>50 DEF vars
<1> QED
  BY <1>20, <1>21, <1>22, <1>23, <1>24, <1>25, <1>30, <1>31, <1>32, <1>33, <1>34, <1>35, <1>36,
     <1>40, <1>41, <1>42, <1>50
  DEF Next, ApiStep, UserStep, QueueStep, WorkerStep, WorkerFault, ReaperStep

LEMMA QueuedHoldStep ==
    ASSUME TypeOK, FirstUse, KindOfPc, QueuedHold, [Next]_vars
    PROVE  QueuedHold'
<1>1. /\ run \in [Workers -> Runs] /\ api \in [Jobs -> ApiState]
  BY DEF TypeOK
<1>2. \A j \in Jobs : api'[j] \in {"new", "stored"} => api[j] \in {"new", "stored"}
  <2>1. ASSUME NEW i \in Jobs, RowStep(i)
        PROVE  \A j \in Jobs : api'[j] \in {"new", "stored"} => api[j] \in {"new", "stored"}
    BY <1>1, <2>1 DEF RowStep, RowMove, RequestMove
  <2> QED
    BY <2>1, StepMovesOneRow DEF vars
<1>3. ASSUME NEW j \in Jobs, api'[j] \in {"new", "stored"} PROVE entry'["mp4"][j].state = "none"
  <2>1. entry["mp4"][j].state = "none" /\ Unbegun(j)
    BY <1>2, <1>3 DEF QueuedHold, FirstUse
  <2> QED
    BY <1>3, <2>1, WayStep DEF Unbegun
<1>4. ASSUME NEW j \in Jobs, row'[j].status = "queued" PROVE OnItsWay(j)'
  <2>1. CASE row[j].status = "queued"
    BY <1>4, <2>1, WayStep DEF QueuedHold
  <2>2. CASE CreateJob(j)
    BY <2>2 DEF CreateJob, QueuedHold, OnItsWay
  <2>3. CASE RetryCommit(j)
    BY <2>3 DEF RetryCommit, QueuedHold, OnItsWay, Running
  <2>4. ASSUME NEW w \in Workers, GivesBack(w, j) PROVE OnItsWay(j)'
    <3>1. run[w].job = j /\ run[w].kind = "mp4" /\ Go(w, "retry")
      BY <2>4 DEF GivesBack, GiveBack, KindOfPc, Mp4Pc
    <3>2. run'[w].pc = "retry" /\ run'[w].job = j /\ run'[w].kind = "mp4"
      BY <3>1, GoKeeps
    <3> QED
      BY <3>2 DEF OnItsWay, Running
  <2> QED
    BY <1>4, <2>1, <2>2, <2>3, <2>4, WhoQueues
<1>5. ASSUME NEW w \in Workers, run'[w].pc = "retry" PROVE run'[w].tries < MaxInterruptions
  <2> DEFINE Fits == run'[w].tries < MaxInterruptions
  <2>1. ASSUME run'[w] = run[w] PROVE Fits
    BY <1>5, <2>1 DEF QueuedHold
  <2>2. ASSUME NEW v \in Workers, NEW pc, Go(v, pc), pc # "retry" PROVE Fits
    BY <1>5, <2>1, <2>2, GoKeeps
  <2>3. ASSUME NEW v \in Workers, Go(v, "retry"), ~ OutOfTries(run[v].tries) PROVE Fits
    <3>1. CASE v = w
      <4>1. run'[w].tries = run[w].tries
        BY <2>3, <3>1, GoKeeps
      <4>2. run[w].tries \in Nat
        BY <1>1 DEF Runs, IdleRun
      <4> QED
        BY <2>3, <3>1, <4>1, <4>2, PipelineAssumption DEF OutOfTries
    <3>2. CASE v # w
      BY <2>1, <2>3, <3>2, GoKeeps
    <3> QED
      BY <3>1, <3>2
  <2>4. ASSUME NEW v \in Workers, Leave(v) PROVE Fits
    BY <1>5, <2>1, <2>4, LeaveKeeps
  <2>5. CASE NobodysRun
    BY <2>1, <2>5, NobodyRuns
  <2>6. ASSUME NEW v \in Workers, NEW k \in Kinds, NEW i \in Jobs, Deliver(v, k, i) PROVE Fits
    BY <1>1, <1>5, <2>1, <2>6 DEF Deliver
  <2>7. ASSUME NEW v \in Workers, StepReturns(v) PROVE Fits
    BY <1>1, <1>5, <2>1, <2>7 DEF StepReturns, Runs, IdleRun
  <2>8. ASSUME NEW v \in Workers, GiveBack(v) \/ GiveBackLadder(v) PROVE Fits
    BY <2>2, <2>3, <2>8 DEF GiveBack, GiveBackLadder, LadderGoesBack
  <2>9. ASSUME NEW v \in Workers,
               \/ Claim(v) \/ StepRaises(v) \/ RecordDone(v) \/ RecordFailure(v) \/ HandOffLadder(v)
               \/ HandOffRefused(v) \/ ReadRow(v) \/ BuildReturns(v) \/ BuildRaises(v)
               \/ GiveUpLadder(v) \/ RecordLadder(v) \/ DiscardLadder(v) \/ StorePreview(v)
               \/ PreviewRaises(v) \/ RecordPreview(v)
        PROVE  Fits
    BY <2>2, <2>9
    DEF Claim, StepRaises, RecordDone, RecordFailure, HandOffLadder, HandOffRefused, ReadRow,
        BuildReturns, BuildRaises, GiveUpLadder, RecordLadder, DiscardLadder, StorePreview,
        PreviewRaises, RecordPreview
  <2>10. ASSUME NEW v \in Workers, Finish(v) \/ ReturnRetry(v) \/ RunErrors(v) \/ Crash(v) PROVE Fits
    BY <2>4, <2>10 DEF Finish, ReturnRetry, RunErrors, Crash
  <2>11. ASSUME NEW v \in Workers, SigTerm(v) \/ HeartbeatLapses(v) PROVE Fits
    BY <2>1, <2>11 DEF SigTerm, HeartbeatLapses
  <2> QED
    BY <2>5, <2>6, <2>7, <2>8, <2>9, <2>10, <2>11 DEF Next, NobodysRun, WorkerStep, WorkerFault
<1>6. ASSUME NEW j \in Jobs, api'[j] = "delivered" PROVE OnItsWay(j)'
  <2>1. CASE api[j] = "delivered"
    BY <1>6, <2>1, WayStep DEF QueuedHold
  <2>2. CASE api[j] # "delivered"
    <3>1. Enqueue("mp4", j)
      BY <1>6, <2>2, WhoDelivers DEF RetryDeliver
    <3>2. "mp4" \in Kinds /\ waiting["mp4"][j] \in Nat
      BY DEF Kinds, TypeOK
    <3>3. waiting'["mp4"][j] > 0
      BY <3>1, <3>2, EnqueueKeeps
    <3> QED
      BY <3>3 DEF OnItsWay
  <2> QED
    BY <2>1, <2>2
<1>7. Steady'
  BY LimitsHold DEF QueuedHold, Steady, Bounded
<1> QED
  BY <1>3, <1>4, <1>5, <1>6, <1>7 DEF QueuedHold

LEMMA QueuedHoldInit ==
    ASSUME Limits["crash"] = 0, Limits["error"] = 0, Init
    PROVE  QueuedHold
  BY DEF Init, QueuedHold, Steady, IdleRun, NoRow, NoEntry, Kinds

(* A queued row is on its way to a worker, or RQ has no live entry for it, *)
(* which is what run_once can tell: for any number of workers, deliveries  *)
(* left behind by refused retries and interruptions, and whatever Redis    *)
(* loses, as long as no worker crashes and no run meets an unhandled       *)
(* error.  The run of bad_stuck.cfg shows what one crash does.             *)
THEOREM QueuedJobsAreRecoverable ==
    ASSUME Limits["crash"] = 0, Limits["error"] = 0
    PROVE  Spec => []QueuedIsRecoverable
<1>1. Init => QueuedHold
  BY QueuedHoldInit
<1>2. QueuedHold => QueuedIsRecoverable
  BY DEF QueuedHold, OnItsWay, QueuedIsRecoverable
<1> QED
  BY <1>1, <1>2, TypeCorrect, RowsConsistentInit, RowsConsistentStep, FirstUseInit, FirstUseStep,
     KindOfPcInit, KindOfPcStep, QueuedHoldStep, PTL DEF Spec

=============================================================================
