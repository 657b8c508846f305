---------------------------- MODULE JobFileProofs ----------------------------
(***************************************************************************)
(* What JobPipeline's rows name is in the bucket: the MP4 of a done job,   *)
(* its preview sheet, its ladder.  The runs, the deletes and the reaper    *)
(* take files away and write rows in any order; a file goes only when no   *)
(* row names it.  Builds on the runs' facts of JobRunProofs.               *)
(***************************************************************************)
EXTENDS JobRunProofs

(* A delete that has taken the row is the only one that takes its files.   *)
Unpurged == \A j \in Jobs : Present(j) => purge[j] = {}

(* The ladder's after_ladder hook is at work.                              *)
InHook == {"after", "previewed"}

(* What a worker relies on while it has a run in hand: the MP4 it stored   *)
(* is there when it records it; the ladder's hook works on a row whose     *)
(* ladder is ready and which names no preview yet, and stores the sheet    *)
(* before it names it.                                                     *)
RunFact(w) ==
    run[w].pc # "idle" /\ Present(run[w].job) =>
        /\ run[w].pc = "stepped" => "mp4" \in store[run[w].job]
        /\ run[w].pc \in InHook => /\ AwaitsPreview(row[run[w].job])
                                   /\ row[run[w].job].preview_key = Null
        /\ run[w].pc = "previewed" => "preview" \in store[run[w].job]

(* Only one worker runs the hook of a job: a ladder is recorded once.      *)
OneHook ==
    \A v, w \in Workers :
        /\ run[v].pc \in InHook /\ run[w].pc \in InHook
        /\ run[v].job = run[w].job /\ Present(run[w].job)
        => v = w

(* What a row names is in the bucket; of the sheet this is known where the *)
(* confirmation of a preview's commit is never lost.                       *)
Certain == Limits["doubt"] = 0

Recorded(j) ==
    /\ row[j].output_key # Null => "mp4" \in store[j]
    /\ Certain /\ row[j].preview_key # Null => "preview" \in store[j]

RecordedKept == \A j \in Jobs : Recorded(j)

FilesKept == Unpurged /\ (\A w \in Workers : RunFact(w)) /\ OneHook /\ RecordedKept

(* What a step owes to a job nobody in particular has in hand.             *)
Kept(j) ==
    Present(j)' =>
        /\ Present(j)
        /\ purge'[j] = {}
        /\ {"mp4", "preview"} \cap store[j] \subseteq store'[j]
        /\ AwaitsPreview(row[j]) => AwaitsPreview(row'[j])
        /\ row'[j].preview_key = row[j].preview_key
        /\ row'[j].output_key = row[j].output_key

(* A step of nobody's run, which leaves every job's files and keys alone.  *)
LEMMA NobodysStep ==
    ASSUME TypeOK, FilesKept, run' = run, RowsConsistent',
           \A j \in Jobs : Kept(j)
    PROVE  FilesKept'
<1>1. ASSUME NEW w \in Workers, run[w].pc # "idle" PROVE run[w].job \in Jobs
  BY <1>1, RunTyped DEF TypeOK
<1>2. Unpurged'
  BY DEF Unpurged, Kept
<1>3. ASSUME NEW w \in Workers PROVE RunFact(w)'
  BY <1>1, <1>3 DEF FilesKept, RunFact, Kept, InHook
<1>4. OneHook'
  BY <1>1 DEF FilesKept, OneHook, Kept, InHook
<1>5. RecordedKept'
  <2>1. ASSUME NEW j \in Jobs, row'[j].output_key # Null \/ row'[j].preview_key # Null
        PROVE  Present(j)'
    BY <2>1 DEF RowsConsistent, Consistent, CheckConstraints, Present
  <2> QED
    BY <2>1 DEF FilesKept, RecordedKept, Recorded, Kept
<1> QED
  BY <1>2, <1>3, <1>4, <1>5 DEF FilesKept

(* A step of worker w on the job j it has in hand touches nobody else's    *)
(* run, row or files ...                                                   *)
OnlyOf(w, j) ==
    /\ run[w].job = j /\ run[w].pc # "idle"
    /\ run'[w].pc = "idle" \/ run'[w].job = j
    /\ \A v \in Workers \ {w} : run'[v] = run[v]
    /\ \A i \in Jobs \ {j} : row'[i] = row[i] /\ store'[i] = store[i]
    /\ purge' = purge

(* ... and leaves the job's other workers what they rely on.               *)
LeftFor(v, w, j) ==
    run[v].pc \in InHook /\ run[v].job = j =>
        /\ run'[w].pc \notin InHook
        /\ AwaitsPreview(row'[j]) /\ row'[j].preview_key = Null
        /\ "preview" \in store[j] => "preview" \in store'[j]

Owed(w, j) ==
    Present(j)' =>
        /\ Present(j)
        /\ "mp4" \in store[j] => "mp4" \in store'[j]
        /\ Recorded(j)'
        /\ \A v \in Workers \ {w} : LeftFor(v, w, j)

LEMMA WorkersStep ==
    ASSUME TypeOK, FilesKept, RowsConsistent',
           NEW w \in Workers, NEW j \in Jobs, OnlyOf(w, j), Owed(w, j), RunFact(w)'
    PROVE  FilesKept'
<1> USE DEF OnlyOf, Owed, LeftFor
<1>1. ASSUME NEW v \in Workers, run[v].pc # "idle" PROVE run[v].job \in Jobs
  BY <1>1, RunTyped DEF TypeOK
<1>2. Unpurged'
  BY DEF FilesKept, Unpurged, Present
<1>3. ASSUME NEW v \in Workers PROVE RunFact(v)'
  <2>1. CASE v = w
    BY <2>1
  <2>2. CASE v # w /\ run[v].job = j
    BY <1>3, <2>2 DEF FilesKept, RunFact, Present, InHook
  <2>3. CASE v # w /\ run[v].job # j
    BY <1>1, <1>3, <2>3 DEF FilesKept, RunFact, Present
  <2> QED
    BY <2>1, <2>2, <2>3
<1>4. OneHook'
  <2> SUFFICES ASSUME NEW u \in Workers, NEW v \in Workers,
                      run'[u].pc \in InHook, run'[v].pc \in InHook,
                      run'[u].job = run'[v].job, Present(run[v].job)'
               PROVE  u = v
    BY DEF OneHook
  <2>1. CASE u # w /\ v # w
    BY <1>1, <2>1 DEF FilesKept, OneHook, Present, InHook
  <2>2. CASE u = w \/ v = w
    BY <2>2 DEF InHook
  <2> QED
    BY <2>1, <2>2
<1>5. RecordedKept'
  <2>1. ASSUME NEW i \in Jobs PROVE Recorded(i)'
    <3>1. CASE i = j /\ Present(j)'
      BY <3>1
    <3>2. CASE i = j /\ ~ Present(j)'
      BY <3>2 DEF RowsConsistent, Consistent, CheckConstraints, Present, Recorded
    <3>3. CASE i # j
      BY <3>3 DEF FilesKept, RecordedKept, Recorded
    <3> QED
      BY <3>1, <3>2, <3>3
  <2> QED
    BY <2>1 DEF RecordedKept, Recorded
<1> QED
  BY <1>2, <1>3, <1>4, <1>5 DEF FilesKept

(* What the workers' writes do to the keys of a row that is not done.      *)
LEMMA WritesKeepKeys ==
    ASSUME NEW r \in Row
    PROVE  /\ \A s \in {MarkProcessing(r), MarkInterrupted(r), MarkFailed(r)} :
                 s.output_key = Null /\ s.preview_key = r.preview_key
           /\ \A s \in {MarkLadderUnavailable(r), MarkLadderReady(r)} :
                 s.output_key = r.output_key /\ s.preview_key = r.preview_key
<1>1. MarkProcessing(r).output_key = Null /\ MarkProcessing(r).preview_key = r.preview_key
  BY DEF MarkProcessing, Transition, Row
<1>2. MarkInterrupted(r).output_key = Null /\ MarkInterrupted(r).preview_key = r.preview_key
  BY DEF MarkInterrupted, Transition, Row
<1>3. MarkFailed(r).output_key = Null /\ MarkFailed(r).preview_key = r.preview_key
  BY DEF MarkFailed, Transition, Row
<1>4. \A s \in {MarkLadderUnavailable(r), MarkLadderReady(r)} :
         s.output_key = r.output_key /\ s.preview_key = r.preview_key
  BY DEF MarkLadderUnavailable, MarkLadderReady, SettleLadder, Row
<1> QED
  BY <1>1, <1>2, <1>3, <1>4

(* Where no confirmation may be lost, none is.                             *)
Doubtless == Certain => left["doubt"] = 0

LEMMA DoubtlessInit == Init => Doubtless
  BY DEF Init, Doubtless, Certain

LEMMA DoubtlessStep ==
    ASSUME TypeOK, Doubtless, [Next]_vars
    PROVE  Doubtless'
  BY LimitsHold DEF Doubtless, Certain, Bounded

(* Every step keeps the files.                                             *)
LEMMA FilesKeptStep ==
    ASSUME TypeOK, RowsConsistent, FirstUse, Doubtless, FilesKept, [Next]_vars
    PROVE  FilesKept'
<1>1. /\ row \in [Jobs -> Row] /\ store \in [Jobs -> SUBSET Objects]
      /\ purge \in [Jobs -> SUBSET Objects] /\ api \in [Jobs -> ApiState]
      /\ run \in [Workers -> Runs]
  BY DEF TypeOK
<1>2. RowsConsistent'
  BY RowsConsistentStep
<1>3. \A j \in Jobs : Present(j) => purge[j] = {}
  BY DEF FilesKept, Unpurged
<1>4. \A j \in Jobs : Consistent(row[j], api[j])
  BY DEF RowsConsistent
<1>5. \A w \in Workers : run[w].pc # "idle" => run[w].job \in Jobs /\ run[w].kind \in Kinds
  BY RunTyped DEF TypeOK
<1>6. ASSUME run' = run, \A j \in Jobs : Kept(j) PROVE FilesKept'
  BY <1>2, <1>6, NobodysStep
<1>7. ASSUME UNCHANGED <<row, store, purge, run>> PROVE FilesKept'
  BY <1>3, <1>6, <1>7 DEF Kept, Present
<1>8. ASSUME NEW j \in Jobs,
             \/ EnqueueNew(j) \/ RetryDeliver(j) \/ UploadFails(j) \/ RetryPrepare(j)
             \/ RetryRollback(j) \/ CheckHeartbeat(j) \/ RequeueStale(j)
      PROVE  FilesKept'
  BY <1>7, <1>8
  DEF EnqueueNew, RetryDeliver, UploadFails, RetryPrepare, RetryRollback, CheckHeartbeat,
      RequeueStale
<1>9. ASSUME NEW k \in Kinds, NEW j \in Jobs,
             \/ DropUnknown(k, j) \/ EntryExpires(k, j) \/ EntryAbandoned(k, j)
             \/ RedisLoses(k, j)
      PROVE  FilesKept'
  BY <1>7, <1>9 DEF DropUnknown, EntryExpires, EntryAbandoned, RedisLoses
<1>10. ASSUME \/ ListProcessing \/ ListQueued \/ ListLadders \/ ListOrphans \/ ListTrash
              \/ EndPass \/ PassFails
       PROVE  FilesKept'
  BY <1>7, <1>10
  DEF ListProcessing, ListQueued, ListLadders, ListOrphans, ListTrash, EndPass, PassFails
(* Writes of rows that move neither keys nor files.                        *)
<1>20. ASSUME NEW j \in Jobs, CreateJob(j) PROVE FilesKept'
  <2>1. Unbegun(j) /\ row[j].status = "absent"
    BY <1>4, <1>20 DEF CreateJob, FirstUse, Consistent
  <2>2. /\ row'[j] = NewRow /\ UNCHANGED <<store, purge, run>>
        /\ \A i \in Jobs \ {j} : row'[i] = row[i]
    BY <1>1, <1>20 DEF CreateJob, Write
  <2>3. \A w \in Workers : run[w].job # j
    BY <2>1 DEF Unbegun
  <2>4. Unpurged'
    BY <1>3, <2>1, <2>2 DEF Unpurged, Unbegun, Present
  <2>5. \A w \in Workers : RunFact(w)'
    BY <1>5, <2>2, <2>3 DEF FilesKept, RunFact, Present
  <2>6. OneHook'
    BY <1>5, <2>2, <2>3 DEF FilesKept, OneHook, Present, InHook
  <2>7. RecordedKept'
    BY <2>2 DEF FilesKept, RecordedKept, Recorded, NewRow
  <2> QED
    BY <2>4, <2>5, <2>6, <2>7 DEF FilesKept
<1>21. ASSUME NEW j \in Jobs, RetryCommit(j) PROVE FilesKept'
  <2>1. row[j].status = "failed" /\ row[j].output_key = Null
    BY <1>4, <1>21 DEF RetryCommit, Consistent, CheckConstraints
  <2>2. /\ row'[j] = PrepareRetry(row[j]) /\ UNCHANGED <<store, purge, run>>
        /\ \A i \in Jobs \ {j} : row'[i] = row[i]
    BY <1>1, <1>21 DEF RetryCommit, Write
  <2>3. Kept(j)
    BY <1>1, <1>3, <2>1, <2>2 DEF Kept, Present, PrepareRetry, AwaitsPreview, Row
  <2>4. \A i \in Jobs \ {j} : Kept(i)
    BY <1>3, <2>2 DEF Kept, Present
  <2> QED
    BY <1>6, <2>2, <2>3, <2>4
<1>22. ASSUME NEW j \in Jobs,
              TrashJob(j) \/ RestoreJob(j) \/ TimePasses(j) \/ TrashExpires(j)
       PROVE  FilesKept'
  <2>1. /\ UNCHANGED <<store, purge, run>>
        /\ \A i \in Jobs \ {j} : row'[i] = row[i]
        /\ row'[j] \in {TrashRow(row[j]), RestoreRow(row[j]), AgeRow(row[j]), ExpireRow(row[j])}
    BY <1>1, <1>22 DEF TrashJob, RestoreJob, TimePasses, TrashExpires, Write
  <2>2. /\ row'[j].status = row[j].status /\ row'[j].preview_key = row[j].preview_key
        /\ row'[j].output_key = row[j].output_key /\ row'[j].hls_status = row[j].hls_status
    BY <1>1, <2>1 DEF TrashRow, RestoreRow, AgeRow, ExpireRow, Row
  <2> QED
    BY <1>3, <1>6, <2>1, <2>2 DEF Kept, Present, AwaitsPreview
<1>23. ASSUME NEW j \in Jobs, FailStale(j) PROVE FilesKept'
  <2>1. /\ UNCHANGED <<store, purge, run>>
        /\ \A i \in Jobs \ {j} : row'[i] = row[i]
        /\ \/ row'[j] = row[j]
           \/ row[j].status = "processing" /\ row'[j] = MarkStaleFailed(row[j])
    BY <1>1, <1>23 DEF FailStale, Write
  <2>2. Kept(j)
    BY <1>1, <1>3, <2>1 DEF Kept, Present, AwaitsPreview, MarkStaleFailed, Row
  <2> QED
    BY <1>3, <1>6, <2>1, <2>2 DEF Kept, Present
<1>24. ASSUME NEW j \in Jobs, SettleStaleLadder(j) PROVE FilesKept'
  <2>1. /\ UNCHANGED <<store, purge, run>>
        /\ \A i \in Jobs \ {j} : row'[i] = row[i]
        /\ \/ row'[j] = row[j]
           \/ AwaitsLadder(row[j]) /\ row'[j] = MarkLadderUnavailable(row[j])
    BY <1>1, <1>24 DEF SettleStaleLadder, Write
  <2>2. Kept(j)
    BY <1>1, <1>3, <2>1
    DEF Kept, Present, AwaitsPreview, AwaitsLadder, MarkLadderUnavailable, SettleLadder, Row
  <2> QED
    BY <1>3, <1>6, <2>1, <2>2 DEF Kept, Present
(* Deletes, and the files they and the sweep take.                         *)
<1>30. ASSUME NEW j \in Jobs, DeleteRow(j), UNCHANGED <<store, run>> PROVE FilesKept'
  <2>1. /\ row'[j] = NoRow
        /\ \A i \in Jobs \ {j} : row'[i] = row[i] /\ purge'[i] = purge[i]
    BY <1>1, <1>30 DEF DeleteRow, Write
  <2>2. \A i \in Jobs : Kept(i)
    BY <1>3, <1>30, <2>1 DEF Kept, Present, NoRow
  <2> QED
    BY <1>6, <1>30, <2>2
<1>31. ASSUME NEW j \in Jobs, DeleteJobNow(j) \/ EmptyTrash(j) PROVE FilesKept'
  BY <1>7, <1>30, <1>31 DEF DeleteJobNow, EmptyTrash
<1>32. ASSUME NEW j \in Jobs, PurgeStorage(j) \/ PurgeRefused(j) PROVE FilesKept'
  <2>1. ~ Present(j) /\ UNCHANGED <<row, run>>
    BY <1>3, <1>32 DEF PurgeStorage, PurgeRefused
  <2>2. \A i \in Jobs \ {j} : purge'[i] = purge[i] /\ store'[i] = store[i]
    BY <1>1, <1>32 DEF PurgeStorage, PurgeRefused
  <2> QED
    BY <1>3, <1>6, <2>1, <2>2 DEF Kept, Present
<1>33. ASSUME NEW j \in Jobs, StoreSource(j) \/ SweepSource(j) PROVE FilesKept'
  <2>1. /\ UNCHANGED <<row, run, purge>>
        /\ \A i \in Jobs : store[i] \ {"source"} \subseteq store'[i]
    BY <1>1, <1>33 DEF StoreSource, SweepSource
  <2> QED
    BY <1>3, <1>6, <2>1 DEF Kept, Present
<1>40. CASE UNCHANGED vars
  BY <1>7, <1>40 DEF vars
(* The workers: first the steps that leave the rows and the files alone.   *)
<1>50. ASSUME NEW w \in Workers, run[w].pc # "idle", UNCHANGED <<row, store, purge>>,
              \/ \E pc \in RunPc \ ({"stepped"} \union InHook) : Go(w, pc)
              \/ Leave(w)
       PROVE  FilesKept'
  <2>1. PICK j \in Jobs : run[w].job = j
    BY <1>5, <1>50
  <2>2. /\ OnlyOf(w, j)
        /\ run'[w].pc \notin {"stepped"} \union InHook
    BY <1>50, <2>1, GoKeeps, LeaveKeeps DEF InHook, OnlyOf
  <2>3. RunFact(w)'
    BY <2>2 DEF RunFact, InHook
  <2>4. Recorded(j)'
    BY <1>50 DEF FilesKept, RecordedKept, Recorded
  <2>5. ASSUME NEW v \in Workers, Present(j) PROVE LeftFor(v, w, j)
    BY <1>50, <2>2, <2>5 DEF FilesKept, RunFact, InHook, LeftFor
  <2>6. Owed(w, j)
    BY <1>50, <2>4, <2>5 DEF Owed, Present
  <2> QED
    BY <1>2, <2>2, <2>3, <2>6, WorkersStep
<1>51. ASSUME NEW w \in Workers,
              \/ StepRaises(w) \/ HandOffLadder(w) \/ HandOffRefused(w) \/ ReadRow(w)
              \/ Finish(w) \/ ReturnRetry(w) \/ RunErrors(w) \/ Crash(w)
       PROVE  FilesKept'
  <2>1. run[w].pc # "idle" /\ UNCHANGED <<row, store, purge>>
    BY <1>51
    DEF StepRaises, HandOffLadder, HandOffRefused, ReadRow, Finish, ReturnRetry, RunErrors, Crash,
        RunPc, Mp4Pc, LadderPc
  <2>2. \/ \E pc \in RunPc \ ({"stepped"} \union InHook) : Go(w, pc)
        \/ Leave(w)
    BY <1>51
    DEF StepRaises, HandOffLadder, HandOffRefused, ReadRow, Finish, ReturnRetry, RunErrors, Crash,
        RunPc, Mp4Pc, LadderPc, InHook
  <2> QED
    BY <1>50, <2>1, <2>2
<1>52. ASSUME NEW w \in Workers, SigTerm(w) \/ HeartbeatLapses(w) PROVE FilesKept'
  BY <1>7, <1>52 DEF SigTerm, HeartbeatLapses
<1>53. ASSUME NEW w \in Workers, NEW k \in Kinds, NEW j \in Jobs, Deliver(w, k, j)
       PROVE  FilesKept'
  <2>1. /\ UNCHANGED <<row, store, purge>>
        /\ \A v \in Workers \ {w} : run'[v] = run[v]
        /\ run'[w].pc \notin {"stepped"} \union InHook
    BY <1>1, <1>53 DEF Deliver, InHook
  <2>2. \A v \in Workers : RunFact(v)'
    BY <1>5, <2>1 DEF FilesKept, RunFact, Present, InHook
  <2>3. OneHook'
    BY <2>1 DEF FilesKept, OneHook, Present, InHook
  <2> QED
    BY <2>1, <2>2, <2>3 DEF FilesKept, Unpurged, RecordedKept, Recorded, Present
(* Then those that write the row or the files of the job in hand.          *)
<1>60. ASSUME NEW w \in Workers, NEW pc, run[w].pc # "idle", Go(w, pc)
       PROVE  /\ run[w].job \in Jobs
              /\ run'[w].pc = pc /\ run'[w].job = run[w].job
              /\ \A v \in Workers \ {w} : run'[v] = run[v]
  BY <1>5, <1>60, GoKeeps
<1>61. ASSUME NEW w \in Workers,
              Claim(w) \/ RecordFailure(w) \/ GiveBack(w) \/ GiveUpLadder(w)
       PROVE  FilesKept'
  <2> DEFINE j == run[w].job
  <2>1. run[w].pc # "idle" /\ UNCHANGED <<store, purge>>
    BY <1>61 DEF Claim, RecordFailure, GiveBack, GiveUpLadder
  <2>2. PICK pc \in RunPc \ ({"stepped"} \union InHook) : Go(w, pc)
    BY <1>61
    DEF Claim, RecordFailure, GiveBack, GiveUpLadder, RunPc, Mp4Pc, LadderPc, InHook
  <2>3. /\ j \in Jobs
        /\ run'[w].pc = pc /\ run'[w].job = j
        /\ \A v \in Workers \ {w} : run'[v] = run[v]
    BY <1>60, <2>1, <2>2
  <2>4. CASE row' = row
    BY <1>50, <2>1, <2>2, <2>4
  <2>5. CASE row' # row
    <3>1. /\ \A i \in Jobs \ {j} : row'[i] = row[i]
          /\ \/ /\ row[j].status \in {"queued", "processing"}
                /\ row'[j] \in {MarkProcessing(row[j]), MarkInterrupted(row[j]), MarkFailed(row[j])}
             \/ AwaitsLadder(row[j]) /\ row'[j] = MarkLadderUnavailable(row[j])
      BY <1>1, <1>61, <2>3, <2>5
      DEF Claim, RecordFailure, GiveBack, GiveUpLadder, Claimable, Write
    <3>2. Present(j) /\ ~ AwaitsPreview(row[j])
      BY <3>1 DEF Present, AwaitsPreview, AwaitsLadder
    <3>3. /\ row'[j].output_key # Null => row[j].output_key # Null
          /\ row'[j].preview_key = row[j].preview_key
      <4>1. row[j] \in Row
        BY <1>1, <2>3
      <4> QED
        BY <3>1, <4>1, WritesKeepKeys
    <3>4. Recorded(j)'
      BY <2>1, <2>3, <3>3 DEF FilesKept, RecordedKept, Recorded
    <3>5. RunFact(w)'
      BY <2>2, <2>3 DEF RunFact, InHook
    <3>6. \A v \in Workers : ~ (run[v].pc \in InHook /\ run[v].job = j)
      BY <3>2 DEF FilesKept, RunFact, InHook
    <3>7. Owed(w, j)
      BY <2>1, <3>2, <3>4, <3>6 DEF Owed, LeftFor
    <3>8. OnlyOf(w, j)
      BY <2>1, <2>3, <3>1 DEF OnlyOf
    <3> QED
      BY <1>2, <2>3, <3>5, <3>7, <3>8, WorkersStep
  <2> QED
    BY <2>4, <2>5
<1>62. ASSUME NEW w \in Workers, RecordDone(w) PROVE FilesKept'
  <2>1. PICK j \in Jobs : run[w].job = j
    BY <1>5, <1>62 DEF RecordDone
  <2>2. /\ run[w].pc = "stepped" /\ UNCHANGED <<store, purge>>
        /\ Go(w, "handoff") \/ Go(w, "finish")
    BY <1>62 DEF RecordDone
  <2>3. /\ run'[w].pc \in {"handoff", "finish"} /\ run'[w].job = j
        /\ \A v \in Workers \ {w} : run'[v] = run[v]
    BY <1>60, <2>1, <2>2
  <2>4. CASE row[j].status # "processing"
    BY <1>50, <1>62, <2>1, <2>2, <2>4 DEF RecordDone, RunPc, Mp4Pc, InHook
  <2>5. CASE row[j].status = "processing"
    <3>1. /\ \A i \in Jobs \ {j} : row'[i] = row[i]
          /\ row'[j] = MarkDone(row[j], run[w].result)
      BY <1>1, <1>62, <2>1, <2>5 DEF RecordDone, Write
    <3>2. Present(j) /\ ~ AwaitsPreview(row[j]) /\ row[j].preview_key = Null
      BY <1>4, <2>5 DEF Present, AwaitsPreview, Consistent, CheckConstraints
    <3>3. row'[j].preview_key = Null
      BY <1>1, <3>1, <3>2 DEF MarkDone, Transition, Row
    <3>4. "mp4" \in store[j]
      BY <2>1, <2>2, <3>2 DEF FilesKept, RunFact
    <3>5. Recorded(j)'
      BY <2>2, <3>3, <3>4 DEF Recorded
    <3>6. RunFact(w)'
      BY <2>3 DEF RunFact, InHook
    <3>7. \A v \in Workers : ~ (run[v].pc \in InHook /\ run[v].job = j)
      BY <3>2 DEF FilesKept, RunFact, InHook
    <3>8. OnlyOf(w, j)
      BY <2>1, <2>2, <2>3, <3>1 DEF OnlyOf
    <3>9. Owed(w, j)
      BY <2>2, <3>2, <3>5, <3>7 DEF Owed, LeftFor
    <3> QED
      BY <1>2, <3>6, <3>8, <3>9, WorkersStep
  <2> QED
    BY <2>4, <2>5
<1>63. ASSUME NEW w \in Workers, RecordLadder(w) PROVE FilesKept'
  <2>1. PICK j \in Jobs : run[w].job = j
    BY <1>5, <1>63 DEF RecordLadder
  <2>2. run[w].pc = "built" /\ UNCHANGED <<store, purge>>
    BY <1>63 DEF RecordLadder
  <2>3. CASE ~ AwaitsLadder(row[j])
    BY <1>50, <1>63, <2>1, <2>2, <2>3 DEF RecordLadder, RunPc, LadderPc, InHook
  <2>4. CASE AwaitsLadder(row[j])
    <3>1. /\ \A i \in Jobs \ {j} : row'[i] = row[i]
          /\ row'[j] = MarkLadderReady(row[j])
          /\ Go(w, "after")
      BY <1>1, <1>63, <2>1, <2>4 DEF RecordLadder, Write
    <3>2. /\ run'[w].pc = "after" /\ run'[w].job = j
          /\ \A v \in Workers \ {w} : run'[v] = run[v]
      BY <1>60, <2>1, <2>2, <3>1
    <3>3. Present(j) /\ ~ AwaitsPreview(row[j]) /\ row[j].preview_key = Null
      BY <1>4, <2>4 DEF Present, AwaitsPreview, AwaitsLadder, Consistent, CheckConstraints
    <3>4. /\ row'[j].output_key = row[j].output_key /\ row'[j].preview_key = Null
          /\ AwaitsPreview(row'[j])
      BY <1>1, <2>4, <3>1, <3>3 DEF AwaitsLadder, AwaitsPreview, MarkLadderReady, SettleLadder, Row
    <3>5. Recorded(j)'
      BY <2>2, <3>4 DEF FilesKept, RecordedKept, Recorded
    <3>6. RunFact(w)'
      BY <3>2, <3>4 DEF RunFact, InHook
    <3>7. \A v \in Workers : ~ (run[v].pc \in InHook /\ run[v].job = j)
      BY <3>3 DEF FilesKept, RunFact, InHook
    <3>8. OnlyOf(w, j)
      BY <2>1, <2>2, <3>1, <3>2 DEF OnlyOf
    <3>9. Owed(w, j)
      BY <2>2, <3>3, <3>5, <3>7 DEF Owed, LeftFor
    <3> QED
      BY <1>2, <3>6, <3>8, <3>9, WorkersStep
  <2> QED
    BY <2>3, <2>4
(* Steps that store or discard files.                                      *)
<1>70. ASSUME NEW w \in Workers, NEW j \in Jobs, OnlyOf(w, j), UNCHANGED row,
              run'[w].pc \notin InHook,
              run'[w].pc = "stepped" => "mp4" \in store'[j],
              store[j] \ {"hls"} \subseteq store'[j]
       PROVE  FilesKept'
  <2>1. Recorded(j)'
    BY <1>70 DEF FilesKept, RecordedKept, Recorded
  <2>2. RunFact(w)'
    BY <1>70 DEF RunFact, InHook, OnlyOf
  <2>3. ASSUME NEW v \in Workers, Present(j) PROVE LeftFor(v, w, j)
    BY <1>70, <2>3 DEF FilesKept, RunFact, InHook, LeftFor
  <2>4. Owed(w, j)
    BY <1>70, <2>1, <2>3 DEF Owed, Present
  <2> QED
    BY <1>2, <1>70, <2>2, <2>4, WorkersStep
<1>71. ASSUME NEW w \in Workers, StepReturns(w) PROVE FilesKept'
  <2>1. PICK j \in Jobs : run[w].job = j
    BY <1>5, <1>71 DEF StepReturns
  <2>2. /\ run'[w].pc = "stepped" /\ run'[w].job = j
        /\ \A v \in Workers \ {w} : run'[v] = run[v]
    BY <1>1, <1>71, <2>1 DEF StepReturns, Runs, IdleRun
  <2>3. /\ store' = [store EXCEPT ![j] = @ \union {"mp4"}] /\ UNCHANGED <<row, purge>>
        /\ run[w].pc = "running"
    BY <1>71, <2>1 DEF StepReturns
  <2>4. OnlyOf(w, j)
    BY <1>1, <2>1, <2>2, <2>3 DEF OnlyOf
  <2> QED
    BY <1>1, <1>70, <2>2, <2>3, <2>4 DEF InHook
<1>72. ASSUME NEW w \in Workers,
              BuildReturns(w) \/ BuildRaises(w) \/ GiveBackLadder(w) \/ DiscardLadder(w)
       PROVE  FilesKept'
  <2>1. PICK j \in Jobs : run[w].job = j
    BY <1>5, <1>72 DEF BuildReturns, BuildRaises, GiveBackLadder, DiscardLadder
  <2>2. PICK pc \in {"built", "broken", "retry", "finish"} : Go(w, pc)
    BY <1>72 DEF BuildReturns, BuildRaises, GiveBackLadder, DiscardLadder
  <2>3. run[w].pc # "idle" /\ UNCHANGED <<row, purge>>
    BY <1>72 DEF BuildReturns, BuildRaises, GiveBackLadder, DiscardLadder
  <2>4. /\ \A i \in Jobs \ {j} : store'[i] = store[i]
        /\ store[j] \ {"hls"} \subseteq store'[j]
    BY <1>1, <1>72, <2>1 DEF BuildReturns, BuildRaises, GiveBackLadder, DiscardLadder
  <2>5. /\ run'[w].pc = pc /\ run'[w].job = j
        /\ \A v \in Workers \ {w} : run'[v] = run[v]
    BY <1>60, <2>1, <2>2, <2>3
  <2>6. OnlyOf(w, j)
    BY <2>1, <2>3, <2>4, <2>5 DEF OnlyOf
  <2> QED
    BY <1>70, <2>3, <2>4, <2>5, <2>6 DEF InHook
<1>73. ASSUME NEW w \in Workers, StorePreview(w) \/ PreviewRaises(w) \/ RecordPreview(w)
       PROVE  FilesKept'
  <2>1. PICK j \in Jobs : run[w].job = j
    BY <1>5, <1>73 DEF StorePreview, PreviewRaises, RecordPreview
  <2>2. run[w].pc \in InHook /\ purge' = purge
    BY <1>73 DEF StorePreview, PreviewRaises, RecordPreview, InHook
  <2>3. PICK pc \in {"previewed", "finish"} : Go(w, pc)
    BY <1>73 DEF StorePreview, PreviewRaises, RecordPreview
  <2>4. /\ run'[w].pc = pc /\ run'[w].job = j
        /\ \A v \in Workers \ {w} : run'[v] = run[v]
    BY <1>60, <2>1, <2>2, <2>3 DEF InHook
  <2>5. /\ \A i \in Jobs \ {j} : row'[i] = row[i] /\ store'[i] = store[i]
        /\ \/ row' = row
           \/ /\ run[w].pc = "previewed" /\ row'[j] = MarkPreviewReady(row[j])
              /\ Certain => store' = store
        /\ store[j] \ {"preview"} \subseteq store'[j]
        /\ pc = "previewed" => row' = row /\ "preview" \in store'[j]
    <3>1. CASE StorePreview(w)
      BY <1>1, <2>1, <3>1 DEF StorePreview
    <3>2. CASE PreviewRaises(w)
      <4>1. run[w].pc \in InHook /\ row' = row
            /\ \E kept \in {{}, {"preview"}} :
                 store' = [store EXCEPT ![j] = (@ \ {"preview"}) \union kept]
        BY <2>1, <3>2 DEF PreviewRaises, InHook
      <4>2. pc # "previewed"
        <5>1. Go(w, "finish")
          BY <3>2 DEF PreviewRaises
        <5> QED
          BY <1>60, <2>2, <2>4, <5>1 DEF InHook
      <4> QED
        BY <1>1, <4>1, <4>2
    <3>3. CASE RecordPreview(w)
      <4>1. pc # "previewed"
        <5>1. Go(w, "finish")
          BY <3>3 DEF RecordPreview
        <5> QED
          BY <1>60, <2>2, <2>4, <5>1 DEF InHook
      <4>2. Certain => ~ Spend("doubt")
        BY DEF Certain, Doubtless, Spend
      <4> QED
        BY <1>1, <2>1, <3>3, <4>1, <4>2 DEF RecordPreview, Write
    <3> QED
      BY <1>73, <3>1, <3>2, <3>3
  <2>6. OnlyOf(w, j)
    BY <2>1, <2>2, <2>4, <2>5 DEF OnlyOf, InHook
  <2>7. ASSUME Present(j)'
        PROVE  /\ Present(j) /\ AwaitsPreview(row[j]) /\ row[j].preview_key = Null
               /\ AwaitsPreview(row'[j]) /\ row'[j].output_key = row[j].output_key
               /\ run[w].pc = "previewed" => "preview" \in store[j]
    <3>1. MarkPreviewReady(row[j]).status = row[j].status
          /\ MarkPreviewReady(row[j]).output_key = row[j].output_key
          /\ MarkPreviewReady(row[j]).hls_status = row[j].hls_status
      BY <1>1 DEF MarkPreviewReady, Row
    <3>2. Present(j)
      BY <2>5, <2>7, <3>1 DEF Present
    <3> QED
      BY <2>1, <2>2, <2>5, <3>1, <3>2 DEF FilesKept, RunFact, AwaitsPreview, InHook
  <2>8. ASSUME Present(j)' PROVE Recorded(j)'
    <3>1. row[j].output_key # Null => "mp4" \in store[j]
      BY DEF FilesKept, RecordedKept, Recorded
    <3>2. Certain /\ row'[j].preview_key # Null => "preview" \in store'[j]
      BY <2>5, <2>7, <2>8
    <3> QED
      BY <2>5, <2>7, <2>8, <3>1, <3>2 DEF Recorded
  <2>9. RunFact(w)'
    <3>1. CASE Present(j)'
      <4>1. pc = "previewed" =>
               AwaitsPreview(row'[j]) /\ row'[j].preview_key = Null /\ "preview" \in store'[j]
        BY <2>5, <2>7, <3>1
      <4> QED
        BY <2>3, <2>4, <4>1 DEF RunFact, InHook
    <3>2. CASE ~ Present(j)'
      BY <2>4, <3>2 DEF RunFact, Present
    <3> QED
      BY <3>1, <3>2
  <2>10. ASSUME Present(j)', NEW v \in Workers \ {w} PROVE LeftFor(v, w, j)
    BY <2>1, <2>2, <2>7, <2>10 DEF FilesKept, OneHook, LeftFor
  <2>11. Owed(w, j)
    BY <2>5, <2>7, <2>8, <2>10 DEF Owed
  <2> QED
    BY <1>2, <2>6, <2>9, <2>11, WorkersStep
<1> QED
  BY <1>8, <1>9, <1>10, <1>20, <1>21, <1>22, <1>23, <1>24, <1>31, <1>32, <1>33, <1>40, <1>51,
     <1>52, <1>53, <1>61, <1>62, <1>63, <1>71, <1>72, <1>73
  DEF Next, ApiStep, UserStep, QueueStep, WorkerStep, WorkerFault, ReaperStep

(* Initially there is nothing to keep.                                     *)
LEMMA FilesKeptInit == Init => FilesKept
  BY DEF Init, FilesKept, Unpurged, RunFact, OneHook, RecordedKept, Recorded, Present, IdleRun,
         InHook, NoRow, Null

(* What a row names as its MP4 is in the bucket, for any limits: through   *)
(* retries, late and duplicate runs, deletes, sweeps and crashes, under    *)
(* any number of workers (execute_job stores the file before it records    *)
(* it, and nobody removes it while the row is there).                      *)
Mp4IsStored == \A j \in Jobs : row[j].output_key # Null => "mp4" \in store[j]

THEOREM RecordedMp4IsStored == Spec => []Mp4IsStored
<1>1. FilesKept => Mp4IsStored
  BY DEF FilesKept, RecordedKept, Recorded, Mp4IsStored
<1> QED
  BY <1>1, TypeCorrect, RowsConsistentInit, RowsConsistentStep, FirstUseInit, FirstUseStep,
     DoubtlessInit, DoubtlessStep, FilesKeptInit, FilesKeptStep, PTL DEF Spec

(* And so is what it names as its preview sheet, for any limits under      *)
(* which the confirmation of a preview's commit is not lost: build_preview *)
(* stores the sheet before it records it, and removes only a sheet it      *)
(* believes unrecorded, which after a lost confirmation it need not be.    *)
THEOREM RecordedFilesAreStored ==
    ASSUME Limits["doubt"] = 0
    PROVE  Spec => []RecordedIsStored
<1>1. FilesKept => RecordedIsStored
  BY DEF FilesKept, RecordedKept, Recorded, Certain, RecordedIsStored
<1> QED
  BY <1>1, TypeCorrect, RowsConsistentInit, RowsConsistentStep, FirstUseInit, FirstUseStep,
     DoubtlessInit, DoubtlessStep, FilesKeptInit, FilesKeptStep, PTL DEF Spec

-----------------------------------------------------------------------------
(* What a step does to one row, apart from updated_at falling behind and a *)
(* ladder being recorded.                                                  *)
OtherMove(r, a, s) ==
    \/ s \in {r, NoRow, TrashRow(r), RestoreRow(r), ExpireRow(r)}
    \/ a = "stored" /\ s = NewRow
    \/ r.status = "failed" /\ s = PrepareRetry(r)
    \/ r.status = "queued" /\ s = MarkProcessing(r)
    \/ /\ r.status = "processing"
       /\ \/ s \in {MarkInterrupted(r), MarkFailed(r), MarkStaleFailed(r)}
          \/ \E result : s = MarkDone(r, result)
    \/ AwaitsLadder(r) /\ s = MarkLadderUnavailable(r)
    \/ AwaitsPreview(r) /\ s = MarkPreviewReady(r)

RecordsLadder(w, j) == RecordLadder(w) /\ run[w].job = j /\ AwaitsLadder(row[j])

LEMMA RowMoves ==
    ASSUME TypeOK, RowsConsistent, [Next]_vars, NEW j \in Jobs
    PROVE  \/ OtherMove(row[j], api[j], row'[j])
           \/ TimePasses(j)
           \/ \E w \in Workers : RecordsLadder(w, j)
<1> DEFINE Goal == \/ OtherMove(row[j], api[j], row'[j])
                   \/ TimePasses(j)
                   \/ \E w \in Workers : RecordsLadder(w, j)
<1>1. row \in [Jobs -> Row]
  BY DEF TypeOK
<1>2. ASSUME row' = row PROVE Goal
  BY <1>2 DEF OtherMove
<1>3. ASSUME NEW i \in Jobs, NEW s, Write(i, s), OtherMove(row[i], api[i], s) PROVE Goal
  <2>1. CASE i = j
    BY <1>1, <1>3, <2>1 DEF Write
  <2>2. CASE i # j
    <3>1. row'[j] = row[j]
      BY <1>1, <1>3, <2>2 DEF Write
    <3> QED
      BY <3>1 DEF OtherMove
  <2> QED
    BY <2>1, <2>2
<1>4. \A i \in Jobs : OtherMove(row[i], api[i], row[i])
  BY DEF OtherMove
<1>10. ASSUME NEW i \in Jobs, ApiStep(i) PROVE Goal
  <2>1. CASE CreateJob(i)
    BY <1>3, <2>1 DEF CreateJob, OtherMove
  <2>2. CASE RetryCommit(i)
    BY <1>3, <2>2 DEF RetryCommit, OtherMove, RowsConsistent, Consistent
  <2>3. CASE EnqueueNew(i) \/ RetryDeliver(i) \/ PurgeStorage(i)
    BY <1>2, <2>3 DEF EnqueueNew, RetryDeliver, PurgeStorage
  <2> QED
    BY <1>10, <2>1, <2>2, <2>3 DEF ApiStep
<1>11. ASSUME NEW i \in Jobs, UserStep(i) \/ TrashExpires(i) PROVE Goal
  <2>1. CASE TrashJob(i) \/ RestoreJob(i) \/ TrashExpires(i)
    BY <1>3, <2>1 DEF TrashJob, RestoreJob, TrashExpires, OtherMove
  <2>2. CASE DeleteJobNow(i)
    BY <1>3, <2>2 DEF DeleteJobNow, DeleteRow, OtherMove
  <2>3. CASE \/ StoreSource(i) \/ UploadFails(i) \/ RetryPrepare(i) \/ RetryRollback(i)
             \/ PurgeRefused(i)
    BY <1>2, <2>3 DEF StoreSource, UploadFails, RetryPrepare, RetryRollback, PurgeRefused
  <2> QED
    BY <1>11, <2>1, <2>2, <2>3 DEF UserStep
<1>12. ASSUME NEW i \in Jobs, TimePasses(i) PROVE Goal
  <2>1. CASE i = j
    BY <1>12, <2>1
  <2>2. CASE i # j
    <3>1. row'[j] = row[j]
      BY <1>1, <1>12, <2>2 DEF TimePasses, Write
    <3> QED
      BY <3>1 DEF OtherMove
  <2> QED
    BY <2>1, <2>2
<1>13. ASSUME NEW k \in Kinds, NEW i \in Jobs, QueueStep(k, i) \/ RedisLoses(k, i) PROVE Goal
  BY <1>2, <1>13 DEF QueueStep, DropUnknown, EntryExpires, EntryAbandoned, RedisLoses
<1>20. ASSUME ReaperStep \/ PassFails PROVE Goal
  <2>1. CASE \/ ListProcessing \/ ListQueued \/ ListLadders \/ ListOrphans \/ ListTrash \/ EndPass
             \/ PassFails
    BY <1>2, <2>1
    DEF ListProcessing, ListQueued, ListLadders, ListOrphans, ListTrash, EndPass, PassFails
  <2>2. ASSUME NEW i \in Jobs, CheckHeartbeat(i) \/ RequeueStale(i) \/ SweepSource(i) PROVE Goal
    BY <1>2, <2>2 DEF CheckHeartbeat, RequeueStale, SweepSource
  <2>3. ASSUME NEW i \in Jobs, FailStale(i) PROVE Goal
    <3>1. \/ Write(i, row[i])
          \/ row[i].status = "processing" /\ Write(i, MarkStaleFailed(row[i]))
      BY <2>3 DEF FailStale
    <3> QED
      BY <1>3, <1>4, <3>1 DEF OtherMove
  <2>4. ASSUME NEW i \in Jobs, SettleStaleLadder(i) PROVE Goal
    <3>1. \/ row' = row \/ Write(i, row[i])
          \/ AwaitsLadder(row[i]) /\ Write(i, MarkLadderUnavailable(row[i]))
      BY <2>4 DEF SettleStaleLadder
    <3> QED
      BY <1>2, <1>3, <1>4, <3>1 DEF OtherMove
  <2>5. ASSUME NEW i \in Jobs, EmptyTrash(i) PROVE Goal
    BY <1>2, <1>3, <2>5 DEF EmptyTrash, DeleteRow, OtherMove
  <2> QED
    BY <1>20, <2>1, <2>2, <2>3, <2>4, <2>5 DEF ReaperStep
<1>30. ASSUME NEW w \in Workers, WorkerFault(w) PROVE Goal
  BY <1>2, <1>30 DEF WorkerFault, HandOffRefused, RunErrors, Crash, SigTerm, HeartbeatLapses
<1>31. ASSUME NEW w \in Workers,
              \/ \E k \in Kinds, i \in Jobs : Deliver(w, k, i)
              \/ StepReturns(w) \/ StepRaises(w) \/ HandOffLadder(w) \/ ReadRow(w)
              \/ BuildReturns(w) \/ BuildRaises(w) \/ GiveBackLadder(w) \/ DiscardLadder(w)
              \/ StorePreview(w) \/ PreviewRaises(w) \/ Finish(w) \/ ReturnRetry(w)
       PROVE  Goal
  BY <1>2, <1>31
  DEF Deliver, StepReturns, StepRaises, HandOffLadder, ReadRow, BuildReturns, BuildRaises,
      GiveBackLadder, DiscardLadder, StorePreview, PreviewRaises, Finish, ReturnRetry
<1>32. ASSUME NEW w \in Workers,
              \/ Claim(w) \/ RecordDone(w) \/ RecordFailure(w) \/ GiveBack(w)
              \/ GiveUpLadder(w) \/ RecordLadder(w) \/ RecordPreview(w)
       PROVE  Goal
  <2>1. run[w].pc # "idle"
    BY <1>32 DEF Claim, RecordDone, RecordFailure, GiveBack, GiveUpLadder, RecordLadder, RecordPreview
  <2>2. run[w].job \in Jobs
    BY <2>1, RunTyped DEF TypeOK
  <2>3. CASE Claim(w)
    BY <1>2, <1>3, <2>2, <2>3 DEF Claim, Claimable, OtherMove
  <2>4. CASE RecordDone(w)
    BY <1>2, <1>3, <2>2, <2>4 DEF RecordDone, OtherMove
  <2>5. CASE RecordFailure(w)
    <3>1. \/ Write(run[w].job, row[run[w].job])
          \/ row[run[w].job].status = "processing" /\ Write(run[w].job, MarkFailed(row[run[w].job]))
      BY <2>5 DEF RecordFailure
    <3> QED
      BY <1>3, <1>4, <2>2, <3>1 DEF OtherMove
  <2>6. CASE GiveBack(w)
    BY <1>2, <1>3, <2>2, <2>6 DEF GiveBack, OtherMove
  <2>7. CASE GiveUpLadder(w)
    <3>1. \/ Write(run[w].job, row[run[w].job])
          \/ /\ AwaitsLadder(row[run[w].job])
             /\ Write(run[w].job, MarkLadderUnavailable(row[run[w].job]))
      BY <2>7 DEF GiveUpLadder
    <3> QED
      BY <1>3, <1>4, <2>2, <3>1 DEF OtherMove
  <2>8. CASE RecordPreview(w)
    BY <1>2, <1>3, <2>2, <2>8 DEF RecordPreview, OtherMove
  <2>9. CASE RecordLadder(w)
    <3>1. CASE row' = row
      BY <1>2, <3>1
    <3>2. CASE AwaitsLadder(row[run[w].job]) /\ Write(run[w].job, MarkLadderReady(row[run[w].job]))
      <4>1. CASE run[w].job = j
        BY <2>9, <3>2, <4>1 DEF RecordsLadder
      <4>2. CASE run[w].job # j
        <5>1. row'[j] = row[j]
          BY <1>1, <3>2, <4>2 DEF Write
        <5> QED
          BY <5>1 DEF OtherMove
      <4> QED
        BY <4>1, <4>2
    <3> QED
      BY <2>9, <3>1, <3>2 DEF RecordLadder
  <2> QED
    BY <1>32, <2>3, <2>4, <2>5, <2>6, <2>7, <2>8, <2>9
<1> QED
  BY <1>2, <1>10, <1>11, <1>12, <1>13, <1>20, <1>30, <1>31, <1>32 DEF Next, WorkerStep, vars

(* A row that is encoded is not encoded again, one that is gone stays gone,*)
(* and no ladder becomes ready.                                            *)
LEMMA OtherMoveKeeps ==
    ASSUME NEW r \in Row, NEW a, NEW s, OtherMove(r, a, s)
    PROVE  /\ s.status \in {"queued", "processing", "failed"} =>
                  r.status \in {"queued", "processing", "failed"} \/ a = "stored"
           /\ r.status = "absent" /\ a # "stored" => s.status = "absent"
           /\ s.hls_status = "ready" => r.hls_status = "ready"
           /\ r.status = "done" /\ r.age = Fresh /\ a # "stored" =>
                  s.status = "absent" \/ (s.status = "done" /\ s.age = Fresh)
<1> USE DEF Row, JobStatus, HlsStatus, Null
<1>1. CASE s = r \/ s = NoRow
  BY <1>1 DEF NoRow
<1>2. CASE s \in {TrashRow(r), RestoreRow(r), ExpireRow(r)}
  BY <1>2 DEF TrashRow, RestoreRow, ExpireRow
<1>3. CASE a = "stored" /\ s = NewRow
  BY <1>3 DEF NewRow
<1>4. CASE r.status = "failed" /\ s = PrepareRetry(r)
  BY <1>4 DEF PrepareRetry
<1>5. CASE r.status = "queued" /\ s = MarkProcessing(r)
  BY <1>5 DEF MarkProcessing, Transition, DerivedHlsStatus
<1>6. CASE r.status = "processing" /\ s \in {MarkInterrupted(r), MarkFailed(r), MarkStaleFailed(r)}
  BY <1>6 DEF MarkInterrupted, MarkFailed, MarkStaleFailed, Transition, DerivedHlsStatus
<1>7. CASE r.status = "processing" /\ \E result : s = MarkDone(r, result)
  BY <1>7 DEF MarkDone, Transition, DerivedHlsStatus
<1>8. CASE AwaitsLadder(r) /\ s = MarkLadderUnavailable(r)
  BY <1>8 DEF AwaitsLadder, MarkLadderUnavailable, SettleLadder
<1>9. CASE AwaitsPreview(r) /\ s = MarkPreviewReady(r)
  BY <1>9 DEF AwaitsPreview, MarkPreviewReady
<1> QED
  BY <1>1, <1>2, <1>3, <1>4, <1>5, <1>6, <1>7, <1>8, <1>9 DEF OtherMove

-----------------------------------------------------------------------------
(* One build per ladder, where Redis loses nothing and nobody is slower    *)
(* than the reaper's clocks: a ladder's delivery is a token that is on the *)
(* list, or in one worker's hands, or used up, and that nobody makes twice.*)

Cutting(w, j) == Running(w, "ladder", j)
Handing(w, j) == run[w].pc = "handoff" /\ run[w].job = j
NoToken(j) == waiting["ladder"][j] = 0 /\ \A w \in Workers : ~ Cutting(w, j)
Settling(j) == reaper.phase = "ladders" /\ j \in reaper.todo

Token(j) ==
    /\ waiting["ladder"][j] \in {0, 1}
    /\ waiting["ladder"][j] = 1 => \A w \in Workers : ~ Cutting(w, j)
    /\ \A v, w \in Workers : Cutting(v, j) /\ Cutting(w, j) => v = w
    /\ entry["ladder"][j].state \in {"none", "finished"} => NoToken(j)

(* Only a done job has a token, and the reaper's list has only such jobs.  *)
Untimely(j) ==
    row[j].status \in {"queued", "processing", "failed"} => NoToken(j) /\ ~ Settling(j)

(* The run that is about to enqueue the ladder is the first to do so.      *)
FirstHandOff(w, j) ==
    Handing(w, j) =>
        /\ row[j].status = "absent" \/ (row[j].status = "done" /\ row[j].age = Fresh)
        /\ NoToken(j) /\ ~ Settling(j)
        /\ \A v \in Workers : Handing(v, j) => v = w

(* Until it is recorded or discarded, a build's ladder is in no row.       *)
Uncut == {"building", "built", "broken", "unrecorded"}
CutFact(w, j) ==
    Cutting(w, j) /\ Present(j) =>
        /\ run[w].pc \in Uncut => row[j].hls_status # "ready"
        /\ run[w].pc = "built" => "hls" \in store[j]

Prompt == left["loss"] = 0 /\ left["slow"] = 0

LaddersHold ==
    /\ Prompt
    /\ \A j \in Jobs : Token(j) /\ Untimely(j)
    /\ \A w \in Workers, j \in Jobs : FirstHandOff(w, j) /\ CutFact(w, j)
    /\ ReadyIsStored

(* A new token: the run that hands off, or the reaper that settles, makes  *)
(* the only one.                                                           *)
Makes(j) == \/ Settling(j)
            \/ \E w \in Workers : Handing(w, j) /\ ~ Handing(w, j)'

LEMMA TokenStep ==
    ASSUME TypeOK, KindOfPc, LaddersHold, [Next]_vars, NEW j \in Jobs
    PROVE  Token(j)' /\ (NoToken(j) => NoToken(j)' \/ Makes(j))
<1> DEFINE Goal == Token(j)' /\ (NoToken(j) => NoToken(j)' \/ Makes(j))
           Idle(s) == s \in {"none", "finished"}
<1>1. /\ run \in [Workers -> Runs] /\ entry \in [Kinds -> [Jobs -> Entries]]
      /\ waiting \in [Kinds -> [Jobs -> Nat]]
  BY DEF TypeOK
<1>2. \A w \in Workers : run[w].pc # "idle" => run[w].job \in Jobs /\ run[w].kind \in Kinds
  BY RunTyped DEF TypeOK
<1>3. Token(j) /\ ~ Spend("loss")
  BY DEF LaddersHold, Prompt, Spend
<1>4. "mp4" \in Kinds /\ "ladder" \in Kinds
  BY DEF Kinds
<1>5. entry["ladder"][j] \in Entries /\ waiting["ladder"][j] \in Nat
  BY <1>1, <1>4
(* A step that makes no token and moves none.                              *)
<1>10. ASSUME waiting'["ladder"][j] = waiting["ladder"][j],
              Idle(entry'["ladder"][j].state) => Idle(entry["ladder"][j].state),
              \A w \in Workers : Cutting(w, j)' => Cutting(w, j)
       PROVE  Goal
  <2>1. NoToken(j) => NoToken(j)'
    BY <1>10 DEF NoToken
  <2> QED
    BY <1>3, <1>10, <2>1 DEF Token
<1>11. ASSUME run' = run PROVE \A w \in Workers : Cutting(w, j)' => Cutting(w, j)
  BY <1>11 DEF Cutting, Running
<1>12. ASSUME NEW w \in Workers, NEW pc, Go(w, pc), run[w].pc # "idle"
       PROVE  \A v \in Workers : Cutting(v, j)' => Cutting(v, j)
  <2>1. /\ run'[w].job = run[w].job /\ run'[w].kind = run[w].kind
        /\ \A v \in Workers \ {w} : run'[v] = run[v]
    BY <1>12, GoKeeps
  <2> QED
    BY <1>12, <2>1 DEF Cutting, Running
<1>13. ASSUME UNCHANGED <<run, entry, waiting>> PROVE Goal
  BY <1>10, <1>11, <1>13
<1>14. ASSUME NEW w \in Workers, NEW pc, Go(w, pc), run[w].pc # "idle", UNCHANGED <<entry, waiting>>
       PROVE  Goal
  BY <1>10, <1>12, <1>14
<1>15. ASSUME NEW k \in Kinds, NEW i \in Jobs, Enqueue(k, i), k # "ladder" \/ i # j,
              \A w \in Workers : Cutting(w, j)' => Cutting(w, j)
       PROVE  Goal
  <2>1. waiting'["ladder"][j] = waiting["ladder"][j] /\ entry'["ladder"][j] = entry["ladder"][j]
    BY <1>4, <1>15, EnqueueKeeps
  <2> QED
    BY <1>10, <1>15, <2>1
<1>16. ASSUME Enqueue("ladder", j), NoToken(j), Makes(j),
              \A w \in Workers : Cutting(w, j)' => Cutting(w, j)
       PROVE  Goal
  <2>1. /\ waiting'["ladder"][j] = 1
        /\ entry'["ladder"][j] = [state |-> "queued", tries |-> 0]
    BY <1>4, <1>5, <1>16, EnqueueKeeps DEF NoToken
  <2> QED
    BY <1>16, <2>1 DEF Token, NoToken
(* The requests and RQ.                                                    *)
<1>20. ASSUME NEW i \in Jobs, EnqueueNew(i) \/ RetryDeliver(i) PROVE Goal
  BY <1>4, <1>11, <1>15, <1>20 DEF EnqueueNew, RetryDeliver
<1>21. ASSUME NEW i \in Jobs,
              \/ CreateJob(i) \/ RetryCommit(i) \/ PurgeStorage(i) \/ StoreSource(i)
              \/ UploadFails(i) \/ RetryPrepare(i) \/ RetryRollback(i) \/ TrashJob(i)
              \/ RestoreJob(i) \/ DeleteJobNow(i) \/ PurgeRefused(i) \/ TimePasses(i)
              \/ TrashExpires(i)
       PROVE  Goal
  BY <1>13, <1>21
  DEF CreateJob, RetryCommit, PurgeStorage, StoreSource, UploadFails, RetryPrepare, RetryRollback,
      TrashJob, RestoreJob, DeleteJobNow, PurgeRefused, TimePasses, TrashExpires
<1>22. ASSUME NEW k \in Kinds, NEW i \in Jobs, DropUnknown(k, i) PROVE Goal
  <2>1. k # "ladder" \/ i # j
    BY <1>3, <1>22 DEF DropUnknown, Token, NoToken
  <2>2. waiting'["ladder"][j] = waiting["ladder"][j]
    BY <1>1, <1>4, <1>22, <2>1 DEF DropUnknown
  <2> QED
    BY <1>10, <1>11, <1>22, <2>2 DEF DropUnknown
<1>23. ASSUME NEW k \in Kinds, NEW i \in Jobs, EntryExpires(k, i) \/ EntryAbandoned(k, i)
       PROVE  Goal
  <2>1. /\ run' = run /\ waiting' = waiting
        /\ \/ entry[k][i].state = "finished" /\ entry' = [entry EXCEPT ![k][i] = NoEntry]
           \/ entry' = [entry EXCEPT ![k][i].state = "failed"]
    BY <1>23 DEF EntryExpires, EntryAbandoned
  <2>2. Idle(entry'["ladder"][j].state) => Idle(entry["ladder"][j].state)
    <3>1. CASE k = "ladder" /\ i = j
      <4>1. \/ entry["ladder"][j].state = "finished"
            \/ entry'["ladder"][j] = [entry["ladder"][j] EXCEPT !.state = "failed"]
        BY <1>1, <1>4, <2>1, <3>1
      <4> QED
        BY <1>5, <4>1 DEF Entries
    <3>2. CASE k # "ladder" \/ i # j
      BY <1>1, <1>4, <2>1, <3>2
    <3> QED
      BY <3>1, <3>2
  <2> QED
    BY <1>10, <1>11, <2>1, <2>2
<1>24. ASSUME NEW k \in Kinds, NEW i \in Jobs, RedisLoses(k, i) PROVE Goal
  BY <1>3, <1>24 DEF RedisLoses
<1>25. ASSUME NEW w \in Workers, NEW k \in Kinds, NEW i \in Jobs, Deliver(w, k, i) PROVE Goal
  <2>1. \A v \in Workers \ {w} : run'[v] = run[v]
    BY <1>1, <1>25 DEF Deliver
  <2>2. run'[w].kind = k /\ run'[w].job = i /\ run'[w].pc # "idle" /\ run[w].pc = "idle"
    BY <1>1, <1>25 DEF Deliver
  <2>3. CASE k = "ladder" /\ i = j
    <3>1. waiting["ladder"][j] = 1 /\ \A v \in Workers : ~ Cutting(v, j)
      BY <1>3, <1>25, <2>3 DEF Deliver, Token
    <3>2. waiting'["ladder"][j] = 0
      BY <1>1, <1>4, <1>25, <2>3, <3>1 DEF Deliver
    <3>3. \A v \in Workers : Cutting(v, j)' => v = w
      BY <2>1, <3>1 DEF Cutting, Running
    <3>4. entry'["ladder"][j].state = "started"
      <4>1. entry' = [entry EXCEPT !["ladder"][j].state = "started"]
        BY <1>25, <2>3 DEF Deliver
      <4>2. entry'["ladder"][j] = [entry["ladder"][j] EXCEPT !.state = "started"]
        BY <1>1, <1>4, <4>1
      <4> QED
        BY <1>5, <4>2 DEF Entries
    <3>5. ~ NoToken(j)
      BY <3>1 DEF NoToken
    <3> QED
      BY <3>2, <3>3, <3>4, <3>5 DEF Token
  <2>4. CASE k # "ladder" \/ i # j
    <3>1. waiting'["ladder"][j] = waiting["ladder"][j] /\ entry'["ladder"][j] = entry["ladder"][j]
      BY <1>1, <1>4, <1>25, <2>4 DEF Deliver
    <3>2. \A v \in Workers : Cutting(v, j)' => Cutting(v, j)
      BY <2>1, <2>2, <2>4 DEF Cutting, Running
    <3> QED
      BY <1>10, <3>1, <3>2
  <2> QED
    BY <2>3, <2>4
(* The workers.                                                            *)
<1>30. ASSUME NEW w \in Workers,
              \/ Claim(w) \/ StepRaises(w) \/ RecordDone(w) \/ RecordFailure(w) \/ GiveBack(w)
              \/ ReadRow(w) \/ BuildReturns(w) \/ BuildRaises(w) \/ GiveUpLadder(w)
              \/ GiveBackLadder(w) \/ RecordLadder(w) \/ DiscardLadder(w) \/ StorePreview(w)
              \/ PreviewRaises(w) \/ RecordPreview(w)
       PROVE  Goal
  BY <1>14, <1>30
  DEF Claim, StepRaises, RecordDone, RecordFailure, GiveBack, ReadRow, BuildReturns, BuildRaises,
      GiveUpLadder, GiveBackLadder, RecordLadder, DiscardLadder, StorePreview, PreviewRaises,
      RecordPreview
<1>31. ASSUME NEW w \in Workers, StepReturns(w) PROVE Goal
  <2>1. /\ run'[w].job = run[w].job /\ run'[w].kind = run[w].kind /\ run[w].pc = "running"
        /\ \A v \in Workers \ {w} : run'[v] = run[v]
    BY <1>1, <1>31 DEF StepReturns, Runs, IdleRun
  <2>2. \A v \in Workers : Cutting(v, j)' => Cutting(v, j)
    BY <2>1 DEF Cutting, Running
  <2> QED
    BY <1>10, <1>31, <2>2 DEF StepReturns
<1>32. ASSUME NEW w \in Workers, HandOffLadder(w) \/ HandOffRefused(w) PROVE Goal
  <2>1. run[w].pc = "handoff" /\ \E pc \in {"finish", "giveup"} : Go(w, pc)
    BY <1>32 DEF HandOffLadder, HandOffRefused
  <2>2. run[w].job \in Jobs
    BY <1>2, <2>1
  <2>3. \A v \in Workers : Cutting(v, j)' => Cutting(v, j)
    BY <1>12, <2>1
  <2>4. CASE UNCHANGED <<entry, waiting>>
    BY <1>10, <2>3, <2>4
  <2>5. CASE Enqueue("ladder", run[w].job) /\ run[w].job # j
    BY <1>4, <1>15, <2>2, <2>3, <2>5
  <2>6. CASE Enqueue("ladder", run[w].job) /\ run[w].job = j
    <3>1. Handing(w, j) /\ ~ Handing(w, j)'
      BY <2>1, <2>6, GoKeeps DEF Handing
    <3>2. NoToken(j)
      BY <3>1 DEF LaddersHold, FirstHandOff
    <3> QED
      BY <1>16, <2>3, <2>6, <3>1, <3>2 DEF Makes
  <2> QED
    BY <1>32, <2>4, <2>5, <2>6 DEF HandOffLadder, HandOffRefused
<1>33. ASSUME NEW w \in Workers, Leave(w), run[w].pc # "idle",
              waiting'["ladder"][j] = waiting["ladder"][j],
              \/ Cutting(w, j)
              \/ entry'["ladder"][j] = entry["ladder"][j]
       PROVE  Goal
  <2>1. run'[w].pc = "idle" /\ \A v \in Workers \ {w} : run'[v] = run[v]
    BY <1>33, LeaveKeeps
  <2>2. \A v \in Workers : Cutting(v, j)' => Cutting(v, j) /\ v # w
    BY <2>1 DEF Cutting, Running
  <2>3. CASE Cutting(w, j)
    <3>1. waiting["ladder"][j] = 0 /\ \A v \in Workers : ~ Cutting(v, j)'
      BY <1>3, <2>2, <2>3 DEF Token
    <3>2. NoToken(j)'
      BY <1>33, <3>1 DEF NoToken
    <3> QED
      BY <1>33, <3>1, <3>2 DEF Token
  <2>4. CASE entry'["ladder"][j] = entry["ladder"][j]
    BY <1>10, <1>33, <2>2, <2>4
  <2> QED
    BY <1>33, <2>3, <2>4
<1>34. ASSUME NEW w \in Workers, Finish(w) \/ RunErrors(w) \/ Crash(w) PROVE Goal
  <2>1. run[w].pc # "idle" /\ Leave(w) /\ waiting' = waiting
    BY <1>34 DEF Finish, RunErrors, Crash, RunPc, Mp4Pc, LadderPc
  <2>2. run[w].job \in Jobs /\ run[w].kind \in Kinds
    BY <1>2, <2>1
  <2>3. \/ entry' = entry
        \/ \E x : entry' = [entry EXCEPT ![run[w].kind][run[w].job].state = x]
    BY <1>34 DEF Finish, RunErrors, Crash
  <2>4. Cutting(w, j) \/ entry'["ladder"][j] = entry["ladder"][j]
    <3>1. CASE run[w].kind = "ladder" /\ run[w].job = j
      BY <2>1, <3>1 DEF Cutting, Running
    <3>2. CASE run[w].kind # "ladder" \/ run[w].job # j
      <4>1. entry' = entry \/ \E e : entry' = [entry EXCEPT ![run[w].kind][run[w].job] = e]
        BY <2>3
      <4>2. ASSUME NEW e, entry' = [entry EXCEPT ![run[w].kind][run[w].job] = e]
            PROVE  entry'["ladder"][j] = entry["ladder"][j]
        BY <1>1, <1>4, <2>2, <3>2, <4>2
      <4> QED
        BY <4>1, <4>2
    <3> QED
      BY <3>1, <3>2
  <2> QED
    BY <1>33, <2>1, <2>4
<1>35. ASSUME NEW w \in Workers, ReturnRetry(w) PROVE Goal
  <2>1. run[w].pc # "idle" /\ Leave(w)
    BY <1>35 DEF ReturnRetry
  <2>2. run[w].job \in Jobs /\ run[w].kind \in Kinds
    BY <1>2, <2>1
  <2>3. CASE run[w].kind = "ladder" /\ run[w].job = j
    <3>1. Cutting(w, j)
      BY <2>1, <2>3 DEF Cutting, Running
    <3>2. waiting["ladder"][j] = 0
      BY <1>3, <3>1 DEF Token
    <3>3. \A v \in Workers : ~ Cutting(v, j)'
      <4>1. run'[w].pc = "idle" /\ \A v \in Workers \ {w} : run'[v] = run[v]
        BY <2>1, LeaveKeeps
      <4> QED
        BY <1>3, <3>1, <4>1 DEF Token, Cutting, Running
    <3>4. ~ NoToken(j)
      BY <3>1 DEF NoToken
    <3>5. CASE waiting' = waiting
      BY <3>2, <3>3, <3>4, <3>5 DEF Token, NoToken
    <3>6. CASE /\ entry' = [entry EXCEPT !["ladder"][j] = [state |-> "queued", tries |-> run[w].tries + 1]]
               /\ waiting' = [waiting EXCEPT !["ladder"][j] = @ + 1]
      <4>1. waiting'["ladder"][j] = 1 /\ entry'["ladder"][j].state = "queued"
        BY <1>1, <1>4, <3>2, <3>6
      <4> QED
        BY <3>3, <3>4, <4>1 DEF Token
    <3> QED
      BY <1>35, <2>3, <3>5, <3>6 DEF ReturnRetry
  <2>4. CASE run[w].kind # "ladder" \/ run[w].job # j
    <3>1. waiting'["ladder"][j] = waiting["ladder"][j]
      <4>1. \/ waiting' = waiting
            \/ waiting' = [waiting EXCEPT ![run[w].kind][run[w].job] = @ + 1]
        BY <1>35 DEF ReturnRetry
      <4> QED
        BY <1>1, <1>4, <2>2, <2>4, <4>1
    <3>2. entry'["ladder"][j] = entry["ladder"][j]
      <4>1. \E e : entry' = [entry EXCEPT ![run[w].kind][run[w].job] = e]
        <5>1. \/ entry' = [entry EXCEPT ![run[w].kind][run[w].job] =
                                         [state |-> "queued", tries |-> run[w].tries + 1]]
              \/ entry' = [entry EXCEPT ![run[w].kind][run[w].job].state = "failed"]
          BY <1>35 DEF ReturnRetry
        <5> QED
          BY <5>1
      <4> QED
        BY <1>1, <1>4, <2>2, <2>4, <4>1
    <3> QED
      BY <1>33, <2>1, <3>1, <3>2
  <2> QED
    BY <2>3, <2>4
<1>36. ASSUME NEW w \in Workers, SigTerm(w) \/ HeartbeatLapses(w) PROVE Goal
  BY <1>13, <1>36 DEF SigTerm, HeartbeatLapses
(* The reaper.                                                             *)
<1>40. ASSUME NEW i \in Jobs, SettleStaleLadder(i) PROVE Goal
  <2>1. run' = run
    BY <1>40 DEF SettleStaleLadder
  <2>2. CASE UNCHANGED <<entry, waiting>>
    BY <1>13, <2>1, <2>2
  <2>3. CASE entry["ladder"][i].state = "none" /\ Enqueue("ladder", i) /\ i # j
    BY <1>4, <1>11, <1>15, <2>1, <2>3
  <2>4. CASE entry["ladder"][i].state = "none" /\ Enqueue("ladder", i) /\ i = j
    <3>1. NoToken(j)
      BY <1>3, <2>4 DEF Token
    <3>2. Settling(j)
      BY <1>40, <2>4 DEF SettleStaleLadder, Settling, Reaping
    <3> QED
      BY <1>11, <1>16, <2>1, <2>4, <3>1, <3>2 DEF Makes
  <2> QED
    BY <1>40, <2>2, <2>3, <2>4 DEF SettleStaleLadder
<1>41. ASSUME NEW i \in Jobs, RequeueStale(i) PROVE Goal
  BY <1>4, <1>11, <1>13, <1>15, <1>41 DEF RequeueStale
<1>42. ASSUME \/ ListProcessing \/ ListQueued \/ ListLadders \/ ListOrphans \/ ListTrash \/ EndPass
              \/ PassFails
              \/ \E i \in Jobs : CheckHeartbeat(i) \/ FailStale(i) \/ SweepSource(i) \/ EmptyTrash(i)
       PROVE  Goal
  BY <1>13, <1>42
  DEF ListProcessing, ListQueued, ListLadders, ListOrphans, ListTrash, EndPass, PassFails,
      CheckHeartbeat, FailStale, SweepSource, EmptyTrash
<1>50. CASE UNCHANGED vars
  BY <1>13, <1>50 DEF vars
<1> QED
  BY <1>20, <1>21, <1>22, <1>23, <1>24, <1>25, <1>30, <1>31, <1>32, <1>34, <1>35, <1>36, <1>40,
     <1>41, <1>42, <1>50
  DEF Next, ApiStep, UserStep, QueueStep, WorkerStep, WorkerFault, ReaperStep

(* How a run gets to where it cuts a ladder or is about to hand one off.   *)
LEMMA RunMoves ==
    ASSUME TypeOK, [Next]_vars, NEW w \in Workers, run'[w].pc \in Uncut \union {"handoff"}
    PROVE  \/ run'[w] = run[w]
           \/ /\ run'[w].job = run[w].job /\ run'[w].kind = run[w].kind
              /\ \/ ReadRow(w) /\ AwaitsLadder(row[run[w].job])
                 \/ BuildReturns(w) \/ BuildRaises(w)
                 \/ RecordLadder(w) /\ row' = row
                 \/ RecordDone(w) /\ row[run[w].job].status = "processing"
<1> DEFINE Goal == \/ run'[w] = run[w]
                   \/ /\ run'[w].job = run[w].job /\ run'[w].kind = run[w].kind
                      /\ \/ ReadRow(w) /\ AwaitsLadder(row[run[w].job])
                         \/ BuildReturns(w) \/ BuildRaises(w)
                         \/ RecordLadder(w) /\ row' = row
                         \/ RecordDone(w) /\ row[run[w].job].status = "processing"
<1> USE DEF Uncut
<1>1. run \in [Workers -> Runs]
  BY DEF TypeOK
<1>2. ASSUME run' = run PROVE Goal
  BY <1>2
<1>3. ASSUME NEW v \in Workers, NEW pc, Go(v, pc), pc \notin Uncut \union {"handoff"} PROVE Goal
  BY <1>3, GoKeeps
<1>4. ASSUME NEW v \in Workers, NEW pc, Go(v, pc), v # w PROVE Goal
  BY <1>4, GoKeeps
<1>5. ASSUME NEW pc, Go(w, pc) PROVE run'[w].job = run[w].job /\ run'[w].kind = run[w].kind
                                       /\ run'[w].pc = pc
  BY <1>5, GoKeeps
<1>6. ASSUME NEW v \in Workers, Leave(v) PROVE Goal
  BY <1>6, LeaveKeeps
<1>10. ASSUME NobodysRun PROVE Goal
  BY <1>2, <1>10, NobodyRuns
<1>11. ASSUME NEW v \in Workers, NEW k \in Kinds, NEW i \in Jobs, Deliver(v, k, i) PROVE Goal
  BY <1>1, <1>11 DEF Deliver
<1>12. ASSUME NEW v \in Workers, StepReturns(v) PROVE Goal
  BY <1>1, <1>12 DEF StepReturns, Runs, IdleRun
<1>13. ASSUME NEW v \in Workers,
              \/ Claim(v) \/ StepRaises(v) \/ RecordFailure(v) \/ GiveBack(v) \/ HandOffLadder(v)
              \/ HandOffRefused(v) \/ GiveUpLadder(v) \/ GiveBackLadder(v) \/ DiscardLadder(v)
              \/ StorePreview(v) \/ PreviewRaises(v) \/ RecordPreview(v)
       PROVE  Goal
  BY <1>3, <1>13
  DEF Claim, StepRaises, RecordFailure, GiveBack, HandOffLadder, HandOffRefused, GiveUpLadder,
      GiveBackLadder, DiscardLadder, StorePreview, PreviewRaises, RecordPreview
<1>14. ASSUME NEW v \in Workers,
              RecordDone(v) \/ ReadRow(v) \/ BuildReturns(v) \/ BuildRaises(v) \/ RecordLadder(v)
       PROVE  Goal
  <2>1. PICK pc : Go(v, pc)
    BY <1>14 DEF RecordDone, ReadRow, BuildReturns, BuildRaises, RecordLadder
  <2>2. CASE v # w
    BY <1>4, <2>1, <2>2
  <2>3. CASE v = w
    <3>1. run'[w].job = run[w].job /\ run'[w].kind = run[w].kind /\ run'[w].pc = pc
      BY <1>5, <2>1, <2>3
    <3>2. CASE BuildReturns(w) \/ BuildRaises(w)
      BY <3>1, <3>2
    <3>3. CASE RecordDone(w)
      <4>1. row[run[w].job].status = "processing" \/ Go(w, "finish")
        BY <3>3 DEF RecordDone
      <4> QED
        BY <1>3, <3>1, <3>3, <4>1
    <3>4. CASE ReadRow(w)
      <4>1. AwaitsLadder(row[run[w].job]) \/ Go(w, "finish")
        BY <3>4 DEF ReadRow
      <4> QED
        BY <1>3, <3>1, <3>4, <4>1
    <3>5. CASE RecordLadder(w)
      <4>1. row' = row \/ Go(w, "after")
        BY <3>5 DEF RecordLadder
      <4> QED
        BY <1>3, <3>1, <3>5, <4>1
    <3> QED
      BY <1>14, <2>3, <3>2, <3>3, <3>4, <3>5
  <2> QED
    BY <2>2, <2>3
<1>15. ASSUME NEW v \in Workers, Finish(v) \/ ReturnRetry(v) \/ RunErrors(v) \/ Crash(v) PROVE Goal
  BY <1>6, <1>15 DEF Finish, ReturnRetry, RunErrors, Crash
<1>16. ASSUME NEW v \in Workers, SigTerm(v) \/ HeartbeatLapses(v) PROVE Goal
  BY <1>2, <1>16 DEF SigTerm, HeartbeatLapses
<1> QED
  BY <1>10, <1>11, <1>12, <1>13, <1>14, <1>15, <1>16 DEF Next, NobodysRun, WorkerStep, WorkerFault

(* Who takes a ladder out of the bucket.                                   *)
LEMMA LadderLost ==
    ASSUME TypeOK, [Next]_vars, NEW j \in Jobs, "hls" \in store[j], "hls" \notin store'[j]
    PROVE  \/ purge[j] # {} /\ row' = row
           \/ \E w \in Workers : /\ run[w].job = j /\ run[w].pc \in {"broken", "unrecorded"}
                                /\ run'[w].pc \in {"retry", "finish"} /\ row' = row
<1> DEFINE Goal == \/ purge[j] # {} /\ row' = row
                   \/ \E w \in Workers : /\ run[w].job = j /\ run[w].pc \in {"broken", "unrecorded"}
                                        /\ run'[w].pc \in {"retry", "finish"} /\ row' = row
<1>1. store \in [Jobs -> SUBSET Objects]
  BY DEF TypeOK
<1>2. ASSUME store' = store PROVE Goal
  BY <1>2
<1>3. ASSUME NEW i \in Jobs, NEW x, store' = [store EXCEPT ![i] = @ \union x] PROVE Goal
  BY <1>1, <1>3
<1>4. ASSUME NEW i \in Jobs, PurgeStorage(i) PROVE Goal
  BY <1>1, <1>4 DEF PurgeStorage
<1>5. ASSUME NEW i \in Jobs, ApiStep(i) \/ UserStep(i) \/ TimePasses(i) \/ TrashExpires(i) PROVE Goal
  BY <1>2, <1>3, <1>4, <1>5
  DEF ApiStep, UserStep, CreateJob, EnqueueNew, RetryDeliver, RetryCommit, StoreSource, UploadFails,
      RetryPrepare, RetryRollback, TrashJob, RestoreJob, DeleteJobNow, PurgeRefused, TimePasses,
      TrashExpires
<1>6. ASSUME NEW k \in Kinds, NEW i \in Jobs, QueueStep(k, i) \/ RedisLoses(k, i) PROVE Goal
  BY <1>2, <1>6 DEF QueueStep, DropUnknown, EntryExpires, EntryAbandoned, RedisLoses
<1>7. ASSUME NEW w \in Workers, WorkerFault(w) PROVE Goal
  BY <1>2, <1>7 DEF WorkerFault, HandOffRefused, RunErrors, Crash, SigTerm, HeartbeatLapses
<1>8. ASSUME NEW w \in Workers,
             \/ \E k \in Kinds, i \in Jobs : Deliver(w, k, i)
             \/ Claim(w) \/ StepRaises(w) \/ RecordDone(w) \/ RecordFailure(w) \/ GiveBack(w)
             \/ HandOffLadder(w) \/ ReadRow(w) \/ GiveUpLadder(w) \/ RecordLadder(w)
             \/ Finish(w) \/ ReturnRetry(w)
      PROVE  Goal
  BY <1>2, <1>8
  DEF Deliver, Claim, StepRaises, RecordDone, RecordFailure, GiveBack, HandOffLadder, ReadRow,
      GiveUpLadder, RecordLadder, Finish, ReturnRetry
<1>9. ASSUME NEW w \in Workers,
             \/ StepReturns(w) \/ BuildReturns(w) \/ BuildRaises(w) \/ GiveBackLadder(w)
             \/ DiscardLadder(w) \/ StorePreview(w) \/ PreviewRaises(w) \/ RecordPreview(w)
      PROVE  Goal
  <2>1. run[w].job \in Jobs
    BY <1>9, RunTyped
    DEF TypeOK, StepReturns, BuildReturns, BuildRaises, GiveBackLadder, DiscardLadder, StorePreview,
        PreviewRaises, RecordPreview
  <2>2. CASE StepReturns(w) \/ BuildReturns(w) \/ BuildRaises(w) \/ StorePreview(w)
    BY <1>3, <2>1, <2>2 DEF StepReturns, BuildReturns, BuildRaises, StorePreview
  <2>3. CASE PreviewRaises(w) \/ RecordPreview(w)
    <3>1. store' = store \/ \E x : /\ "hls" \in store[run[w].job] => "hls" \in x
                                  /\ store' = [store EXCEPT ![run[w].job] = x]
      <4>1. CASE PreviewRaises(w)
        BY <4>1 DEF PreviewRaises
      <4>2. CASE RecordPreview(w)
        BY <4>2 DEF RecordPreview
      <4> QED
        BY <2>3, <4>1, <4>2
    <3> QED
      BY <1>1, <2>1, <3>1
  <2>4. CASE GiveBackLadder(w) \/ DiscardLadder(w)
    <3>1. /\ run[w].pc \in {"broken", "unrecorded"} /\ row' = row
          /\ \E x : store' = [store EXCEPT ![run[w].job] = x]
          /\ \E pc \in {"retry", "finish"} : Go(w, pc)
      BY <2>4 DEF GiveBackLadder, DiscardLadder
    <3>2. run'[w].pc \in {"retry", "finish"}
      BY <3>1, GoKeeps
    <3>3. run[w].job = j
      BY <1>1, <2>1, <3>1
    <3> QED
      BY <3>1, <3>2, <3>3
  <2> QED
    BY <1>9, <2>2, <2>3, <2>4
<1>10. ASSUME ReaperStep \/ PassFails PROVE Goal
  <2>1. ASSUME NEW i \in Jobs, SweepSource(i) PROVE Goal
    BY <1>1, <2>1 DEF SweepSource
  <2> QED
    BY <1>2, <1>10, <2>1
    DEF ReaperStep, ListProcessing, ListQueued, ListLadders, ListOrphans, ListTrash, EndPass,
        CheckHeartbeat, FailStale, RequeueStale, SettleStaleLadder, EmptyTrash, PassFails
<1> QED
  BY <1>2, <1>5, <1>6, <1>7, <1>8, <1>9, <1>10 DEF Next, WorkerStep, vars

(* What the reaper's third list holds.                                     *)
LEMMA SettlingStep ==
    ASSUME TypeOK, [Next]_vars, NEW j \in Jobs, Settling(j)'
    PROVE  \/ Settling(j)
           \/ /\ row[j].status = "done" /\ row[j].age >= Abandoned
              /\ UNCHANGED <<row, run, waiting>>
<1>1. reaper \in Passes
  BY DEF TypeOK
<1>2. ASSUME reaper' = reaper PROVE Settling(j)
  BY <1>2 DEF Settling
<1>3. ASSUME NEW i \in Jobs,
             \/ CheckHeartbeat(i) \/ FailStale(i) \/ RequeueStale(i) \/ SettleStaleLadder(i)
             \/ SweepSource(i) \/ EmptyTrash(i)
      PROVE  Settling(j)
  <2>1. reaper'.phase = reaper.phase /\ reaper'.todo \subseteq reaper.todo
    BY <1>1, <1>3
    DEF CheckHeartbeat, FailStale, RequeueStale, SettleStaleLadder, SweepSource, EmptyTrash, Tackled,
        Passes
  <2> QED
    BY <2>1 DEF Settling
<1>4. ASSUME ListProcessing \/ ListQueued \/ ListOrphans \/ ListTrash \/ EndPass \/ PassFails
      PROVE  FALSE
  BY <1>4
  DEF ListProcessing, ListQueued, ListOrphans, ListTrash, EndPass, PassFails, Turn, RestingReaper,
      Settling
<1>5. CASE ListLadders
  BY <1>5 DEF ListLadders, Turn, Settling, AwaitsLadder
<1>6. ASSUME NEW i \in Jobs, ApiStep(i) \/ UserStep(i) \/ TimePasses(i) \/ TrashExpires(i)
      PROVE  Settling(j)
  BY <1>2, <1>6
  DEF ApiStep, UserStep, CreateJob, EnqueueNew, RetryDeliver, RetryCommit, PurgeStorage, StoreSource,
      UploadFails, RetryPrepare, RetryRollback, TrashJob, RestoreJob, DeleteJobNow, PurgeRefused,
      TimePasses, TrashExpires
<1>7. ASSUME NEW k \in Kinds, NEW i \in Jobs, QueueStep(k, i) \/ RedisLoses(k, i) PROVE Settling(j)
  BY <1>2, <1>7 DEF QueueStep, DropUnknown, EntryExpires, EntryAbandoned, RedisLoses
<1>8. ASSUME NEW w \in Workers, WorkerStep(w) \/ WorkerFault(w) PROVE Settling(j)
  BY <1>2, <1>8
  DEF WorkerStep, WorkerFault, Deliver, Claim, StepReturns, StepRaises, RecordDone, RecordFailure,
      GiveBack, HandOffLadder, ReadRow, BuildReturns, BuildRaises, GiveUpLadder, GiveBackLadder,
      RecordLadder, DiscardLadder, StorePreview, PreviewRaises, RecordPreview, Finish, ReturnRetry,
      HandOffRefused, RunErrors, Crash, SigTerm, HeartbeatLapses
<1> QED
  BY <1>2, <1>3, <1>4, <1>5, <1>6, <1>7, <1>8 DEF Next, ReaperStep, vars

(* What a step does to a row, as far as ladders go.                        *)
LEMMA LadderRowStep ==
    ASSUME TypeOK, RowsConsistent, FirstUse, LaddersHold, KindOfPc, [Next]_vars, NEW j \in Jobs
    PROVE  /\ row'[j].status \in {"queued", "processing", "failed"} =>
                  \/ row[j].status \in {"queued", "processing", "failed"}
                  \/ api[j] = "stored" /\ Unbegun(j)
           /\ Present(j)' => Present(j) \/ (api[j] = "stored" /\ Unbegun(j))
           /\ row'[j].hls_status = "ready" =>
                  \/ row[j].hls_status = "ready"
                  \/ \E w \in Workers : /\ run[w].pc = "built" /\ Cutting(w, j)
                                       /\ run'[w].pc = "after" /\ store' = store
           /\ \A w \in Workers : Handing(w, j) =>
                  row'[j].status = "absent" \/ (row'[j].status = "done" /\ row'[j].age = Fresh)
<1>1. row[j] \in Row /\ row \in [Jobs -> Row]
  BY DEF TypeOK
<1>2. api[j] = "stored" => Unbegun(j) /\ row[j].status = "absent"
  BY DEF FirstUse, RowsConsistent, Consistent
<1>3. \A w \in Workers : Handing(w, j) =>
          /\ row[j].status = "absent" \/ (row[j].status = "done" /\ row[j].age = Fresh)
          /\ api[j] # "stored"
  BY <1>2 DEF LaddersHold, FirstHandOff, Handing, Unbegun
<1>4. CASE OtherMove(row[j], api[j], row'[j])
  BY <1>1, <1>2, <1>3, <1>4, OtherMoveKeeps DEF Present
<1>5. CASE TimePasses(j)
  <2>1. row'[j] = AgeRow(row[j]) /\ ~ TooSlow(j)
    BY <1>1, <1>5 DEF TimePasses, Write, Spend, LaddersHold, Prompt
  <2>2. /\ row'[j].status = row[j].status /\ row'[j].hls_status = row[j].hls_status
    BY <1>1, <2>1 DEF AgeRow, Row
  <2>3. \A w \in Workers : ~ Handing(w, j)
    <3> SUFFICES ASSUME NEW w \in Workers, Handing(w, j) PROVE FALSE
      OBVIOUS
    <3>1. Running(w, "mp4", j) /\ run[w].pc = "handoff"
      BY DEF Handing, Running, KindOfPc, Mp4Pc
    <3>2. row[j].age = Fresh
      BY <1>3, <1>5 DEF TimePasses, Present
    <3> QED
      BY <2>1, <3>1, <3>2 DEF TooSlow
  <2> QED
    BY <2>2, <2>3 DEF Present
<1>6. ASSUME NEW w \in Workers, RecordsLadder(w, j)
      PROVE  /\ row[j].status = "done" /\ row'[j].status = "done" /\ row'[j].age = Fresh
             /\ run[w].pc = "built" /\ Cutting(w, j) /\ run'[w].pc = "after" /\ store' = store
  <2>1. /\ row' = [row EXCEPT ![j] = MarkLadderReady(row[j])] /\ Go(w, "after")
        /\ run[w].pc = "built" /\ run[w].job = j /\ store' = store /\ row[j].status = "done"
    BY <1>6 DEF RecordsLadder, RecordLadder, Write, AwaitsLadder
  <2>2. MarkLadderReady(row[j]).status = row[j].status /\ MarkLadderReady(row[j]).age = Fresh
    BY <1>1 DEF MarkLadderReady, SettleLadder, Row
  <2>3. run'[w].pc = "after"
    BY <2>1, GoKeeps
  <2>4. Cutting(w, j)
    BY <2>1 DEF Cutting, Running, KindOfPc, LadderPc
  <2> QED
    BY <1>1, <2>1, <2>2, <2>3, <2>4
<1>7. CASE \E w \in Workers : RecordsLadder(w, j)
  BY <1>6, <1>7 DEF Present
<1> QED
  BY <1>4, <1>5, <1>7, RowMoves

LEMMA LaddersHoldStep ==
    ASSUME TypeOK, RowsConsistent, FirstUse, KindOfPc, Unpurged, LaddersHold, [Next]_vars
    PROVE  LaddersHold'
<1>1. Prompt'
  BY LimitsHold DEF LaddersHold, Prompt, Bounded
<1>2. \A j \in Jobs : Token(j)' /\ (NoToken(j) => NoToken(j)' \/ Makes(j))
  BY TokenStep
<1>3. \A j \in Jobs : Unbegun(j) => NoToken(j) /\ ~ Settling(j) /\ \A w \in Workers : ~ Handing(w, j)
  BY DEF Unbegun, NoToken, Cutting, Running, Settling, Handing, Listed, Kinds
<1>4. ASSUME NEW j \in Jobs PROVE Untimely(j)'
  <2> SUFFICES ASSUME row'[j].status \in {"queued", "processing", "failed"}
               PROVE  NoToken(j)' /\ ~ Settling(j)'
    BY DEF Untimely
  <2>1. row[j].status \in {"queued", "processing", "failed"} \/ Unbegun(j)
    BY LadderRowStep
  <2>2. NoToken(j) /\ ~ Settling(j)
    BY <1>3, <2>1 DEF LaddersHold, Untimely
  <2>3. \A w \in Workers : ~ Handing(w, j)
    BY <1>3, <2>1 DEF LaddersHold, FirstHandOff
  <2>4. NoToken(j)'
    BY <1>2, <2>2, <2>3 DEF Makes
  <2>5. ~ Settling(j)'
    <3>1. ~ (row[j].status = "done" /\ UNCHANGED row)
      OBVIOUS
    <3> QED
      BY <2>2, <3>1, SettlingStep
  <2> QED
    BY <2>4, <2>5
<1>5. ASSUME NEW w \in Workers, NEW j \in Jobs, Handing(w, j)'
      PROVE  \/ Handing(w, j)
             \/ /\ RecordDone(w) /\ run[w].job = j /\ row[j].status = "processing"
                /\ \A v \in Workers \ {w} : run'[v] = run[v]
  <2>1. \/ run'[w] = run[w]
        \/ run'[w].job = run[w].job /\ RecordDone(w) /\ row[run[w].job].status = "processing"
    <3>1. run'[w].pc = "handoff"
      BY <1>5 DEF Handing
    <3>2. ~ (ReadRow(w) \/ BuildReturns(w) \/ BuildRaises(w) \/ RecordLadder(w))
      <4> SUFFICES ASSUME \E pc \in {"finish", "giveup", "building", "built", "broken", "after", "unrecorded"} :
                             Go(w, pc)
                   PROVE  FALSE
        BY DEF ReadRow, BuildReturns, BuildRaises, RecordLadder
      <4> QED
        BY <3>1, GoKeeps
    <3> QED
      BY <3>1, <3>2, RunMoves
  <2>2. RecordDone(w) => \A v \in Workers \ {w} : run'[v] = run[v]
    BY GoKeeps DEF RecordDone
  <2> QED
    BY <1>5, <2>1, <2>2 DEF Handing
<1>6. ASSUME NEW w \in Workers, NEW j \in Jobs PROVE FirstHandOff(w, j)'
  <2> SUFFICES ASSUME Handing(w, j)'
               PROVE  /\ \/ row'[j].status = "absent"
                         \/ row'[j].status = "done" /\ row'[j].age = Fresh
                      /\ NoToken(j)' /\ ~ Settling(j)'
                      /\ \A v \in Workers : Handing(v, j)' => v = w
    BY DEF FirstHandOff
  <2>1. CASE Handing(w, j)
    <3>1. /\ row[j].status = "absent" \/ (row[j].status = "done" /\ row[j].age = Fresh)
          /\ NoToken(j) /\ ~ Settling(j)
          /\ \A v \in Workers : Handing(v, j) => v = w
      BY <2>1 DEF LaddersHold, FirstHandOff
    <3>2. row'[j].status = "absent" \/ (row'[j].status = "done" /\ row'[j].age = Fresh)
      BY <2>1, LadderRowStep
    <3>3. NoToken(j)'
      BY <1>2, <3>1 DEF Makes
    <3>4. ~ Settling(j)'
      BY <3>1, SettlingStep DEF Fresh, Abandoned
    <3>5. \A v \in Workers : Handing(v, j)' => v = w
      BY <1>5, <3>1
    <3> QED
      BY <3>2, <3>3, <3>4, <3>5
  <2>2. CASE /\ RecordDone(w) /\ run[w].job = j /\ row[j].status = "processing"
             /\ \A v \in Workers \ {w} : run'[v] = run[v]
    <3>1. NoToken(j) /\ ~ Settling(j)
      BY <2>2 DEF LaddersHold, Untimely
    <3>2. \A v \in Workers : ~ Handing(v, j)
      BY <2>2 DEF LaddersHold, FirstHandOff
    <3>3. NoToken(j)' /\ ~ Settling(j)'
      BY <1>2, <2>2, <3>1, <3>2, SettlingStep DEF Makes
    <3>4. row'[j].status = "done" /\ row'[j].age = Fresh
      <4>1. row[j] \in Row /\ row \in [Jobs -> Row]
        BY DEF TypeOK
      <4>2. row' = [row EXCEPT ![j] = MarkDone(row[j], run[w].result)]
        BY <2>2 DEF RecordDone, Write
      <4>3. \A result : MarkDone(row[j], result).status = "done" /\ MarkDone(row[j], result).age = Fresh
        BY <4>1 DEF MarkDone, Transition, Row
      <4> QED
        BY <4>1, <4>2, <4>3
    <3>5. \A v \in Workers : Handing(v, j)' => v = w
      BY <2>2, <3>2 DEF Handing
    <3> QED
      BY <3>3, <3>4, <3>5
  <2> QED
    BY <1>5, <2>1, <2>2
(* The builds.                                                             *)
<1>10. \A v, w \in Workers, j \in Jobs : Cutting(v, j) /\ Cutting(w, j) => v = w
  BY DEF LaddersHold, Token
<1>11. \A w \in Workers : run[w].pc \in Uncut => Cutting(w, run[w].job) /\ run[w].job \in Jobs
  BY RunTyped DEF TypeOK, Cutting, Running, KindOfPc, LadderPc, Uncut
<1>12. \A j \in Jobs : Present(j)' => Present(j) \/ Unbegun(j)
  BY LadderRowStep
<1>13. ASSUME NEW j \in Jobs, NEW w \in Workers, Present(j), "hls" \in store[j], "hls" \notin store'[j]
       PROVE  /\ row[j].hls_status # "ready" /\ row' = row
              /\ Cutting(w, j) => /\ run[w].pc \in {"broken", "unrecorded"}
                                  /\ run'[w].pc \in {"retry", "finish"}
  <2>1. PICK v \in Workers : /\ run[v].job = j /\ run[v].pc \in {"broken", "unrecorded"}
                             /\ run'[v].pc \in {"retry", "finish"} /\ row' = row
    BY <1>13, LadderLost DEF Unpurged
  <2>2. Cutting(v, j)
    BY <1>11, <2>1 DEF Uncut
  <2> QED
    BY <1>10, <1>13, <2>1, <2>2 DEF LaddersHold, CutFact, Uncut
<1>14. ASSUME NEW w \in Workers, NEW j \in Jobs PROVE CutFact(w, j)'
  <2> SUFFICES ASSUME Cutting(w, j)', Present(j)', run'[w].pc \in Uncut
               PROVE  /\ row'[j].hls_status # "ready"
                      /\ run'[w].pc = "built" => "hls" \in store'[j]
    BY DEF CutFact, Uncut
  <2>1. \/ run'[w] = run[w]
        \/ /\ run'[w].job = run[w].job /\ run'[w].kind = run[w].kind
           /\ \/ ReadRow(w) /\ AwaitsLadder(row[run[w].job])
              \/ BuildReturns(w) \/ BuildRaises(w)
              \/ RecordLadder(w) /\ row' = row
    <3>1. ~ RecordDone(w)
      <4>1. ~ \E pc \in {"finish", "handoff"} : Go(w, pc)
        BY GoKeeps DEF Uncut
      <4> QED
        BY <4>1 DEF RecordDone
    <3> QED
      BY <3>1, RunMoves
  <2>2. run[w].pc # "idle"
    BY <2>1 DEF Uncut, ReadRow, BuildReturns, BuildRaises, RecordLadder
  <2>3. Cutting(w, j) /\ run[w].job = j
    BY <2>1, <2>2 DEF Cutting, Running
  <2>4. Present(j)
    BY <1>12, <2>3 DEF Unbegun
  <2>5. row[j].hls_status # "ready"
    <3>1. run[w].pc \in Uncut => row[j].hls_status # "ready"
      BY <2>3, <2>4 DEF LaddersHold, CutFact
    <3> QED
      BY <2>1, <2>3, <3>1 DEF Uncut, BuildReturns, BuildRaises, RecordLadder, AwaitsLadder
  <2>6. row'[j].hls_status # "ready"
    <3>1. ASSUME NEW v \in Workers, Cutting(v, j), run'[v].pc = "after" PROVE FALSE
      BY <1>10, <2>3, <3>1 DEF Uncut
    <3> QED
      BY <2>5, <3>1, LadderRowStep
  <2>7. ASSUME run'[w].pc = "built" PROVE "hls" \in store'[j]
    <3>1. CASE run'[w] = run[w]
      <4>1. "hls" \in store[j]
        BY <2>3, <2>4, <2>7, <3>1 DEF LaddersHold, CutFact
      <4> QED
        BY <1>13, <2>3, <2>4, <2>7, <3>1, <4>1
    <3>2. CASE BuildReturns(w)
      BY <2>3, <3>2 DEF BuildReturns, TypeOK
    <3>3. ~ (ReadRow(w) \/ BuildRaises(w) \/ RecordLadder(w))
      <4>1. ~ \E pc \in {"finish", "giveup", "building", "broken", "after", "unrecorded"} : Go(w, pc)
        BY <2>7, GoKeeps
      <4> QED
        BY <4>1 DEF ReadRow, BuildRaises, RecordLadder
    <3> QED
      BY <2>1, <3>1, <3>2, <3>3
  <2> QED
    BY <2>6, <2>7
<1>15. ASSUME NEW j \in Jobs, row'[j].hls_status = "ready" PROVE "hls" \in store'[j]
  <2>1. CASE row[j].hls_status = "ready"
    <3>1. Present(j)
      BY <2>1 DEF RowsConsistent, Consistent, CheckConstraints, Present
    <3>2. "hls" \in store[j]
      BY <2>1 DEF LaddersHold, ReadyIsStored
    <3>3. ASSUME "hls" \notin store'[j] PROVE FALSE
      <4>1. purge[j] = {}
        BY <3>1 DEF Unpurged
      <4>2. PICK w \in Workers : run[w].job = j
        BY <3>2, <3>3, <4>1, LadderLost
      <4> QED
        BY <1>13, <2>1, <3>1, <3>2, <3>3, <4>2
    <3> QED
      BY <3>3
  <2>2. ASSUME NEW w \in Workers, run[w].pc = "built", Cutting(w, j), store' = store
        PROVE  "hls" \in store'[j]
    <3>1. Present(j)'
      BY <1>15, RowsConsistentStep DEF RowsConsistent, Consistent, CheckConstraints, Present
    <3>2. Present(j)
      BY <1>12, <2>2, <3>1 DEF Unbegun, Cutting, Running
    <3> QED
      BY <2>2, <3>2 DEF LaddersHold, CutFact
  <2> QED
    BY <1>15, <2>1, <2>2, LadderRowStep
<1> QED
  BY <1>1, <1>2, <1>4, <1>6, <1>14, <1>15 DEF LaddersHold, ReadyIsStored

LEMMA LaddersHoldInit ==
    ASSUME Init, Limits["loss"] = 0, Limits["slow"] = 0
    PROVE  LaddersHold
  BY PipelineAssumption
  DEF Init, LaddersHold, Prompt, Token, NoToken, Untimely, Settling, FirstHandOff, Handing, CutFact,
      Cutting, Running, ReadyIsStored, NoEntry, NoRow, IdleRun, RestingReaper, Kinds

(* A ladder the row calls ready is in the bucket where Redis loses no      *)
(* entry and nobody is slower than the reaper's clocks: a lost entry that  *)
(* a worker is still building, or a hand-off the reaper was faster than,   *)
(* makes a second build whose discard takes the recorded ladder (the run   *)
(* of bad_discard.cfg shows the first).  Crashes, stops, errors, refused   *)
(* calls, lapsed heartbeats, retries, deletes and the trash are allowed.   *)
THEOREM ReadyLaddersAreStored ==
    ASSUME Limits["loss"] = 0, Limits["slow"] = 0
    PROVE  Spec => []ReadyIsStored
<1>1. Init => LaddersHold
  BY LaddersHoldInit
<1>2. LaddersHold => ReadyIsStored
  BY DEF LaddersHold
<1>3. FilesKept => Unpurged
  BY DEF FilesKept
<1> QED
  BY <1>1, <1>2, <1>3, TypeCorrect, RowsConsistentInit, RowsConsistentStep, FirstUseInit,
     FirstUseStep, KindOfPcInit, KindOfPcStep, DoubtlessInit, DoubtlessStep, FilesKeptInit, FilesKeptStep,
     LaddersHoldStep, PTL
  DEF Spec

=============================================================================
