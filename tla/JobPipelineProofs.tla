------------------------- MODULE JobPipelineProofs -------------------------
(***************************************************************************)
(* Machine-checked proofs about JobPipeline, for any set of jobs, workers  *)
(* and results, any cap on interruptions and any number of faults.         *)
(***************************************************************************)
EXTENDS JobPipeline, TLAPS

-----------------------------------------------------------------------------
(* Rows.                                                                   *)

(* A column given a value of its type leaves a row a row.                  *)
LEMMA ColumnsAreTyped ==
    /\ \A r \in Row : \A x \in JobStatus : [r EXCEPT !.status = x] \in Row
    /\ \A r \in Row : \A x \in {Null, "mp4"} : [r EXCEPT !.output_key = x] \in Row
    /\ \A r \in Row : \A x \in {Null, "master"} : [r EXCEPT !.hls_key = x] \in Row
    /\ \A r \in Row : \A x \in HlsStatus : [r EXCEPT !.hls_status = x] \in Row
    /\ \A r \in Row : \A x \in {Null, "dims"} : [r EXCEPT !.dims = x] \in Row
    /\ \A r \in Row : \A x \in {Null, "vtt"} : [r EXCEPT !.preview_key = x] \in Row
    /\ \A r \in Row : \A x \in {Null, "reason"} : [r EXCEPT !.error = x] \in Row
    /\ \A r \in Row : \A x \in {Null, "trashed", "expired"} : [r EXCEPT !.deleted_at = x] \in Row
    /\ \A r \in Row : \A x \in Fresh..GraceOver : [r EXCEPT !.age = x] \in Row
  BY DEF Row

(* The values the writes of app/repositories/jobs.py put into a column.    *)
LEMMA ValuesAreTyped ==
    /\ {"queued", "processing", "done", "failed"} \subseteq JobStatus
    /\ {"pending", "ready", "unavailable"} \subseteq HlsStatus
    /\ Fresh \in Fresh..GraceOver
    /\ Null = "null"
  BY DEF JobStatus, HlsStatus, Fresh, GraceOver, Null

(* _transition writes a row, whatever its caller passes.                   *)
LEMMA TransitionTyped ==
    ASSUME NEW r \in Row, NEW next \in JobStatus, NEW output \in {Null, "mp4"},
           NEW key \in {Null, "master"}, NEW hls \in HlsStatus \union {Null},
           NEW dims \in {Null, "dims"}, NEW error \in {Null, "reason"}
    PROVE  Transition(r, next, output, key, hls, dims, error) \in Row
<1>1. (IF hls # Null THEN hls ELSE DerivedHlsStatus(next, key)) \in HlsStatus
  BY DEF DerivedHlsStatus, HlsStatus
<1> QED
  BY <1>1, ColumnsAreTyped, ValuesAreTyped, Zenon DEF Transition

(* So does every other write.                                              *)
LEMMA WritesAreRows ==
    ASSUME NEW r \in Row
    PROVE  /\ NewRow \in Row /\ NoRow \in Row
           /\ MarkProcessing(r) \in Row /\ MarkInterrupted(r) \in Row
           /\ MarkFailed(r) \in Row /\ MarkStaleFailed(r) \in Row
           /\ \A result : MarkDone(r, result) \in Row
           /\ MarkLadderReady(r) \in Row /\ MarkLadderUnavailable(r) \in Row
           /\ MarkPreviewReady(r) \in Row /\ PrepareRetry(r) \in Row
           /\ TrashRow(r) \in Row /\ RestoreRow(r) \in Row /\ ExpireRow(r) \in Row
           /\ r.age < GraceOver => AgeRow(r) \in Row
<1> USE ColumnsAreTyped, ValuesAreTyped
<1>1. NewRow \in Row /\ NoRow \in Row
  BY DEF Row, NewRow, NoRow, JobStatus, HlsStatus, Fresh, GraceOver, Null
<1>2. MarkProcessing(r) \in Row /\ MarkInterrupted(r) \in Row /\ MarkFailed(r) \in Row
  BY TransitionTyped, Zenon DEF MarkProcessing, MarkInterrupted, MarkFailed
<1>3. \A result : MarkDone(r, result) \in Row
  BY TransitionTyped, Zenon DEF MarkDone
<1>4. MarkStaleFailed(r) \in Row
  BY Zenon DEF MarkStaleFailed
<1>5. MarkLadderReady(r) \in Row /\ MarkLadderUnavailable(r) \in Row
  BY Zenon DEF MarkLadderReady, MarkLadderUnavailable, SettleLadder
<1>6. MarkPreviewReady(r) \in Row
  BY Zenon DEF MarkPreviewReady
<1>7. PrepareRetry(r) \in Row
  BY Zenon DEF PrepareRetry
<1>8. TrashRow(r) \in Row /\ RestoreRow(r) \in Row /\ ExpireRow(r) \in Row
  BY Zenon DEF TrashRow, RestoreRow, ExpireRow
<1>9. r.age < GraceOver => AgeRow(r) \in Row
  BY DEF Row, AgeRow, Fresh, GraceOver
<1> QED
  BY <1>1, <1>2, <1>3, <1>4, <1>5, <1>6, <1>7, <1>8, <1>9

-----------------------------------------------------------------------------
(* Type correctness: the pieces the actions are made of keep the type of   *)
(* what they change.                                                       *)

(* A write of a row to the table.                                          *)
LEMMA WriteTyped ==
    ASSUME row \in [Jobs -> Row], NEW j \in Jobs, NEW r \in Row, Write(j, r)
    PROVE  row' \in [Jobs -> Row]
  BY DEF Write

(* A run in hand has a job: the worker is not idle.                        *)
LEMMA RunTyped ==
    ASSUME run \in [Workers -> Runs], NEW w \in Workers, run[w].pc # "idle"
    PROVE  /\ run[w] \in [pc : RunPc, kind : Kinds, job : Jobs, tries : Nat,
                          result : {Null, "ladder", "plain"}]
           /\ run[w].job \in Jobs /\ run[w].kind \in Kinds /\ run[w].tries \in Nat
  BY DEF Runs, IdleRun

(* A run that moves on.                                                    *)
LEMMA GoTyped ==
    ASSUME run \in [Workers -> Runs], NEW w \in Workers, run[w].pc # "idle",
           NEW pc \in RunPc, Go(w, pc)
    PROVE  run' \in [Workers -> Runs]
<1>1. [run[w] EXCEPT !.pc = pc] \in Runs
  BY RunTyped DEF Runs
<1> QED
  BY <1>1 DEF Go

(* A run that ends.                                                        *)
LEMMA LeaveTyped ==
    ASSUME run \in [Workers -> Runs], stopping \subseteq Workers, silent \subseteq Workers,
           NEW w \in Workers, Leave(w)
    PROVE  /\ run' \in [Workers -> Runs]
           /\ stopping' \subseteq Workers /\ silent' \subseteq Workers
<1>1. IdleRun \in Runs
  BY DEF Runs
<1> QED
  BY <1>1 DEF Leave

(* An entry, and an entry rewritten whole or in its state.                 *)
LEMMA EntryTyped ==
    ASSUME entry \in [Kinds -> [Jobs -> Entries]], NEW k \in Kinds, NEW j \in Jobs
    PROVE  /\ entry[k][j] \in Entries
           /\ \A e \in Entries : [entry EXCEPT ![k][j] = e] \in [Kinds -> [Jobs -> Entries]]
           /\ \A s \in EntryState :
                [entry EXCEPT ![k][j].state = s] \in [Kinds -> [Jobs -> Entries]]
<1>1. entry[k][j] \in Entries
  OBVIOUS
<1>2. \A e \in Entries : [entry EXCEPT ![k][j] = e] \in [Kinds -> [Jobs -> Entries]]
  OBVIOUS
<1>3. ASSUME NEW s \in EntryState
      PROVE  [entry[k][j] EXCEPT !.state = s] \in Entries
  BY <1>1 DEF Entries
<1> QED
  BY <1>1, <1>2, <1>3

(* The number of deliveries of an entry on the list.                       *)
LEMMA WaitingTyped ==
    ASSUME waiting \in [Kinds -> [Jobs -> Nat]], NEW k \in Kinds, NEW j \in Jobs
    PROVE  /\ waiting[k][j] \in Nat
           /\ \A n \in Nat : [waiting EXCEPT ![k][j] = n] \in [Kinds -> [Jobs -> Nat]]
  OBVIOUS

(* An enqueue.                                                             *)
LEMMA EnqueueTyped ==
    ASSUME entry \in [Kinds -> [Jobs -> Entries]], waiting \in [Kinds -> [Jobs -> Nat]],
           NEW k \in Kinds, NEW j \in Jobs, Enqueue(k, j)
    PROVE  /\ entry' \in [Kinds -> [Jobs -> Entries]]
           /\ waiting' \in [Kinds -> [Jobs -> Nat]]
<1>1. [state |-> "queued", tries |-> 0] \in Entries
  BY DEF Entries, EntryState
<1> QED
  BY <1>1, EntryTyped, WaitingTyped DEF Enqueue

(* One of the bounded events.                                              *)
LEMMA SpendTyped ==
    ASSUME left \in [Bounded -> Nat], NEW what \in Bounded, Spend(what)
    PROVE  left' \in [Bounded -> Nat]
  BY DEF Spend

(* The reaper's pass: listed, worked off, at rest.                         *)
LEMMA PassTyped ==
    /\ \A phase \in Phases, todo, doomed \in SUBSET Jobs :
         Turn(phase, todo, doomed) => reaper' \in Passes
    /\ \A j \in Jobs : reaper \in Passes /\ Tackled(j) => reaper' \in Passes
    /\ RestingReaper \in Passes
  BY DEF Turn, Tackled, Passes, RestingReaper, Phases

(* Every step keeps the types.                                             *)
LEMMA TypeStep ==
    ASSUME TypeOK, [Next]_vars
    PROVE  TypeOK'
<1> USE DEF TypeOK
<1>1. ASSUME NEW j \in Jobs, CreateJob(j) PROVE TypeOK'
  BY <1>1, WriteTyped, WritesAreRows DEF CreateJob, ApiState
<1>2. ASSUME NEW j \in Jobs, EnqueueNew(j) PROVE TypeOK'
  BY <1>2, EnqueueTyped DEF EnqueueNew, Kinds, ApiState
<1>3. ASSUME NEW j \in Jobs, RetryDeliver(j) PROVE TypeOK'
  BY <1>3, EnqueueTyped DEF RetryDeliver, Kinds, ApiState
<1>4. ASSUME NEW j \in Jobs, RetryCommit(j) PROVE TypeOK'
  BY <1>4, WriteTyped, WritesAreRows, SpendTyped DEF RetryCommit, Bounded, ApiState
<1>5. ASSUME NEW j \in Jobs, PurgeStorage(j) PROVE TypeOK'
  BY <1>5 DEF PurgeStorage
<1>6. ASSUME NEW j \in Jobs, StoreSource(j) PROVE TypeOK'
  BY <1>6 DEF StoreSource, Objects, ApiState
<1>7. ASSUME NEW j \in Jobs, UploadFails(j) PROVE TypeOK'
  BY <1>7, SpendTyped DEF UploadFails, Bounded, ApiState
<1>8. ASSUME NEW j \in Jobs, RetryPrepare(j) PROVE TypeOK'
  BY <1>8 DEF RetryPrepare, ApiState
<1>9. ASSUME NEW j \in Jobs, RetryRollback(j) PROVE TypeOK'
  BY <1>9, SpendTyped DEF RetryRollback, Bounded, ApiState
<1>10. ASSUME NEW j \in Jobs, TrashJob(j) PROVE TypeOK'
  BY <1>10, SpendTyped, WriteTyped, WritesAreRows DEF TrashJob, Bounded
<1>11. ASSUME NEW j \in Jobs, RestoreJob(j) PROVE TypeOK'
  BY <1>11, WriteTyped, WritesAreRows DEF RestoreJob
<1>12. ASSUME NEW j \in Jobs, DeleteJobNow(j) PROVE TypeOK'
  BY <1>12, WriteTyped, WritesAreRows, SpendTyped
  DEF DeleteJobNow, DeleteRow, KeysOf, Objects, Bounded
<1>13. ASSUME NEW j \in Jobs, PurgeRefused(j) PROVE TypeOK'
  BY <1>13, SpendTyped DEF PurgeRefused, Bounded
<1>14. ASSUME NEW j \in Jobs, TimePasses(j) PROVE TypeOK'
  BY <1>14, SpendTyped, WriteTyped, WritesAreRows DEF TimePasses, Bounded
<1>15. ASSUME NEW j \in Jobs, TrashExpires(j) PROVE TypeOK'
  BY <1>15, WriteTyped, WritesAreRows DEF TrashExpires
<1>16. ASSUME NEW k \in Kinds, NEW j \in Jobs, DropUnknown(k, j) PROVE TypeOK'
  BY <1>16, WaitingTyped DEF DropUnknown
<1>17. ASSUME NEW k \in Kinds, NEW j \in Jobs, EntryExpires(k, j) PROVE TypeOK'
  BY <1>17, EntryTyped DEF EntryExpires, Entries, EntryState, NoEntry
<1>18. ASSUME NEW k \in Kinds, NEW j \in Jobs, EntryAbandoned(k, j) PROVE TypeOK'
  BY <1>18, EntryTyped DEF EntryAbandoned, EntryState
<1>19. ASSUME NEW k \in Kinds, NEW j \in Jobs, RedisLoses(k, j) PROVE TypeOK'
  BY <1>19, SpendTyped, EntryTyped, WaitingTyped
  DEF RedisLoses, Bounded, Entries, EntryState, NoEntry
<1>20. ASSUME NEW w \in Workers, NEW k \in Kinds, NEW j \in Jobs, Deliver(w, k, j) PROVE TypeOK'
  <2>1. [pc |-> IF k = "mp4" THEN "claim" ELSE "read", kind |-> k, job |-> j,
         tries |-> entry[k][j].tries, result |-> Null] \in Runs
    BY <1>20, EntryTyped DEF Runs, Entries, RunPc, Mp4Pc, LadderPc, Null
  <2>2. entry' \in [Kinds -> [Jobs -> Entries]]
    BY <1>20, EntryTyped DEF Deliver, EntryState
  <2>3. waiting[k][j] - 1 \in Nat
    BY <1>20, WaitingTyped DEF Deliver
  <2>4. waiting' \in [Kinds -> [Jobs -> Nat]]
    BY <1>20, <2>3, WaitingTyped DEF Deliver
  <2> QED
    BY <1>20, <2>1, <2>2, <2>4 DEF Deliver
<1>21. ASSUME NEW w \in Workers, Claim(w) PROVE TypeOK'
  <2>1. run[w].pc # "idle" /\ run[w].job \in Jobs
    BY <1>21, RunTyped DEF Claim
  <2>2. run' \in [Workers -> Runs]
    BY <1>21, <2>1, GoTyped DEF Claim, RunPc, Mp4Pc
  <2>3. row' \in [Jobs -> Row]
    BY <1>21, <2>1, WriteTyped, WritesAreRows DEF Claim
  <2>4. left' \in [Bounded -> Nat] /\ claimant' \in [Jobs -> Workers \union {NoWorker}]
    BY <1>21, <2>1, SpendTyped DEF Claim, Bounded
  <2> QED
    BY <1>21, <2>2, <2>3, <2>4 DEF Claim
<1>22. ASSUME NEW w \in Workers, StepReturns(w) PROVE TypeOK'
  <2>1. run[w].pc # "idle" /\ run[w].job \in Jobs
    BY <1>22, RunTyped DEF StepReturns
  <2>2. PICK result \in Results : run' = [run EXCEPT ![w].pc = "stepped", ![w].result = result]
    BY <1>22 DEF StepReturns
  <2>3. run'[w] = [run[w] EXCEPT !.pc = "stepped", !.result = result]
    BY <2>2
  <2>4. run'[w] \in Runs
    BY <2>1, <2>3, RunTyped, PipelineAssumption DEF Runs, RunPc, Mp4Pc
  <2>5. run' \in [Workers -> Runs]
    BY <2>2, <2>4
  <2> QED
    BY <1>22, <2>1, <2>5 DEF StepReturns, Objects
<1>23. ASSUME NEW w \in Workers, StepRaises(w) PROVE TypeOK'
  BY <1>23, GoTyped, RunTyped DEF StepRaises, RunPc, Mp4Pc, LadderPc
<1>24. ASSUME NEW w \in Workers, RecordDone(w) PROVE TypeOK'
  BY <1>24, WriteTyped, WritesAreRows, GoTyped, RunTyped DEF RecordDone, RunPc, Mp4Pc, LadderPc
<1>25. ASSUME NEW w \in Workers, RecordFailure(w) PROVE TypeOK'
  BY <1>25, WriteTyped, WritesAreRows, GoTyped, RunTyped
  DEF RecordFailure, RunPc, Mp4Pc, LadderPc
<1>26. ASSUME NEW w \in Workers, GiveBack(w) PROVE TypeOK'
  BY <1>26, WriteTyped, WritesAreRows, GoTyped, RunTyped DEF GiveBack, RunPc, Mp4Pc, LadderPc
<1>27. ASSUME NEW w \in Workers, HandOffLadder(w) PROVE TypeOK'
  BY <1>27, EnqueueTyped, GoTyped, RunTyped DEF HandOffLadder, Kinds, RunPc, Mp4Pc, LadderPc
<1>28. ASSUME NEW w \in Workers, ReadRow(w) PROVE TypeOK'
  BY <1>28, GoTyped, RunTyped DEF ReadRow, RunPc, Mp4Pc, LadderPc
<1>29. ASSUME NEW w \in Workers, BuildReturns(w) PROVE TypeOK'
  BY <1>29, GoTyped, RunTyped DEF BuildReturns, RunPc, Mp4Pc, LadderPc, Objects
<1>30. ASSUME NEW w \in Workers, BuildRaises(w) PROVE TypeOK'
  BY <1>30, GoTyped, RunTyped DEF BuildRaises, RunPc, Mp4Pc, LadderPc, Objects
<1>31. ASSUME NEW w \in Workers, GiveUpLadder(w) PROVE TypeOK'
  BY <1>31, WriteTyped, WritesAreRows, GoTyped, RunTyped
  DEF GiveUpLadder, RunPc, Mp4Pc, LadderPc
<1>32. ASSUME NEW w \in Workers, GiveBackLadder(w) PROVE TypeOK'
  BY <1>32, GoTyped, RunTyped DEF GiveBackLadder, RunPc, Mp4Pc, LadderPc
<1>33. ASSUME NEW w \in Workers, RecordLadder(w) PROVE TypeOK'
  BY <1>33, WriteTyped, WritesAreRows, GoTyped, RunTyped
  DEF RecordLadder, RunPc, Mp4Pc, LadderPc
<1>34. ASSUME NEW w \in Workers, DiscardLadder(w) PROVE TypeOK'
  BY <1>34, GoTyped, RunTyped DEF DiscardLadder, RunPc, Mp4Pc, LadderPc
<1>35. ASSUME NEW w \in Workers, StorePreview(w) PROVE TypeOK'
  BY <1>35, GoTyped, RunTyped DEF StorePreview, RunPc, Mp4Pc, LadderPc, Objects
<1>36. ASSUME NEW w \in Workers, PreviewRaises(w) PROVE TypeOK'
  BY <1>36, GoTyped, RunTyped DEF PreviewRaises, Objects, RunPc, Mp4Pc, LadderPc
<1>37. ASSUME NEW w \in Workers, RecordPreview(w) PROVE TypeOK'
  <2>1. run[w].job \in Jobs
    BY <1>37, RunTyped DEF RecordPreview
  <2>2. row' \in [Jobs -> Row] /\ left' \in [Bounded -> Nat]
    BY <1>37, <2>1, WriteTyped, WritesAreRows, SpendTyped DEF RecordPreview, Bounded
  <2>3. store' \in [Jobs -> SUBSET Objects]
    BY <1>37, <2>1 DEF RecordPreview
  <2>4. run' \in [Workers -> Runs]
    BY <1>37, GoTyped, RunTyped DEF RecordPreview, RunPc, Mp4Pc, LadderPc
  <2> QED
    BY <1>37, <2>2, <2>3, <2>4 DEF RecordPreview
<1>38. ASSUME NEW w \in Workers, Finish(w) PROVE TypeOK'
  BY <1>38, LeaveTyped, RunTyped, EntryTyped DEF Finish, EntryState
<1>39. ASSUME NEW w \in Workers, ReturnRetry(w) PROVE TypeOK'
  <2>1. run[w].kind \in Kinds /\ run[w].job \in Jobs
    BY <1>39, RunTyped DEF ReturnRetry
  <2>2. run[w].tries \in Nat /\ waiting[run[w].kind][run[w].job] \in Nat
    BY <1>39, <2>1, RunTyped, WaitingTyped DEF ReturnRetry
  <2>3. [state |-> "queued", tries |-> run[w].tries + 1] \in Entries
    BY <2>2 DEF Entries, EntryState
  <2>4. CASE run[w].tries < MaxInterruptions
    <3>1. /\ entry' = [entry EXCEPT ![run[w].kind][run[w].job] =
                           [state |-> "queued", tries |-> run[w].tries + 1]]
          /\ waiting' = [waiting EXCEPT ![run[w].kind][run[w].job] =
                             waiting[run[w].kind][run[w].job] + 1]
      BY <1>39, <2>2, <2>4, PipelineAssumption DEF ReturnRetry
    <3>2. entry' \in [Kinds -> [Jobs -> Entries]] /\ waiting' \in [Kinds -> [Jobs -> Nat]]
      BY <2>1, <2>2, <2>3, <3>1
    <3> QED
      BY <1>39, <3>2, LeaveTyped DEF ReturnRetry
  <2>5. CASE run[w].tries >= MaxInterruptions
    <3>1. /\ entry' = [entry EXCEPT ![run[w].kind][run[w].job].state = "failed"]
          /\ waiting' = waiting
      BY <1>39, <2>2, <2>5, PipelineAssumption DEF ReturnRetry
    <3>2. entry' \in [Kinds -> [Jobs -> Entries]]
      BY <2>1, <3>1, EntryTyped DEF EntryState
    <3> QED
      BY <1>39, <3>1, <3>2, LeaveTyped DEF ReturnRetry
  <2> QED
    BY <2>2, <2>4, <2>5, PipelineAssumption
<1>40. ASSUME NEW w \in Workers, HandOffRefused(w) PROVE TypeOK'
  BY <1>40, GoTyped, RunTyped, SpendTyped, EnqueueTyped
  DEF HandOffRefused, RunPc, Mp4Pc, LadderPc, Bounded, Kinds
<1>41. ASSUME NEW w \in Workers, RunErrors(w) PROVE TypeOK'
  <2>1. run[w].kind \in Kinds /\ run[w].job \in Jobs
    BY <1>41, RunTyped DEF RunErrors, RunPc, Mp4Pc, LadderPc
  <2>2. entry' \in [Kinds -> [Jobs -> Entries]]
    BY <1>41, <2>1, EntryTyped DEF RunErrors, EntryState
  <2> QED
    BY <1>41, <2>2, LeaveTyped, SpendTyped DEF RunErrors, Bounded
<1>42. ASSUME NEW w \in Workers, Crash(w) PROVE TypeOK'
  BY <1>42, LeaveTyped, RunTyped, SpendTyped DEF Crash, Bounded
<1>43. ASSUME NEW w \in Workers, SigTerm(w) PROVE TypeOK'
  BY <1>43, SpendTyped DEF SigTerm, Bounded
<1>44. ASSUME NEW w \in Workers, HeartbeatLapses(w) PROVE TypeOK'
  BY <1>44, SpendTyped DEF HeartbeatLapses, Bounded
<1>45. ASSUME ListProcessing PROVE TypeOK'
  BY <1>45, PassTyped DEF ListProcessing, Phases
<1>46. ASSUME ListQueued PROVE TypeOK'
  BY <1>46, PassTyped DEF ListQueued, Phases
<1>47. ASSUME ListLadders PROVE TypeOK'
  BY <1>47, PassTyped DEF ListLadders, Phases
<1>48. ASSUME ListOrphans PROVE TypeOK'
  BY <1>48, PassTyped DEF ListOrphans, Phases
<1>49. ASSUME ListTrash PROVE TypeOK'
  BY <1>49, PassTyped DEF ListTrash, Phases
<1>50. ASSUME EndPass PROVE TypeOK'
  BY <1>50, PassTyped DEF EndPass
<1>51. ASSUME NEW j \in Jobs, CheckHeartbeat(j) PROVE TypeOK'
  <2>1. [reaper EXCEPT !.todo = @ \ {j}, !.doomed = @ \union {j}] \in Passes
    BY DEF Passes
  <2> QED
    BY <1>51, <2>1, PassTyped DEF CheckHeartbeat
<1>52. ASSUME NEW j \in Jobs, FailStale(j) PROVE TypeOK'
  BY <1>52, WriteTyped, WritesAreRows DEF FailStale, Passes
<1>53. ASSUME NEW j \in Jobs, RequeueStale(j) PROVE TypeOK'
  BY <1>53, PassTyped, EnqueueTyped DEF RequeueStale, Kinds
<1>54. ASSUME NEW j \in Jobs, SettleStaleLadder(j) PROVE TypeOK'
  BY <1>54, PassTyped, EnqueueTyped, WriteTyped, WritesAreRows DEF SettleStaleLadder, Kinds
<1>55. ASSUME NEW j \in Jobs, SweepSource(j) PROVE TypeOK'
  BY <1>55, PassTyped DEF SweepSource
<1>56. ASSUME NEW j \in Jobs, EmptyTrash(j) PROVE TypeOK'
  <2>1. KeysOf(row[j]) \subseteq Objects /\ NoRow \in Row
    BY WritesAreRows DEF KeysOf, Objects
  <2>2. row' \in [Jobs -> Row] /\ purge' \in [Jobs -> SUBSET Objects]
    BY <1>56, <2>1 DEF EmptyTrash, DeleteRow, Write
  <2> QED
    BY <1>56, <2>2, PassTyped DEF EmptyTrash
<1>57. ASSUME PassFails PROVE TypeOK'
  BY <1>57, SpendTyped, PassTyped DEF PassFails, Bounded
<1>58. CASE UNCHANGED vars
  BY <1>58 DEF vars
<1> QED
  BY <1>1, <1>2, <1>3, <1>4, <1>5, <1>6, <1>7, <1>8, <1>9, <1>10, <1>11, <1>12, <1>13,
     <1>14, <1>15, <1>16, <1>17, <1>18, <1>19, <1>20, <1>21, <1>22, <1>23, <1>24, <1>25,
     <1>26, <1>27, <1>28, <1>29, <1>30, <1>31, <1>32, <1>33, <1>34, <1>35, <1>36, <1>37,
     <1>38, <1>39, <1>40, <1>41, <1>42, <1>43, <1>44, <1>45, <1>46, <1>47, <1>48, <1>49,
     <1>50, <1>51, <1>52, <1>53, <1>54, <1>55, <1>56, <1>57, <1>58
  DEF Next, ApiStep, UserStep, QueueStep, WorkerStep, WorkerFault, ReaperStep

(* The types hold initially.                                               *)
LEMMA TypeInit == Init => TypeOK
<1> SUFFICES ASSUME Init PROVE TypeOK
  OBVIOUS
<1>1. NoRow \in Row /\ NoEntry \in Entries /\ IdleRun \in Runs /\ RestingReaper \in Passes
  BY WritesAreRows, PassTyped
     DEF Row, NoRow, JobStatus, HlsStatus, Null, Fresh, GraceOver, NoEntry, Entries,
        EntryState, Runs
<1> QED
  BY <1>1, PipelineAssumption DEF Init, TypeOK, ApiState

(* TypeOK is an invariant: whatever requests, workers, reaper and faults   *)
(* interleave, a row's hls_status is never NULL, a run in hand always has  *)
(* a job, and no count of deliveries or tries goes below zero.             *)
THEOREM TypeCorrect == Spec => []TypeOK
  BY TypeInit, TypeStep, PTL DEF Spec

-----------------------------------------------------------------------------
(* What one step does to one job, as its row r and its request a become s  *)
(* and b: nothing else of the state matters for RowsLegal and the contract.*)

RequestMove(r, a, b) ==
    \/ a = "new" /\ b = "stored"
    \/ a \in {"stored", "created"} /\ b = "idle"
    \/ a = "idle" /\ r.status = "failed" /\ b = "prepared"
    \/ a = "prepared" /\ b = "delivered"
    \/ a \in {"prepared", "delivered"} /\ b = "idle"

RowWrite(r, a, s) ==
    \/ s = r
    \/ r.status # "absent" /\ a \notin {"prepared", "delivered"} /\ s = NoRow
    \/ s \in {TrashRow(r), RestoreRow(r), ExpireRow(r), AgeRow(r)}
    \/ r.status = "queued" /\ s = MarkProcessing(r)
    \/ /\ r.status = "processing"
       /\ \/ s \in {MarkInterrupted(r), MarkFailed(r), MarkStaleFailed(r)}
          \/ \E result : s = MarkDone(r, result)
    \/ AwaitsLadder(r) /\ s \in {MarkLadderReady(r), MarkLadderUnavailable(r)}
    \/ AwaitsPreview(r) /\ s = MarkPreviewReady(r)

RowMove(r, a, s, b) ==
    \/ s = r /\ RequestMove(r, a, b)
    \/ a = "stored" /\ b = "created" /\ s = NewRow
    \/ a = "delivered" /\ b = "idle" /\ s = PrepareRetry(r)
    \/ b = a /\ RowWrite(r, a, s)

RowStep(j) ==
    /\ row' = [row EXCEPT ![j] = row'[j]]
    /\ api' = [api EXCEPT ![j] = api'[j]]
    /\ RowMove(row[j], api[j], row'[j], api'[j])

(* Every step moves at most one job's row and request, by one of the above. *)
LEMMA StepMovesOneRow ==
    ASSUME TypeOK, Next
    PROVE  UNCHANGED <<row, api>> \/ \E j \in Jobs : RowStep(j)
<1> DEFINE Goal == UNCHANGED <<row, api>> \/ \E j \in Jobs : RowStep(j)
<1>1. row \in [Jobs -> Row] /\ api \in [Jobs -> ApiState]
  BY DEF TypeOK
<1>2. \A w \in Workers : run[w].pc # "idle" => run[w].job \in Jobs
  BY RunTyped DEF TypeOK
<1>3. ASSUME NEW j \in Jobs, CreateJob(j) PROVE Goal
  BY <1>1, <1>3 DEF CreateJob, Write, RowStep, RowMove
<1>4. ASSUME NEW j \in Jobs, EnqueueNew(j) PROVE Goal
  BY <1>1, <1>4 DEF EnqueueNew, RowStep, RowMove, RequestMove
<1>5. ASSUME NEW j \in Jobs, RetryDeliver(j) PROVE Goal
  BY <1>1, <1>5 DEF RetryDeliver, RowStep, RowMove, RequestMove
<1>6. ASSUME NEW j \in Jobs, RetryCommit(j) PROVE Goal
  BY <1>1, <1>6 DEF RetryCommit, Write, Spend, RowStep, RowMove
<1>7. ASSUME NEW j \in Jobs, StoreSource(j) PROVE Goal
  BY <1>1, <1>7 DEF StoreSource, RowStep, RowMove, RequestMove
<1>8. ASSUME NEW j \in Jobs, UploadFails(j) PROVE Goal
  BY <1>1, <1>8 DEF UploadFails, Spend, RowStep, RowMove, RequestMove
<1>9. ASSUME NEW j \in Jobs, RetryPrepare(j) PROVE Goal
  BY <1>1, <1>9 DEF RetryPrepare, RowStep, RowMove, RequestMove
<1>10. ASSUME NEW j \in Jobs, RetryRollback(j) PROVE Goal
  BY <1>1, <1>10 DEF RetryRollback, Spend, RowStep, RowMove, RequestMove
<1>11. ASSUME NEW j \in Jobs, TrashJob(j) PROVE Goal
  BY <1>1, <1>11 DEF TrashJob, Spend, Write, Present, Unlocked, RowStep, RowMove, RowWrite
<1>12. ASSUME NEW j \in Jobs, RestoreJob(j) PROVE Goal
  BY <1>1, <1>12 DEF RestoreJob, Write, Present, Unlocked, RowStep, RowMove, RowWrite
<1>13. ASSUME NEW j \in Jobs, DeleteJobNow(j) PROVE Goal
  BY <1>1, <1>13
  DEF DeleteJobNow, DeleteRow, Write, Present, Spend, Unlocked, RowStep, RowMove, RowWrite
<1>14. ASSUME NEW j \in Jobs, TimePasses(j) PROVE Goal
  BY <1>1, <1>14 DEF TimePasses, Spend, Write, Present, RowStep, RowMove, RowWrite
<1>15. ASSUME NEW j \in Jobs, TrashExpires(j) PROVE Goal
  BY <1>1, <1>15 DEF TrashExpires, Write, RowStep, RowMove, RowWrite
<1>16. ASSUME NEW w \in Workers, Claim(w) PROVE Goal
  BY <1>1, <1>2, <1>16 DEF Claim, Claimable, Write, Spend, RowStep, RowMove, RowWrite
<1>17. ASSUME NEW w \in Workers, RecordDone(w) PROVE Goal
  BY <1>1, <1>2, <1>17 DEF RecordDone, Write, RowStep, RowMove, RowWrite
<1>18. ASSUME NEW w \in Workers, RecordFailure(w) PROVE Goal
  BY <1>1, <1>2, <1>18 DEF RecordFailure, Write, RowStep, RowMove, RowWrite
<1>19. ASSUME NEW w \in Workers, GiveBack(w) PROVE Goal
  BY <1>1, <1>2, <1>19 DEF GiveBack, Write, RowStep, RowMove, RowWrite
<1>20. ASSUME NEW w \in Workers, GiveUpLadder(w) PROVE Goal
  BY <1>1, <1>2, <1>20 DEF GiveUpLadder, Write, RowStep, RowMove, RowWrite
<1>21. ASSUME NEW w \in Workers, RecordLadder(w) PROVE Goal
  BY <1>1, <1>2, <1>21 DEF RecordLadder, Write, RowStep, RowMove, RowWrite
<1>22. ASSUME NEW w \in Workers, RecordPreview(w) PROVE Goal
  BY <1>1, <1>2, <1>22 DEF RecordPreview, Write, RowStep, RowMove, RowWrite
<1>23. ASSUME NEW j \in Jobs, FailStale(j) PROVE Goal
  BY <1>1, <1>23 DEF FailStale, Write, RowStep, RowMove, RowWrite
<1>24. ASSUME NEW j \in Jobs, SettleStaleLadder(j) PROVE Goal
  BY <1>1, <1>24 DEF SettleStaleLadder, Write, RowStep, RowMove, RowWrite
<1>25. ASSUME NEW j \in Jobs, EmptyTrash(j) PROVE Goal
  BY <1>1, <1>25 DEF EmptyTrash, DeleteRow, Write, Present, Unlocked, RowStep, RowMove, RowWrite
<1>26. ASSUME NEW j \in Jobs,
             \/ PurgeStorage(j) \/ PurgeRefused(j) \/ CheckHeartbeat(j) \/ RequeueStale(j)
             \/ SweepSource(j)
      PROVE Goal
  BY <1>26
  DEF PurgeStorage, PurgeRefused, CheckHeartbeat, RequeueStale, SweepSource
<1>27. ASSUME NEW k \in Kinds, NEW j \in Jobs,
             \/ DropUnknown(k, j) \/ EntryExpires(k, j) \/ EntryAbandoned(k, j)
             \/ RedisLoses(k, j)
      PROVE Goal
  BY <1>27
  DEF DropUnknown, EntryExpires, EntryAbandoned, RedisLoses
<1>28. ASSUME NEW w \in Workers, NEW k \in Kinds, NEW j \in Jobs,
             \/ Deliver(w, k, j)
      PROVE Goal
  BY <1>28
  DEF Deliver
<1>29. ASSUME NEW w \in Workers,
             \/ StepReturns(w) \/ StepRaises(w) \/ HandOffLadder(w) \/ ReadRow(w)
             \/ BuildReturns(w) \/ BuildRaises(w) \/ GiveBackLadder(w) \/ DiscardLadder(w)
             \/ StorePreview(w) \/ PreviewRaises(w) \/ Finish(w) \/ ReturnRetry(w)
             \/ HandOffRefused(w) \/ RunErrors(w) \/ Crash(w) \/ SigTerm(w) \/ HeartbeatLapses(w)
      PROVE Goal
  BY <1>29
  DEF StepReturns, StepRaises, HandOffLadder, ReadRow, BuildReturns,
      BuildRaises, GiveBackLadder, DiscardLadder, StorePreview, PreviewRaises,
      Finish, ReturnRetry, HandOffRefused, RunErrors, Crash, SigTerm,
      HeartbeatLapses
<1>30. ASSUME \/ ListProcessing \/ ListQueued \/ ListLadders \/ ListOrphans \/ ListTrash
             \/ EndPass \/ PassFails
      PROVE Goal
  BY <1>30
  DEF ListProcessing, ListQueued, ListLadders, ListOrphans, ListTrash, EndPass,
      PassFails
<1> QED
  BY <1>3, <1>4, <1>5, <1>6, <1>7, <1>8, <1>9, <1>10, <1>11, <1>12, <1>13, <1>14, <1>15,
     <1>16, <1>17, <1>18, <1>19, <1>20, <1>21, <1>22, <1>23, <1>24, <1>25, <1>26, <1>27,
     <1>28, <1>29, <1>30
  DEF Next, ApiStep, UserStep, QueueStep, WorkerStep, WorkerFault, ReaperStep

(* The inductive invariant: besides the CHECK constraints, only a done row *)
(* has a ladder, a row appears when its source is stored, and the row of a *)
(* retry that has not committed is still failed.                           *)
Consistent(r, a) ==
    /\ CheckConstraints(r)
    /\ r.status # "done" => r.hls_key = Null
    /\ a \in {"new", "stored"} => r.status = "absent"
    /\ a \in {"prepared", "delivered"} => r.status = "failed"

RowsConsistent == \A j \in Jobs : Consistent(row[j], api[j])

(* Every move leaves a consistent row: the partial updates meet only rows  *)
(* whose other columns already fit.                                        *)
LEMMA RowMoveConsistent ==
    ASSUME NEW r \in Row, NEW a, NEW s, NEW b, RowMove(r, a, s, b), Consistent(r, a)
    PROVE  Consistent(s, b)
<1> USE DEF Consistent, CheckConstraints, Row, JobStatus, HlsStatus, Null
<1>1. CASE s = r /\ RequestMove(r, a, b)
  BY <1>1 DEF RequestMove
<1>2. CASE a = "stored" /\ b = "created" /\ s = NewRow
  BY <1>2 DEF NewRow
<1>3. CASE a = "delivered" /\ b = "idle" /\ s = PrepareRetry(r)
  BY <1>3 DEF PrepareRetry
<1>4. CASE b = a /\ RowWrite(r, a, s)
  <2>1. CASE s = r
    BY <1>4, <2>1
  <2>2. CASE r.status # "absent" /\ a \notin {"prepared", "delivered"} /\ s = NoRow
    BY <1>4, <2>2 DEF NoRow
  <2>3. CASE s \in {TrashRow(r), RestoreRow(r), ExpireRow(r), AgeRow(r)}
    BY <1>4, <2>3 DEF TrashRow, RestoreRow, ExpireRow, AgeRow
  <2>4. CASE r.status = "queued" /\ s = MarkProcessing(r)
    BY <1>4, <2>4 DEF MarkProcessing, Transition, DerivedHlsStatus
  <2>5. CASE r.status = "processing" /\ s = MarkInterrupted(r)
    BY <1>4, <2>5 DEF MarkInterrupted, Transition, DerivedHlsStatus
  <2>6. CASE r.status = "processing" /\ s = MarkFailed(r)
    BY <1>4, <2>6 DEF MarkFailed, Transition, DerivedHlsStatus
  <2>7. CASE r.status = "processing" /\ s = MarkStaleFailed(r)
    BY <1>4, <2>7 DEF MarkStaleFailed
  <2>8. CASE r.status = "processing" /\ \E result : s = MarkDone(r, result)
    BY <1>4, <2>8 DEF MarkDone, Transition, DerivedHlsStatus
  <2>9. CASE AwaitsLadder(r) /\ s \in {MarkLadderReady(r), MarkLadderUnavailable(r)}
    BY <1>4, <2>9 DEF AwaitsLadder, MarkLadderReady, MarkLadderUnavailable, SettleLadder
  <2>10. CASE AwaitsPreview(r) /\ s = MarkPreviewReady(r)
    BY <1>4, <2>10 DEF AwaitsPreview, MarkPreviewReady
  <2> QED
    BY <1>4, <2>1, <2>2, <2>3, <2>4, <2>5, <2>6, <2>7, <2>8, <2>9, <2>10 DEF RowWrite
<1> QED
  BY <1>1, <1>2, <1>3, <1>4 DEF RowMove

(* So every step keeps every job's row consistent.                         *)
LEMMA RowsConsistentStep ==
    ASSUME TypeOK, RowsConsistent, [Next]_vars
    PROVE  RowsConsistent'
<1>1. CASE UNCHANGED <<row, api>>
  BY <1>1 DEF RowsConsistent
<1>2. ASSUME NEW j \in Jobs, RowStep(j)
      PROVE  RowsConsistent'
  <2>1. Consistent(row'[j], api'[j])
    BY <1>2, RowMoveConsistent DEF TypeOK, RowStep, RowsConsistent
  <2>2. \A i \in Jobs \ {j} : row'[i] = row[i] /\ api'[i] = api[i]
    BY <1>2 DEF TypeOK, RowStep
  <2> QED
    BY <2>1, <2>2 DEF RowsConsistent
<1> QED
  BY <1>1, <1>2, StepMovesOneRow DEF vars

(* No row is there initially.                                              *)
LEMMA RowsConsistentInit == Init => RowsConsistent
  BY DEF Init, RowsConsistent, Consistent, CheckConstraints, NoRow, Null

(* No write the program makes is ever refused by the table's CHECK         *)
(* constraints, in any interleaving of requests, workers and reaper.       *)
THEOREM RowsAlwaysLegal == Spec => []RowsLegal
<1>1. TypeOK /\ RowsConsistent => RowsLegal
  BY DEF RowsConsistent, Consistent, RowsLegal
<1> QED
  BY <1>1, TypeCorrect, RowsConsistentInit, RowsConsistentStep, PTL DEF Spec

-----------------------------------------------------------------------------
(* The pipeline implements JobLifecycle.                                   *)

(* The moves of the contract, as pairs of shown states.                    *)
ShownMove(x, y) ==
    \/ x = "none" /\ y = "queued"
    \/ x = "queued" /\ y = "processing"
    \/ x = "processing" /\ y \in {"queued", "failed", "pending", "unavailable"}
    \/ x = "pending" /\ y \in {"ready", "unavailable"}
    \/ x = "failed" /\ y = "queued"
    \/ x \in Lifecycle!Shown \ {"gone"} /\ y = "gone"

(* A consistent row moves as the contract allows, or shows no change.      *)
LEMMA RowMoveShown ==
    ASSUME NEW r \in Row, NEW a \in ApiState, NEW s, NEW b,
           RowMove(r, a, s, b), Consistent(r, a)
    PROVE  \/ ShownOf(s, b) = ShownOf(r, a)
           \/ ShownMove(ShownOf(r, a), ShownOf(s, b))
<1> USE DEF ShownOf, ShownMove, Consistent, CheckConstraints, Row, JobStatus, HlsStatus, Null,
            Lifecycle!Shown, Lifecycle!DoneStates
<1>1. CASE s = r /\ RequestMove(r, a, b)
  BY <1>1 DEF RequestMove
<1>2. CASE a = "stored" /\ b = "created" /\ s = NewRow
  BY <1>2 DEF NewRow
<1>3. CASE a = "delivered" /\ b = "idle" /\ s = PrepareRetry(r)
  BY <1>3 DEF PrepareRetry
<1>4. CASE b = a /\ RowWrite(r, a, s)
  <2>1. CASE s = r
    BY <1>4, <2>1
  <2>2. CASE r.status # "absent" /\ a \notin {"prepared", "delivered"} /\ s = NoRow
    BY <1>4, <2>2 DEF NoRow
  <2>3. CASE s \in {TrashRow(r), RestoreRow(r), ExpireRow(r), AgeRow(r)}
    BY <1>4, <2>3 DEF TrashRow, RestoreRow, ExpireRow, AgeRow
  <2>4. CASE r.status = "queued" /\ s = MarkProcessing(r)
    BY <1>4, <2>4 DEF MarkProcessing, Transition, DerivedHlsStatus
  <2>5. CASE r.status = "processing" /\ s = MarkInterrupted(r)
    BY <1>4, <2>5 DEF MarkInterrupted, Transition, DerivedHlsStatus
  <2>6. CASE r.status = "processing" /\ s = MarkFailed(r)
    BY <1>4, <2>6 DEF MarkFailed, Transition, DerivedHlsStatus
  <2>7. CASE r.status = "processing" /\ s = MarkStaleFailed(r)
    BY <1>4, <2>7 DEF MarkStaleFailed
  <2>8. CASE r.status = "processing" /\ \E result : s = MarkDone(r, result)
    BY <1>4, <2>8 DEF MarkDone, Transition, DerivedHlsStatus
  <2>9. CASE AwaitsLadder(r) /\ s \in {MarkLadderReady(r), MarkLadderUnavailable(r)}
    BY <1>4, <2>9 DEF AwaitsLadder, MarkLadderReady, MarkLadderUnavailable, SettleLadder
  <2>10. CASE AwaitsPreview(r) /\ s = MarkPreviewReady(r)
    BY <1>4, <2>10 DEF AwaitsPreview, MarkPreviewReady
  <2> QED
    BY <1>4, <2>1, <2>2, <2>3, <2>4, <2>5, <2>6, <2>7, <2>8, <2>9, <2>10 DEF RowWrite
<1> QED
  BY <1>1, <1>2, <1>3, <1>4 DEF RowMove

(* The state the contract sees.                                            *)
ShownJobs == [j \in Jobs |-> ShownOf(row[j], api[j])]

(* A shown move of one job is a step of JobLifecycle.                      *)
LEMMA ShownMoveIsStep ==
    ASSUME NEW j \in Jobs, NEW y, ShownMove(ShownJobs[j], y),
           ShownJobs' = [ShownJobs EXCEPT ![j] = y]
    PROVE  Lifecycle!LifecycleNext
<1> USE DEF ShownMove, ShownJobs, Lifecycle!Move
<1>1. Lifecycle!Submit(j) \/ Lifecycle!Begin(j) \/ Lifecycle!PutBack(j) \/ Lifecycle!Fail(j)
      \/ Lifecycle!Complete(j) \/ Lifecycle!Settle(j) \/ Lifecycle!TryAgain(j) \/ Lifecycle!Vanish(j)
  BY
  DEF Lifecycle!Submit, Lifecycle!Begin, Lifecycle!PutBack, Lifecycle!Fail,
      Lifecycle!Complete,
         Lifecycle!Settle, Lifecycle!TryAgain, Lifecycle!Vanish
<1> QED
  BY <1>1 DEF Lifecycle!LifecycleNext

(* So every step is a step of JobLifecycle, or shows nothing.              *)
LEMMA LifecycleStep ==
    ASSUME TypeOK, RowsConsistent, [Next]_vars
    PROVE  Lifecycle!LifecycleNext \/ UNCHANGED ShownJobs
<1>1. CASE UNCHANGED <<row, api>>
  BY <1>1 DEF ShownJobs
<1>2. ASSUME NEW j \in Jobs, RowStep(j)
      PROVE  Lifecycle!LifecycleNext \/ UNCHANGED ShownJobs
  <2>1. \A i \in Jobs \ {j} : row'[i] = row[i] /\ api'[i] = api[i]
    BY <1>2 DEF TypeOK, RowStep
  <2>2. ShownJobs' = [ShownJobs EXCEPT ![j] = ShownOf(row'[j], api'[j])]
    BY <2>1 DEF ShownJobs
  <2>3. \/ ShownOf(row'[j], api'[j]) = ShownJobs[j]
        \/ ShownMove(ShownJobs[j], ShownOf(row'[j], api'[j]))
    BY <1>2, RowMoveShown DEF TypeOK, RowStep, RowsConsistent, ShownJobs
  <2>4. CASE ShownOf(row'[j], api'[j]) = ShownJobs[j]
    BY <2>2, <2>4 DEF ShownJobs
  <2> QED
    BY <2>2, <2>3, <2>4, ShownMoveIsStep
<1> QED
  BY <1>1, <1>2, StepMovesOneRow DEF vars

(* Initially no job shows anything.                                        *)
LEMMA LifecycleInitially == Init => Lifecycle!LifecycleInit
  BY DEF Init, NoRow, ShownOf, Lifecycle!LifecycleInit

(* Whatever interleaves and whatever fails, a job shows its owner only the *)
(* moves of the contract: a finished video never unfinishes, a settled     *)
(* ladder never changes, a deleted job never returns.                      *)
THEOREM PipelineImplementsLifecycle == Spec => ImplementsLifecycle
<1>1. TypeOK /\ RowsConsistent /\ [Next]_vars => [Lifecycle!LifecycleNext]_ShownJobs
  BY LifecycleStep
<1> QED
  BY <1>1, TypeCorrect, RowsConsistentInit, RowsConsistentStep, LifecycleInitially, PTL
  DEF Spec, ImplementsLifecycle, Lifecycle!LifecycleSpec, ShownJobs
=============================================================================
