# Verification of the media pipeline

TLA+ modules for the parts of this repository where processes meet: the API, the
workers, the reaper, Redis, PostgreSQL and the object store. TLC checks small
instances; TLAPS proves the central results for every value of the constants.

Contents: 1 the system · 2 the modules and the code · 3 runs · 4 bounds · 5 fairness ·
6 proofs · 7 disagreements with the documentation · 8 known limits · 9 not modelled ·
10 plan

## 1 The system

A FastAPI service takes videos, a table `jobs` in PostgreSQL says what became of each,
RQ queues in Redis carry them to worker processes, the workers run FFmpeg and write to
an S3-compatible bucket, and a reaper repairs what crashes leave behind. Nothing is
shared in memory between processes: every interaction is a row, a Redis key, a queue
entry or an object.

| Component | State it keeps | Operations | Correct when |
|---|---|---|---|
| Jobs table (`models/job.py`, `repositories/jobs.py`) | one row per video: status, keys, `hls_status`, `interruptions`, `deleted_at` | conditional updates, one commit each | the CHECK constraints hold after any mix of partial updates; a done job stays done |
| Upload and job routes (`api/uploads.py`, `api/jobs.py`) | none; a request holds a transaction | upload, retry, trash, restore, delete | a queued row is delivered or recognisably lost; nothing is deleted that is in the library |
| Job queue (`queue.py`, RQ) | entries with a status and retries; lists of ids | enqueue, dequeue, retry, expiry | duplicates and losses are harmless |
| Worker tasks (`worker/tasks.py`) | the run in hand | claim, step, record, give back, ladder, preview | one runner per job; what a row names is in the bucket |
| Reaper (`worker/reaper.py`, `services/job_cleanup.py`) | a pass over lists read earlier | fail stale, re-enqueue, settle ladders, sweep, empty trash, clean expired uploads | every job, ladder, session and stray source comes to an end |
| Piecewise encoding (`worker/chunked.py`, `worker/ladder_pieces.py`) | a board in Redis: plan, to-do, in flight, done; pieces in the bucket | open, take, finish, give back, unclaimed, close | the join is whole and of one plan; the coordinator depends on nobody |
| Multipart uploads (`api/multipart_uploads.py`, `repositories/uploads.py`, `services/multipart_storage.py`, `services/upload_cleanup.py`) | a session row; a multipart upload and an object in the bucket | start, put parts, complete, abort, clean up | a job has its source; an abort is final; a slot is given back |
| Accounts (`api/admin_users.py`) | the user's row, which is also the lock of its uploads | delete account | storage first, rows last, nothing left behind |
| Interruption (`worker/interruption.py`) | a stop flag, a lock, the running processes | SIGTERM handler, run | a stopped worker starts no further FFmpeg and always ends its job |
| Ladder and renditions (`worker/hls.py`, `worker/renditions.py`, `api/hls.py`, `services/popularity.py`) | files under the video's `hls/` prefix, the master playlist, its lock in Redis, a play counter | build, upload, list a rendition, serve, count a play | the master lists only what is stored, loses no entry, and reads as a player needs it |
| Edits (`schemas/edit.py`, `services/media_rules.py`, `worker/operations.py`, `worker/edit_ops/`, the edit route) | operations of a derived job, the source it shares | offer, validate, create, run, remove | the API accepts what the worker can do, the file is what was asked for, nobody's file is removed with another's video |
| Browser (`frontend/app.js`) | an upload in progress, a polled list | resume, cancel, poll | at most one upload of a part counts; an old answer never overwrites a newer one |

What is hard here: two stores that cannot commit together (a row and a queue entry, a row
and an object), deliveries that come twice or never, workers that are stopped, killed or
merely silent, lists that are stale when they are worked off, and cleanup that must not
delete what somebody is about to use. PROJECT.json lists each such place with its line
and the properties aimed at it.

## 2 The modules and the code

**JobRow** — the row and every write to it, as operators on a record: `Transition` with
the WHERE clause of `_transition`, `MarkDone`, `MarkInterrupted`, `PrepareRetry` and the
others, and the table's CHECK constraints (`CheckConstraints`). Columns nobody decides on
(filename, times shown to the user) are left out; a thumbnail stands with the dimensions
it is written with.

**JobPipeline** — everything that happens to jobs. `row` is the table, `store` which of a
job's objects are in the bucket (`hls` is everything under the ladder's prefix), `entry`
and `waiting` are RQ's view, `run` what each worker is doing, `api` where a request
stands, `purge` a delete that has taken the row and not yet the objects, `reaper` the pass
in progress with the list it read. One action holds at most one commit, one Redis call or
one storage call, so everything between two of them is interleaved, but for two of the
reaper's steps: `RequeueStale` (`RqJob.exists`, then `enqueue_job`; a retry enqueued in
between would be a duplicate delivery, and the model has those from other causes) and
`SettleStaleLadder` (RQ's status, the heartbeat, then the enqueue or the write; an entry is
made by a hand-off only, and a ladder that was recorded in between is kept by the write's
own condition). Faults are actions
too: a worker killed (`Crash`), told to stop (`SigTerm`), silent (`HeartbeatLapses`),
Redis losing an entry, a refused call, an unhandled error, somebody slower than the
reaper's clocks (`slow`), a preview's commit that goes through without the worker hearing
of it (`doubt`). Each spends from `Limits`, so a run says which faults it has.
RQ itself is external and modelled by what the code relies on: an enqueue with a known id
replaces the entry and its retries, a returned `Retry(max)` is honoured by the count of
tries the run started with (`run.tries`: RQ keeps it on the job the worker holds, which is
what `_previous_interruptions` reads), a finished entry expires.

**JobLifecycle** — what the owner of a video is promised: a state per job and the moves
the contract has. JobPipeline implements it (`ImplementsLifecycle`): a row shows its
status, and a done row the status of its ladder.

**PieceBoard** — one job's pieces: the board's four Redis keys, the coordinator and the
helpers, each Redis command, pipeline and storage call a step. A piece in the bucket is
represented by the attempt whose plan it was encoded by. The MP4's and the ladder's
boards have the same code and the same model; where the pieces are cut is abstracted to
how many there are. The time a piece was taken is `fresh` or `stale`. A process that
fails between LPOP and its note behaves like one that is killed there (`HelperKilled`).

**UploadSession** — the resumable uploads of one account. Every transaction locks the
owner's row first (`lock`), so requests, cleanup and account deletion exclude each other
except where the code commits in the middle: after `add_upload`, after freezing the
manifest, after creating the job and after recording the intent to abort. The bucket is
not part of any transaction: `multipart` holds the ETags of the uploaded parts, `object`
the merged source and its age, `pending` merges the store finishes or drops after the
request gave up. A session names its job and its source key. `AbortStorage` is the two calls
of `MultipartStorage.abort`: a merge that ends between them is deleted by the second, like
one that ended before.

**EditRules** — the decisions about an edit, as operators: what a request may contain
(`IsEditRequest`), what is judged from sizes alone (`CheckEditOperations`, the rule both
the API and the worker run), what the file itself is checked for (`ClipFits`, `CropFits`,
`SourceIsAllowed`), and the filter chain and command the worker builds. FFmpeg is external
and modelled by what the chain does to a file's frame, rotation, colour and length: a crop
rounds to even, a scale rounds the other side, tone mapping makes 8-bit 4:2:0, a colour
filter on an HDR picture marks it (`hot`). `Mp4Result` is the upload's own encode.

**EditJobs** — an upload and its edits, from request to library. `rows` is the table,
`store` the files by key, `call` the edit request between its commit and its enqueue,
`run` the worker's job, `removing` a deleted row whose objects are still there, `known` the
size each edit was judged by (its domain is the ids that were given out). `Root` follows `resolve_edit_roots` through edits that share
their upload's source and older ones cut from its MP4. A worker that takes a job runs it
to its end: interruptions are JobPipeline's.

**PieceCuts** — where a long video is cut and what its pieces show. Times are integers in
the stream's time base and rates pairs of integers, exact as the code's Fractions.
`frame_starts` and `segment_aligned_starts` are the code's two ways to cut, `EncodePiece`
what a piece's command shows (seek, `setpts`, `fps`, `-frames:v`), `OneEncode` the
reference: the same filter over the whole file.

**LadderGraph** — the rungs of a source, the filter graph, the maps and streams of the one
FFmpeg run that makes them, and the master playlist as a sequence of entries, each with the
peak measured over its segments: `peak_rate` is `_rates`, which leaves a final sliver out.
A ladder that was not cut has FFmpeg's own master; `write_master` keeps its layout, and its
peaks are modelled as measured in the same way. FFmpeg's
side (`GraphIsAccepted`, `Passed`, `LadderEncodes`) says when it takes such a graph.

**SeqFilter** — `Among(s, S)`, the comprehension `[x for x in s if x in S]`, with a set where
`SelectSeq` has a test the provers could not reason about.

**MasterPlaylist** — which AV1 renditions a source gets, what each rung may spend, what its
segments are measured to have spent (`peak_bandwidth`: all of them, the short last one
included), and how entries join the master (`WithRendition`: `add_to_master` for every rung,
as one stable sort by rank); the paths the playback route serves.

**Renditions** — composes the three. A video goes through its cuts, its ladder's encode and
upload and `mark_ladder_ready`; the after-ladder hook and the plays queue renditions, and
workers build them. Every line of `interruption.run` and `request_stop` at which a signal
matters is a program counter: the handler runs in the same thread, so a SIGTERM while
`_lock` is held waits for itself (`stuck`) until RQ's job timeout raises in it. Uploads are
one step per playlist and per set of segments; the master is read and written in two steps
under the lock. A process's failure, a refused upload and a refused enqueue are troubles, a
killed worker keeps the lock until it expires. `Begin` is the row's load, the look at the
master and the source's download: until the probe starts the job has written nothing, and a
failure of any of them ends it (a trouble). What a stop does to the ladder job
itself, and its discards, are in JobPipeline. What the encoders write is the constant
`Encoded`: the lengths and sizes of the segments of a video's rung. Of the renditions'
encoder `EncoderAssumption` says what `-maxrate` and a buffer of one second are for: no
segment is larger than the cap allows for its length and a second more, and all but the
last are at least four seconds long (`SEGMENT_TENTHS`; the `SEGMENT_SECONDS` of the cuts is
another number, and scaled). Of the H.264 and AAC encoders nothing is assumed.

The MC modules give the constants values; the definitions
called mutants in the modules' comments are deliberately wrong variants of the one that
follows, used to see that each property can fail.

## 3 Runs

| Run | Instance | Shows |
|---|---|---|
| `encode` | 1 job, 2 workers; 3 stops, 2 retries, 1 refused call | `RowsLegal`; `AtMostOneRunner`; `GiveBackOwnClaim`; `QueuedIsRecoverable`: a queued row is on its way or RQ has no live entry for it; `RetryIsDelivered`: a committed retry still has its delivery |
| `delivery` | 1 job, 1 worker; stops, a retry, refused calls, slowness, a delete; fair | `JobSettles`, `SourceGoes` |
| `ladders` | 1 job, 1 worker; a crash, an error, a lost entry, a lapse, a commit in doubt; fair | `TypeOK`, `LadderSettles` |
| `deletes` | 1 job, 2 workers; a delete, a trip to the trash, a stop, a refused call | `RecordedIsStored`, `ReadyIsStored`, `ImplementsLifecycle` |
| `pieces` | 2 pieces, 2 helpers, 2 attempts, a crash, a failure; fair coordinator | `TypeOK`, `JoinsOwnPieces`, `AttemptEnds` |
| `uploads` | 1 session, 2 requests, parts uploaded up to twice; a failure, a late merge, a deleted job, a deleted account; fair | `TypeOK` with the lock's discipline, `JobHasSource`, `CompletedIsQueued`, `AbortIsFinal`, `SlotIsFreed`, `StrayGoes` |
| `edits` | 1 upload, 2 edits, 4 files, 8 requests; 2 retries, removals or failures | `TypeOK`, `ApiAndWorkerAgree`: the worker refuses by the rules only what the API had no size to judge by; `OfferedIsAccepted`, `LibraryIsPlayable`, `OutputAsAsked`, `WaitingIsServed`, `StartsFromOriginal` |
| `renditions` | 8 sources, some 300 files, 2 workers; a stop, a crash, a trouble, 2 plays; fair | `TypeOK` with the lock's discipline, `PiecesJoinAsOne`, `LadderIsWellFormed`, `MasterListsStored`, `MasterReadsRight`, `WholeSegmentsStart`: a player starts in a rendition whose bottom rung ends on a whole segment; `AtMostOneLateEncode`, `NothingUnlisted`, `RenditionSettles` |
| `bad_stuck`, `bad_discard`, `bad_restore`, `bad_pieces` | as small as the case allows | a violation each, see section 7 |

To run one: `tlc -config encode.cfg MCJobPipeline`; PROJECT.json names the module of each.

## 4 Bounds

*One job.* Jobs share nothing but the workers: no row update, queue entry, board or key
concerns two of them, and a worker busy with another job is a worker that takes no step.
(An edit that borrows an upload's source is the exception, and EditJobs is about it.)

*Two workers.* Every race in the code is between two runs of one job, or a run and the
API or the reaper; a third run of the same job would need two duplicate deliveries, and
each duplicate is spent from `Limits`. `delivery` and
`ladders` ask about ends, not races, and have one.

*MaxInterruptions = 2* instead of 3: the boundary cases (first, last, one too many) are
all reached with three stops.

*Limits.* Each fault at least once, and twice where the second meets the first (retries,
stops). Runs differ in the faults they have because all of them together are out of
TLC's reach; the proofs have no such bound.

*Two pieces, two helpers.* A race needs a piece in two hands and a piece left over.

*One session, two requests.* Sessions of an account meet in the owner's lock and in the
count of unfinished uploads; the count is taken and used under that lock in one
transaction, so with one session the guard is in the model and never refuses. `MaxEtag`
= 2: parts uploaded again with other ETags after they were listed.

*Two edits.* An edit of an edit, one of them from before edits kept their upload's source,
and two edits of one upload. The files are one for each branch of the rules (upright HDR,
odd width, too long), the requests one for each filter and each refusal, and pairs whose
order matters. Heights are real ones, lengths are in a small unit.

*Cuts.* `SEGMENT_SECONDS` = 2, pieces of two or three seconds and nine seconds of film
instead of 6, 10, 30 and minutes: a piece, a segment boundary inside it and a remainder on
either side of a half all occur. The files are films of 0.8 to 3 frames a second cut down
to at most one (`MAX_FPS` = 1): every pair of frames missing, three in a row missing with a
late frame that falls just before, on and after a half, fractional rates, an offset start,
packets out of order, implausible base rates, no rate, no frames, and a film too short.

*Two workers, two kinds.* There are two kinds of rendition and so at most two builders of
one master; one stop, one crash and one trouble meet in any order. Minutes are counted
only while a dead worker holds the lock.

Nothing is symmetric in the runs that check liveness.

*Footage.* The segments of `renditions` are as large as the rate control allows, for simple
sources a fifth of that in H.264, and one source ends 0.2 s after a whole segment:
the rungs' measured peaks then lie on either side of the first estimate.

Deadlock is not checked where a system whose limits are used up and whose videos are all
settled has nothing left to do; in `uploads` the reaper always has a next pass, and it is.

## 5 Fairness

*JobPipeline:* a request in progress goes on, workers work, RQ delivers, clocks run and
the reaper makes its passes (weak fairness of each). Users and faults are never obliged to
act. This is what the deployment gives: worker processes restart, the reaper's loop
catches every exception and sleeps.

*PieceBoard:* only the coordinator and the clock are fair. No helper is ever obliged to
take a step: that is the point of `AttemptEnds`.

*UploadSession:* requests, the reaper, the store and clocks are weakly fair. The cleanup
asks for the owner's lock again and again among other requests; PostgreSQL queues the
waiters of a row lock, so it gets it in the end (strong fairness of `CleanNext`).

*Renditions:* a worker that has begun a rendition goes on (weak fairness of `Step(w)`: FFmpeg
has a time limit, the store answers or raises, RQ's alarm ends a stuck handler), and time
passes. Queued renditions need not be taken, and nothing obliges the ladder, the players or
the faults. A live worker is assumed to hold the lock for less than a minute.

## 6 Proofs

Eight modules of proofs, each beside the module it is about. Every theorem holds for every
value of the constants that its hypotheses allow: any number of jobs, workers, sessions,
requests, edits and helpers, and any limits. "Under `x = 0`" below is a hypothesis
`Limits["x"] = 0`: the fault never happens. Each such hypothesis is there because the
property fails without it, and the text says how.

### Jobs

**JobPipelineProofs**, from `PipelineAssumption` alone:

* `TypeCorrect`: `[]TypeOK`, one step per action, from lemmas on what the row operators, the
  queue and a run return.
* `RowsAlwaysLegal`: `[]RowsLegal`. The CHECK constraints are not inductive:
  `prepare_retry` writes status and error only and relies on the other columns of a failed
  row, and it does so in two steps, between which the row must not move. The inductive
  invariant `RowsConsistent` adds that only a done row has an `hls_key`, that a request
  that has not created its row has none, and that the row of an uncommitted retry is
  still failed. `StepMovesOneRow` reduces Next to the few moves a row can make.
* `PipelineImplementsLifecycle`: `Spec => ImplementsLifecycle`, the refinement: the initial
  state maps to the abstract one, and each move of a row to an abstract step or a stutter.

**JobRunProofs**, on runs and deliveries. `GoKeeps`, `LeaveKeeps` and `EnqueueKeeps` say what
a step of a worker or an enqueue leaves alone, `FirstUse` that a job whose row was not
inserted yet is in nobody's hands, `KindOfPc` which task has which pc, `LimitsHold` that a
fault the limits exclude never happens.

* `OneRunner`, under `lapse = slow = 0`: `[]AtMostOneRunner`. What makes one runner is not the
  claim alone but that nobody takes it away: the invariant `ClaimsHold` says that the row of
  a claim in hand is `processing` with this worker as `claimant`, or gone, that it is
  younger than the lease, and that no pass of the reaper has it on its list of the
  condemned. With a lapsed heartbeat, or a pass that stalls between `list_stale` and
  `mark_stale_failed`, a second worker can claim (section 8).
* `GivesBackOwnClaim`, same hypotheses: `GiveBackOwnClaim`, from the same invariant.
* `CommittedRetryIsDelivered`, under `crash = error = loss = 0`: `RetryIsDelivered`. The
  invariant `Deliveries` holds between a retry's enqueue and its commit: the entry is known
  to RQ, and its id is on the list or with a worker that waits for the row's lock. A worker
  that takes the delivery and dies before the commit uses it up; so does an error, and a
  loss in Redis.
* `QueuedJobsAreRecoverable`, under `crash = error = 0`, whatever Redis loses:
  `[]QueuedIsRecoverable`. The invariant `QueuedHold` says the same of a retry that is
  delivered and not committed yet, so its row may become queued, and adds that a job without
  a row has no entry, and that a task asks for its next try only where RQ still grants one
  (`run.tries < MaxInterruptions`). `bad_stuck` violates the property with one crash.

**JobFileProofs**, on rows and objects:

* `RecordedMp4IsStored`, under every fault: the MP4 a row names is in the bucket; and
  `RecordedFilesAreStored`, under `doubt = 0`: `[]RecordedIsStored`, the same of the MP4 and the
  preview sheet. The invariant `FilesKept`
  says that a present row has no delete in progress, that a run about to record an MP4 or a
  preview still finds what it stored, that the ladder's hook works on a row whose ladder
  is ready, and that only one worker runs it (`OneHook`, because a ladder is recorded once).
  With one commit in doubt the sheet can be missing (section 8).
* `ReadyLaddersAreStored`, under `loss = slow = 0`: `[]ReadyIsStored`. A ladder's delivery is a
  `Token`: on the list, or in one worker's hands, or used up, and made only by the run that
  hands off or by a reaper that settles a ladder nobody has. `LaddersHold` says so for
  every job, with `CutFact`: until its build records or discards it, a ladder is in no row,
  so a discard takes nothing that a row calls ready. A lost entry makes a second token
  (`bad_discard`), and so does a hand-off the reaper was faster than.

### Pieces

**PieceBoardProofs**, from `PieceAssumption`:

* `PiecesTyped`: `[]TypeOK`.
* `JoinIsWhole`, under `straggle = 0`: `[]JoinsOwnPieces`, for any number of helpers, pieces,
  attempts, crashes and takeovers. The invariant `BoardInv` says that while the coordinator
  is at work every plan in a helper's hand is the board's, which is its own
  (`BoardOfPlan`), and that a piece marked done, or about to be, was made by the coordinator
  or is stored by this attempt (`DoneIsMade`). `bad_pieces` violates the property with one
  straggler.

### Uploads

**UploadSessionProofs**, under every fault:

* `UploadsTyped`: `[]TypeOK`, with the discipline of the owner's lock: who is in a transaction
  holds it, and nobody else does.
* `SourcesAreKept`: `[]JobHasSource`, and `CompletedAreQueued`: `[]CompletedIsQueued`. Neither
  is inductive. `Facts` joins what each party may rely on between its commits:
  `RequestFact` (a request that froze a manifest, merged it, or created the job finds the
  session as it left it, or ended), `PassFact` (what the cleanup's list still means when it
  is worked off) and `SessionFact` (what a session's state says of its multipart upload, its
  object and its job).
* `AbortsAreFinal`: `Spec => AbortIsFinal`, from the same facts.

### Renditions

**SeqFilterProofs** — `SetInduction` is induction over the naturals stated of a set, which
follows from the library's theorem that the order of the naturals is well founded. The module
has lemmas only, used by the two that follow. `AmongKeeps` says what `Among` returns, for every sequence, and `AmongInOrder` that it keeps
the order; and a recursion that goes from a mark to a later one defines a function
(`WalkExists`), whose list begins at the first mark and ascends (`WalkCollects`). Division
has its lemmas here too.

**RenditionsProofs**, from `RenditionsAssumption`, and `PlayersStart` from `EncoderAssumption`
too; `Inv` is one invariant for all of it:
`StopFact` (what the registered processes and the flag say at each line of
`interruption.run`), `LockFact` (who may hold the master's lock, and since when), `RungFact`
and `LadderFact` (which files of the rungs done so far are stored), `ListFact` (each entry of
the master has its files). Three further invariants stand beside it: `ReadFact`, `FailFact`
and `CutFact`.

* `RenditionsTyped`: `[]TypeOK`, with the discipline of the master's lock.
* `OneLateEncode`: `[]AtMostOneLateEncode`.
* `NothingIsUnlisted`: `Spec => NothingUnlisted`: a builder writes a master it read while it
  held the lock, so what others listed meanwhile is in it.
* `MasterOnlyListsStored`, for videos of 100 to 9999 lines: `[]MasterListsStored`. The
  playback route takes heights of three or four digits only (section 8).
* `MastersReadRight`: `[]MasterReadsRight`, whatever the builders, stops and crashes do. `ReadFact`
  says of the master, and of every copy a builder may still write, that its entries are in
  a player's order (`InReadingOrder`: no kind before a better one, no entry twice, the
  ladder's own in their order), that each says what its video gives it (`Reads`), and that a
  kind that is listed is listed with every rung (`Complete`). `AmongInOrder` and the order of
  `rank` carry the stable sort. It says nothing of what the entries cost.
* `PlayersStart`: `[]WholeSegmentsStart`, for any footage and any peaks of the H.264 rungs. The
  bottom rung is listed (`Complete`), at the peak measured over its segments
  (`MeasuredPeaks`); each of these is at least four seconds long, so none is above 1.25 of
  the cap (`PeakWithin`), and the cap of a rung of at most 360 lines is `START_CEILING`.
  With a shorter last segment the property fails (section 8).
* `LadderWellFormed`: `[]LadderIsWellFormed`, under `LADDER_HEIGHTS[1] <= MAX_HEIGHT` (360 lines):
  every ladder that is encoded is one FFmpeg takes. `GraphAccepted` shows that the filter graph
  writes each label once and reads it once, `PassedOf` what reaches each encoder through it,
  `MappedPasses` that the maps name it, `VariantsFit` that the streams are the rungs'; `FailFact`
  says that a ladder fails only for want of sound, for an odd height below every rung, or for
  a trouble that was spent. With a lower `MAX_HEIGHT` a source of any odd height is encoded
  at its own height, which libx264 refuses.
* `PiecesJoin`: `[]PiecesJoinAsOne`, for files that are `Regular`: sorted timestamps, none
  negative, none after the end, and more than a millisecond apart, because the seek goes a
  millisecond back (section 8). There may be any gaps, and rates may be fractions. `CutFact`
  says that what is being cut is one of the files; the rest is about chunked.py's and
  ladder_pieces.py's functions. Both cuts start at the first frame and go on from frames that
  begin ever later output frames (`FrameStartsGood`, `SegmentStarts`, from `WalkCollects`). A
  piece shows the output frames from its own start up to the next one's (`PieceShows`), so
  the join shows what one encode shows (`GoodPiecesJoin`). A start of the ladder's cut is
  the first frame at or after a segment's edge, and is that edge where no frame is missing
  (`Edges`, `SegmentsAreWhole`).

### Edits

**EditJobsProofs**, from `EditBounds`, for any files and requests:

* `EditsTyped`: `[]TypeOK`. That an edit's source is a key of a job needs `RootIsJob`:
  `resolve_edit_roots`' walk, a recursive function, exists and stays among the jobs, both by
  `SetInduction`.
* `WaitingEditsAreServed`: `[]WaitingIsServed`, which is inductive.
* `LibraryStaysPlayable`: `[]LibraryIsPlayable`. The invariant `Library` says that what is
  being removed belongs to a row that is gone (`Takes`), whose id was given out and never is
  again (`InUse`), and that what a run is about to record is stored unless its row went
  (`Filed`).
* `ApiAndWorkerAlwaysAgree`: `[]ApiAndWorkerAgree`. The two call one rule, but at different times
  and with what each knows of the video. The invariant `Judged` says that a queued edit was
  approved for the size known when it was asked for, that this size, and every size in the
  table (`SizesTrue`), is still that of the file the worker will open, and that what a run has in
  hand was judged so. It rests on `Library`: nothing but a job's own run writes its output.
* `EditsStartFromOriginal`: `Spec => StartsFromOriginal`. The property compares `Root`'s walk
  of at most eight hops with the whole chain of ancestors. `EditsOfUpload` says that while the
  upload's row is there every edit names the upload's file or its MP4, and so is one hop from
  it; once the row is gone, no walk and no chain reaches it.

### Only model-checked

Liveness: `JobSettles`, `SourceGoes`, `LadderSettles`, `AttemptEnds`, `SlotIsFreed`,
`StrayGoes`, `RenditionSettles`. The provers do not reason about fairness.

`OfferedIsAccepted` and `OutputAsAsked`: both follow what FFmpeg's filters do to a frame
through a chain that differs with every set of operations. The first is also not true of any
constants: a video so narrow that its scaled width rounds to nothing, or a clip so short that
it is nothing when sped up, would be offered and refused. `Files` of the run holds such as exist.

## 7 Where the code and its documentation disagree

* `bad_stuck` — docs/sprint2-plan.md:54 has stale `queued` rows re-enqueued as part of crash
  recovery, and reaper.py:1 recovers jobs left behind by interrupted workers. A worker
  that dies between RQ's dequeue and `mark_processing` leaves a queued row whose entry
  exists, and `run_once` (reaper.py:129) skips it in every pass.
* `bad_discard` — tasks.py:285-287 says a ladder that cannot be recorded belongs to a job
  deleted or given up on. If Redis loses the entry of a running build and the reaper
  enqueues another, the second run discards the ladder the first one recorded.
* `bad_restore` — `empty_trash` deletes what has been in the trash past its time, its
  docstring says; a video restored after it was listed is deleted too.
* `bad_pieces` — pieces of an attempt that was given back "are not trusted"
  (chunked.py:490); a helper of that attempt that is still encoding finds the next
  attempt's plan on the board, stores its piece under the same key and marks it done.

One disagreement has no run of its own, as two texts of the repository contradict each other
and the code follows one of them:

* "Edits run on the job's MP4, not on the original upload", whose height is capped
  (media_rules.py:150-152), and
  `test_an_upload_is_edited_from_its_mp4_so_its_height_is_capped` (tests/test_media_rules.py:79-82)
  checks the capping. The route starts an edit of an upload from "the original upload when it
  is still there" (`_edit_base`, api/jobs.py:60-67), the worker downloads that file, and the
  API judges by its height, "not its MP4 capped at 1080p" (`_editable_height`,
  api/jobs.py:70-79): `editable_height` is called for edits only, and the branch the test
  checks is never reached. EditJobs models the route, and `StartsFromOriginal` states what
  `_edit_base` says. What the older docstring says is the mutant `CappedHeight`: with it
  the API would judge another file than the worker opens, and `ApiAndWorkerAgree` fails.

## 8 Known limits

What the models also show, without a run of its own:

* `GiveBackOwnClaim` and `AtMostOneRunner` fail once a heartbeat lapses: `mark_interrupted`
  looks at the status only, so a run that was given up for dead and whose job was retried
  gives back the new run's claim. Likewise a pass that stalls between `list_stale` and
  `mark_stale_failed` fails a job that was claimed afresh.
* Only the preview's commit can be in doubt. A lost confirmation of another commit makes the
  API answer 500 or the worker raise after a write that happened; JobPipeline has the
  committed write followed by a crash or an error, not the code's own reaction to the
  exception in between.
* `RecordedIsStored` fails once `doubt` is in `Limits`: if the commit of `mark_preview_ready` goes
  through and its confirmation is lost, `build_preview` (preview.py:219-221) removes the sheet
  and the index the row has just named, although "once the API can see a preview,
  everything it points at is there" (preview.py:209-210).
* `WholeSegmentsStart` needs its condition. The bottom rung of a rendition "must fit 500 kbps
  on its own: worst measured peak 1.25x the cap" (tests/test_renditions.py:95-96), and
  renditions.py:63-68 reckons with "four-second segments"; but `peak_bandwidth`
  (renditions.py:178-189) measures the last segment too. Where a video of cheap H.264 rungs
  (`ShortEnded(360)`) ends a fraction of a second into it, one burst of the buffer
  reads as a rate above the estimate, and a player does not start in the family. `_rates`
  (ladder_pieces.py:275-277) leaves such a sliver out of the ladder's peaks.
* Outputs (MP4, ladder, preview) that outlive their row, after a refused delete or a late
  upload, are never swept: the sweep covers `uploads/` only. `SourceGoes` is about sources
  for that reason, although api/jobs.py:387-389 speaks of "an orphaned object".
* docs/contract.md:252-254 says a ladder is given up after the lease; the code uses
  `reaper_abandoned_seconds` (reaper.py:135).
* A helper that gives its piece back, or stores it, after the board was closed leaves a
  `todo` key without a time to live, or an object under the pieces' prefix; the comment at
  chunked.py:69-70 assumes every key is deleted when the job finishes. A piece finished
  across attempts can be marked done without an object: the fetch then fails the attempt.
* A live worker that needs more than 60 s between taking the master's lock and its upload
  loses the lock and may overwrite what another listed; `redis.lock` raises only when it
  is released.
* A rendition whose build is stopped, killed or fails is not tried again: its queue entry
  is gone, and nothing looks for it. A play whose enqueue fails at the threshold is counted,
  and no later play equals the threshold (popularity.py:34). Both are called best effort.
* A rendition that is being built when its video is deleted uploads its files after the
  prefix was emptied; no row names them any more.
* A SIGTERM that arrives while its own thread holds `_lock` (interruption.py:61 and :70)
  does not stop the worker before the job's time limit.
* A source without sound, or of odd height below 360, gets no ladder (hls.py:216-221 says
  so of the first). A rendition of a source below 100 pixels would be listed under a path
  the playback route refuses (`[0-9]{3,4}`, api/hls.py:68).
* Files with gaps in their frames can leave a ladder piece with a short segment: the next
  frame that begins an output frame is late. `PiecesJoinAsOne` asks for whole segments
  where there is no gap. Frames less than a millisecond apart are not told apart by the
  seek, and a picture that starts after its file's sound is joined from zero.
* An upload of odd width is encoded, but an edit of it that does not scale fails in
  libx264; sizes foretold by the rules are within two pixels of FFmpeg's.
* Deleting an upload makes its queued edits fail for want of a source; an upload in the
  trash is still what new edits start from.
* Two ladder builds of one job (see `bad_discard`) would share one board. PieceBoard has
  one coordinator at a time.

## 9 Not modelled

The text of commands, playlists, FFprobe's output and error messages; AV1 codec strings and
widths; the preview's sprite sheet beyond its files; signed URLs; password hashing and
tokens; the progress value nobody decides on; pages and lists that only read; queue metrics
and the request that wakes workers; the page's scripts and the infrastructure's
configuration. Two coordinators of one attempt, API requests that a proxy repeats, plans
written before `start_ticks` existed (PiecePlan.exact), and a sweep of sources composed
with edits that borrow them are outside the models.

The browser's page (`frontend/app.js`) is read and not modelled: the models of the server
take its requests in any order. Two places a model of it should start from: a part that
fails for good ends the transfer, but its sibling senders (app.js:933-950) go on with the
parts that are left, also while a retry resumes the same session; and a poll's 401
(app.js:421) is acted on before the check that its follower was not replaced (app.js:433).

## 10 Plan

1. JobRow, JobPipeline, JobLifecycle and their proofs — done.
2. PieceBoard and its proofs — done.
3. UploadSession and its proofs — done.
4. EditRules, EditJobs and the proofs about EditJobs — done.
5. PieceCuts, LadderGraph, MasterPlaylist, Renditions and the proofs about Renditions — done.
6. Left to prove: what EditRules promises of a request whatever the video
   (`OfferedIsAccepted` for scales).
7. Left to model: the browser's direct upload (resume, cancel, senders that outlive a
   failure) composed with UploadSession, and its polling.
