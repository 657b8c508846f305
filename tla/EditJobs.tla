------------------------------ MODULE EditJobs ------------------------------
(***************************************************************************)
(* Edits of a video, from the request to the file in the library: the edit *)
(* route and the edit options of app/api/jobs.py, resolve_edit_roots of    *)
(* app/repositories/jobs.py, EditProcessor of app/worker/operations.py,    *)
(* and the removal of videos whose files other edits start from            *)
(* (app/services/job_cleanup.py).                                          *)
(*                                                                         *)
(* Job 0 is an upload; jobs 1..MaxEdits are edits.  How a job is delivered *)
(* and given back, and its ladder, are JobPipeline's; here a worker that   *)
(* takes a job runs it to its end.                                         *)
(***************************************************************************)
EXTENDS EditRules, FiniteSets

CONSTANTS
    MaxEdits,       \* edits the owner asks for
    Files,          \* the files that may be uploaded
    Requests,       \* the edit requests the owner may send
    MaxHeight,      \* worker_ffmpeg_max_height
    MaxDuration,    \* media_max_duration_seconds, in a file's unit
    MaxEvents       \* retries, removals and failures that are not the video's

(* A request is a list.                                                    *)
ASSUME EditBounds ==
    /\ {MaxEdits, MaxEvents} \subseteq Nat
    /\ {MaxHeight, MaxDuration} \subseteq Nat \ {0}
    /\ \A request \in Requests : DOMAIN request = 1..Len(request)

VARIABLES
    rows,       \* the jobs table
    store,      \* object storage: key -> file
    queue,      \* jobs delivered and not yet taken by a worker
    call,       \* the edit request being handled, if any
    run,        \* the job being processed, if any
    removing,   \* deleted rows whose objects are still to be removed
    events,     \* retries, removals and failures so far
    known       \* the edits' ids in use -> the frame the API judged each by

vars == <<rows, store, queue, call, run, removing, events, known>>

Upload == 0
Edits == 1..MaxEdits
Jobs == Edits \union {Upload}

SourceKey == <<"source", Upload>>
OutputKey(j) == <<"output", j>>
ThumbnailKey(j) == <<"thumbnail", j>>
Keys == {SourceKey} \union {<<k, j>> : k \in {"output", "thumbnail"}, j \in Jobs}

NoSize == Frame(Unknown, Unknown)
NoError == "none"
NoCall == [step |-> "idle"]
NoRun == [step |-> "idle"]
NoOperations == <<>>

(* An upload's row and an edit's, as inserted; NoRow is the absence of one. *)
NewRow(source, operations) ==
    [status |-> "queued", source |-> source, operations |-> operations,
     output |-> FALSE, thumbnail |-> FALSE, size |-> NoSize,
     trashed |-> FALSE, why |-> NoError]
NoRow == [NewRow(SourceKey, NoOperations) EXCEPT !.status = "none"]

Present(j) == rows[j].status # "none"
IsUpload(j) == rows[j].operations = NoOperations
IsDone(j) == rows[j].status = "done" /\ rows[j].output

(* get_job as an owner sees it.                                            *)
Visible(j) == Present(j) /\ ~ rows[j].trashed

Event == events < MaxEvents /\ events' = events + 1

-----------------------------------------------------------------------------
(* resolve_edit_roots: from a job to the upload it was first made of, one  *)
(* hop at a time: an edit shares its upload's source_key or, made before   *)
(* sprint 5, has its parent's output_key as its own source.                *)
MAX_EDIT_CHAIN == 8

(* Mutant: edits from before sprint 5 have no parent.                      *)
ParentsBySource(j) ==
    {k \in Jobs : Present(k) /\ IsUpload(k) /\ rows[k].source = rows[j].source}

Parents(j) ==
    IF IsUpload(j) THEN {}
    ELSE LET uploads == {k \in Jobs : /\ Present(k) /\ IsUpload(k)
                                      /\ rows[k].source = rows[j].source}
             outputs == {k \in Jobs : /\ Present(k) /\ rows[k].output
                                      /\ OutputKey(k) = rows[j].source}
         IN  IF uploads # {} THEN uploads ELSE outputs \ {j}

Root(job) ==
    LET after[hop \in 0..MAX_EDIT_CHAIN] ==
            IF hop = 0 THEN job
            ELSE LET j == after[hop - 1]
                     parents == Parents(j)
                 IN  IF parents = {} THEN j ELSE CHOOSE k \in parents : TRUE
    IN  after[MAX_EDIT_CHAIN]

(* _edit_base: the upload when it is still there, else the job itself.     *)
EditBase(j) == IF IsUpload(Root(j)) THEN Root(j) ELSE j

(* Mutant: the height of the MP4, as editable_height has it of an upload.  *)
CappedHeight(base) ==
    IF IsUpload(base) /\ rows[base].size.height > MaxHeight THEN MaxHeight
    ELSE rows[base].size.height

(* _editable_height: the original's height, not its MP4's; the cap that    *)
(* editable_height puts on an upload's is never asked for.                 *)
EditableHeight(base) == rows[base].size.height

(* What check_edit_operations is told of the file an edit starts from.     *)
KnownFrame(base) == Frame(rows[base].size.width, EditableHeight(base))

(* _edit_options: what the editor is told it may offer for a done job.     *)
EditOptions(base) == ScaleOptions(EditableHeight(base))

(* source_key of the new row.                                              *)
EditSource(base) == IF IsUpload(base) THEN rows[base].source ELSE OutputKey(base)

-----------------------------------------------------------------------------
(* A video as it may be found: uploaded and queued; or long done, its size *)
(* stored or (before sprint 4) not; or with an edit from before sprint 5,  *)
(* which was cut from the MP4.                                             *)
DoneUpload(file, size) ==
    [NewRow(SourceKey, NoOperations) EXCEPT !.status = "done", !.output = TRUE,
                                            !.size = size]

LegacyEdit ==
    [NewRow(OutputKey(Upload), <<[operation |-> "flip",
                                  params |-> [axis |-> "vertical"]]>>)
        EXCEPT !.status = "done", !.output = TRUE]

Init ==
    \E file \in Files :
      /\ \/ /\ rows = [j \in Jobs |-> IF j = Upload
                          THEN NewRow(SourceKey, NoOperations) ELSE NoRow]
            /\ store = [k \in {SourceKey} |-> file]
            /\ queue = {Upload}
            /\ known = [e \in {} |-> NoSize]
         \/ LET mp4 == Mp4Result(file, MaxHeight, MaxDuration) IN
            /\ mp4.ok
            /\ \E size \in {NoSize, DisplaySize(file)}, legacy \in BOOLEAN :
                  /\ legacy => MaxEdits > 0
                  /\ rows = [j \in Jobs |->
                                CASE j = Upload -> DoneUpload(file, size)
                                  [] j = 1 /\ legacy -> LegacyEdit
                                  [] OTHER -> NoRow]
                  /\ store = [k \in {SourceKey, OutputKey(Upload)}
                                \union (IF legacy THEN {OutputKey(1)} ELSE {}) |->
                                 CASE k = SourceKey -> file
                                   [] k = OutputKey(Upload) -> mp4.file
                                   [] OTHER -> EditResult(LegacyEdit.operations,
                                                          mp4.file).file]
                  /\ known = [e \in IF legacy THEN {1} ELSE {} |-> NoSize]
            /\ queue = {}
      /\ call = NoCall
      /\ run = NoRun
      /\ removing = {}
      /\ events = 0

-----------------------------------------------------------------------------
(* The API: edit_job_by_id.                                                *)

(* The reads and the rules.  A request the schema, the row's status or the *)
(* rules refuse (422, 404, 409) changes nothing and is not a step.         *)
AskEdit(j, request) ==
    LET base == EditBase(j) IN
    /\ call = NoCall
    /\ DOMAIN known # Edits
    /\ IsEditRequest(request)
    /\ Visible(j) /\ IsDone(j)
    /\ CheckEditOperations(Named(request), KnownFrame(base)) # Refused
    /\ call' = [step |-> "create", source |-> EditSource(base),
                request |-> request, frame |-> KnownFrame(base)]
    /\ UNCHANGED <<rows, store, queue, run, removing, events, known>>

(* create_edit_job; ids are never used twice.                              *)
CreateEdit(e) ==
    /\ call.step = "create"
    /\ e \notin DOMAIN known /\ 1..(e - 1) \subseteq DOMAIN known
    /\ rows' = [rows EXCEPT ![e] = NewRow(call.source, call.request)]
    /\ known' = [d \in DOMAIN known \union {e} |-> IF d = e THEN call.frame ELSE known[d]]
    /\ call' = [step |-> "enqueue", job |-> e]
    /\ UNCHANGED <<store, queue, run, removing, events>>

Deliver ==
    /\ call.step = "enqueue"
    /\ queue' = queue \union {call.job}
    /\ call' = NoCall
    /\ UNCHANGED <<rows, store, run, removing, events, known>>

(* Mutant: the row of a refused delivery stays.                            *)
DeliveryForgotten ==
    /\ call.step = "enqueue"
    /\ Event
    /\ call' = NoCall
    /\ UNCHANGED <<rows, store, queue, run, removing, known>>

(* Redis raised, whether or not it took the delivery: the row goes.        *)
DeliveryRefused ==
    /\ call.step = "enqueue"
    /\ Event
    /\ rows' = [rows EXCEPT ![call.job] = NoRow]
    /\ \E taken \in SUBSET {call.job} : queue' = queue \union taken
    /\ call' = NoCall
    /\ UNCHANGED <<store, run, removing, known>>

-----------------------------------------------------------------------------
(* The worker: process_job_async around FfmpegProcessor.run for the upload *)
(* and EditProcessor.run for an edit.                                      *)

(* mark_processing; an entry whose row is gone or taken is dropped.        *)
Claim(j) ==
    /\ run = NoRun
    /\ j \in queue
    /\ queue' = queue \ {j}
    /\ IF rows[j].status = "queued"
       THEN /\ rows' = [rows EXCEPT ![j].status = "processing",
                                    ![j].output = FALSE, ![j].thumbnail = FALSE,
                                    ![j].size = NoSize, ![j].why = NoError]
            /\ run' = [step |-> "open", job |-> j, source |-> rows[j].source,
                       operations |-> rows[j].operations]
       ELSE UNCHANGED <<rows, run>>
    /\ UNCHANGED <<store, call, removing, events, known>>

Fails(why) == run' = [step |-> "fail", job |-> run.job, why |-> why]

(* object_exists and download_file.                                        *)
OpenSource ==
    /\ run.step = "open"
    /\ IF run.source \in DOMAIN store
       THEN run' = [step |-> "work", job |-> run.job,
                    operations |-> run.operations, file |-> store[run.source]]
       ELSE Fails("missing")
    /\ UNCHANGED <<rows, store, queue, call, removing, events, known>>

Result ==
    IF run.operations = NoOperations
    THEN Mp4Result(run.file, MaxHeight, MaxDuration)
    ELSE EditResult(run.operations, run.file)

(* What the row will say of its size: an upload's is its source's, an      *)
(* edit's its output's if it has a picture.                                *)
SizeToRecord(output) ==
    IF run.operations = NoOperations THEN DisplaySize(run.file)
    ELSE IF Probes(output) THEN DisplaySize(output) ELSE NoSize

(* Validation, FFmpeg and the upload of the output, then its poster frame. *)
(* A poster frame that cannot be made (_thumbnail, _take_thumbnail) or an  *)
(* edit's output that cannot be probed (_probe_output) costs only itself.  *)
Work ==
    /\ run.step = "work"
    /\ IF ~ Result.ok
       THEN Fails(Result.why) /\ UNCHANGED <<store, events>>
       ELSE \E size \in {SizeToRecord(Result.file), NoSize}, thumbnail \in BOOLEAN :
              /\ size = NoSize => ~ thumbnail
              /\ size # SizeToRecord(Result.file) => run.operations # NoOperations
              /\ LET perfect == size # NoSize => thumbnail
                     asProbed == size = SizeToRecord(Result.file)
                     spoilt == IF perfect /\ asProbed THEN 0 ELSE 1
                 IN  /\ events + spoilt <= MaxEvents
                     /\ events' = events + spoilt
              /\ store' = [k \in DOMAIN store \union {OutputKey(run.job)}
                             \union (IF thumbnail THEN {ThumbnailKey(run.job)}
                                     ELSE {}) |->
                              IF k \in {OutputKey(run.job), ThumbnailKey(run.job)}
                              THEN Result.file ELSE store[k]]
              /\ run' = [step |-> "record", job |-> run.job, from |-> run.file,
                         operations |-> run.operations, size |-> size,
                         thumbnail |-> thumbnail]
    /\ UNCHANGED <<rows, queue, call, removing, known>>

(* A timeout, a storage error, FFmpeg ending badly.                        *)
WorkTrouble ==
    /\ run.step \in {"open", "work"}
    /\ Event
    /\ Fails("trouble")
    /\ UNCHANGED <<rows, store, queue, call, removing, known>>

(* mark_done, or nothing when the row went meanwhile.                      *)
RecordDone ==
    /\ run.step = "record"
    /\ rows' = IF rows[run.job].status # "processing" THEN rows
               ELSE [rows EXCEPT ![run.job].status = "done",
                                 ![run.job].output = TRUE,
                                 ![run.job].thumbnail = run.thumbnail,
                                 ![run.job].size = run.size]
    /\ run' = NoRun
    /\ UNCHANGED <<store, queue, call, removing, events, known>>

(* mark_failed                                                             *)
RecordFailure ==
    /\ run.step = "fail"
    /\ rows' = IF rows[run.job].status # "processing" THEN rows
               ELSE [rows EXCEPT ![run.job].status = "failed",
                                 ![run.job].why = run.why]
    /\ run' = NoRun
    /\ UNCHANGED <<store, queue, call, removing, events, known>>

-----------------------------------------------------------------------------
(* The owner's other requests.                                             *)

(* Mutant: the error of the failed attempt stays.                          *)
RetryKeepingError(j) ==
    /\ rows[j].status = "failed"
    /\ Event
    /\ rows' = [rows EXCEPT ![j].status = "queued", ![j].output = FALSE]
    /\ queue' = queue \union {j}
    /\ UNCHANGED <<store, call, run, removing, known>>

(* retry_job_by_id, when the enqueue and the commit both succeed.          *)
Retry(j) ==
    /\ rows[j].status = "failed"
    /\ Event
    /\ rows' = [rows EXCEPT ![j].status = "queued", ![j].why = NoError,
                            ![j].output = FALSE]
    /\ queue' = queue \union {j}
    /\ UNCHANGED <<store, call, run, removing, known>>

TrashOrRestore(j) ==
    /\ Present(j)
    /\ Event
    /\ rows' = [rows EXCEPT ![j].trashed = ~ rows[j].trashed]
    /\ UNCHANGED <<store, queue, call, run, removing, known>>

(* Mutant: an edit's source is taken for its own.                          *)
KeysWithSource(j) ==
    {rows[j].source}
       \union (IF rows[j].output THEN {OutputKey(j)} ELSE {})
       \union (IF rows[j].thumbnail THEN {ThumbnailKey(j)} ELSE {})

(* delete_job_storage: an edit's source belongs to another video.          *)
KeysOf(j) ==
    (IF IsUpload(j) THEN {rows[j].source} ELSE {})
       \union (IF rows[j].output THEN {OutputKey(j)} ELSE {})
       \union (IF rows[j].thumbnail THEN {ThumbnailKey(j)} ELSE {})

(* _delete_job_and_storage and empty_trash: first the row ...              *)
DeleteRow(j) ==
    /\ Present(j)
    /\ Event
    /\ rows' = [rows EXCEPT ![j] = NoRow]
    /\ removing' = removing \union KeysOf(j)
    /\ UNCHANGED <<store, queue, call, run, known>>

(* ... then its objects, each of which storage may refuse to remove.       *)
RemoveObjects ==
    /\ removing # {}
    /\ \E kept \in SUBSET removing :
          /\ IF kept = {} THEN UNCHANGED events ELSE Event
          /\ store' = [k \in DOMAIN store \ (removing \ kept) |-> store[k]]
    /\ removing' = {}
    /\ UNCHANGED <<rows, queue, call, run, known>>

-----------------------------------------------------------------------------
Next ==
    \/ \E j \in Jobs, request \in Requests : AskEdit(j, request)
    \/ \E e \in Edits : CreateEdit(e)
    \/ Deliver
    \/ DeliveryRefused
    \/ \E j \in Jobs : Claim(j)
    \/ OpenSource
    \/ Work
    \/ WorkTrouble
    \/ RecordDone
    \/ RecordFailure
    \/ \E j \in Jobs : Retry(j)
    \/ \E j \in Jobs : TrashOrRestore(j)
    \/ \E j \in Jobs : DeleteRow(j)
    \/ RemoveObjects

Spec == Init /\ [][Next]_vars

-----------------------------------------------------------------------------
(* The rows, the storage and the two processes in progress are well formed. *)
TypeOK ==
    /\ \A j \in Jobs :
          /\ rows[j].status \in {"none", "queued", "processing", "done", "failed"}
          /\ rows[j].source \in {SourceKey} \union {OutputKey(k) : k \in Jobs}
          /\ (rows[j].status = "done") <=> rows[j].output
          /\ (rows[j].status = "failed") <=> (rows[j].why # NoError)
          /\ rows[j].thumbnail => rows[j].output
    /\ DOMAIN store \subseteq Keys
    /\ queue \subseteq Jobs
    /\ call.step \in {"idle", "create", "enqueue"}
    /\ run.step \in {"idle", "open", "work", "record", "fail"}
    /\ removing \subseteq Keys
    /\ events \in 0..MaxEvents

(* "They must read the same ones" (media_rules.py): an edit the API queued *)
(* fails by a media rule at the worker only when it asks for a scale and   *)
(* the API did not know the video's size; and never because the stored     *)
(* request is malformed or mixes a picture change with MP3.                *)
ApiAndWorkerAgree ==
    \A e \in Edits :
        /\ rows[e].why \notin {"request", "command"}
        /\ rows[e].why = "rules" =>
              /\ known[e] = NoSize
              /\ Names(rows[e].operations) \intersect {"downscale", "upscale"} # {}

ScaleRequest(operation, h) ==
    <<[operation |-> operation, params |-> [height |-> h]]>>

(* The editor never offers a height that the API would refuse, nor one the *)
(* worker would fail on the file the edit really starts from; and what it  *)
(* does not offer of a known size the API refuses.                         *)
OfferedIsAccepted ==
    \A base \in {EditBase(j) : j \in {k \in Jobs : Visible(k) /\ IsDone(k)}} :
        \A op \in {"downscale", "upscale"}, h \in SCALE_HEIGHTS :
            LET request == ScaleRequest(op, h)
                accepted == CheckEditOperations(Named(request),
                                                KnownFrame(base)) # Refused
            IN  IF h \in EditOptions(base)[op]
                THEN /\ accepted
                     /\ EditSource(base) \in DOMAIN store =>
                           EditResult(request, store[EditSource(base)]).ok
                ELSE accepted => KnownFrame(base) = NoSize

(* What a video consists of, whoever else borrows it.                      *)
OwnKeys(j) ==
    {k \in Keys : \/ k = SourceKey /\ j = Upload
                  \/ k = OutputKey(j) /\ rows[j].output
                  \/ k = ThumbnailKey(j) /\ rows[j].thumbnail}

(* Every video in the library or the trash has the files its row names: no *)
(* removal of one video takes another's source, MP4 or poster frame.       *)
LibraryIsPlayable ==
    \A j \in Jobs : Present(j) => OwnKeys(j) \subseteq DOMAIN store

(* The jobs whose files a job's source comes from, however many hops away. *)
Ancestors(j) ==
    LET reached[hops \in 0..(MaxEdits + 1)] ==
            IF hops = 0 THEN {j}
            ELSE LET seen == reached[hops - 1] IN
                 seen \union {k \in Jobs : /\ Present(k)
                                          /\ \E i \in seen :
                                                rows[i].source \in OwnKeys(k)}
    IN  reached[MaxEdits + 1]

(* An edit starts from the upload's own file as long as that upload's row  *)
(* can be reached, however many older edits lie between; otherwise from    *)
(* the video the owner chose.  Either way the file is there to be opened.  *)
(* That is what _edit_base says; the older editable_height has an upload   *)
(* edited from its MP4 ("Edits run on the job's MP4, not on the original   *)
(* upload"), and so at the MP4's height, which is the mutant CappedHeight. *)
StartsFromOriginal ==
    [][call = NoCall /\ call' # NoCall =>
          /\ call'.source \in DOMAIN store
          /\ \E j \in Jobs :
                /\ Visible(j)
                /\ IF \E k \in Ancestors(j) : IsUpload(k)
                   THEN call'.source = SourceKey
                   ELSE call'.source = OutputKey(j)]_vars

Near(a, b, slack) == a - b \in -slack..slack

(* The quarter turns and the mirroring a request asks for.                 *)
AskedPose(ops) ==
    LET turn == IF "rotate" \in DOMAIN ops
                THEN ops["rotate"].degrees \div 90 ELSE 0
    IN  IF "flip" \notin DOMAIN ops THEN <<turn, FALSE>>
        ELSE IF ops["flip"].axis = "horizontal"
        THEN <<(4 - turn) % 4, TRUE>> ELSE <<(6 - turn) % 4, TRUE>>

(* What is uploaded is what was asked for and what the rules foretold, in  *)
(* whatever order the request listed its operations: the frame is the one  *)
(* the rules judged (a crop rounds to even), turned and mirrored as asked; *)
(* colour was never applied to an HDR picture; a re-encoded picture is     *)
(* 4:2:0 SDR; picture and sound are equally long, cut and retimed.         *)
OutputAsAsked ==
    run.step = "record" /\ run.operations # NoOperations =>
        LET ops == Named(run.operations)
            out == store[OutputKey(run.job)]
            frame == CheckEditOperations(ops, DisplaySize(run.from))
            pose == AskedPose(ops)
            clipped == IF "clip" \in DOMAIN ops
                       THEN ops["clip"].end - ops["clip"].start
                       ELSE run.from.adur
            factor == IF "speed" \in DOMAIN ops
                      THEN ops["speed"].factor ELSE 100
        IN  OutputKey(run.job) \in DOMAIN store =>
            /\ out.format = OutputFormat(ops)
            /\ out.adur = (100 * clipped) \div factor
            /\ out.format # "mp3" /\ Probes(run.from) =>
                  /\ out.vdur = out.adur
                  /\ Near(DisplaySize(out).height, frame.height, 1)
                  /\ Near(DisplaySize(out).width, frame.width, 2)
                  /\ out.turn = (IF pose[2] THEN pose[1] + 4 - run.from.turn
                                 ELSE pose[1] + run.from.turn) % 4
                  /\ out.mirrored = (pose[2] # run.from.mirrored)
                  /\ ~ out.hot
                  /\ out.format = "mp4" => ~ out.hdr /\ out.pix = "420"
            /\ out.format = "mp3" => out.w = 0

(* Every edit row that waits is waited for: a queued one has a delivery,   *)
(* or the handler that will deliver it or take the row back; one being     *)
(* processed has its worker.  None stays in the library as a video that    *)
(* will never come.                                                        *)
WaitingIsServed ==
    \A e \in Edits :
        /\ rows[e].status = "queued" =>
              e \in queue \/ (call.step = "enqueue" /\ call.job = e)
        /\ rows[e].status = "processing" => run # NoRun /\ run.job = e
=============================================================================
