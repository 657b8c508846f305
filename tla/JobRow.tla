------------------------------- MODULE JobRow -------------------------------
(***************************************************************************)
(* One row of the jobs table and every write the program makes to it:      *)
(* app/models/job.py and app/repositories/jobs.py.                         *)
(*                                                                         *)
(* A write is an operator from the row the statement found to the row it   *)
(* leaves; the WHERE clause that makes it conditional is the guard next to *)
(* it (a ...able operator).  Keys are names of what they point at, since   *)
(* each is a function of the job's id: output_key "mp4", hls_key "master", *)
(* preview_key "vtt".  dims stands for width, height, duration_seconds and *)
(* thumbnail_key, which are only ever written together.  age stands for    *)
(* updated_at: how many of the reaper's thresholds it is behind now.       *)
(***************************************************************************)
EXTENDS Naturals

Null == "null"

JobStatus == {"queued", "processing", "done", "failed"}
HlsStatus == {"pending", "ready", "unavailable"}

(* updated_at is fresh, or older than abandoned_before, lease_before,      *)
(* grace_before (reaper.run_once; the defaults are 300, 1800 and 3600 s).  *)
Fresh == 0
Abandoned == 1
LeaseOver == 2
GraceOver == 3

(* A row, or its absence: status "absent" is a row not (or no longer)      *)
(* there.  deleted_at: null, set, or set longer than the trash keeps it.   *)
Row == [status      : JobStatus \union {"absent"},
        output_key  : {Null, "mp4"},
        hls_key     : {Null, "master"},
        hls_status  : HlsStatus,
        dims        : {Null, "dims"},
        preview_key : {Null, "vtt"},
        error       : {Null, "reason"},
        deleted_at  : {Null, "trashed", "expired"},
        age         : Fresh..GraceOver]

(* create_job and create_edit_job insert the same queued row.              *)
NewRow == [status |-> "queued", output_key |-> Null, hls_key |-> Null,
           hls_status |-> "pending", dims |-> Null, preview_key |-> Null,
           error |-> Null, deleted_at |-> Null, age |-> Fresh]

NoRow == [status |-> "absent", output_key |-> Null, hls_key |-> Null,
          hls_status |-> "pending", dims |-> Null, preview_key |-> Null,
          error |-> Null, deleted_at |-> Null, age |-> Fresh]

(* The CHECK constraints of the table, for a row that is there.            *)
CheckConstraints(r) ==
    /\ (r.status = "done") <=> (r.output_key # Null)
    /\ (r.status = "failed") <=> (r.error # Null)
    /\ (r.hls_status = "ready") <=> (r.hls_key # Null)
    /\ r.preview_key # Null => r.hls_key # Null

-----------------------------------------------------------------------------
(* _derived_hls_status: the ladder's state a transition implies when its   *)
(* caller does not say.                                                    *)
ForgottenHlsStatus(next, key) == Null
DerivedHlsStatus(next, key) ==
    IF key # Null THEN "ready"
    ELSE IF next \in {"done", "failed"} THEN "unavailable" ELSE "pending"

(* _transition: every column it names is written on every transition; the  *)
(* preview's and the trash's columns are not among them.                   *)
Transition(r, next, output, key, hls, dims, error) ==
    [r EXCEPT !.status = next,
              !.output_key = output,
              !.hls_key = key,
              !.hls_status = IF hls # Null THEN hls
                             ELSE DerivedHlsStatus(next, key),
              !.dims = dims,
              !.error = error,
              !.age = Fresh]

MarkProcessing(r) == Transition(r, "processing", Null, Null, Null, Null, Null)

(* result: "ladder" when the step found a picture to cut a ladder from,    *)
(* "plain" for an MP3 or an edit whose output could not be probed.         *)
MarkDone(r, result) ==
    Transition(r, "done", "mp4", Null,
               IF result = "ladder" THEN "pending" ELSE Null,
               IF result = "ladder" THEN "dims" ELSE Null, Null)

MarkInterrupted(r) == Transition(r, "queued", Null, Null, Null, Null, Null)

MarkFailed(r) == Transition(r, "failed", Null, Null, Null, Null, "reason")

(* _settle_ladder's WHERE clause and what it writes.                       *)
SettlesAgain(r) == r.status = "done"
AwaitsLadder(r) == r.status = "done" /\ r.hls_status = "pending"

SettleLadder(r, hls, key) ==
    [r EXCEPT !.hls_status = hls, !.hls_key = key, !.age = Fresh]

MarkLadderReady(r) == SettleLadder(r, "ready", "master")
MarkLadderUnavailable(r) == SettleLadder(r, "unavailable", Null)

(* mark_preview_ready's WHERE clause and what it writes.                   *)
AwaitsPreview(r) == r.status = "done" /\ r.hls_status = "ready"
MarkPreviewReady(r) == [r EXCEPT !.preview_key = "vtt", !.age = Fresh]

(* prepare_retry writes these columns and leaves the others alone.         *)
PrepareRetryKeepingError(r) == [r EXCEPT !.status = "queued", !.age = Fresh]

PrepareRetry(r) ==
    [r EXCEPT !.status = "queued", !.error = Null, !.output_key = Null,
              !.hls_key = Null, !.hls_status = "pending", !.age = Fresh]

(* mark_stale_failed leaves output_key, hls_key and preview_key alone.     *)
MarkStaleFailed(r) ==
    [r EXCEPT !.status = "failed", !.error = "reason",
              !.hls_status = "unavailable", !.age = Fresh]

TrashRow(r) == [r EXCEPT !.deleted_at = "trashed"]
RestoreRow(r) == [r EXCEPT !.deleted_at = Null]

(* Time, as the reaper's queries see it.                                   *)
ExpireRow(r) == [r EXCEPT !.deleted_at = "expired"]
AgeRow(r) == [r EXCEPT !.age = @ + 1]
=============================================================================
