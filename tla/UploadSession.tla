--------------------------- MODULE UploadSession ---------------------------
(***************************************************************************)
(* Resumable uploads of one account: the session routes                    *)
(* (app/api/multipart_uploads.py, app/repositories/uploads.py), the        *)
(* multipart upload in the object store (app/services/multipart_storage.py)*)
(* that the browser fills by itself, the periodic cleanup of expired       *)
(* sessions (app/services/upload_cleanup.py), the reaper's sweep of        *)
(* uploads/, the deletion of a job and the deletion of the whole account   *)
(* (app/api/admin_users.py).                                               *)
(*                                                                         *)
(* Every transaction of a session locks the owner's row first and holds it *)
(* to its commit or rollback; calls to the object store and to Redis in    *)
(* between take effect at once and are not rolled back.  A session's job   *)
(* and its source object are named by the session.                         *)
(***************************************************************************)
EXTENDS Naturals, FiniteSets

CONSTANTS
    Sessions,   \* upload sessions of the account
    Requests,   \* requests in progress at the same time
    NoRequest, NoSession,
    MaxOpen,    \* MAX_OPEN_UPLOADS
    MaxEtag,    \* how often the parts are uploaded, each time with new ETags
    Limits      \* how often each of Bounded may happen

(* A request, a pass or a call that raises or dies; a merge the store      *)
(* finishes after the request that asked for it gave up; deletions of jobs *)
(* and of the account.                                                     *)
Bounded == {"fail", "late", "job", "account"}
Reaper == "reaper"

ASSUME UploadAssumption ==
    /\ NoRequest \notin Requests \union {Reaper} /\ Reaper \notin Requests
    /\ NoSession \notin Sessions
    /\ MaxOpen \in Nat /\ MaxEtag \in Nat
    /\ Limits \in [Bounded -> Nat]

VARIABLES
    account,    \* the owner's row: active or gone
    session,    \* per session, its row
    expired,    \* sessions past expires_at
    video,      \* per session, whether its content is a video of the declared size
    multipart,  \* per session, the ETags of its multipart upload's parts
    object,     \* per session, its merged source object
    pending,    \* merges the store is still working on
    job,        \* per session, its job's row
    purge,      \* jobs whose row is deleted and whose source is still to be
    delivered,  \* sessions whose job was enqueued
    lock,       \* who holds the lock of the owner's row
    req,        \* per request, what it is doing
    pass,       \* the reaper's pass
    left,       \* what remains of Limits
    touched     \* history: sessions whose source a deletion has set out to remove

vars == <<account, session, expired, video, multipart, object, pending, job, purge,
          delivered, lock, req, pass, left, touched>>
bucket == <<multipart, object, pending>>
jobs == <<job, purge, delivered, touched>>
clock == <<expired, video>>

Reserved == {"open", "completing", "aborting"}
State == Reserved \union {"none", "ready", "completed", "aborted"}
Rows == [state : State, storage : BOOLEAN, manifest : 0 .. MaxEtag]
NoRow == [state |-> "none", storage |-> FALSE, manifest |-> 0]

(* "none" is no multipart upload; 0 one without parts.                     *)
NoUpload == MaxEtag + 1

(* A request between two transactions, and inside one.                     *)
Between == {"initiate", "reown", "discard"}
Inside == {"initiated", "listed", "head", "merge", "check", "enqueueing", "enqueued",
           "discarding", "discarded", "purging"}
ReqRecords == [pc : Between \union Inside \union {"idle"}, s : Sessions \union {NoSession},
               manifest : 0 .. MaxEtag, todo : SUBSET Sessions]
IdleReq == [pc |-> "idle", s |-> NoSession, manifest |-> 0, todo |-> {}]

PassPhase == {"rest", "sweep", "clean", "cleaning", "cleaned"}
Passes == [phase : PassPhase, todo : SUBSET Sessions, s : Sessions \union {NoSession}]
RestingPass == [phase |-> "rest", todo |-> {}, s |-> NoSession]

(* Types, and the lock's discipline: a transaction holds the owner's lock  *)
(* as long as it lasts and nobody keeps it afterwards.  A lock left behind *)
(* would stop every upload of the account.                                 *)
TypeOK ==
    /\ account \in {"active", "gone"}
    /\ session \in [Sessions -> Rows]
    /\ expired \subseteq Sessions
    /\ video \in [Sessions -> BOOLEAN]
    /\ multipart \in [Sessions -> 0 .. NoUpload]
    /\ object \in [Sessions -> {"none", "fresh", "old"}]
    /\ pending \subseteq Sessions
    /\ job \in [Sessions -> {"none", "queued", "deleted"}]
    /\ purge \subseteq Sessions
    /\ delivered \subseteq Sessions
    /\ lock \in Requests \union {Reaper, NoRequest}
    /\ req \in [Requests -> ReqRecords]
    /\ pass \in Passes
    /\ left \in [Bounded -> Nat]
    /\ touched \subseteq Sessions
    /\ \A r \in Requests : lock = r <=> req[r].pc \in Inside
    /\ lock = Reaper <=> pass.phase \in {"cleaning", "cleaned"}

Init ==
    /\ account = "active"
    /\ session = [s \in Sessions |-> NoRow]
    /\ expired = {}
    /\ video \in [Sessions -> BOOLEAN]
    /\ multipart = [s \in Sessions |-> NoUpload]
    /\ object = [s \in Sessions |-> "none"]
    /\ pending = {}
    /\ job = [s \in Sessions |-> "none"]
    /\ purge = {} /\ delivered = {} /\ touched = {}
    /\ lock = NoRequest
    /\ req = [r \in Requests |-> IdleReq]
    /\ pass = RestingPass
    /\ left = Limits

Spend(what) == left[what] > 0 /\ left' = [left EXCEPT ![what] = @ - 1]

Lock(who) == lock = NoRequest /\ lock' = who
Unlock == lock' = NoRequest
Owned(s) == account = "active" /\ session[s].state # "none"
SetState(s, state) == session' = [session EXCEPT ![s].state = state]

At(r, pc) == req[r].pc = pc
Go(r, pc) == req' = [req EXCEPT ![r].pc = pc]
Answer(r) == req' = [req EXCEPT ![r] = IdleReq]
Unfinished == {s \in Sessions : session[s].state \in Reserved}

(* The browser learns a session's id from the answer to its POST.          *)
Known(s) == Owned(s) /\ session[s].storage

-----------------------------------------------------------------------------
(* POST /uploads.                                                          *)

(* add_upload: under the owner's lock, count and insert.                   *)
Start(r, s) ==
    /\ At(r, "idle") /\ lock = NoRequest /\ account = "active"
    /\ session[s].state = "none"
    /\ Cardinality(Unfinished) < MaxOpen
    /\ session' = [session EXCEPT ![s] = [NoRow EXCEPT !.state = "open"]]
    /\ req' = [req EXCEPT ![r] = [IdleReq EXCEPT !.pc = "initiate", !.s = s]]
    /\ UNCHANGED <<account, clock, bucket, jobs, lock, pass, left>>

(* The row is locked again, whatever its state is now, and the multipart   *)
(* upload created.                                                         *)
Initiate(r) ==
    /\ At(r, "initiate")
    /\ IF Owned(req[r].s)
       THEN /\ Lock(r)
            /\ multipart' = [multipart EXCEPT ![req[r].s] = 0]
            /\ Go(r, "initiated")
       ELSE Answer(r) /\ lock = NoRequest /\ UNCHANGED <<lock, multipart>>
    /\ UNCHANGED <<account, session, clock, object, pending, jobs, pass, left>>

RecordStorageId(r) ==
    /\ At(r, "initiated")
    /\ session' = [session EXCEPT ![req[r].s].storage = TRUE]
    /\ Unlock /\ Answer(r)
    /\ UNCHANGED <<account, clock, bucket, jobs, pass, left>>

(* The browser uploads the parts to the signed URLs, at any time before    *)
(* the upload is merged or aborted, again if it likes.                     *)
PutParts(s) ==
    /\ session[s].storage /\ multipart[s] < MaxEtag
    /\ multipart' = [multipart EXCEPT ![s] = @ + 1]
    /\ UNCHANGED <<account, session, clock, object, pending, jobs, lock, req, pass, left>>

-----------------------------------------------------------------------------
(* POST /uploads/{id}/complete with manifest m.                            *)

(* Mutant: what complete knew before its commit, not what the row says.    *)
ProceedStale(r, s, m) ==
    /\ lock' = r
    /\ req' = [req EXCEPT ![r] = [IdleReq EXCEPT !.pc = "head", !.s = s, !.manifest = m]]

(* What complete does with the row it has just locked.                     *)
Proceed(r, s, m) ==
    LET row == session[s]
        to(pc) == lock' = r /\ req' = [req EXCEPT ![r] =
                      [IdleReq EXCEPT !.pc = pc, !.s = s, !.manifest = m]]
    IN  CASE row.state = "completing" /\ row.manifest = m -> to("head")
          [] row.state = "ready" -> to("enqueueing")
          [] OTHER -> Answer(r) /\ UNCHANGED lock

(* An open, unexpired session whose stored parts are the ones named.       *)
ListParts(r, s, m) ==
    /\ At(r, "idle") /\ Lock(r) /\ Known(s)
    /\ session[s].state = "open" /\ s \notin expired
    /\ m > 0 /\ multipart[s] = m
    /\ req' = [req EXCEPT ![r] = [IdleReq EXCEPT !.pc = "listed", !.s = s, !.manifest = m]]
    /\ UNCHANGED <<account, session, clock, bucket, jobs, pass, left>>

(* "Freeze the manifest before calling S3."                                *)
Freeze(r) ==
    /\ At(r, "listed")
    /\ session' = [session EXCEPT ![req[r].s].state = "completing",
                                  ![req[r].s].manifest = req[r].manifest]
    /\ Unlock /\ Go(r, "reown")
    /\ UNCHANGED <<account, clock, bucket, jobs, pass, left>>

(* A retry of a completion that has started.                               *)
CompleteAgain(r, s, m) ==
    /\ At(r, "idle") /\ lock = NoRequest /\ Known(s)
    /\ session[s].state \in {"completing", "ready"}
    /\ Proceed(r, s, m)
    /\ UNCHANGED <<account, session, clock, bucket, jobs, pass, left>>

(* The row after a commit in the middle of complete: locked and read anew. *)
Reown(r) ==
    /\ At(r, "reown") /\ lock = NoRequest
    /\ IF Owned(req[r].s) THEN Proceed(r, req[r].s, req[r].manifest)
       ELSE Answer(r) /\ UNCHANGED lock
    /\ UNCHANGED <<account, session, clock, bucket, jobs, pass, left>>

Head(r) ==
    /\ At(r, "head")
    /\ Go(r, IF object[req[r].s] = "none" THEN "merge" ELSE "check")
    /\ UNCHANGED <<account, session, clock, bucket, jobs, lock, pass, left>>

Merged(s) ==
    /\ multipart' = [multipart EXCEPT ![s] = NoUpload]
    /\ object' = [object EXCEPT ![s] = "fresh"]

Mergeable(s) == multipart[s] = session[s].manifest

Merge(r) ==
    /\ At(r, "merge") /\ Mergeable(req[r].s)
    /\ Merged(req[r].s) /\ Go(r, "check")
    /\ UNCHANGED <<account, session, clock, pending, jobs, lock, pass, left>>

(* Mutant: the lock is not given back.                                     *)
MergeRefusedHolding(r) ==
    /\ At(r, "merge") /\ ~Mergeable(req[r].s)
    /\ Answer(r)
    /\ UNCHANGED <<account, session, clock, bucket, jobs, lock, pass, left>>

(* No such upload, or other parts than the frozen ones: 503, rolled back.  *)
MergeRefused(r) ==
    /\ At(r, "merge") /\ ~Mergeable(req[r].s)
    /\ Unlock /\ Answer(r)
    /\ UNCHANGED <<account, session, clock, bucket, jobs, pass, left>>

(* The answer is lost: the merge happened, or happens later.               *)
MergeUnanswered(r) ==
    /\ At(r, "merge") /\ Mergeable(req[r].s)
    /\ Spend("late")
    /\ pending' = pending \union {req[r].s}
    /\ Unlock /\ Answer(r)
    /\ UNCHANGED <<account, session, clock, multipart, object, jobs, pass>>

StoreFinishes(s) ==
    /\ s \in pending
    /\ pending' = pending \ {s}
    /\ Merged(s)
    /\ UNCHANGED <<account, session, clock, jobs, lock, req, pass, left>>

(* Or never: the request did not reach the store, or came after an abort.  *)
StoreDrops(s) ==
    /\ s \in pending
    /\ pending' = pending \ {s}
    /\ UNCHANGED <<account, session, clock, multipart, object, jobs, lock, req, pass, left>>

(* Mutant: the session is completed before its job is enqueued.            *)
CreateCompletedJob(r) ==
    /\ At(r, "check") /\ video[req[r].s]
    /\ job' = [job EXCEPT ![req[r].s] = "queued"]
    /\ SetState(req[r].s, "completed")
    /\ Unlock /\ Go(r, "reown")
    /\ UNCHANGED <<account, clock, bucket, purge, delivered, touched, pass, left>>

(* A video of the declared size: create_upload_job, one transaction.       *)
CreateUploadJob(r) ==
    /\ At(r, "check") /\ video[req[r].s]
    /\ job' = [job EXCEPT ![req[r].s] = "queued"]
    /\ SetState(req[r].s, "ready")
    /\ Unlock /\ Go(r, "reown")
    /\ UNCHANGED <<account, clock, bucket, purge, delivered, touched, pass, left>>

(* Anything else is discarded; the intent is committed first.              *)
RefuseContent(r) ==
    /\ At(r, "check") /\ ~video[req[r].s]
    /\ SetState(req[r].s, "aborting")
    /\ Unlock /\ Go(r, "discard")
    /\ UNCHANGED <<account, clock, bucket, jobs, pass, left>>

EnqueueUpload(r) ==
    /\ At(r, "enqueueing")
    /\ delivered' = delivered \union {req[r].s}
    /\ Go(r, "enqueued")
    /\ UNCHANGED <<account, session, clock, bucket, job, purge, touched, lock, pass, left>>

Completed(r) ==
    /\ At(r, "enqueued")
    /\ SetState(req[r].s, "completed")
    /\ Unlock /\ Answer(r)
    /\ UNCHANGED <<account, clock, bucket, jobs, pass, left>>

-----------------------------------------------------------------------------
(* DELETE /uploads/{id}, and discard.                                      *)

Abort(r, s) ==
    /\ At(r, "idle") /\ lock = NoRequest /\ Known(s)
    /\ session[s].state \in {"open", "aborting"}
    /\ SetState(s, "aborting")
    /\ req' = [req EXCEPT ![r] = [IdleReq EXCEPT !.pc = "discard", !.s = s]]
    /\ UNCHANGED <<account, clock, bucket, jobs, lock, pass, left>>

DiscardOwned(r) ==
    /\ At(r, "discard")
    /\ IF Owned(req[r].s) THEN Lock(r) /\ Go(r, "discarding")
       ELSE lock = NoRequest /\ Answer(r) /\ UNCHANGED lock
    /\ UNCHANGED <<account, session, clock, bucket, jobs, pass, left>>

(* MultipartStorage.abort: the parts go, and an object merged from them.   *)
AbortStorage(s) ==
    /\ multipart' = [multipart EXCEPT ![s] = IF session[s].storage THEN NoUpload ELSE @]
    /\ object' = [object EXCEPT ![s] = "none"]
    /\ UNCHANGED pending

DiscardStorage(r) ==
    /\ At(r, "discarding")
    /\ AbortStorage(req[r].s)
    /\ Go(r, "discarded")
    /\ UNCHANGED <<account, session, clock, jobs, lock, pass, left>>

Discarded(r) ==
    /\ At(r, "discarded")
    /\ SetState(req[r].s, "aborted")
    /\ Unlock /\ Answer(r)
    /\ UNCHANGED <<account, clock, bucket, jobs, pass, left>>

-----------------------------------------------------------------------------
(* DELETE /admin/users/{id}: storage first, rows last, one transaction.    *)

DeleteAccount(r) ==
    /\ At(r, "idle") /\ Lock(r) /\ account = "active"
    /\ Spend("account")
    /\ req' = [req EXCEPT ![r] = [IdleReq EXCEPT !.pc = "purging", !.todo = Sessions]]
    /\ touched' = Sessions
    /\ UNCHANGED <<account, session, clock, bucket, job, purge, delivered, pass>>

(* An unfinished upload is aborted; the source of a finished one is        *)
(* deleted, with its job's files or because the job is gone already.       *)
PurgeUpload(r, s) ==
    /\ At(r, "purging") /\ s \in req[r].todo
    /\ CASE session[s].state \in Reserved -> AbortStorage(s)
         [] session[s].state \in {"ready", "completed"} ->
                object' = [object EXCEPT ![s] = "none"] /\ UNCHANGED <<multipart, pending>>
         [] OTHER -> UNCHANGED bucket
    /\ req' = [req EXCEPT ![r].todo = @ \ {s}]
    /\ UNCHANGED <<account, session, clock, jobs, lock, pass, left>>

DeleteAccountRows(r) ==
    /\ At(r, "purging") /\ req[r].todo = {}
    /\ account' = "gone"
    /\ session' = [s \in Sessions |-> NoRow]
    /\ job' = [s \in Sessions |-> IF job[s] = "queued" THEN "deleted" ELSE job[s]]
    /\ Unlock /\ Answer(r)
    /\ UNCHANGED <<clock, bucket, purge, delivered, touched, pass, left>>

(* A call raises or the process dies: the transaction is rolled back.      *)
RequestFails(r) ==
    /\ ~At(r, "idle")
    /\ Spend("fail")
    /\ lock' = IF lock = r THEN NoRequest ELSE lock
    /\ Answer(r)
    /\ UNCHANGED <<account, session, clock, bucket, jobs, pass>>

-----------------------------------------------------------------------------
(* DELETE /jobs/{id}: the row, then its source, best-effort.  An account   *)
(* being deleted holds the job's row.                                      *)
DeleteJob(s) ==
    /\ job[s] = "queued" /\ \A r \in Requests : ~At(r, "purging")
    /\ Spend("job")
    /\ job' = [job EXCEPT ![s] = "deleted"]
    /\ purge' = purge \union {s} /\ touched' = touched \union {s}
    /\ UNCHANGED <<account, session, clock, bucket, delivered, lock, req, pass>>

DeleteJobSource(s) ==
    /\ s \in purge
    /\ purge' = purge \ {s}
    /\ object' = [object EXCEPT ![s] = "none"]
    /\ UNCHANGED <<account, session, clock, multipart, pending, job, delivered, touched, lock,
                   req, pass, left>>

DeleteJobSourceFails(s) ==
    /\ s \in purge
    /\ Spend("fail")
    /\ purge' = purge \ {s}
    /\ UNCHANGED <<account, session, clock, bucket, job, delivered, touched, lock, req, pass>>

-----------------------------------------------------------------------------
(* The reaper: run_once's sweep of uploads/, then cleanup_expired.         *)

(* Mutant: every session protects its key, whatever its state.             *)
SourceKeysOfAll == {s \in Sessions : job[s] = "queued" \/ session[s].state # "none"}

(* list_source_keys                                                        *)
SourceKeys == {s \in Sessions : job[s] = "queued" \/ session[s].state \in Reserved}

(* One query names the sources that are needed; what is older than the     *)
(* grace period when the pass begins and not among them will be deleted.   *)
SweepBegins ==
    /\ pass.phase = "rest"
    /\ pass' = [RestingPass EXCEPT !.phase = "sweep",
                                   !.todo = {s \in Sessions \ SourceKeys : object[s] = "old"}]
    /\ UNCHANGED <<account, session, clock, bucket, jobs, lock, req, left>>

SweepDeletes(s) ==
    /\ pass.phase = "sweep" /\ s \in pass.todo
    /\ object' = [object EXCEPT ![s] = "none"]
    /\ pass' = [pass EXCEPT !.todo = @ \ {s}]
    /\ UNCHANGED <<account, session, clock, multipart, pending, jobs, lock, req, left>>

(* Mutant: only sessions nobody began to complete.                         *)
CleanBeginsOpen ==
    /\ pass.phase = "sweep" /\ pass.todo = {}
    /\ pass' = [pass EXCEPT !.phase = "clean",
                            !.todo = {s \in expired : session[s].state = "open"}]
    /\ UNCHANGED <<account, session, clock, bucket, jobs, lock, req, left>>

(* run_once raises and the pass is over; the next one starts anew.         *)
SweepFails ==
    /\ pass.phase = "sweep"
    /\ Spend("fail")
    /\ pass' = RestingPass
    /\ UNCHANGED <<account, session, clock, bucket, jobs, lock, req>>

(* cleanup_expired's candidates.                                           *)
CleanBegins ==
    /\ pass.phase = "sweep" /\ pass.todo = {}
    /\ pass' = [pass EXCEPT !.phase = "clean",
                            !.todo = {s \in expired : session[s].state \in Reserved}]
    /\ UNCHANGED <<account, session, clock, bucket, jobs, lock, req, left>>

(* Mutant: without the second look.                                        *)
CleanLocksUnchecked(s) ==
    /\ pass.phase = "clean" /\ s \in pass.todo
    /\ lock = NoRequest
    /\ IF Owned(s)
       THEN Lock(Reaper) /\ pass' = [pass EXCEPT !.phase = "cleaning", !.s = s, !.todo = @ \ {s}]
       ELSE pass' = [pass EXCEPT !.todo = @ \ {s}] /\ UNCHANGED lock
    /\ UNCHANGED <<account, session, clock, bucket, jobs, req, left>>

(* Each one is locked and looked at again.                                 *)
CleanLocks(s) ==
    /\ pass.phase = "clean" /\ s \in pass.todo
    /\ lock = NoRequest
    /\ IF Owned(s) /\ session[s].state \in Reserved
       THEN Lock(Reaper) /\ pass' = [pass EXCEPT !.phase = "cleaning", !.s = s, !.todo = @ \ {s}]
       ELSE pass' = [pass EXCEPT !.todo = @ \ {s}] /\ UNCHANGED lock
    /\ UNCHANGED <<account, session, clock, bucket, jobs, req, left>>

(* The lock is kept over the storage call.                                 *)
CleanStorage ==
    /\ pass.phase = "cleaning"
    /\ AbortStorage(pass.s)
    /\ pass' = [pass EXCEPT !.phase = "cleaned"]
    /\ UNCHANGED <<account, session, clock, jobs, lock, req, left>>

CleanCommits ==
    /\ pass.phase = "cleaned"
    /\ SetState(pass.s, "aborted")
    /\ Unlock
    /\ pass' = [pass EXCEPT !.phase = "clean", !.s = NoSession]
    /\ UNCHANGED <<account, clock, bucket, jobs, req, left>>

CleanFails ==
    /\ pass.phase \in {"cleaning", "cleaned"}
    /\ Spend("fail")
    /\ Unlock
    /\ pass' = [pass EXCEPT !.phase = "clean", !.s = NoSession]
    /\ UNCHANGED <<account, session, clock, bucket, jobs, req>>

PassEnds ==
    /\ pass.phase = "clean" /\ pass.todo = {}
    /\ pass' = RestingPass
    /\ UNCHANGED <<account, session, clock, bucket, jobs, lock, req, left>>

-----------------------------------------------------------------------------
(* Time: a session expires, an object outlives the grace period, and the   *)
(* bucket's lifecycle rule ends a multipart upload nobody finished.        *)
Expire(s) ==
    /\ session[s].state # "none" /\ s \notin expired
    /\ expired' = expired \union {s}
    /\ UNCHANGED <<account, session, video, bucket, jobs, lock, req, pass, left>>

Age(s) ==
    /\ object[s] = "fresh"
    /\ object' = [object EXCEPT ![s] = "old"]
    /\ UNCHANGED <<account, session, clock, multipart, pending, jobs, lock, req, pass, left>>

LifecycleRule(s) ==
    /\ multipart[s] # NoUpload
    /\ s \in expired \/ account = "gone"
    /\ multipart' = [multipart EXCEPT ![s] = NoUpload]
    /\ UNCHANGED <<account, session, clock, object, pending, jobs, lock, req, pass, left>>

-----------------------------------------------------------------------------
RequestStep(r) ==
    \/ Initiate(r) \/ RecordStorageId(r)
    \/ Freeze(r) \/ Reown(r) \/ Head(r) \/ Merge(r) \/ MergeRefused(r)
    \/ CreateUploadJob(r) \/ RefuseContent(r) \/ EnqueueUpload(r) \/ Completed(r)
    \/ DiscardOwned(r) \/ DiscardStorage(r) \/ Discarded(r)
    \/ \E s \in Sessions : PurgeUpload(r, s)
    \/ DeleteAccountRows(r)

NewRequest(r) ==
    \/ \E s \in Sessions : Start(r, s) \/ Abort(r, s)
    \/ \E s \in Sessions, m \in 1 .. MaxEtag : ListParts(r, s, m) \/ CompleteAgain(r, s, m)
    \/ DeleteAccount(r)

CleanNext == \E s \in Sessions : CleanLocks(s)

PassStep ==
    \/ SweepBegins \/ \E s \in Sessions : SweepDeletes(s)
    \/ CleanBegins \/ CleanStorage \/ CleanCommits \/ PassEnds

Next ==
    \/ \E r \in Requests : \/ NewRequest(r) \/ RequestStep(r)
                           \/ MergeUnanswered(r) \/ RequestFails(r)
    \/ PassStep \/ CleanNext \/ SweepFails \/ CleanFails
    \/ \E s \in Sessions : \/ PutParts(s) \/ StoreFinishes(s) \/ StoreDrops(s)
                           \/ DeleteJob(s) \/ DeleteJobSource(s) \/ DeleteJobSourceFails(s)
                           \/ Expire(s) \/ Age(s) \/ LifecycleRule(s)

Spec == Init /\ [][Next]_vars

(* Requests run, the reaper makes its passes, clocks and the store go on.  *)
(* PostgreSQL hands a row lock to its waiters in turn, so the cleanup,     *)
(* which asks for it again and again, gets it in the end.                  *)
Fairness ==
    /\ \A r \in Requests : WF_vars(RequestStep(r))
    /\ WF_vars(PassStep) /\ SF_vars(CleanNext)
    /\ \A s \in Sessions : /\ WF_vars(StoreFinishes(s) \/ StoreDrops(s)) /\ WF_vars(DeleteJobSource(s))
                           /\ WF_vars(Age(s))

FairSpec == Spec /\ Fairness

-----------------------------------------------------------------------------
(* Properties.                                                             *)

(* A job made from an upload has its source, and it is a video: no cleanup,*)
(* abort, sweep or second completion removes it, whenever the session      *)
(* expires.  Only a deletion of the job or of its account does.            *)
JobHasSource ==
    \A s \in Sessions : job[s] = "queued" /\ s \notin touched =>
        object[s] # "none" /\ video[s]

(* "Durable intent prevents signing or completing while cleanup is         *)
(* retried": a session once aborting never becomes a job, and a session    *)
(* makes one job in its life, even if that job is deleted.                 *)
AbortIsFinal ==
    [][\A s \in Sessions :
         /\ session[s].state \in {"aborting", "aborted"} =>
                session'[s].state \in {"aborting", "aborted", "none"}
         /\ job[s] # "queued" /\ job'[s] = "queued" =>
                job[s] = "none" /\ session[s].state = "completing"]_vars

(* A session is completed only after its job was handed to the queue.      *)
CompletedIsQueued ==
    \A s \in Sessions : session[s].state = "completed" => s \in delivered

(* An expired upload gives its slot back, whatever became of the requests  *)
(* that worked on it (cleanup_expired).                                    *)
SlotIsFreed ==
    \A s \in Sessions :
        s \in expired /\ session[s].state \in Reserved ~> session[s].state \notin Reserved

(* A source nobody has a use for leaves the bucket: merged too late, left  *)
(* by a failed delete or by a deleted account (run_once's sweep).          *)
Stray(s) == object[s] # "none" /\ job[s] # "queued" /\ session[s].state \notin Reserved
StrayGoes == \A s \in Sessions : Stray(s) ~> ~Stray(s)
=============================================================================
