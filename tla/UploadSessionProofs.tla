------------------------ MODULE UploadSessionProofs ------------------------
(***************************************************************************)
(* Machine-checked proofs about UploadSession, for any number of sessions, *)
(* requests, retries, failures and deletions.                              *)
(***************************************************************************)
EXTENDS UploadSession, TLAPS

-----------------------------------------------------------------------------
(* Types and the lock.                                                     *)

Pcs == Between \union Inside \union {"idle"}

(* A request that works on a session names one, and so does the cleanup:   *)
(* what makes TypeOK inductive.                                            *)
NamesSession ==
    /\ \A r \in Requests : req[r].pc \notin {"idle", "purging"} => req[r].s \in Sessions
    /\ pass.phase \in {"cleaning", "cleaned"} => pass.s \in Sessions

Typed == TypeOK /\ NamesSession

(* The initial state is well typed and the lock is free.                   *)
LEMMA TypedInit == Init => Typed
  BY UploadAssumption DEF Init, Typed, NamesSession, TypeOK, NoRow, Rows, State, Reserved,
     NoUpload, IdleReq, ReqRecords, Between, Inside, RestingPass, Passes, PassPhase, Reaper

(* A request moves on: its session, manifest and list stay.                *)
LEMMA GoFacts ==
    ASSUME TypeOK, NEW r \in Requests, NEW pc \in Pcs, Go(r, pc)
    PROVE  /\ req' \in [Requests -> ReqRecords]
           /\ req'[r].pc = pc /\ req'[r].s = req[r].s
           /\ req'[r].manifest = req[r].manifest /\ req'[r].todo = req[r].todo
           /\ \A q \in Requests \ {r} : req'[q] = req[q]
  <1>1. \A q \in Requests : [req[q] EXCEPT !.pc = pc] \in ReqRecords
    BY DEF TypeOK, ReqRecords, Pcs
  <1>. QED
    BY <1>1 DEF Go, TypeOK, ReqRecords

(* A request is answered.                                                  *)
LEMMA AnswerFacts ==
    ASSUME TypeOK, NEW r \in Requests, Answer(r)
    PROVE  /\ req' \in [Requests -> ReqRecords]
           /\ req'[r].pc = "idle" /\ req'[r] = IdleReq
           /\ \A q \in Requests \ {r} : req'[q] = req[q]
  <1>1. IdleReq \in ReqRecords
    BY UploadAssumption DEF ReqRecords, IdleReq
  <1>. QED
    BY <1>1 DEF Answer, IdleReq, TypeOK

(* The record of a request that takes up a session, with or without a      *)
(* manifest.                                                               *)
Begun(pc, s, m) == [IdleReq EXCEPT !.pc = pc, !.s = s, !.manifest = m]
Taken(pc, s) == [IdleReq EXCEPT !.pc = pc, !.s = s]

(* A request takes up a session with a manifest.                           *)
LEMMA BeginFacts ==
    ASSUME TypeOK, NEW r \in Requests, NEW pc \in Pcs, NEW s \in Sessions,
           NEW m \in 0 .. MaxEtag,
           req' = [req EXCEPT ![r] = Begun(pc, s, m)]
    PROVE  /\ req' \in [Requests -> ReqRecords]
           /\ req'[r].pc = pc /\ req'[r].s = s /\ req'[r].manifest = m
           /\ \A q \in Requests \ {r} : req'[q] = req[q]
  <1>1. /\ Begun(pc, s, m) \in ReqRecords
        /\ Begun(pc, s, m).pc = pc /\ Begun(pc, s, m).s = s /\ Begun(pc, s, m).manifest = m
    BY DEF ReqRecords, IdleReq, Pcs, Begun
  <1>. QED
    BY <1>1 DEF TypeOK

(* The same without a manifest.                                            *)
LEMMA BeginPlain ==
    ASSUME TypeOK, NEW r \in Requests, NEW pc \in Pcs, NEW s \in Sessions,
           req' = [req EXCEPT ![r] = Taken(pc, s)]
    PROVE  /\ req' \in [Requests -> ReqRecords]
           /\ req'[r].pc = pc /\ req'[r].s = s
           /\ \A q \in Requests \ {r} : req'[q] = req[q]
  <1>1. 0 \in 0 .. MaxEtag
    BY UploadAssumption
  <1>2. Taken(pc, s) \in ReqRecords /\ Taken(pc, s).pc = pc /\ Taken(pc, s).s = s
    BY <1>1 DEF ReqRecords, IdleReq, Pcs, Taken
  <1>. QED
    BY <1>2 DEF TypeOK

(* A row whose state, storage id or manifest is set stays a row.           *)
LEMMA RowTyped ==
    /\ \A row \in Rows : \A x \in State : [row EXCEPT !.state = x] \in Rows
    /\ \A row \in Rows : [row EXCEPT !.storage = TRUE] \in Rows
    /\ \A row \in Rows : \A x \in State, m \in 0 .. MaxEtag :
          [row EXCEPT !.state = x, !.manifest = m] \in Rows
    /\ NoRow \in Rows /\ [NoRow EXCEPT !.state = "open"] \in Rows
  <1>1. 0 \in 0 .. MaxEtag
    BY UploadAssumption
  <1>. QED
    BY <1>1 DEF Rows, NoRow, State, Reserved

(* A session's state is set; its other fields and other sessions stay.     *)
LEMMA SetStateFacts ==
    ASSUME TypeOK, NEW s \in Sessions, NEW x \in State, SetState(s, x)
    PROVE  /\ session' \in [Sessions -> Rows]
           /\ session'[s].state = x
           /\ \A t \in Sessions \ {s} : session'[t] = session[t]
  <1>1. [session[s] EXCEPT !.state = x] \in Rows
    BY DEF TypeOK, Rows
  <1>. QED
    BY <1>1 DEF SetState, TypeOK, Rows

(* What complete does with the row it locked.                              *)
LEMMA ProceedFacts ==
    ASSUME TypeOK, NEW r \in Requests, NEW s \in Sessions, NEW m \in 0 .. MaxEtag,
           Proceed(r, s, m), lock = NoRequest
    PROVE  /\ req' \in [Requests -> ReqRecords]
           /\ \A q \in Requests \ {r} : req'[q] = req[q]
           /\ \/ /\ lock' = r /\ req'[r].s = s
                 /\ \/ req'[r].pc = "head" /\ session[s].state = "completing"
                    \/ req'[r].pc = "enqueueing" /\ session[s].state = "ready"
              \/ lock' = NoRequest /\ req'[r].pc = "idle"
  <1>. DEFINE row == session[s]
              to(pc) == lock' = r /\ req' = [req EXCEPT ![r] = Begun(pc, s, m)]
  <1>1. \/ row.state = "completing" /\ to("head")
        \/ row.state = "ready" /\ to("enqueueing")
        \/ Answer(r) /\ UNCHANGED lock
    BY Zenon DEF Proceed, Begun
  <1>2. CASE row.state = "completing" /\ to("head")
    BY <1>2, BeginFacts DEF Pcs, Inside
  <1>3. CASE row.state = "ready" /\ to("enqueueing")
    BY <1>3, BeginFacts DEF Pcs, Inside
  <1>4. CASE Answer(r) /\ UNCHANGED lock
    BY <1>4, AnswerFacts
  <1>. QED
    BY <1>1, <1>2, <1>3, <1>4

(* What a step of request r does to the requests and to the lock: it takes *)
(* it, keeps it or gives it back, and everybody else stays where he is.    *)
StepOf(r) ==
    /\ req' \in [Requests -> ReqRecords]
    /\ \A q \in Requests \ {r} : req'[q] = req[q]
    /\ pass' = pass
    /\ req'[r].pc \notin {"idle", "purging"} => req'[r].s \in Sessions
    /\ \/ lock \in {r, NoRequest} /\ lock' = r /\ req'[r].pc \in Inside
       \/ lock \in {r, NoRequest} /\ lock' = NoRequest /\ req'[r].pc \notin Inside
       \/ lock # r /\ lock' = lock /\ req'[r].pc \notin Inside

(* Such a step keeps the lock's discipline.                                *)
LEMMA StepKeepsLock ==
    ASSUME Typed, NEW r \in Requests, StepOf(r)
    PROVE  /\ lock' \in Requests \union {Reaper, NoRequest}
           /\ req' \in [Requests -> ReqRecords] /\ pass' \in Passes
           /\ \A q \in Requests : lock' = q <=> req'[q].pc \in Inside
           /\ lock' = Reaper <=> pass'.phase \in {"cleaning", "cleaned"}
           /\ NamesSession'
  BY UploadAssumption DEF Typed, TypeOK, StepOf, NamesSession

(* The types of everything but the requests, the lock and the pass.        *)
DataTyped ==
    /\ account \in {"active", "gone"}
    /\ session \in [Sessions -> Rows]
    /\ expired \subseteq Sessions
    /\ video \in [Sessions -> BOOLEAN]
    /\ multipart \in [Sessions -> 0 .. NoUpload]
    /\ object \in [Sessions -> {"none", "fresh", "old"}]
    /\ pending \subseteq Sessions
    /\ job \in [Sessions -> {"none", "queued", "deleted"}]
    /\ purge \subseteq Sessions
    /\ delivered \subseteq Sessions
    /\ left \in [Bounded -> Nat]
    /\ touched \subseteq Sessions

(* A bounded event leaves the budget typed.                                *)
LEMMA SpendTyped ==
    ASSUME left \in [Bounded -> Nat], NEW what \in Bounded, Spend(what)
    PROVE  left' \in [Bounded -> Nat]
  BY DEF Spend

(* The steps a request takes by itself, and its failures.                  *)
LEMMA OwnStep ==
    ASSUME Typed, NEW r \in Requests,
           \/ RequestStep(r) \/ NewRequest(r) \/ MergeUnanswered(r) \/ RequestFails(r)
    PROVE  StepOf(r)
  <1>. USE DEF Typed, NamesSession, At, StepOf, Lock, Unlock
  <1>. DEFINE Names == \A q \in Requests : lock = q <=> req[q].pc \in Inside
  <1>0. TypeOK /\ Names /\ r # Reaper /\ r # NoRequest
    BY UploadAssumption DEF TypeOK
  <1>1. CASE Initiate(r)
    BY <1>0, <1>1, GoFacts, AnswerFacts DEF Initiate, Pcs, Between, Inside
  <1>2. CASE RecordStorageId(r)
    BY <1>0, <1>2, GoFacts, AnswerFacts DEF RecordStorageId, Pcs, Between, Inside
  <1>3. CASE Freeze(r)
    BY <1>0, <1>3, GoFacts, AnswerFacts DEF Freeze, Pcs, Between, Inside
  <1>4. CASE Reown(r)
    <2>1. req[r].s \in Sessions /\ req[r].manifest \in 0 .. MaxEtag
      BY <1>4 DEF Reown, TypeOK, ReqRecords
    <2>2. CASE Owned(req[r].s)
      BY <1>0, <1>4, <2>1, <2>2, ProceedFacts DEF Reown, Inside
    <2>3. CASE ~Owned(req[r].s)
      BY <1>0, <1>4, <2>3, AnswerFacts DEF Reown, Inside
    <2>. QED
      BY <2>2, <2>3
  <1>5. CASE Head(r)
    BY <1>0, <1>5, GoFacts, AnswerFacts DEF Head, Pcs, Between, Inside
  <1>6. CASE Merge(r)
    BY <1>0, <1>6, GoFacts, AnswerFacts DEF Merge, Pcs, Between, Inside
  <1>7. CASE MergeRefused(r)
    BY <1>0, <1>7, GoFacts, AnswerFacts DEF MergeRefused, Pcs, Between, Inside
  <1>8. CASE CreateUploadJob(r)
    BY <1>0, <1>8, GoFacts, AnswerFacts DEF CreateUploadJob, Pcs, Between, Inside
  <1>9. CASE RefuseContent(r)
    BY <1>0, <1>9, GoFacts, AnswerFacts DEF RefuseContent, Pcs, Between, Inside
  <1>10. CASE EnqueueUpload(r)
    BY <1>0, <1>10, GoFacts, AnswerFacts DEF EnqueueUpload, Pcs, Between, Inside
  <1>11. CASE Completed(r)
    BY <1>0, <1>11, GoFacts, AnswerFacts DEF Completed, Pcs, Between, Inside
  <1>12. CASE DiscardOwned(r)
    BY <1>0, <1>12, GoFacts, AnswerFacts DEF DiscardOwned, Pcs, Between, Inside
  <1>13. CASE DiscardStorage(r)
    BY <1>0, <1>13, GoFacts, AnswerFacts DEF DiscardStorage, Pcs, Between, Inside
  <1>14. CASE Discarded(r)
    BY <1>0, <1>14, GoFacts, AnswerFacts DEF Discarded, Pcs, Between, Inside
  <1>15. CASE DeleteAccountRows(r)
    BY <1>0, <1>15, GoFacts, AnswerFacts DEF DeleteAccountRows, Pcs, Between, Inside
  <1>16. CASE MergeUnanswered(r)
    BY <1>0, <1>16, GoFacts, AnswerFacts DEF MergeUnanswered, Pcs, Between, Inside
  <1>17. CASE RequestFails(r)
    BY <1>0, <1>17, GoFacts, AnswerFacts DEF RequestFails, Pcs, Between, Inside
  <1>18. ASSUME NEW s \in Sessions, PurgeUpload(r, s) PROVE StepOf(r)
    <2>1. [req[r] EXCEPT !.todo = @ \ {s}] \in ReqRecords
      BY <1>0 DEF TypeOK, ReqRecords
    <2>2. /\ req' = [req EXCEPT ![r] = [req[r] EXCEPT !.todo = @ \ {s}]]
          /\ req[r].pc = "purging" /\ UNCHANGED <<lock, pass>>
      BY <1>18 DEF PurgeUpload
    <2>3. /\ req' \in [Requests -> ReqRecords] /\ req'[r].pc = "purging"
          /\ \A q \in Requests \ {r} : req'[q] = req[q]
      BY <2>1, <2>2 DEF TypeOK, ReqRecords
    <2>. QED
      BY <1>0, <2>2, <2>3 DEF Inside
  <1>19. ASSUME NEW s \in Sessions, Start(r, s) \/ Abort(r, s) PROVE StepOf(r)
    <2>1. PICK pc \in {"initiate", "discard"} : req' = [req EXCEPT ![r] = Taken(pc, s)]
      BY <1>19 DEF Start, Abort, Taken
    <2>2. pc \in Pcs /\ pc \notin Inside
      BY DEF Pcs, Between, Inside
    <2>3. /\ req' \in [Requests -> ReqRecords] /\ req'[r].pc = pc /\ req'[r].s = s
          /\ \A q \in Requests \ {r} : req'[q] = req[q]
      BY <1>0, <2>1, <2>2, BeginPlain
    <2>4. lock = NoRequest /\ lock' = NoRequest /\ pass' = pass
      BY <1>19 DEF Start, Abort
    <2>. QED
      BY <2>2, <2>3, <2>4
  <1>20. ASSUME NEW s \in Sessions, NEW m \in 1 .. MaxEtag, ListParts(r, s, m) PROVE StepOf(r)
    <2>1. "listed" \in Pcs /\ "listed" \in Inside
      BY DEF Pcs, Inside
    <2>2. m \in 0 .. MaxEtag /\ req' = [req EXCEPT ![r] = Begun("listed", s, m)]
      BY <1>20, UploadAssumption DEF ListParts, Begun
    <2>3. /\ req' \in [Requests -> ReqRecords] /\ req'[r].pc = "listed" /\ req'[r].s = s
          /\ \A q \in Requests \ {r} : req'[q] = req[q]
      BY <2>1, <2>2, BeginFacts
    <2>. QED
      BY <1>20, <2>1, <2>3 DEF ListParts
  <1>21. ASSUME NEW s \in Sessions, NEW m \in 1 .. MaxEtag, CompleteAgain(r, s, m) PROVE StepOf(r)
    BY <1>0, <1>21, ProceedFacts DEF CompleteAgain, Inside
  <1>22. CASE DeleteAccount(r)
    <2>1. [IdleReq EXCEPT !.pc = "purging", !.todo = Sessions] \in ReqRecords
      <3>1. 0 \in 0 .. MaxEtag
        BY UploadAssumption
      <3>. QED
        BY <3>1 DEF ReqRecords, IdleReq, Inside
    <2>2. req' = [req EXCEPT ![r] = [IdleReq EXCEPT !.pc = "purging", !.todo = Sessions]]
      BY <1>22 DEF DeleteAccount
    <2>3. /\ req' \in [Requests -> ReqRecords] /\ req'[r].pc = "purging"
          /\ \A q \in Requests \ {r} : req'[q] = req[q]
      BY <1>0, <2>1, <2>2 DEF TypeOK, IdleReq
    <2>. QED
      BY <1>22, <2>3 DEF DeleteAccount, Inside
  <1>. QED
    BY <1>1, <1>2, <1>3, <1>4, <1>5, <1>6, <1>7, <1>8, <1>9, <1>10, <1>11, <1>12, <1>13,
       <1>14, <1>15, <1>16, <1>17, <1>18, <1>19, <1>20, <1>21, <1>22 DEF RequestStep,
       NewRequest

(* The same steps leave rows, storage and budgets typed.                   *)
LEMMA OwnStepData ==
    ASSUME Typed, NEW r \in Requests,
           \/ RequestStep(r) \/ NewRequest(r) \/ MergeUnanswered(r) \/ RequestFails(r)
    PROVE  DataTyped'
  <1>. USE UploadAssumption
       DEF Typed, NamesSession, TypeOK, DataTyped, At, bucket, jobs, clock
  <1>1. CASE Initiate(r)
    <2>1. 0 \in 0 .. NoUpload
      BY DEF NoUpload
    <2>. QED
      BY <1>1, <2>1 DEF Initiate
  <1>2. CASE RecordStorageId(r)
    <2>1. session' = [session EXCEPT ![req[r].s] = [session[req[r].s] EXCEPT !.storage = TRUE]]
      BY <1>2 DEF RecordStorageId
    <2>2. session' \in [Sessions -> Rows]
      BY <2>1, RowTyped
    <2>. QED
      BY <1>2, <2>2 DEF RecordStorageId
  <1>3. CASE Freeze(r)
    <2>1. session' = [session EXCEPT ![req[r].s] =
             [session[req[r].s] EXCEPT !.state = "completing", !.manifest = req[r].manifest]]
      BY <1>3 DEF Freeze
    <2>2. req[r].manifest \in 0 .. MaxEtag /\ "completing" \in State
      BY DEF ReqRecords, State, Reserved
    <2>3. session' \in [Sessions -> Rows]
      BY <2>1, <2>2, RowTyped
    <2>. QED
      BY <1>3, <2>3 DEF Freeze
  <1>4. CASE CreateUploadJob(r)
    <2>1. "ready" \in State /\ req[r].s \in Sessions /\ SetState(req[r].s, "ready")
      BY <1>4 DEF CreateUploadJob, State, Reserved
    <2>2. session' \in [Sessions -> Rows]
      BY <2>1, SetStateFacts
    <2>. QED
      BY <1>4, <2>2 DEF CreateUploadJob
  <1>5. CASE RefuseContent(r)
    <2>1. "aborting" \in State /\ req[r].s \in Sessions /\ SetState(req[r].s, "aborting")
      BY <1>5 DEF RefuseContent, State, Reserved
    <2>2. session' \in [Sessions -> Rows]
      BY <2>1, SetStateFacts
    <2>. QED
      BY <1>5, <2>2 DEF RefuseContent
  <1>6. CASE Completed(r)
    <2>1. "completed" \in State /\ req[r].s \in Sessions /\ SetState(req[r].s, "completed")
      BY <1>6 DEF Completed, State, Reserved
    <2>2. session' \in [Sessions -> Rows]
      BY <2>1, SetStateFacts
    <2>. QED
      BY <1>6, <2>2 DEF Completed
  <1>7. CASE Discarded(r)
    <2>1. "aborted" \in State /\ req[r].s \in Sessions /\ SetState(req[r].s, "aborted")
      BY <1>7 DEF Discarded, State, Reserved
    <2>2. session' \in [Sessions -> Rows]
      BY <2>1, SetStateFacts
    <2>. QED
      BY <1>7, <2>2 DEF Discarded
  <1>8. CASE Reown(r) \/ Head(r) \/ MergeRefused(r) \/ EnqueueUpload(r) \/ DiscardOwned(r)
    BY <1>8 DEF Reown, Head, MergeRefused, EnqueueUpload, DiscardOwned
  <1>9. CASE Merge(r) \/ DiscardStorage(r)
    BY <1>9 DEF Merge, Merged, DiscardStorage, AbortStorage, NoUpload
  <1>10. CASE DeleteAccountRows(r)
    BY <1>10, RowTyped DEF DeleteAccountRows
  <1>11. CASE MergeUnanswered(r) \/ RequestFails(r) \/ DeleteAccount(r)
    BY <1>11, SpendTyped DEF MergeUnanswered, RequestFails, DeleteAccount, Bounded
  <1>12. ASSUME NEW s \in Sessions, PurgeUpload(r, s) PROVE DataTyped'
    BY <1>12 DEF PurgeUpload, AbortStorage, NoUpload
  <1>13. ASSUME NEW s \in Sessions, Start(r, s) PROVE DataTyped'
    BY <1>13, RowTyped DEF Start
  <1>14. ASSUME NEW s \in Sessions, Abort(r, s) PROVE DataTyped'
    <2>1. "aborting" \in State /\ SetState(s, "aborting")
      BY <1>14 DEF Abort, State, Reserved
    <2>2. session' \in [Sessions -> Rows]
      BY <2>1, SetStateFacts
    <2>. QED
      BY <1>14, <2>2 DEF Abort
  <1>15. ASSUME NEW s \in Sessions, NEW m \in 1 .. MaxEtag,
                ListParts(r, s, m) \/ CompleteAgain(r, s, m)
         PROVE  DataTyped'
    BY <1>15 DEF ListParts, CompleteAgain
  <1>. QED
    BY <1>1, <1>2, <1>3, <1>4, <1>5, <1>6, <1>7, <1>8, <1>9, <1>10, <1>11, <1>12, <1>13,
       <1>14, <1>15 DEF RequestStep, NewRequest

(* What the reaper, the browser, the store, the deletion of a job and the  *)
(* clock do.                                                               *)
Others ==
    \/ PassStep \/ CleanNext \/ SweepFails \/ CleanFails
    \/ \E s \in Sessions : \/ PutParts(s) \/ StoreFinishes(s) \/ StoreDrops(s)
                           \/ DeleteJob(s) \/ DeleteJobSource(s) \/ DeleteJobSourceFails(s)
                           \/ Expire(s) \/ Age(s) \/ LifecycleRule(s)

(* They keep the types, too.                                               *)
LEMMA OtherStep == ASSUME Typed, Others PROVE Typed'
  <1>. USE UploadAssumption
       DEF Typed, NamesSession, TypeOK, At, bucket, jobs, clock
  <1>1. CASE SweepBegins
    BY <1>1, SpendTyped DEF SweepBegins, Passes, PassPhase, RestingPass, Unlock, Bounded
  <1>2. CASE CleanBegins
    BY <1>2, SpendTyped DEF CleanBegins, Passes, PassPhase, RestingPass, Unlock, Bounded
  <1>3. CASE PassEnds
    BY <1>3, SpendTyped DEF PassEnds, Passes, PassPhase, RestingPass, Unlock, Bounded
  <1>4. CASE SweepFails
    BY <1>4, SpendTyped DEF SweepFails, Passes, PassPhase, RestingPass, Unlock, Bounded
  <1>5. CASE CleanFails
    BY <1>5, SpendTyped DEF CleanFails, Passes, PassPhase, RestingPass, Unlock, Bounded
  <1>6. CASE CleanStorage
    BY <1>6 DEF CleanStorage, AbortStorage, Passes, PassPhase, NoUpload
  <1>7. CASE CleanCommits
    <2>1. "aborted" \in State /\ SetState(pass.s, "aborted")
      BY <1>7 DEF CleanCommits, State, Reserved
    <2>2. session' \in [Sessions -> Rows]
      BY <1>7, <2>1, SetStateFacts DEF CleanCommits
    <2>. QED
      BY <1>7, <2>2 DEF CleanCommits, Passes, PassPhase, Unlock
  <1>8. ASSUME NEW s \in Sessions, SweepDeletes(s) PROVE Typed'
    BY <1>8 DEF SweepDeletes, Passes, PassPhase, Lock
  <1>9. ASSUME NEW s \in Sessions, CleanLocks(s) PROVE Typed'
    <2>1. CASE Owned(s) /\ session[s].state \in Reserved
      <3>1. /\ lock = NoRequest /\ lock' = Reaper
            /\ pass' = [pass EXCEPT !.phase = "cleaning", !.s = s, !.todo = @ \ {s}]
        BY <1>9, <2>1 DEF CleanLocks, Lock
      <3>2. pass' \in Passes /\ pass'.phase = "cleaning" /\ pass'.s = s
        BY <3>1 DEF Passes, PassPhase
      <3>. QED
        BY <1>9, <3>1, <3>2 DEF CleanLocks
    <2>2. CASE ~(Owned(s) /\ session[s].state \in Reserved)
      BY <1>9, <2>2 DEF CleanLocks, Passes, PassPhase
    <2>. QED
      BY <2>1, <2>2
  <1>10. ASSUME NEW s \in Sessions, PutParts(s) PROVE Typed'
    BY <1>10, SpendTyped DEF PutParts, Merged, Bounded, NoUpload
  <1>11. ASSUME NEW s \in Sessions, StoreFinishes(s) PROVE Typed'
    BY <1>11, SpendTyped DEF StoreFinishes, Merged, Bounded, NoUpload
  <1>12. ASSUME NEW s \in Sessions, StoreDrops(s) PROVE Typed'
    BY <1>12, SpendTyped DEF StoreDrops, Merged, Bounded, NoUpload
  <1>13. ASSUME NEW s \in Sessions, DeleteJob(s) PROVE Typed'
    BY <1>13, SpendTyped DEF DeleteJob, Merged, Bounded, NoUpload
  <1>14. ASSUME NEW s \in Sessions, DeleteJobSource(s) PROVE Typed'
    BY <1>14, SpendTyped DEF DeleteJobSource, Merged, Bounded, NoUpload
  <1>15. ASSUME NEW s \in Sessions, DeleteJobSourceFails(s) PROVE Typed'
    BY <1>15, SpendTyped DEF DeleteJobSourceFails, Merged, Bounded, NoUpload
  <1>16. ASSUME NEW s \in Sessions, Expire(s) PROVE Typed'
    BY <1>16, SpendTyped DEF Expire, Merged, Bounded, NoUpload
  <1>17. ASSUME NEW s \in Sessions, Age(s) PROVE Typed'
    BY <1>17, SpendTyped DEF Age, Merged, Bounded, NoUpload
  <1>18. ASSUME NEW s \in Sessions, LifecycleRule(s) PROVE Typed'
    BY <1>18, SpendTyped DEF LifecycleRule, Merged, Bounded, NoUpload
  <1>. QED
    BY <1>1, <1>2, <1>3, <1>4, <1>5, <1>6, <1>7, <1>8, <1>9, <1>10, <1>11, <1>12, <1>13,
       <1>14, <1>15, <1>16, <1>17, <1>18 DEF Others, PassStep, CleanNext

(* Every step keeps the types and the lock's discipline.                   *)
LEMMA TypedStep == Typed /\ [Next]_vars => Typed'
  <1>. SUFFICES ASSUME Typed, [Next]_vars PROVE Typed'
    OBVIOUS
  <1>1. ASSUME NEW r \in Requests,
               \/ RequestStep(r) \/ NewRequest(r) \/ MergeUnanswered(r) \/ RequestFails(r)
        PROVE  Typed'
    <2>1. DataTyped'
      BY <1>1, OwnStepData
    <2>2. StepOf(r)
      BY <1>1, OwnStep
    <2>. QED
      BY <2>1, <2>2, StepKeepsLock DEF Typed, TypeOK, DataTyped
  <1>2. CASE Others
    BY <1>2, OtherStep
  <1>3. CASE UNCHANGED vars
    BY <1>3 DEF vars, Typed, TypeOK, NamesSession
  <1>. QED
    BY <1>1, <1>2, <1>3 DEF Next, Others

(* The account's rows, the bucket and the requests always have their types,*)
(* and the lock of the owner's row is held exactly by the transaction that *)
(* is in progress: for any number of sessions and requests, whatever       *)
(* fails, is retried or deleted (owned_upload, lock_owner).                *)
THEOREM UploadsTyped == Spec => []TypeOK
  <1>1. Typed => TypeOK
    BY DEF Typed
  <1>. QED
    BY <1>1, TypedInit, TypedStep, PTL DEF Spec

-----------------------------------------------------------------------------
(* What a source depends on.                                               *)

Ended == {"aborting", "aborted"}

(* What a request may rely on at each point of its work: inside a          *)
(* transaction its session's state stands still, and one that has set out  *)
(* to discard finds a session that stays discarded.                        *)
RequestFact(r) ==
    LET pc == req[r].pc
        s == req[r].s
    IN  /\ pc \in Inside => account = "active"
        /\ pc = "listed" => session[s].state = "open"
        /\ pc \in {"head", "merge", "check"} => session[s].state = "completing"
        /\ pc = "check" => object[s] # "none"
        /\ pc \in {"enqueueing", "enqueued"} => session[s].state = "ready"
        /\ pc = "enqueued" => s \in delivered
        /\ pc = "discard" => account = "gone" \/ session[s].state \in Ended
        /\ pc \in {"discarding", "discarded"} => session[s].state \in Ended
        /\ pc = "purging" => touched = Sessions

(* What the reaper may rely on: nothing it lists for deletion becomes the  *)
(* source of a job later, and the session it cleans is unfinished.         *)
PassFact ==
    /\ pass.phase \in {"cleaning", "cleaned"} =>
          account = "active" /\ session[pass.s].state \in Reserved
    /\ pass.phase = "sweep" => \A s \in pass.todo :
          /\ job[s] # "queued" /\ session[s].state \notin Reserved
          /\ session[s].state = "none" => account = "gone"

(* How a session, its job and its objects go together.                     *)
SessionFact(s) ==
    /\ account = "gone" => session[s].state = "none"
    /\ session[s].state = "none" /\ account = "active" =>
          job[s] = "none" /\ object[s] = "none" /\ s \notin pending
    /\ session[s].state \in Reserved \union Ended => job[s] = "none"
    /\ s \in purge => job[s] = "deleted"
    /\ session[s].state = "completed" => s \in delivered
    /\ job[s] = "queued" /\ s \notin touched => object[s] # "none" /\ video[s]

Facts ==
    /\ \A r \in Requests : RequestFact(r)
    /\ PassFact
    /\ \A s \in Sessions : SessionFact(s)

(* Whoever does not take part in a step of a request that holds the lock,  *)
(* or finds it free, is not inside a transaction: all it relies on is that *)
(* a discarded session stays discarded.                                    *)
LEMMA OthersKeep ==
    ASSUME Typed, Facts, NEW r \in Requests, StepOf(r), lock \in {r, NoRequest},
           account = "gone" => account' = "gone",
           \A s \in Sessions : session[s].state \in Ended =>
               account' = "gone" \/ session'[s].state \in Ended
    PROVE  \A q \in Requests \ {r} : RequestFact(q)'
  <1>. SUFFICES ASSUME NEW q \in Requests \ {r}
                PROVE  RequestFact(q)'
    OBVIOUS
  <1>1. req[q].pc \notin Inside /\ req'[q] = req[q]
    BY UploadAssumption DEF Typed, TypeOK, StepOf
  <1>2. req[q].pc = "discard" => req[q].s \in Sessions
    BY DEF Typed, NamesSession
  <1>. QED
    BY <1>1, <1>2 DEF Facts, RequestFact, Inside

(* A request that holds the lock, or finds it free, shuts the cleanup out. *)
LEMMA CleanupIsOut ==
    ASSUME Typed, NEW r \in Requests, lock \in {r, NoRequest}
    PROVE  pass.phase \notin {"cleaning", "cleaned"}
  BY UploadAssumption DEF Typed, TypeOK

(* A step that changes no row and no object disturbs neither the sessions  *)
(* nor the pass.                                                           *)
LEMMA QuietStep ==
    ASSUME Facts, pass' = pass,
           UNCHANGED <<account, session, object, job, purge, touched, video>>,
           delivered \subseteq delivered', pending' \subseteq pending
    PROVE  PassFact' /\ \A s \in Sessions : SessionFact(s)'
  BY DEF Facts, PassFact, SessionFact

(* A request inside a transaction holds the lock.                          *)
LEMMA InsideHolds ==
    ASSUME Typed, NEW r \in Requests, req[r].pc \in Inside
    PROVE  lock = r /\ (req[r].pc # "purging" => req[r].s \in Sessions)
  BY DEF Typed, TypeOK, NamesSession, Inside

(* Steps of a request that only move it, its lock and what was delivered.  *)
LEMMA QuietFacts ==
    ASSUME Typed, Facts, NEW r \in Requests, StepOf(r),
           \/ Initiate(r) \/ Reown(r) \/ Head(r) \/ MergeRefused(r) \/ EnqueueUpload(r)
           \/ DiscardOwned(r)
           \/ \E s \in Sessions, m \in 1 .. MaxEtag : ListParts(r, s, m) \/ CompleteAgain(r, s, m)
    PROVE  Facts'
  <1>1. /\ pass' = pass /\ pending' = pending /\ delivered \subseteq delivered'
        /\ UNCHANGED <<account, session, object, job, purge, touched, video>>
    BY DEF Initiate, Reown, Head, MergeRefused, EnqueueUpload, DiscardOwned, ListParts,
       CompleteAgain, bucket, jobs, clock
  <1>2. PassFact' /\ \A s \in Sessions : SessionFact(s)'
    BY <1>1, QuietStep
  <1>3. lock \in {r, NoRequest}
    BY InsideHolds DEF Initiate, Reown, Head, MergeRefused, EnqueueUpload, DiscardOwned,
       ListParts, CompleteAgain, Lock, At, Inside
  <1>4. \A q \in Requests \ {r} : RequestFact(q)'
    BY <1>1, <1>3, OthersKeep
  <1>5. RequestFact(r)'
    <2>. USE DEF Typed, At, Inside
    <2>1. CASE Initiate(r)
      <3>1. CASE Owned(req[r].s)
        BY <1>1, <2>1, <3>1, GoFacts DEF Initiate, Owned, RequestFact, Pcs
      <3>2. CASE ~Owned(req[r].s)
        BY <2>1, <3>2, AnswerFacts DEF Initiate, RequestFact
      <3>. QED
        BY <3>1, <3>2
    <2>2. CASE Reown(r)
      <3>1. CASE Owned(req[r].s)
        <4>1. req[r].s \in Sessions /\ req[r].manifest \in 0 .. MaxEtag
          BY <2>2 DEF Reown, NamesSession, TypeOK, ReqRecords
        <4>. QED
          BY <1>1, <2>2, <3>1, <4>1, ProceedFacts DEF Reown, Owned, RequestFact
      <3>2. CASE ~Owned(req[r].s)
        BY <2>2, <3>2, AnswerFacts DEF Reown, RequestFact
      <3>. QED
        BY <3>1, <3>2
    <2>3. CASE Head(r)
      BY <1>1, <2>3, GoFacts DEF Head, Facts, RequestFact, Pcs
    <2>4. CASE MergeRefused(r)
      BY <2>4, AnswerFacts DEF MergeRefused, RequestFact
    <2>5. CASE EnqueueUpload(r)
      BY <1>1, <2>5, GoFacts DEF EnqueueUpload, Facts, RequestFact, Pcs
    <2>6. CASE DiscardOwned(r)
      <3>1. CASE Owned(req[r].s)
        BY <1>1, <2>6, <3>1, GoFacts DEF DiscardOwned, Owned, Facts, RequestFact, Pcs
      <3>2. CASE ~Owned(req[r].s)
        BY <2>6, <3>2, AnswerFacts DEF DiscardOwned, RequestFact
      <3>. QED
        BY <3>1, <3>2
    <2>7. ASSUME NEW s \in Sessions, NEW m \in 1 .. MaxEtag, ListParts(r, s, m)
          PROVE  RequestFact(r)'
      <3>1. m \in 0 .. MaxEtag /\ req' = [req EXCEPT ![r] = Begun("listed", s, m)]
        <4>1. m \in 0 .. MaxEtag
          BY UploadAssumption
        <4>2. req' = [req EXCEPT ![r] = Begun("listed", s, m)]
          BY <2>7, Zenon DEF ListParts, Begun
        <4>. QED
          BY <4>1, <4>2
      <3>2. req'[r].pc = "listed" /\ req'[r].s = s
        BY <3>1, BeginFacts DEF Pcs
      <3>. QED
        BY <1>1, <2>7, <3>2 DEF ListParts, Known, Owned, RequestFact
    <2>8. ASSUME NEW s \in Sessions, NEW m \in 1 .. MaxEtag, CompleteAgain(r, s, m)
          PROVE  RequestFact(r)'
      BY <1>1, <2>8, ProceedFacts DEF CompleteAgain, Known, Owned, RequestFact
    <2>. QED
      BY <2>1, <2>2, <2>3, <2>4, <2>5, <2>6, <2>7, <2>8
  <1>. QED
    BY <1>2, <1>4, <1>5 DEF Facts

(* Steps of a request that set the state of a session.                     *)
LEMMA StateFacts ==
    ASSUME Typed, Facts, NEW r \in Requests, StepOf(r),
           \/ RecordStorageId(r) \/ Freeze(r) \/ CreateUploadJob(r) \/ RefuseContent(r)
           \/ Completed(r) \/ Discarded(r)
           \/ \E s \in Sessions : Start(r, s) \/ Abort(r, s)
    PROVE  Facts'
  <1>. USE DEF Typed, At
  <1>1. lock \in {r, NoRequest} /\ account = "active" /\ account' = "active" /\ pass' = pass
    BY InsideHolds DEF RecordStorageId, Freeze, CreateUploadJob, RefuseContent, Completed,
       Discarded, Start, Abort, Known, Owned, Inside, Facts, RequestFact
  <1>2. pass.phase \notin {"cleaning", "cleaned"}
    BY <1>1, CleanupIsOut
  <1>3. UNCHANGED <<object, pending, purge, touched, video, delivered>>
    BY DEF RecordStorageId, Freeze, CreateUploadJob, RefuseContent, Completed, Discarded,
       Start, Abort, bucket, jobs, clock
  <1>4. CASE RecordStorageId(r)
    <2>1. req[r].s \in Sessions
      BY <1>4 DEF RecordStorageId, NamesSession
    <2>2. \A t \in Sessions : session'[t].state = session[t].state
      BY <1>4, <2>1 DEF RecordStorageId, TypeOK, Rows
    <2>3. job' = job /\ delivered' = delivered
      BY <1>4 DEF RecordStorageId, jobs
    <2>4. \A q \in Requests \ {r} : RequestFact(q)'
      BY <1>1, <2>1, <2>2, OthersKeep DEF Ended
    <2>5. RequestFact(r)'
      BY <1>4, <1>1, <2>1, <2>2, AnswerFacts DEF RecordStorageId, RequestFact, Inside, Pcs,
         Between, Ended
    <2>6. PassFact'
      BY <1>4, <1>1, <1>2, <1>3, <2>1, <2>2, <2>3 DEF Facts, PassFact, SessionFact, Ended,
         Reserved, TypeOK, Passes
    <2>7. \A t \in Sessions : SessionFact(t)'
      BY <1>4, <1>1, <1>3, <2>1, <2>2, <2>3 DEF Facts, SessionFact, RequestFact, Ended,
         Reserved, TypeOK
    <2>. QED
      BY <2>4, <2>5, <2>6, <2>7 DEF Facts
  <1>5. CASE Freeze(r)
    <2>1. req[r].s \in Sessions /\ session[req[r].s].state \in {"open"}
      BY <1>5 DEF Freeze, NamesSession, Facts, RequestFact, Ended
    <2>2. /\ session'[req[r].s].state = "completing"
          /\ \A t \in Sessions \ {req[r].s} : session'[t] = session[t]
      BY <1>5, <2>1, SetStateFacts DEF Freeze, State, Reserved, TypeOK, Rows
    <2>3. job' = job
      BY <1>5, <2>1 DEF Freeze, jobs, TypeOK
    <2>4. \A q \in Requests \ {r} : RequestFact(q)'
      BY <1>1, <2>1, <2>2, OthersKeep DEF Ended
    <2>5. RequestFact(r)'
      BY <1>5, <1>1, <2>1, <2>2, GoFacts DEF Freeze, RequestFact, Inside, Pcs, Between,
         Ended
    <2>6. PassFact'
      BY <1>5, <1>1, <1>2, <1>3, <2>1, <2>2, <2>3 DEF Facts, PassFact, SessionFact, Ended,
         Reserved, TypeOK, Passes
    <2>7. \A t \in Sessions : SessionFact(t)'
      BY <1>5, <1>1, <1>3, <2>1, <2>2, <2>3 DEF Facts, SessionFact, RequestFact, Ended,
         Reserved, TypeOK
    <2>. QED
      BY <2>4, <2>5, <2>6, <2>7 DEF Facts
  <1>6. CASE CreateUploadJob(r)
    <2>1. req[r].s \in Sessions /\ session[req[r].s].state \in {"completing"}
      BY <1>6 DEF CreateUploadJob, NamesSession, Facts, RequestFact, Ended
    <2>2. /\ session'[req[r].s].state = "ready"
          /\ \A t \in Sessions \ {req[r].s} : session'[t] = session[t]
      BY <1>6, <2>1, SetStateFacts DEF CreateUploadJob, State, Reserved, TypeOK, Rows
    <2>3. /\ job'[req[r].s] = "queued" /\ video[req[r].s] /\ object[req[r].s] # "none"
          /\ \A t \in Sessions \ {req[r].s} : job'[t] = job[t]
      BY <1>6, <2>1 DEF CreateUploadJob, Facts, RequestFact, jobs, TypeOK
    <2>4. \A q \in Requests \ {r} : RequestFact(q)'
      BY <1>1, <2>1, <2>2, OthersKeep DEF Ended
    <2>5. RequestFact(r)'
      BY <1>6, <1>1, <2>1, <2>2, GoFacts DEF CreateUploadJob, RequestFact, Inside, Pcs,
         Between, Ended
    <2>6. PassFact'
      BY <1>6, <1>1, <1>2, <1>3, <2>1, <2>2, <2>3 DEF Facts, PassFact, SessionFact, Ended,
         Reserved, TypeOK, Passes
    <2>7. \A t \in Sessions : SessionFact(t)'
      BY <1>6, <1>1, <1>3, <2>1, <2>2, <2>3 DEF Facts, SessionFact, RequestFact, Ended,
         Reserved, TypeOK
    <2>. QED
      BY <2>4, <2>5, <2>6, <2>7 DEF Facts
  <1>7. CASE RefuseContent(r)
    <2>1. req[r].s \in Sessions /\ session[req[r].s].state \in {"completing"}
      BY <1>7 DEF RefuseContent, NamesSession, Facts, RequestFact, Ended
    <2>2. /\ session'[req[r].s].state = "aborting"
          /\ \A t \in Sessions \ {req[r].s} : session'[t] = session[t]
      BY <1>7, <2>1, SetStateFacts DEF RefuseContent, State, Reserved, TypeOK, Rows
    <2>3. job' = job
      BY <1>7, <2>1 DEF RefuseContent, jobs, TypeOK
    <2>4. \A q \in Requests \ {r} : RequestFact(q)'
      BY <1>1, <2>1, <2>2, OthersKeep DEF Ended
    <2>5. RequestFact(r)'
      BY <1>7, <1>1, <2>1, <2>2, GoFacts DEF RefuseContent, RequestFact, Inside, Pcs,
         Between, Ended
    <2>6. PassFact'
      BY <1>7, <1>1, <1>2, <1>3, <2>1, <2>2, <2>3 DEF Facts, PassFact, SessionFact, Ended,
         Reserved, TypeOK, Passes
    <2>7. \A t \in Sessions : SessionFact(t)'
      BY <1>7, <1>1, <1>3, <2>1, <2>2, <2>3 DEF Facts, SessionFact, RequestFact, Ended,
         Reserved, TypeOK
    <2>. QED
      BY <2>4, <2>5, <2>6, <2>7 DEF Facts
  <1>8. CASE Completed(r)
    <2>1. req[r].s \in Sessions /\ session[req[r].s].state \in {"ready"}
      BY <1>8 DEF Completed, NamesSession, Facts, RequestFact, Ended
    <2>2. /\ session'[req[r].s].state = "completed"
          /\ \A t \in Sessions \ {req[r].s} : session'[t] = session[t]
      BY <1>8, <2>1, SetStateFacts DEF Completed, State, Reserved, TypeOK, Rows
    <2>3. job' = job /\ req[r].s \in delivered
      BY <1>8, <2>1 DEF Completed, Facts, RequestFact, jobs, TypeOK
    <2>4. \A q \in Requests \ {r} : RequestFact(q)'
      BY <1>1, <2>1, <2>2, OthersKeep DEF Ended
    <2>5. RequestFact(r)'
      BY <1>8, <1>1, <2>1, <2>2, AnswerFacts DEF Completed, RequestFact, Inside, Pcs,
         Between, Ended
    <2>6. PassFact'
      BY <1>8, <1>1, <1>2, <1>3, <2>1, <2>2, <2>3 DEF Facts, PassFact, SessionFact, Ended,
         Reserved, TypeOK, Passes
    <2>7. \A t \in Sessions : SessionFact(t)'
      BY <1>8, <1>1, <1>3, <2>1, <2>2, <2>3 DEF Facts, SessionFact, RequestFact, Ended,
         Reserved, TypeOK
    <2>. QED
      BY <2>4, <2>5, <2>6, <2>7 DEF Facts
  <1>9. CASE Discarded(r)
    <2>1. req[r].s \in Sessions /\ session[req[r].s].state \in Ended
      BY <1>9 DEF Discarded, NamesSession, Facts, RequestFact, Ended
    <2>2. /\ session'[req[r].s].state = "aborted"
          /\ \A t \in Sessions \ {req[r].s} : session'[t] = session[t]
      BY <1>9, <2>1, SetStateFacts DEF Discarded, State, Reserved, TypeOK, Rows
    <2>3. job' = job
      BY <1>9, <2>1 DEF Discarded, jobs, TypeOK
    <2>4. \A q \in Requests \ {r} : RequestFact(q)'
      BY <1>1, <2>1, <2>2, OthersKeep DEF Ended
    <2>5. RequestFact(r)'
      BY <1>9, <1>1, <2>1, <2>2, AnswerFacts DEF Discarded, RequestFact, Inside, Pcs,
         Between, Ended
    <2>6. PassFact'
      BY <1>9, <1>1, <1>2, <1>3, <2>1, <2>2, <2>3 DEF Facts, PassFact, SessionFact, Ended,
         Reserved, TypeOK, Passes
    <2>7. \A t \in Sessions : SessionFact(t)'
      BY <1>9, <1>1, <1>3, <2>1, <2>2, <2>3 DEF Facts, SessionFact, RequestFact, Ended,
         Reserved, TypeOK
    <2>. QED
      BY <2>4, <2>5, <2>6, <2>7 DEF Facts
  <1>10. ASSUME NEW s \in Sessions, Start(r, s) PROVE Facts'
    <2>1. s \in Sessions /\ session[s].state \in {"none"}
      BY <1>10 DEF Start
    <2>2. /\ session'[s].state = "open"
          /\ \A t \in Sessions \ {s} : session'[t] = session[t]
      BY <1>10, SetStateFacts DEF Start, State, Reserved, TypeOK, NoRow
    <2>3. job' = job /\ req'[r].pc = "initiate" /\ req'[r].s = s
      <3>1. job' = job /\ req' = [req EXCEPT ![r] = Taken("initiate", s)]
        BY <1>10 DEF Start, jobs, Taken
      <3>. QED
        BY <3>1, BeginPlain DEF Pcs, Between
    <2>4. \A q \in Requests \ {r} : RequestFact(q)'
      BY <1>1, <2>1, <2>2, OthersKeep DEF Ended
    <2>5. RequestFact(r)'
      BY <1>1, <2>1, <2>2, <2>3 DEF RequestFact, Inside, Ended
    <2>6. PassFact'
      BY <1>10, <1>1, <1>2, <1>3, <2>1, <2>2, <2>3 DEF Facts, PassFact, SessionFact, Ended,
         Reserved, TypeOK, Passes
    <2>7. \A t \in Sessions : SessionFact(t)'
      BY <1>10, <1>1, <1>3, <2>1, <2>2, <2>3 DEF Facts, SessionFact, RequestFact, Ended,
         Reserved, TypeOK
    <2>. QED
      BY <2>4, <2>5, <2>6, <2>7 DEF Facts
  <1>11. ASSUME NEW s \in Sessions, Abort(r, s) PROVE Facts'
    <2>1. s \in Sessions /\ session[s].state \in {"open", "aborting"}
      BY <1>11 DEF Abort
    <2>2. /\ session'[s].state = "aborting"
          /\ \A t \in Sessions \ {s} : session'[t] = session[t]
      BY <1>11, SetStateFacts DEF Abort, State, Reserved, TypeOK, NoRow
    <2>3. job' = job /\ req'[r].pc = "discard" /\ req'[r].s = s
      <3>1. job' = job /\ req' = [req EXCEPT ![r] = Taken("discard", s)]
        BY <1>11 DEF Abort, jobs, Taken
      <3>. QED
        BY <3>1, BeginPlain DEF Pcs, Between
    <2>4. \A q \in Requests \ {r} : RequestFact(q)'
      BY <1>1, <2>1, <2>2, OthersKeep DEF Ended
    <2>5. RequestFact(r)'
      BY <1>1, <2>1, <2>2, <2>3 DEF RequestFact, Inside, Ended
    <2>6. PassFact'
      BY <1>11, <1>1, <1>2, <1>3, <2>1, <2>2, <2>3 DEF Facts, PassFact, SessionFact, Ended,
         Reserved, TypeOK, Passes
    <2>7. \A t \in Sessions : SessionFact(t)'
      BY <1>11, <1>1, <1>3, <2>1, <2>2, <2>3 DEF Facts, SessionFact, RequestFact, Ended,
         Reserved, TypeOK
    <2>. QED
      BY <2>4, <2>5, <2>6, <2>7 DEF Facts
  <1>. QED
    BY <1>4, <1>5, <1>6, <1>7, <1>8, <1>9, <1>10, <1>11

(* Steps of a request that move objects: the merge, the discard and the    *)
(* deletion of the account; and its failures.                              *)
LEMMA StorageFacts ==
    ASSUME Typed, Facts, NEW r \in Requests, StepOf(r),
           \/ Merge(r) \/ MergeUnanswered(r) \/ DiscardStorage(r) \/ DeleteAccount(r)
           \/ DeleteAccountRows(r) \/ RequestFails(r)
           \/ \E s \in Sessions : PurgeUpload(r, s)
    PROVE  Facts'
  <1>. USE DEF Typed, At
  <1>1. CASE Merge(r)
    <2>1. /\ lock = r /\ req[r].s \in Sessions /\ session[req[r].s].state = "completing"
          /\ account = "active"
      BY <1>1, InsideHolds DEF Merge, Facts, RequestFact, Inside
    <2>2. /\ UNCHANGED <<account, session, pending, job, purge, touched, video, delivered>>
          /\ object'[req[r].s] # "none" /\ \A t \in Sessions \ {req[r].s} : object'[t] = object[t]
      BY <1>1, <2>1 DEF Merge, Merged, jobs, clock, TypeOK
    <2>3. \A q \in Requests \ {r} : RequestFact(q)'
      BY <2>1, <2>2, OthersKeep
    <2>4. RequestFact(r)'
      BY <1>1, <2>1, <2>2, GoFacts DEF Merge, RequestFact, Inside, Pcs
    <2>5. PassFact' /\ \A t \in Sessions : SessionFact(t)'
      BY <2>1, <2>2 DEF StepOf, Facts, PassFact, SessionFact
    <2>. QED
      BY <2>3, <2>4, <2>5 DEF Facts
  <1>2. CASE MergeUnanswered(r)
    <2>1. /\ lock = r /\ req[r].s \in Sessions /\ session[req[r].s].state = "completing"
      BY <1>2, InsideHolds DEF MergeUnanswered, Facts, RequestFact, Inside
    <2>2. /\ UNCHANGED <<account, session, object, job, purge, touched, video, delivered>>
          /\ pending' = pending \union {req[r].s}
      BY <1>2 DEF MergeUnanswered, jobs, clock
    <2>3. \A q \in Requests \ {r} : RequestFact(q)'
      BY <2>1, <2>2, OthersKeep
    <2>4. RequestFact(r)'
      BY <1>2, AnswerFacts DEF MergeUnanswered, RequestFact, Inside
    <2>5. PassFact' /\ \A t \in Sessions : SessionFact(t)'
      BY <2>1, <2>2 DEF StepOf, Facts, PassFact, SessionFact
    <2>. QED
      BY <2>3, <2>4, <2>5 DEF Facts
  <1>3. CASE DiscardStorage(r)
    <2>1. /\ lock = r /\ req[r].s \in Sessions /\ session[req[r].s].state \in Ended
          /\ account = "active"
      BY <1>3, InsideHolds DEF DiscardStorage, Facts, RequestFact, Inside
    <2>2. /\ UNCHANGED <<account, session, pending, job, purge, touched, video, delivered>>
          /\ object'[req[r].s] = "none" /\ \A t \in Sessions \ {req[r].s} : object'[t] = object[t]
      BY <1>3, <2>1 DEF DiscardStorage, AbortStorage, jobs, clock, TypeOK
    <2>3. \A q \in Requests \ {r} : RequestFact(q)'
      BY <2>1, <2>2, OthersKeep
    <2>4. RequestFact(r)'
      BY <1>3, <2>1, <2>2, GoFacts DEF DiscardStorage, RequestFact, Inside, Pcs
    <2>5. PassFact' /\ \A t \in Sessions : SessionFact(t)'
      BY <2>1, <2>2 DEF StepOf, Facts, PassFact, SessionFact, Ended
    <2>. QED
      BY <2>3, <2>4, <2>5 DEF Facts
  <1>4. CASE DeleteAccount(r)
    <2>1. /\ lock = NoRequest /\ account = "active" /\ touched' = Sessions
          /\ UNCHANGED <<account, session, object, pending, job, purge, video, delivered>>
      BY <1>4 DEF DeleteAccount, Lock, bucket, clock
    <2>2. req'[r].pc = "purging"
      BY <1>4 DEF DeleteAccount, IdleReq, TypeOK
    <2>3. \A q \in Requests \ {r} : RequestFact(q)'
      BY <2>1, OthersKeep
    <2>4. RequestFact(r)'
      BY <2>1, <2>2 DEF RequestFact
    <2>5. PassFact' /\ \A t \in Sessions : SessionFact(t)'
      BY <2>1 DEF StepOf, Facts, PassFact, SessionFact
    <2>. QED
      BY <2>3, <2>4, <2>5 DEF Facts
  <1>5. CASE DeleteAccountRows(r)
    <2>1. /\ lock = r /\ account' = "gone" /\ touched = Sessions
          /\ UNCHANGED <<object, pending, purge, touched, video, delivered>>
          /\ \A t \in Sessions : session'[t].state = "none" /\ job'[t] # "queued"
          /\ \A t \in Sessions : job[t] = "deleted" => job'[t] = "deleted"
      BY <1>5, InsideHolds DEF DeleteAccountRows, NoRow, Facts, RequestFact, Inside, bucket,
         clock, TypeOK
    <2>2. pass.phase \notin {"cleaning", "cleaned"}
      BY <2>1, CleanupIsOut
    <2>3. \A q \in Requests \ {r} : RequestFact(q)'
      BY <2>1, OthersKeep
    <2>4. RequestFact(r)'
      BY <1>5, AnswerFacts DEF DeleteAccountRows, RequestFact, Inside
    <2>5. PassFact'
      BY <2>1, <2>2 DEF StepOf, PassFact, TypeOK, Passes, Reserved
    <2>6. \A t \in Sessions : SessionFact(t)'
      BY <2>1 DEF Facts, SessionFact, Reserved, Ended
    <2>. QED
      BY <2>3, <2>4, <2>5, <2>6 DEF Facts
  <1>6. CASE RequestFails(r)
    <2>1. /\ pass' = pass
          /\ UNCHANGED <<account, session, object, pending, job, purge, touched, video, delivered>>
      BY <1>6 DEF RequestFails, bucket, jobs, clock
    <2>2. PassFact' /\ \A t \in Sessions : SessionFact(t)'
      BY <2>1, QuietStep
    <2>3. RequestFact(r)'
      BY <1>6, AnswerFacts DEF RequestFails, RequestFact, Inside
    <2>4. \A q \in Requests \ {r} : RequestFact(q)'
      BY <2>1 DEF StepOf, Facts, RequestFact
    <2>. QED
      BY <2>2, <2>3, <2>4 DEF Facts
  <1>7. ASSUME NEW s \in Sessions, PurgeUpload(r, s) PROVE Facts'
    <2>1. lock = r /\ account = "active" /\ touched = Sessions
      BY <1>7, InsideHolds DEF PurgeUpload, Facts, RequestFact, Inside
    <2>2. /\ UNCHANGED <<account, session, pending, job, purge, touched, video, delivered>>
          /\ object'[s] \in {object[s], "none"} /\ \A t \in Sessions \ {s} : object'[t] = object[t]
      BY <1>7 DEF PurgeUpload, AbortStorage, bucket, jobs, clock, TypeOK
    <2>3. req'[r].pc = "purging"
      BY <1>7 DEF PurgeUpload, TypeOK, ReqRecords
    <2>4. \A q \in Requests \ {r} : RequestFact(q)'
      BY <2>1, <2>2, OthersKeep
    <2>5. RequestFact(r)'
      BY <2>1, <2>2, <2>3 DEF RequestFact
    <2>6. PassFact' /\ \A t \in Sessions : SessionFact(t)'
      BY <2>1, <2>2 DEF StepOf, Facts, PassFact, SessionFact
    <2>. QED
      BY <2>4, <2>5, <2>6 DEF Facts
  <1>. QED
    BY <1>1, <1>2, <1>3, <1>4, <1>5, <1>6, <1>7

(* What the reaper's pass does.                                            *)
LEMMA PassFacts ==
    ASSUME Typed, Facts, PassStep \/ CleanNext \/ SweepFails \/ CleanFails
    PROVE  Facts'
  <1>. USE DEF Typed, Facts
  <1>1. CASE SweepBegins \/ CleanBegins \/ PassEnds \/ SweepFails \/ CleanFails
    <2>1. UNCHANGED <<account, session, object, pending, job, purge, touched, video, delivered, req>>
      BY <1>1 DEF SweepBegins, CleanBegins, PassEnds, SweepFails, CleanFails, bucket, jobs,
         clock
    <2>2. CASE SweepBegins
      <3>1. /\ pass'.phase = "sweep"
            /\ pass'.todo = {s \in Sessions \ SourceKeys : object[s] = "old"}
        BY <2>2 DEF SweepBegins, RestingPass
      <3>. QED
        BY <2>1, <3>1 DEF PassFact, SourceKeys, SessionFact, RequestFact, TypeOK
    <2>3. CASE CleanBegins \/ PassEnds \/ SweepFails \/ CleanFails
      <3>1. pass'.phase \in {"rest", "clean"}
        <4>1. CASE CleanBegins
          BY <4>1 DEF CleanBegins, TypeOK, Passes
        <4>2. CASE PassEnds \/ SweepFails
          BY <4>2 DEF PassEnds, SweepFails, RestingPass
        <4>3. CASE CleanFails
          BY <4>3 DEF CleanFails, TypeOK, Passes
        <4>. QED
          BY <2>3, <4>1, <4>2, <4>3
      <3>. QED
        BY <2>1, <3>1 DEF PassFact, SessionFact, RequestFact
    <2>. QED
      BY <1>1, <2>2, <2>3
  <1>2. CASE CleanNext
    <2>1. PICK s \in Sessions : CleanLocks(s)
      BY <1>2 DEF CleanNext
    <2>2. UNCHANGED <<account, session, object, pending, job, purge, touched, video, delivered, req>>
      BY <2>1 DEF CleanLocks, bucket, jobs, clock
    <2>3. \/ pass'.phase = "cleaning" /\ pass'.s = s /\ Owned(s) /\ session[s].state \in Reserved
          \/ pass'.phase = "clean"
      BY <2>1 DEF CleanLocks, TypeOK, Passes
    <2>4. PassFact'
      BY <2>2, <2>3 DEF PassFact, Owned
    <2>. QED
      BY <2>2, <2>4 DEF RequestFact, SessionFact
  <1>3. ASSUME NEW s \in Sessions, SweepDeletes(s) PROVE Facts'
    <2>1. /\ UNCHANGED <<account, session, pending, job, purge, touched, video, delivered, req>>
          /\ object'[s] = "none" /\ \A t \in Sessions \ {s} : object'[t] = object[t]
          /\ pass'.phase = "sweep" /\ pass'.todo \subseteq pass.todo
          /\ job[s] # "queued" /\ session[s].state \notin Reserved
      BY <1>3 DEF SweepDeletes, jobs, clock, TypeOK, Passes, PassFact
    <2>2. PassFact'
      BY <1>3, <2>1 DEF SweepDeletes, PassFact
    <2>3. \A t \in Sessions : SessionFact(t)'
      BY <2>1 DEF SessionFact
    <2>4. \A r \in Requests : RequestFact(r)'
      BY <2>1 DEF RequestFact, NamesSession, Reserved
    <2>. QED
      BY <2>2, <2>3, <2>4
  <1>4. CASE CleanStorage
    <2>1. /\ UNCHANGED <<account, session, pending, job, purge, touched, video, delivered, req>>
          /\ lock = Reaper /\ pass.s \in Sessions /\ session[pass.s].state \in Reserved
          /\ account = "active"
          /\ object'[pass.s] = "none"
          /\ \A t \in Sessions \ {pass.s} : object'[t] = object[t]
          /\ pass'.phase = "cleaned" /\ pass'.s = pass.s
      BY <1>4 DEF CleanStorage, AbortStorage, jobs, clock, TypeOK, Passes, PassFact,
         NamesSession
    <2>2. PassFact'
      BY <2>1 DEF PassFact
    <2>3. \A t \in Sessions : SessionFact(t)'
      BY <2>1 DEF SessionFact
    <2>4. \A r \in Requests : RequestFact(r)'
      BY <2>1, UploadAssumption DEF RequestFact, TypeOK, Inside
    <2>. QED
      BY <2>2, <2>3, <2>4
  <1>5. CASE CleanCommits
    <2>1. /\ UNCHANGED <<account, object, pending, job, purge, touched, video, delivered, req>>
          /\ lock = Reaper /\ pass.s \in Sessions /\ session[pass.s].state \in Reserved
          /\ account = "active" /\ pass'.phase = "clean"
      BY <1>5 DEF CleanCommits, bucket, jobs, clock, TypeOK, Passes, PassFact, NamesSession
    <2>2. /\ session'[pass.s].state = "aborted"
          /\ \A t \in Sessions \ {pass.s} : session'[t] = session[t]
      BY <1>5, <2>1, SetStateFacts DEF CleanCommits, State
    <2>3. PassFact'
      BY <2>1 DEF PassFact
    <2>4. \A t \in Sessions : SessionFact(t)'
      BY <2>1, <2>2 DEF SessionFact, Reserved, Ended
    <2>5. \A r \in Requests : RequestFact(r)'
      <3>. SUFFICES ASSUME NEW r \in Requests PROVE RequestFact(r)'
        OBVIOUS
      <3>1. req[r].pc \notin Inside
        BY <2>1, UploadAssumption DEF TypeOK
      <3>. QED
        BY <2>1, <2>2, <3>1 DEF RequestFact, NamesSession, Inside, Ended
    <2>. QED
      BY <2>3, <2>4, <2>5
  <1>. QED
    BY <1>1, <1>2, <1>3, <1>4, <1>5 DEF PassStep

(* The browser, the store, the deletion of a job and the clock.            *)
LEMMA OutsideFacts ==
    ASSUME Typed, Facts, NEW s \in Sessions,
           \/ PutParts(s) \/ StoreFinishes(s) \/ StoreDrops(s) \/ DeleteJob(s)
           \/ DeleteJobSource(s) \/ DeleteJobSourceFails(s)
           \/ Expire(s) \/ Age(s) \/ LifecycleRule(s)
    PROVE  Facts'
  <1>. USE DEF Typed, Facts
  <1>1. CASE PutParts(s) \/ StoreDrops(s) \/ Expire(s) \/ LifecycleRule(s) \/ DeleteJobSourceFails(s)
    BY <1>1 DEF PutParts, StoreDrops, Expire, LifecycleRule, DeleteJobSourceFails, bucket,
       jobs, clock, RequestFact, PassFact, SessionFact
  <1>2. CASE StoreFinishes(s) \/ Age(s)
    BY <1>2 DEF StoreFinishes, Merged, Age, jobs, clock, RequestFact, PassFact, SessionFact,
       TypeOK, NamesSession
  <1>3. CASE DeleteJob(s)
    BY <1>3 DEF DeleteJob, bucket, clock, RequestFact, PassFact, SessionFact, TypeOK,
       Passes, At
  <1>4. CASE DeleteJobSource(s)
    <2>1. /\ UNCHANGED <<account, session, pending, job, touched, video, delivered, req, pass>>
          /\ purge' \subseteq purge /\ job[s] = "deleted"
          /\ object'[s] = "none" /\ \A t \in Sessions \ {s} : object'[t] = object[t]
      BY <1>4 DEF DeleteJobSource, clock, TypeOK, SessionFact
    <2>2. PassFact'
      BY <2>1 DEF PassFact
    <2>3. \A t \in Sessions : SessionFact(t)'
      BY <2>1 DEF SessionFact
    <2>4. \A r \in Requests : RequestFact(r)'
      BY <2>1 DEF RequestFact, NamesSession, SessionFact, Reserved
    <2>. QED
      BY <2>2, <2>3, <2>4
  <1>. QED
    BY <1>1, <1>2, <1>3, <1>4

(* The facts hold at the start and no step breaks them.                    *)
LEMMA FactsInductive ==
    /\ Init => Facts
    /\ Typed /\ Facts /\ [Next]_vars => Facts'
  <1>1. Init => Facts
    BY DEF Init, Facts, RequestFact, PassFact, SessionFact, IdleReq, RestingPass, NoRow,
       Inside, Reserved, Ended
  <1>2. ASSUME Typed, Facts, [Next]_vars PROVE Facts'
    <2>1. ASSUME NEW r \in Requests,
                 \/ RequestStep(r) \/ NewRequest(r) \/ MergeUnanswered(r) \/ RequestFails(r)
          PROVE  Facts'
      <3>1. StepOf(r)
        BY <1>2, <2>1, OwnStep
      <3>. QED
        BY <1>2, <2>1, <3>1, QuietFacts, StateFacts, StorageFacts DEF RequestStep,
           NewRequest
    <2>2. CASE PassStep \/ CleanNext \/ SweepFails \/ CleanFails
      BY <1>2, <2>2, PassFacts
    <2>3. ASSUME NEW s \in Sessions,
                 \/ PutParts(s) \/ StoreFinishes(s) \/ StoreDrops(s) \/ DeleteJob(s)
                 \/ DeleteJobSource(s) \/ DeleteJobSourceFails(s)
                 \/ Expire(s) \/ Age(s) \/ LifecycleRule(s)
          PROVE  Facts'
      BY <1>2, <2>3, OutsideFacts
    <2>4. CASE UNCHANGED vars
      BY <1>2, <2>4 DEF vars, Facts, RequestFact, PassFact, SessionFact
    <2>. QED
      BY <1>2, <2>1, <2>2, <2>3, <2>4 DEF Next
  <1>. QED
    BY <1>1, <1>2

(* A job made from an upload keeps its source, a video, until somebody     *)
(* deletes the job or its account: no abort, expiry, cleanup, sweep, late  *)
(* merge or second completion takes it away.                               *)
THEOREM SourcesAreKept == Spec => []JobHasSource
  <1>1. Facts => JobHasSource
    BY DEF Facts, SessionFact, JobHasSource
  <1>. QED
    BY <1>1, TypedInit, TypedStep, FactsInductive, PTL DEF Spec

(* A completed session's job was handed to the queue, whatever failed      *)
(* between the two.                                                        *)
THEOREM CompletedAreQueued == Spec => []CompletedIsQueued
  <1>1. Facts => CompletedIsQueued
    BY DEF Facts, SessionFact, CompletedIsQueued
  <1>. QED
    BY <1>1, TypedInit, TypedStep, FactsInductive, PTL DEF Spec

-----------------------------------------------------------------------------
(* What becomes of an aborted session.                                     *)

StaysEnded(s) ==
    /\ session[s].state \in {"aborting", "aborted"} =>
          session'[s].state \in {"aborting", "aborted", "none"}
    /\ job[s] # "queued" /\ job'[s] = "queued" =>
          job[s] = "none" /\ session[s].state = "completing"

(* One step, of whomever: only the transactions listed here write a        *)
(* session's state or a job's row.                                         *)
LEMMA EndedStep ==
    ASSUME Typed, Facts, Next, NEW s \in Sessions
    PROVE  StaysEnded(s)
  <1>. USE DEF Typed, At, StaysEnded
  <1>1. ASSUME NEW r \in Requests, NEW x \in State, SetState(req[r].s, x), req[r].s \in Sessions,
               session[req[r].s].state \in Ended => x = "aborted", job' = job
        PROVE  StaysEnded(s)
    BY <1>1, SetStateFacts DEF Ended
  <1>2. ASSUME NEW r \in Requests, RequestStep(r) PROVE StaysEnded(s)
    <2>1. CASE RecordStorageId(r)
      BY <2>1 DEF RecordStorageId, jobs, TypeOK, Rows
    <2>2. CASE Freeze(r)
      BY <2>2 DEF Freeze, jobs, TypeOK, Rows, Facts, RequestFact
    <2>3. CASE CreateUploadJob(r)
      <3>1. /\ req[r].s \in Sessions /\ session[req[r].s].state = "completing"
            /\ job' = [job EXCEPT ![req[r].s] = "queued"] /\ SetState(req[r].s, "ready")
        BY <2>3 DEF CreateUploadJob, NamesSession, Facts, RequestFact
      <3>2. job[req[r].s] = "none"
        BY <3>1 DEF Facts, SessionFact, Reserved
      <3>. QED
        BY <3>1, <3>2, SetStateFacts DEF State, TypeOK
    <2>4. CASE RefuseContent(r) \/ Completed(r) \/ Discarded(r)
      <3>1. PICK x \in {"aborting", "completed", "aborted"} :
               SetState(req[r].s, x) /\ req[r].s \in Sessions /\ job' = job
               /\ (session[req[r].s].state \in Ended => x = "aborted")
        BY <2>4 DEF RefuseContent, Completed, Discarded, jobs, NamesSession, Facts,
           RequestFact, Ended
      <3>. QED
        BY <1>1, <3>1 DEF State, Reserved
    <2>5. CASE DeleteAccountRows(r)
      BY <2>5 DEF DeleteAccountRows, NoRow, TypeOK
    <2>6. CASE \/ Initiate(r) \/ Reown(r) \/ Head(r) \/ Merge(r) \/ MergeRefused(r) \/ EnqueueUpload(r)
               \/ DiscardOwned(r) \/ DiscardStorage(r) \/ \E t \in Sessions : PurgeUpload(r, t)
      BY <2>6 DEF Initiate, Reown, Head, Merge, MergeRefused, EnqueueUpload, DiscardOwned,
         DiscardStorage, PurgeUpload, jobs
    <2>. QED
      BY <1>2, <2>1, <2>2, <2>3, <2>4, <2>5, <2>6 DEF RequestStep
  <1>3. ASSUME NEW r \in Requests, NewRequest(r) \/ MergeUnanswered(r) \/ RequestFails(r)
        PROVE  StaysEnded(s)
    <2>1. ASSUME NEW t \in Sessions, Start(r, t) PROVE StaysEnded(s)
      BY <2>1 DEF Start, jobs, TypeOK
    <2>2. ASSUME NEW t \in Sessions, Abort(r, t) PROVE StaysEnded(s)
      BY <2>2, SetStateFacts DEF Abort, jobs, State, Reserved
    <2>3. ASSUME NEW t \in Sessions, NEW m \in 1 .. MaxEtag, ListParts(r, t, m) \/ CompleteAgain(r, t, m)
          PROVE  StaysEnded(s)
      BY <2>3 DEF ListParts, CompleteAgain, jobs
    <2>4. CASE DeleteAccount(r) \/ MergeUnanswered(r) \/ RequestFails(r)
      BY <2>4 DEF DeleteAccount, MergeUnanswered, RequestFails, jobs
    <2>. QED
      BY <1>3, <2>1, <2>2, <2>3, <2>4 DEF NewRequest
  <1>4. CASE PassStep \/ CleanNext \/ SweepFails \/ CleanFails
    <2>1. CASE CleanCommits
      BY <2>1, SetStateFacts DEF CleanCommits, jobs, State, NamesSession
    <2>2. CASE UNCHANGED <<session, job>>
      BY <2>2
    <2>. QED
      BY <1>4, <2>1, <2>2 DEF PassStep, CleanNext, SweepFails, CleanFails, SweepBegins,
         SweepDeletes, CleanBegins, CleanStorage, CleanLocks, PassEnds, jobs
  <1>5. ASSUME NEW t \in Sessions,
               \/ PutParts(t) \/ StoreFinishes(t) \/ StoreDrops(t) \/ DeleteJob(t)
               \/ DeleteJobSource(t) \/ DeleteJobSourceFails(t)
               \/ Expire(t) \/ Age(t) \/ LifecycleRule(t)
        PROVE  StaysEnded(s)
    BY <1>5 DEF PutParts, StoreFinishes, StoreDrops, DeleteJob, DeleteJobSource,
       DeleteJobSourceFails, Expire, Age, LifecycleRule, jobs, TypeOK
  <1>. QED
    BY <1>2, <1>3, <1>4, <1>5 DEF Next

(* An aborted session never comes back to make a job, and a session makes  *)
(* at most one job in its life.                                            *)
THEOREM AbortsAreFinal == Spec => AbortIsFinal
  <1>1. Typed /\ Facts /\ [Next]_vars =>
           [\A s \in Sessions :
              /\ session[s].state \in {"aborting", "aborted"} =>
                     session'[s].state \in {"aborting", "aborted", "none"}
              /\ job[s] # "queued" /\ job'[s] = "queued" =>
                     job[s] = "none" /\ session[s].state = "completing"]_vars
    BY EndedStep DEF StaysEnded
  <1>. QED
    BY <1>1, TypedInit, TypedStep, FactsInductive, PTL DEF Spec, AbortIsFinal

=============================================================================
