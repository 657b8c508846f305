-------------------------- MODULE EditJobsProofs --------------------------
(***************************************************************************)
(* Theorems about EditJobs, for any files, requests and number of edits:   *)
(* the state is well typed, a waiting edit is waited for, the removal of   *)
(* one video takes nothing of another's, the API and the worker judge      *)
(* every edit alike, and an edit starts from its upload and from no edit   *)
(* of it.                                                                  *)
(***************************************************************************)
EXTENDS EditJobs, SeqFilterProofs

-----------------------------------------------------------------------------
(* resolve_edit_roots ends at a job.                                       *)

(* One hop of resolve_edit_roots.                                          *)
Hop(j) == IF Parents(j) = {} THEN j ELSE CHOOSE k \in Parents(j) : TRUE

\* f is the walk of Root.
Walks(f, job) ==
    f = [hop \in 0..MAX_EDIT_CHAIN |->
            IF hop = 0 THEN job
            ELSE LET j == f[hop - 1]
                     parents == Parents(j)
                 IN  IF parents = {} THEN j ELSE CHOOSE k \in parents : TRUE]

\* Root's recursion defines a walk.
LEMMA RootIsWalked ==
    ASSUME NEW job \in Jobs
    PROVE  \E f : /\ f[0] = job
                  /\ \A hop \in 1..MAX_EDIT_CHAIN : f[hop] = Hop(f[hop - 1])
                  /\ Root(job) = f[MAX_EDIT_CHAIN]
<1> DEFINE D == Jobs
           n == MAX_EDIT_CHAIN
           F == [hop \in 1..n |-> [j \in D |-> Hop(j)]]
           c == CHOOSE f : Walks(f, job)
<1>1. n \in Nat
  BY DEF MAX_EDIT_CHAIN
<1>2. job \in D /\ \A j \in D : Hop(j) \in D
  BY DEF Hop, Parents
<1> HIDE DEF D
<1>3. F \in [1..n -> [D -> D]]
  BY <1>2
<1>4. Walks(c, job)
  <2>1. PICK f \in [0..n -> D] : f[0] = job /\ \A hop \in 1..n : f[hop] = F[hop][f[hop - 1]]
    <3> HIDE DEF n, F
    <3> QED
      BY <1>1, <1>2, <1>3, Recursion
  <2>2. ASSUME NEW hop \in 0..n
        PROVE  f[hop] = IF hop = 0 THEN job ELSE Hop(f[hop - 1])
    <3>1. CASE hop = 0
      BY <2>1, <3>1
    <3>2. CASE hop # 0
      <4>1. hop \in 1..n /\ hop - 1 \in 0..n
        <5> HIDE DEF n
        <5> QED
          BY <1>1, <3>2
      <4>2. f[hop - 1] \in D /\ f[hop] = F[hop][f[hop - 1]]
        <5> HIDE DEF F, n
        <5> QED
          BY <2>1, <4>1
      <4>3. F[hop][f[hop - 1]] = Hop(f[hop - 1])
        <5> HIDE DEF n
        <5> QED
          BY <4>1, <4>2
      <4> HIDE DEF F, n
      <4> QED
        BY <3>2, <4>2, <4>3
    <3> QED
      BY <3>1, <3>2
  <2>3. f = [hop \in 0..n |-> f[hop]]
    BY <2>1
  <2>4. f = [hop \in 0..n |-> IF hop = 0 THEN job ELSE Hop(f[hop - 1])]
    <3> HIDE DEF n
    <3> QED
      BY <2>2, <2>3
  <2>5. Walks(f, job)
    BY <2>4 DEF Walks, Hop
  <2> QED
    BY <2>5
<1>5. Root(job) = c[n]
  BY DEF Root, Walks
<1>6. c[0] = job /\ \A hop \in 1..n : c[hop] = Hop(c[hop - 1])
  <2> HIDE DEF c
  <2>1. \A hop \in 0..n : c[hop] = IF hop = 0 THEN job ELSE Hop(c[hop - 1])
    BY <1>4 DEF Walks, Hop
  <2> HIDE DEF n
  <2> QED
    BY <1>1, <2>1
<1> HIDE DEF c
<1> QED
  BY <1>5, <1>6

\* A set that no parent leads out of holds the root of every job whose first
\* hop is in it.
LEMMA RootStays ==
    ASSUME NEW D, NEW job \in Jobs, Hop(job) \in D, \A j \in D : Parents(j) \subseteq D
    PROVE  Root(job) \in D
<1>1. PICK f : /\ f[0] = job
               /\ \A hop \in 1..8 : f[hop] = Hop(f[hop - 1])
               /\ Root(job) = f[8]
  BY RootIsWalked DEF MAX_EDIT_CHAIN
<1>2. \A j \in D : Hop(j) \in D
  BY DEF Hop
<1> DEFINE g == [i \in 0..7 |-> f[i + 1]]
<1>3. g[0] \in D
  BY <1>1
<1>4. ASSUME NEW i \in 1..7, g[i - 1] \in D PROVE g[i] \in D
  <2>1. g[i - 1] = f[i] /\ g[i] = f[i + 1] /\ f[i + 1] = Hop(f[i])
    <3>1. i + 1 \in 1..8 /\ (i + 1) - 1 = i /\ (i - 1) + 1 = i /\ i - 1 \in 0..7 /\ i \in 0..7
      OBVIOUS
    <3>2. f[i + 1] = Hop(f[(i + 1) - 1])
      BY <1>1, <3>1
    <3> QED
      BY <3>1, <3>2
  <2> HIDE DEF g
  <2> QED
    BY <1>2, <1>4, <2>1
<1> HIDE DEF g
<1>5. \A i \in 0..7 : g[i] \in D
  BY <1>3, <1>4, StaysIn
<1>6. g[7] = f[8]
  BY DEF g
<1> QED
  BY <1>1, <1>5, <1>6

\* So resolve_edit_roots, whose hops are bounded, ends at a job.
LEMMA RootIsJob ==
    ASSUME NEW j \in Jobs
    PROVE  Root(j) \in Jobs /\ EditBase(j) \in Jobs
<1>1. \A k \in Jobs : Parents(k) \subseteq Jobs
  BY DEF Parents
<1>2. Hop(j) \in Jobs
  BY <1>1 DEF Hop
<1> QED
  BY <1>1, <1>2, RootStays DEF EditBase

\* A present job's root is present: a parent is.
LEMMA BaseIsPresent ==
    ASSUME NEW j \in Jobs, Present(j)
    PROVE  Present(Root(j)) /\ Present(EditBase(j)) /\ EditBase(j) \in Jobs
<1> DEFINE D == {k \in Jobs : Present(k)}
<1>1. \A k \in D : Parents(k) \subseteq D
  BY DEF Parents
<1>2. Root(j) \in D
  <2>1. j \in D /\ Hop(j) \in D
    BY <1>1 DEF Hop
  <2> HIDE DEF D
  <2> QED
    BY <1>1, <2>1, RootStays
<1> QED
  BY <1>2 DEF EditBase

-----------------------------------------------------------------------------
(* The inductive invariant.                                                *)

Columns ==
    {"status", "source", "operations", "output", "thumbnail", "size", "trashed", "why"}
Sources == {SourceKey} \union {OutputKey(k) : k \in Jobs}

(* The records behind TypeOK: what a request in progress and a run hold,   *)
(* and that an edit's row has an id in use and operations.                 *)
Shaped ==
    /\ DOMAIN rows = Jobs /\ \A j \in Jobs : DOMAIN rows[j] = Columns
    /\ call.step = "create" => call.source \in Sources /\ call.request # NoOperations
    /\ call.step = "enqueue" => call.job \in Edits
    /\ run.step # "idle" => run.job \in Jobs
    /\ run.step = "fail" => run.why # NoError
    /\ DOMAIN known \subseteq Edits
    /\ \A e \in Edits : Present(e) => e \in DOMAIN known /\ ~ IsUpload(e)
    /\ rows[Upload].source = SourceKey

EditTyped == TypeOK /\ Shaped

(* Why a step fails.                                                       *)
LEMMA FailuresHaveReasons ==
    /\ ~ Result.ok => Result.why # NoError
<1>1. ASSUME NEW r, NEW f, ~ EditResult(r, f).ok PROVE EditResult(r, f).why # NoError
  <2> DEFINE ops == Named(r)
             command == BuildEditCommand(ops, Probes(f) /\ f.hdr)
  <2> QED
    BY <1>1 DEF EditResult, Failure, NoError
<1>2. ASSUME NEW f, NEW h, NEW d, ~ Mp4Result(f, h, d).ok PROVE Mp4Result(f, h, d).why # NoError
  BY <1>2 DEF Mp4Result, Failure, NoError, ProbeFirst
<1> QED
  BY <1>1, <1>2 DEF Result

(* An absent row.                                                          *)
LEMMA NoRowShape ==
    /\ DOMAIN NoRow = Columns
    /\ NoRow.status = "none" /\ NoRow.source = SourceKey
    /\ NoRow.output = FALSE /\ NoRow.thumbnail = FALSE /\ NoRow.why = NoError
  BY DEF NoRow, NewRow, Columns

\* The columns of the videos that may be found.
LEMMA FoundRowShape ==
    ASSUME NEW size, NEW file
    PROVE  /\ DOMAIN DoneUpload(file, size) = Columns /\ DOMAIN LegacyEdit = Columns
           /\ DoneUpload(file, size).status = "done" /\ LegacyEdit.status = "done"
           /\ DoneUpload(file, size).source = SourceKey /\ LegacyEdit.source = OutputKey(Upload)
           /\ DoneUpload(file, size).output = TRUE /\ LegacyEdit.output = TRUE
           /\ DoneUpload(file, size).thumbnail = FALSE /\ LegacyEdit.thumbnail = FALSE
           /\ DoneUpload(file, size).why = NoError /\ LegacyEdit.why = NoError
           /\ LegacyEdit.operations # NoOperations
<1>1. LegacyEdit.operations = <<[operation |-> "flip", params |-> [axis |-> "vertical"]]>>
  BY DEF LegacyEdit, NewRow
<1>2. LegacyEdit.operations # NoOperations
  BY <1>1 DEF NoOperations
<1> QED
  BY <1>2 DEF DoneUpload, LegacyEdit, NewRow, Columns

\* What there is at the start: an upload that waits, or a done one with
\* perhaps an edit of it.
FoundQueued ==
    /\ rows = [j \in Jobs |-> IF j = Upload THEN NewRow(SourceKey, NoOperations) ELSE NoRow]
    /\ DOMAIN store = {SourceKey} /\ queue = {Upload} /\ DOMAIN known = {}
FoundDone(file, size, legacy) ==
    /\ legacy => MaxEdits > 0
    /\ size \in {NoSize, DisplaySize(file)} /\ store[SourceKey] = file
    /\ legacy => known[1] = NoSize
    /\ rows = [j \in Jobs |-> CASE j = Upload -> DoneUpload(file, size)
                                [] j = 1 /\ legacy -> LegacyEdit
                                [] OTHER -> NoRow]
    /\ DOMAIN store = {SourceKey, OutputKey(Upload)} \union (IF legacy THEN {OutputKey(1)} ELSE {})
    /\ DOMAIN known = (IF legacy THEN {1} ELSE {}) /\ queue = {}

LEMMA InitFinds ==
    ASSUME Init
    PROVE  \/ FoundQueued
           \/ \E file, size : \E legacy \in BOOLEAN : FoundDone(file, size, legacy)
<1>1. PICK file \in Files :
        \/ /\ rows = [j \in Jobs |-> IF j = Upload THEN NewRow(SourceKey, NoOperations) ELSE NoRow]
           /\ store = [k \in {SourceKey} |-> file]
           /\ queue = {Upload}
           /\ known = [e \in {} |-> NoSize]
        \/ LET mp4 == Mp4Result(file, MaxHeight, MaxDuration) IN
           /\ mp4.ok
           /\ \E size \in {NoSize, DisplaySize(file)}, legacy \in BOOLEAN :
                 /\ legacy => MaxEdits > 0
                 /\ rows = [j \in Jobs |-> CASE j = Upload -> DoneUpload(file, size)
                                             [] j = 1 /\ legacy -> LegacyEdit
                                             [] OTHER -> NoRow]
                 /\ store = [k \in {SourceKey, OutputKey(Upload)}
                                     \union (IF legacy THEN {OutputKey(1)} ELSE {}) |->
                                CASE k = SourceKey -> file
                                  [] k = OutputKey(Upload) -> mp4.file
                                  [] OTHER -> EditResult(LegacyEdit.operations, mp4.file).file]
                 /\ known = [e \in IF legacy THEN {1} ELSE {} |-> NoSize]
           /\ queue = {}
  BY Zenon DEF Init
<1>2. CASE /\ rows = [j \in Jobs |-> IF j = Upload THEN NewRow(SourceKey, NoOperations) ELSE NoRow]
           /\ store = [k \in {SourceKey} |-> file]
           /\ queue = {Upload}
           /\ known = [e \in {} |-> NoSize]
  BY <1>2 DEF FoundQueued
<1> DEFINE mp4 == Mp4Result(file, MaxHeight, MaxDuration)
           Found(size, legacy) ==
             /\ legacy => MaxEdits > 0
             /\ rows = [j \in Jobs |-> CASE j = Upload -> DoneUpload(file, size)
                                         [] j = 1 /\ legacy -> LegacyEdit
                                         [] OTHER -> NoRow]
             /\ store = [k \in {SourceKey, OutputKey(Upload)}
                                 \union (IF legacy THEN {OutputKey(1)} ELSE {}) |->
                            CASE k = SourceKey -> file
                              [] k = OutputKey(Upload) -> mp4.file
                              [] OTHER -> EditResult(LegacyEdit.operations, mp4.file).file]
             /\ known = [e \in IF legacy THEN {1} ELSE {} |-> NoSize]
<1>3. CASE queue = {} /\ \E size \in {NoSize, DisplaySize(file)}, legacy \in BOOLEAN :
                            Found(size, legacy)
  <2>1. PICK size \in {NoSize, DisplaySize(file)}, legacy \in BOOLEAN : Found(size, legacy)
    <3> HIDE DEF Found
    <3> QED
      BY <1>3
  <2>2. store[SourceKey] = file
    <3> DEFINE K == {SourceKey, OutputKey(Upload)}
                      \union (IF legacy THEN {OutputKey(1)} ELSE {})
               Content(k) == CASE k = SourceKey -> file
                               [] k = OutputKey(Upload) -> mp4.file
                               [] OTHER -> EditResult(LegacyEdit.operations, mp4.file).file
    <3>1. store = [k \in K |-> Content(k)]
      BY <2>1
    <3>2. SourceKey \in K
      OBVIOUS
    <3>3. SourceKey # OutputKey(Upload)
      BY DEF SourceKey, OutputKey
    <3>4. Content(SourceKey) = file
      BY <3>3
    <3> HIDE DEF K, Content
    <3> QED
      BY <3>1, <3>2, <3>4
  <2>3. FoundDone(file, size, legacy)
    BY <1>3, <2>1, <2>2 DEF FoundDone
  <2> QED
    BY <2>3
<1> QED
  BY <1>1, <1>2, <1>3

LEMMA EditTypedInit == Init => EditTyped
<1> SUFFICES ASSUME Init PROVE EditTyped
  OBVIOUS
<1>1. call.step = "idle" /\ run.step = "idle" /\ removing = {} /\ events = 0
  BY DEF Init, NoCall, NoRun
<1>2. 0 \in 0..MaxEvents
  BY EditBounds
<1>3. CASE FoundQueued
  <2>1. \A j \in Jobs : rows[j] = IF j = Upload THEN NewRow(SourceKey, NoOperations) ELSE NoRow
    BY <1>3 DEF FoundQueued
  <2>2. \A j \in Jobs : /\ DOMAIN rows[j] = Columns /\ rows[j].source = SourceKey
                        /\ rows[j].output = FALSE /\ rows[j].thumbnail = FALSE
                        /\ rows[j].why = NoError
                        /\ j = Upload => rows[j].status = "queued"
                        /\ j # Upload => rows[j].status = "none"
    <3> TAKE j \in Jobs
    <3>1. CASE j = Upload
      <4>1. rows[j] = NewRow(SourceKey, NoOperations)
        BY <2>1, <3>1
      <4> DEFINE r == NewRow(SourceKey, NoOperations)
      <4>2. /\ DOMAIN r = Columns /\ r.status = "queued" /\ r.source = SourceKey
            /\ r.output = FALSE /\ r.thumbnail = FALSE /\ r.why = NoError
        BY DEF NewRow, Columns
      <4>3. rows[j] = r
        BY <4>1
      <4> HIDE DEF r
      <4> QED
        BY <3>1, <4>2, <4>3
    <3>2. CASE j # Upload
      <4>1. rows[j] = NoRow
        BY <2>1, <3>2
      <4> QED
        BY <3>2, <4>1, NoRowShape
    <3> QED
      BY <3>1, <3>2
  <2>3. /\ DOMAIN rows = Jobs /\ DOMAIN known = {} /\ Upload \in Jobs /\ Upload \notin Edits
        /\ DOMAIN store \subseteq Keys /\ queue \subseteq Jobs /\ removing \subseteq Keys
    BY <1>1, <1>3 DEF FoundQueued, Keys, Jobs, Edits, Upload
  <2>4. TypeOK
    BY <1>1, <1>2, <2>2, <2>3 DEF TypeOK
  <2>5. Shaped
    BY <1>1, <2>2, <2>3 DEF Shaped, Jobs, Present
  <2> QED
    BY <2>4, <2>5 DEF EditTyped
<1>4. ASSUME NEW file, NEW size, NEW legacy \in BOOLEAN, FoundDone(file, size, legacy)
      PROVE  EditTyped
  <2>1. /\ legacy => 1 \in Edits
        /\ Upload \in Jobs /\ Upload \notin Edits /\ 1 # Upload
    BY <1>4, EditBounds DEF FoundDone, Edits, Jobs, Upload
  <2>2. \A j \in Jobs : rows[j] = IF j = Upload THEN DoneUpload(file, size)
                                  ELSE IF j = 1 /\ legacy THEN LegacyEdit ELSE NoRow
    BY <1>4, <2>1 DEF FoundDone
  <2>3. \A j \in Jobs :
          /\ DOMAIN rows[j] = Columns /\ rows[j].source \in {SourceKey, OutputKey(Upload)}
          /\ rows[j].thumbnail = FALSE /\ rows[j].why = NoError
          /\ rows[j].status \in {"done", "none"}
          /\ rows[j].output \in BOOLEAN /\ ((rows[j].status = "done") <=> rows[j].output)
          /\ j # Upload /\ rows[j].status # "none" =>
                j = 1 /\ legacy /\ rows[j].operations # NoOperations
    BY <2>2, FoundRowShape, NoRowShape
  <2>4. rows[Upload].source = SourceKey
    BY <2>1, <2>2, FoundRowShape
  <2>5. /\ DOMAIN rows = Jobs /\ DOMAIN known = IF legacy THEN {1} ELSE {}
        /\ DOMAIN store \subseteq Keys /\ queue \subseteq Jobs /\ removing \subseteq Keys
    <3>1. OutputKey(Upload) \in Keys /\ (legacy => OutputKey(1) \in Keys) /\ SourceKey \in Keys
      BY <2>1 DEF Keys, OutputKey, Jobs
    <3>2. DOMAIN rows = Jobs /\ removing = {} /\ queue = {}
      BY <1>1, <1>4 DEF FoundDone
    <3>3. DOMAIN known = IF legacy THEN {1} ELSE {}
      BY <1>4 DEF FoundDone
    <3>4. DOMAIN store \subseteq Keys
      BY <1>4, <3>1 DEF FoundDone
    <3> QED
      BY <3>2, <3>3, <3>4
  <2>6. TypeOK
    BY <1>1, <1>2, <2>1, <2>3, <2>5 DEF TypeOK
  <2>7. Shaped
    BY <1>1, <2>1, <2>3, <2>4, <2>5 DEF Shaped, Jobs, Present, IsUpload
  <2> QED
    BY <2>6, <2>7 DEF EditTyped
<1> QED
  BY <1>3, <1>4, InitFinds

\* What writing one row leaves alone.
LEMMA WriteKeeps ==
    ASSUME EditTyped, NEW i \in Jobs, NEW r, rows' = [rows EXCEPT ![i] = r]
    PROVE  /\ DOMAIN rows' = Jobs /\ rows'[i] = r
           /\ \A j \in Jobs \ {i} : rows'[j] = rows[j]
  BY DEF EditTyped, Shaped

(* What a step writes to the row of job i, and the rows it leaves alone.   *)
Claimed(i) ==
    /\ rows[i].status = "queued" /\ rows'[i].status = "processing"
    /\ rows'[i].output = FALSE /\ rows'[i].thumbnail = FALSE /\ rows'[i].why = NoError
Recorded(i) ==
    /\ rows[i].status = "processing" /\ rows'[i].status = "done" /\ run.step = "record"
    /\ run.job = i /\ rows'[i].output = TRUE /\ rows'[i].thumbnail = run.thumbnail
    /\ rows'[i].why = rows[i].why
GaveUp(i) ==
    /\ rows[i].status = "processing" /\ rows'[i].status = "failed" /\ run.step = "fail"
    /\ run.job = i /\ rows'[i].output = rows[i].output
    /\ rows'[i].thumbnail = rows[i].thumbnail /\ rows'[i].why = run.why
Retried(i) ==
    /\ rows[i].status = "failed" /\ rows'[i].status = "queued" /\ i \in queue'
    /\ rows'[i].output = FALSE /\ rows'[i].thumbnail = rows[i].thumbnail
    /\ rows'[i].why = NoError
Hidden(i) ==
    /\ rows'[i].status = rows[i].status /\ rows'[i].output = rows[i].output
    /\ rows'[i].thumbnail = rows[i].thumbnail /\ rows'[i].why = rows[i].why
(* One job's row, as a step of the system may write it.                    *)
RowMove(i) ==
    \/ rows'[i] = rows[i]
    \/ Claimed(i) \/ Recorded(i) \/ GaveUp(i) \/ Retried(i) \/ Hidden(i)

OneRowMoves ==
    /\ DOMAIN rows' = Jobs
    /\ \A i \in Jobs : /\ RowMove(i) /\ DOMAIN rows'[i] = Columns
                       /\ rows'[i].source = rows[i].source
                       /\ rows'[i].operations = rows[i].operations

\* Every step but an edit's insertion and a row's deletion.
LEMMA RowsMove ==
    ASSUME EditTyped, [Next]_vars
    PROVE  \/ OneRowMoves
           \/ \E e \in Edits : CreateEdit(e)
           \/ \E i \in Jobs : DeleteRow(i)
           \/ DeliveryRefused
<1>1. DOMAIN rows = Jobs /\ \A j \in Jobs : DOMAIN rows[j] = Columns
  BY DEF EditTyped, Shaped
<1>2. ASSUME rows' = rows PROVE OneRowMoves
  BY <1>1, <1>2 DEF OneRowMoves, RowMove
<1>3. ASSUME NEW i \in Jobs, NEW r, rows' = [rows EXCEPT ![i] = r], DOMAIN r = Columns,
             r.source = rows[i].source, r.operations = rows[i].operations,
             rows'[i] = r => RowMove(i)
      PROVE  OneRowMoves
  <2>1. /\ DOMAIN rows' = Jobs /\ rows'[i] = r
        /\ \A j \in Jobs \ {i} : rows'[j] = rows[j]
    BY <1>3, WriteKeeps
  <2> QED
    BY <1>1, <1>3, <2>1 DEF OneRowMoves, RowMove
<1>4. ASSUME NEW i \in Jobs, Claim(i) PROVE OneRowMoves
  <2>1. CASE rows[i].status = "queued"
    <3> DEFINE r == [rows[i] EXCEPT !.status = "processing", !.output = FALSE,
                                    !.thumbnail = FALSE, !.size = NoSize, !.why = NoError]
    <3>1. rows' = [rows EXCEPT ![i] = r]
      BY <1>1, <1>4, <2>1 DEF Claim
    <3>2. /\ DOMAIN r = Columns /\ r.source = rows[i].source
          /\ r.operations = rows[i].operations
          /\ r.status = "processing" /\ r.output = FALSE /\ r.thumbnail = FALSE
          /\ r.why = NoError
      BY <1>1 DEF Columns
    <3> HIDE DEF r
    <3>3. rows'[i] = r => RowMove(i)
      BY <2>1, <3>2 DEF RowMove, Claimed
    <3> QED
      BY <1>3, <3>1, <3>2, <3>3
  <2>2. CASE rows[i].status # "queued"
    BY <1>2, <1>4, <2>2 DEF Claim
  <2> QED
    BY <2>1, <2>2
<1>5. ASSUME RecordDone PROVE OneRowMoves
  <2>1. run.job \in Jobs
    BY <1>5 DEF RecordDone, EditTyped, Shaped
  <2>2. CASE rows[run.job].status = "processing"
    <3> DEFINE i == run.job
               r == [rows[i] EXCEPT !.status = "done", !.output = TRUE,
                                    !.thumbnail = run.thumbnail, !.size = run.size]
    <3>1. rows' = [rows EXCEPT ![i] = r]
      BY <1>1, <1>5, <2>1, <2>2 DEF RecordDone
    <3>2. /\ DOMAIN r = Columns /\ r.source = rows[i].source
          /\ r.operations = rows[i].operations
          /\ r.status = "done" /\ r.output = TRUE /\ r.thumbnail = run.thumbnail
          /\ r.why = rows[i].why
      BY <1>1, <2>1 DEF Columns
    <3> HIDE DEF r
    <3>3. rows'[i] = r => RowMove(i)
      BY <1>5, <2>2, <3>2 DEF RowMove, Recorded, RecordDone
    <3> QED
      BY <1>3, <2>1, <3>1, <3>2, <3>3
  <2>3. CASE rows[run.job].status # "processing"
    BY <1>2, <1>5, <2>3 DEF RecordDone
  <2> QED
    BY <2>2, <2>3
<1>6. ASSUME RecordFailure PROVE OneRowMoves
  <2>1. run.job \in Jobs
    BY <1>6 DEF RecordFailure, EditTyped, Shaped
  <2>2. CASE rows[run.job].status = "processing"
    <3> DEFINE i == run.job
               r == [rows[i] EXCEPT !.status = "failed", !.why = run.why]
    <3>1. rows' = [rows EXCEPT ![i] = r]
      BY <1>1, <1>6, <2>1, <2>2 DEF RecordFailure
    <3>2. /\ DOMAIN r = Columns /\ r.source = rows[i].source
          /\ r.operations = rows[i].operations
          /\ r.status = "failed" /\ r.output = rows[i].output
          /\ r.thumbnail = rows[i].thumbnail /\ r.why = run.why
      BY <1>1, <2>1 DEF Columns
    <3> HIDE DEF r
    <3>3. rows'[i] = r => RowMove(i)
      BY <1>6, <2>2, <3>2 DEF RowMove, GaveUp, RecordFailure
    <3> QED
      BY <1>3, <2>1, <3>1, <3>2, <3>3
  <2>3. CASE rows[run.job].status # "processing"
    BY <1>2, <1>6, <2>3 DEF RecordFailure
  <2> QED
    BY <2>2, <2>3
<1>7. ASSUME NEW i \in Jobs, Retry(i) PROVE OneRowMoves
  <2> DEFINE r == [rows[i] EXCEPT !.status = "queued", !.why = NoError, !.output = FALSE]
  <2>1. rows' = [rows EXCEPT ![i] = r]
    BY <1>1, <1>7 DEF Retry
  <2>2. /\ DOMAIN r = Columns /\ r.source = rows[i].source
        /\ r.operations = rows[i].operations
        /\ r.status = "queued" /\ r.output = FALSE /\ r.thumbnail = rows[i].thumbnail
        /\ r.why = NoError
    BY <1>1 DEF Columns
  <2> HIDE DEF r
  <2>3. rows'[i] = r => RowMove(i)
    BY <1>7, <2>2 DEF RowMove, Retried, Retry
  <2> QED
    BY <1>3, <2>1, <2>2, <2>3
<1>8. ASSUME NEW i \in Jobs, TrashOrRestore(i) PROVE OneRowMoves
  <2> DEFINE r == [rows[i] EXCEPT !.trashed = ~ rows[i].trashed]
  <2>1. rows' = [rows EXCEPT ![i] = r]
    BY <1>1, <1>8 DEF TrashOrRestore
  <2>2. /\ DOMAIN r = Columns /\ r.source = rows[i].source
        /\ r.operations = rows[i].operations
        /\ r.status = rows[i].status /\ r.output = rows[i].output
        /\ r.thumbnail = rows[i].thumbnail /\ r.why = rows[i].why
    BY <1>1 DEF Columns
  <2> HIDE DEF r
  <2>3. rows'[i] = r => RowMove(i)
    BY <2>2 DEF RowMove, Hidden
  <2> QED
    BY <1>3, <2>1, <2>2, <2>3
<1>9. ASSUME NEW j \in Jobs, NEW request \in Requests, AskEdit(j, request) PROVE OneRowMoves
  BY <1>2, <1>9 DEF AskEdit
<1>10. ASSUME Deliver \/ OpenSource \/ Work \/ WorkTrouble \/ RemoveObjects \/ UNCHANGED vars
       PROVE  OneRowMoves
  BY <1>2, <1>10 DEF Deliver, OpenSource, Work, WorkTrouble, RemoveObjects, vars
<1> QED
  BY <1>4, <1>5, <1>6, <1>7, <1>8, <1>9, <1>10 DEF Next

\* The ids in use only grow.
LEMMA KnownGrows ==
    ASSUME EditTyped, [Next]_vars
    PROVE  /\ DOMAIN known \subseteq DOMAIN known' /\ DOMAIN known' \subseteq Edits
           /\ (~ \E e \in Edits : CreateEdit(e)) => known' = known
<1>1. DOMAIN known \subseteq Edits
  BY DEF EditTyped, Shaped
<1>2. ASSUME NEW e \in Edits, CreateEdit(e)
      PROVE  DOMAIN known \subseteq DOMAIN known' /\ DOMAIN known' \subseteq Edits
  BY <1>1, <1>2 DEF CreateEdit
<1>3. (~ \E e \in Edits : CreateEdit(e)) => known' = known
  BY DEF Next, vars, AskEdit, Deliver, DeliveryRefused, Claim, OpenSource, Work, WorkTrouble,
         RecordDone, RecordFailure, Retry, TrashOrRestore, DeleteRow, RemoveObjects
<1> QED
  BY <1>1, <1>2, <1>3

\* What the rows must be, by themselves.
RowsTyped ==
    /\ DOMAIN rows = Jobs
    /\ \A j \in Jobs :
          /\ DOMAIN rows[j] = Columns
          /\ rows[j].status \in {"none", "queued", "processing", "done", "failed"}
          /\ rows[j].source \in {SourceKey} \union {OutputKey(k) : k \in Jobs}
          /\ (rows[j].status = "done") <=> rows[j].output
          /\ (rows[j].status = "failed") <=> (rows[j].why # NoError)
          /\ rows[j].thumbnail => rows[j].output
    /\ \A e \in Edits : Present(e) => e \in DOMAIN known /\ ~ IsUpload(e)
    /\ rows[Upload].source = SourceKey

LEMMA RowsTypedStep ==
    ASSUME EditTyped, [Next]_vars
    PROVE  RowsTyped'
<1>1. RowsTyped /\ Upload \in Jobs /\ Edits \subseteq Jobs /\ Upload \notin Edits
  BY DEF EditTyped, TypeOK, Shaped, RowsTyped, Jobs, Edits, Upload
<1>2. DOMAIN known \subseteq DOMAIN known'
  BY KnownGrows
<1>3. CASE OneRowMoves
  <2>1. run.step = "fail" => run.why # NoError
    BY DEF EditTyped, Shaped
  <2>2. ASSUME NEW j \in Jobs
        PROVE  /\ rows'[j].status \in {"none", "queued", "processing", "done", "failed"}
               /\ (rows'[j].status = "done") <=> rows'[j].output
               /\ (rows'[j].status = "failed") <=> (rows'[j].why # NoError)
               /\ rows'[j].thumbnail => rows'[j].output
    BY <1>1, <1>3, <2>1, <2>2
    DEF OneRowMoves, RowMove, Claimed, Recorded, GaveUp, Retried, Hidden, RowsTyped
  <2>3. ASSUME NEW j \in Jobs, rows'[j].status # "none" PROVE rows[j].status # "none"
    BY <1>3, <2>3 DEF OneRowMoves, RowMove, Claimed, Recorded, GaveUp, Retried, Hidden
  <2>4. \A e \in Edits : Present(e)' => (e \in DOMAIN known /\ ~ IsUpload(e))'
    BY <1>1, <1>2, <1>3, <2>3 DEF OneRowMoves, RowsTyped, Present, IsUpload
  <2> QED
    BY <1>1, <1>3, <2>2, <2>4 DEF OneRowMoves, RowsTyped
<1>4. ASSUME NEW e \in Edits, CreateEdit(e) PROVE RowsTyped'
  <2> DEFINE r == NewRow(call.source, call.request)
  <2>1. /\ DOMAIN rows' = Jobs /\ rows'[e] = r
        /\ \A j \in Jobs \ {e} : rows'[j] = rows[j]
    BY <1>1, <1>4, WriteKeeps DEF CreateEdit
  <2>2. /\ DOMAIN r = Columns /\ r.status = "queued" /\ r.source = call.source
        /\ r.operations = call.request
        /\ r.output = FALSE /\ r.thumbnail = FALSE /\ r.why = NoError
    BY DEF NewRow, Columns
  <2>3. call.source \in Sources /\ call.request # NoOperations /\ e \in DOMAIN known'
    BY <1>4 DEF CreateEdit, EditTyped, Shaped
  <2> HIDE DEF r
  <2> QED
    BY <1>1, <1>2, <1>4, <2>1, <2>2, <2>3 DEF RowsTyped, Present, IsUpload, Sources
<1>5. ASSUME NEW i \in Jobs, rows' = [rows EXCEPT ![i] = NoRow] PROVE RowsTyped'
  <2>1. /\ DOMAIN rows' = Jobs /\ rows'[i] = NoRow
        /\ \A j \in Jobs \ {i} : rows'[j] = rows[j]
    BY <1>5, WriteKeeps
  <2>2. /\ DOMAIN NoRow = Columns /\ NoRow.status = "none" /\ NoRow.source = SourceKey
        /\ NoRow.output = FALSE /\ NoRow.thumbnail = FALSE /\ NoRow.why = NoError
    BY NoRowShape
  <2> QED
    BY <1>1, <1>2, <2>1, <2>2 DEF RowsTyped, Present, IsUpload
<1>6. ASSUME NEW i \in Jobs, DeleteRow(i) PROVE RowsTyped'
  BY <1>5, <1>6 DEF DeleteRow
<1>7. CASE DeliveryRefused
  <2>1. call.job \in Jobs
    BY <1>1, <1>7 DEF DeliveryRefused, EditTyped, Shaped
  <2> QED
    BY <1>5, <1>7, <2>1 DEF DeliveryRefused
<1> QED
  BY <1>3, <1>4, <1>6, <1>7, RowsMove

\* Everything but the rows.
RestTyped ==
    /\ DOMAIN store \subseteq Keys /\ queue \subseteq Jobs /\ removing \subseteq Keys
    /\ events \in 0..MaxEvents
    /\ call.step \in {"idle", "create", "enqueue"}
    /\ call.step = "create" => call.source \in Sources /\ call.request # NoOperations
    /\ call.step = "enqueue" => call.job \in Edits
    /\ run.step \in {"idle", "open", "work", "record", "fail"}
    /\ run.step # "idle" => run.job \in Jobs
    /\ run.step = "fail" => run.why # NoError

\* What a step that worked leaves.
LEMMA WorkStores ==
    ASSUME EditTyped, Work, Result.ok
    PROVE  /\ events' \in 0..MaxEvents
           /\ run'.step = "record" /\ run'.job = run.job
           /\ \/ DOMAIN store' = DOMAIN store \union {OutputKey(run.job)} /\ run'.thumbnail = FALSE
              \/ /\ DOMAIN store' = DOMAIN store \union {OutputKey(run.job), ThumbnailKey(run.job)}
                 /\ run'.thumbnail = TRUE
<1>1. PICK size \in {SizeToRecord(Result.file), NoSize}, thumbnail \in BOOLEAN :
        /\ LET perfect == size # NoSize => thumbnail
               asProbed == size = SizeToRecord(Result.file)
               spoilt == IF perfect /\ asProbed THEN 0 ELSE 1
           IN  events + spoilt <= MaxEvents /\ events' = events + spoilt
        /\ store' = [k \in DOMAIN store \union {OutputKey(run.job)}
                             \union (IF thumbnail THEN {ThumbnailKey(run.job)} ELSE {}) |->
                        IF k \in {OutputKey(run.job), ThumbnailKey(run.job)}
                        THEN Result.file ELSE store[k]]
        /\ run' = [step |-> "record", job |-> run.job, from |-> run.file,
                   operations |-> run.operations, size |-> size, thumbnail |-> thumbnail]
  BY DEF Work
<1>2. events' \in 0..MaxEvents
  <2>1. events \in 0..MaxEvents /\ MaxEvents \in Nat
    BY EditBounds DEF EditTyped, TypeOK
  <2>2. \E spoilt \in {0, 1} : events + spoilt <= MaxEvents /\ events' = events + spoilt
    BY <1>1
  <2> QED
    BY <2>1, <2>2
<1>3. run'.step = "record" /\ run'.job = run.job /\ run'.thumbnail = thumbnail
  BY <1>1
<1>4. DOMAIN store' = DOMAIN store \union {OutputKey(run.job)}
                        \union (IF thumbnail THEN {ThumbnailKey(run.job)} ELSE {})
  BY <1>1
<1> QED
  BY <1>2, <1>3, <1>4

LEMMA RestTypedStep ==
    ASSUME EditTyped, [Next]_vars
    PROVE  RestTyped'
<1>1. RestTyped
  BY DEF EditTyped, TypeOK, Shaped, RestTyped
<1>2. Event => events' \in 0..MaxEvents
  BY <1>1, EditBounds DEF Event, RestTyped
<1>3. \A j \in Jobs : OutputKey(j) \in Keys /\ ThumbnailKey(j) \in Keys
  BY DEF Keys, OutputKey, ThumbnailKey
<1>4. Sources \subseteq Keys /\ Edits \subseteq Jobs
  BY <1>3 DEF Sources, Keys, Jobs
<1>5. \A j \in Jobs : rows[j].source \in Sources
  BY DEF EditTyped, TypeOK, Sources
<1>10. ASSUME NEW j \in Jobs, NEW request \in Requests, AskEdit(j, request) PROVE RestTyped'
  <2>1. EditBase(j) \in Jobs
    BY RootIsJob
  <2>2. EditSource(EditBase(j)) \in Sources
    BY <1>5, <2>1 DEF EditSource, Sources
  <2>3. request # NoOperations
    BY <1>10 DEF AskEdit, IsEditRequest, NoOperations
  <2>4. /\ call'.step = "create" /\ call'.source = EditSource(EditBase(j))
        /\ call'.request = request
    BY <1>10 DEF AskEdit
  <2> QED
    BY <1>1, <1>10, <2>2, <2>3, <2>4 DEF AskEdit, RestTyped
<1>11. ASSUME NEW e \in Edits, CreateEdit(e) PROVE RestTyped'
  BY <1>1, <1>11 DEF CreateEdit, RestTyped
<1>12. CASE Deliver
  BY <1>1, <1>4, <1>12 DEF Deliver, RestTyped, NoCall
<1>13. CASE DeliveryRefused
  BY <1>1, <1>2, <1>4, <1>13 DEF DeliveryRefused, RestTyped, NoCall
<1>14. ASSUME NEW j \in Jobs, Claim(j) PROVE RestTyped'
  BY <1>1, <1>14 DEF Claim, RestTyped
<1>15. CASE OpenSource
  BY <1>1, <1>15 DEF OpenSource, RestTyped, Fails, NoError
<1>16. CASE Work
  <2>1. run.job \in Jobs
    BY <1>1, <1>16 DEF Work, RestTyped
  <2>2. CASE ~ Result.ok
    BY <1>1, <1>16, <2>2, FailuresHaveReasons DEF Work, RestTyped, Fails
  <2>3. CASE Result.ok
    <3>1. /\ events' \in 0..MaxEvents
          /\ DOMAIN store' \subseteq DOMAIN store \union {OutputKey(run.job), ThumbnailKey(run.job)}
          /\ run'.step = "record" /\ run'.job = run.job
      BY <1>16, <2>3, WorkStores
    <3> QED
      BY <1>1, <1>3, <1>16, <2>1, <3>1 DEF Work, RestTyped
  <2> QED
    BY <2>2, <2>3
<1>17. CASE WorkTrouble
  BY <1>1, <1>2, <1>17 DEF WorkTrouble, RestTyped, Fails, NoError
<1>18. CASE RecordDone \/ RecordFailure
  BY <1>1, <1>18 DEF RecordDone, RecordFailure, RestTyped, NoRun
<1>19. ASSUME NEW j \in Jobs, Retry(j) \/ TrashOrRestore(j) PROVE RestTyped'
  BY <1>1, <1>2, <1>19 DEF Retry, TrashOrRestore, RestTyped
<1>20. ASSUME NEW j \in Jobs, DeleteRow(j) PROVE RestTyped'
  <2>1. KeysOf(j) \subseteq Keys
    BY <1>3, <1>4, <1>5 DEF KeysOf
  <2> QED
    BY <1>1, <1>2, <1>20, <2>1 DEF DeleteRow, RestTyped
<1>21. CASE RemoveObjects
  <2>1. events' \in 0..MaxEvents
    BY <1>1, <1>2, <1>21 DEF RemoveObjects, RestTyped
  <2>2. DOMAIN store' \subseteq DOMAIN store /\ removing' = {}
    BY <1>21 DEF RemoveObjects
  <2> QED
    BY <1>1, <1>21, <2>1, <2>2 DEF RemoveObjects, RestTyped
<1>22. CASE UNCHANGED vars
  BY <1>1, <1>22 DEF vars, RestTyped
<1> QED
  BY <1>10, <1>11, <1>12, <1>13, <1>14, <1>15, <1>16, <1>17, <1>18, <1>19, <1>20, <1>21, <1>22
  DEF Next

LEMMA EditTypedStep ==
    ASSUME EditTyped, [Next]_vars
    PROVE  EditTyped'
  BY RowsTypedStep, RestTypedStep, KnownGrows
  DEF EditTyped, TypeOK, Shaped, RowsTyped, RestTyped

(* The rows, the storage and the two processes in progress are well formed *)
(* (EditJobs.TypeOK), whatever edits of edits are asked for, run, retried, *)
(* trashed and deleted: a failed row has an error and no other does, and   *)
(* what it shows it has.                                                   *)
THEOREM EditsTyped == Spec => []TypeOK
<1>1. EditTyped => TypeOK
  BY DEF EditTyped
<1> QED
  BY <1>1, EditTypedInit, EditTypedStep, PTL DEF Spec

-----------------------------------------------------------------------------
(* A waiting edit is waited for.  The property is inductive: an entry      *)
(* leaves the queue only with its row, and there is one run at a time.     *)

LEMMA WaitingInit == Init => WaitingIsServed
<1> SUFFICES ASSUME Init PROVE WaitingIsServed
  OBVIOUS
<1>1. \A e \in Edits : e # Upload /\ e \in Jobs
  BY DEF Edits, Jobs, Upload
<1>2. CASE FoundQueued
  <2>1. \A e \in Edits : rows[e] = NoRow
    BY <1>1, <1>2 DEF FoundQueued
  <2> QED
    BY <2>1, NoRowShape DEF WaitingIsServed
<1>3. ASSUME NEW file, NEW size, NEW legacy \in BOOLEAN, FoundDone(file, size, legacy)
      PROVE  WaitingIsServed
  <2>1. \A e \in Edits : rows[e] = LegacyEdit \/ rows[e] = NoRow
    BY <1>1, <1>3 DEF FoundDone
  <2> QED
    BY <2>1, NoRowShape, FoundRowShape DEF WaitingIsServed
<1> QED
  BY <1>2, <1>3, InitFinds

LEMMA WaitingStep ==
    ASSUME EditTyped, WaitingIsServed, [Next]_vars
    PROVE  WaitingIsServed'
<1> DEFINE Served(e) ==
             /\ rows[e].status = "queued" =>
                   e \in queue \/ (call.step = "enqueue" /\ call.job = e)
             /\ rows[e].status = "processing" => run # NoRun /\ run.job = e
<1> SUFFICES ASSUME NEW e \in Edits PROVE Served(e)'
  BY DEF WaitingIsServed
<1>1. Served(e) /\ e \in Jobs
  BY DEF WaitingIsServed, Jobs
<1>2. DOMAIN rows = Jobs /\ DOMAIN rows[e] = Columns
  BY <1>1 DEF EditTyped, Shaped
<1>3. ASSUME rows'[e].status = rows[e].status, queue \subseteq queue', UNCHANGED <<call, run>>
      PROVE  Served(e)'
  BY <1>1, <1>3
<1>4. ASSUME rows' = rows, queue' = queue, call' = call,
             run.step # "idle", run'.step # "idle", run'.job = run.job
      PROVE  Served(e)'
  BY <1>1, <1>4 DEF NoRun
<1>5. ASSUME NEW j \in Jobs, rows' = [rows EXCEPT ![j] = NoRow]
      PROVE  IF j = e THEN rows'[e].status = "none" ELSE rows'[e] = rows[e]
  BY <1>1, <1>2, <1>5, NoRowShape
<1>10. ASSUME NEW j \in Jobs, NEW request \in Requests, AskEdit(j, request) PROVE Served(e)'
  BY <1>1, <1>10 DEF AskEdit, NoCall
<1>11. ASSUME NEW i \in Edits, CreateEdit(i) PROVE Served(e)'
  <2>1. CASE i = e
    <3>1. rows'[e] = NewRow(call.source, call.request) /\ call'.step = "enqueue" /\ call'.job = e
      BY <1>1, <1>2, <1>11, <2>1 DEF CreateEdit
    <3>2. rows'[e].status = "queued"
      BY <3>1 DEF NewRow
    <3> QED
      BY <3>1, <3>2
  <2>2. CASE i # e
    <3>1. rows'[e] = rows[e]
      BY <1>1, <1>2, <1>11, <2>2 DEF CreateEdit
    <3> QED
      BY <1>1, <1>11, <3>1 DEF CreateEdit
  <2> QED
    BY <2>1, <2>2
<1>12. CASE Deliver
  BY <1>1, <1>12 DEF Deliver
<1>13. CASE DeliveryRefused
  <2>1. call.job \in Jobs
    BY <1>13 DEF DeliveryRefused, EditTyped, Shaped, Jobs
  <2>2. /\ IF call.job = e THEN rows'[e].status = "none" ELSE rows'[e] = rows[e]
        /\ queue \subseteq queue' /\ run' = run
    BY <1>5, <1>13, <2>1 DEF DeliveryRefused
  <2> QED
    BY <1>1, <2>2
<1>14. ASSUME NEW j \in Jobs, Claim(j) PROVE Served(e)'
  <2>1. rows[e].status # "processing"
    BY <1>1, <1>14 DEF Claim
  <2>2. CASE j = e /\ rows[j].status = "queued"
    <3>1. rows'[e].status = "processing"
      BY <1>1, <1>2, <1>14, <2>2 DEF Claim, Columns
    <3>2. run'.step = "open" /\ run'.job = e
      BY <1>14, <2>2 DEF Claim
    <3> QED
      BY <3>1, <3>2 DEF NoRun
  <2>3. CASE ~ (j = e /\ rows[j].status = "queued")
    <3>1. rows'[e] = rows[e] /\ queue' = queue \ {j} /\ call' = call
      BY <1>1, <1>2, <1>14, <2>3 DEF Claim
    <3> QED
      BY <1>1, <2>1, <2>3, <3>1
  <2> QED
    BY <2>2, <2>3
<1>15. CASE OpenSource
  <2>1. run'.step \in {"work", "fail"} /\ run'.job = run.job
    BY <1>15 DEF OpenSource, Fails
  <2> QED
    BY <1>4, <1>15, <2>1 DEF OpenSource
<1>16. CASE Work
  <2>1. run'.step \in {"record", "fail"} /\ run'.job = run.job
    <3>1. CASE Result.ok
      BY <1>16, <3>1, WorkStores
    <3>2. CASE ~ Result.ok
      BY <1>16, <3>2 DEF Work, Fails
    <3> QED
      BY <3>1, <3>2
  <2> QED
    BY <1>4, <1>16, <2>1 DEF Work
<1>17. CASE WorkTrouble
  <2>1. run'.step = "fail" /\ run'.job = run.job
    BY <1>17 DEF WorkTrouble, Fails
  <2> QED
    BY <1>4, <1>17, <2>1 DEF WorkTrouble
<1>18. CASE RecordDone \/ RecordFailure
  <2>1. run.job \in Jobs
    BY <1>18 DEF RecordDone, RecordFailure, EditTyped, Shaped
  <2>2. CASE run.job = e /\ rows[e].status = "processing"
    <3>1. rows'[e].status \in {"done", "failed"}
      BY <1>1, <1>2, <1>18, <2>2 DEF RecordDone, RecordFailure, Columns
    <3> QED
      BY <3>1
  <2>3. CASE ~ (run.job = e /\ rows[e].status = "processing")
    <3>1. rows[e].status # "processing"
      BY <1>1, <2>3
    <3>2. rows'[e] = rows[e] /\ queue' = queue /\ call' = call
      BY <1>1, <1>2, <1>18, <2>1, <2>3 DEF RecordDone, RecordFailure
    <3> QED
      BY <1>1, <3>1, <3>2
  <2> QED
    BY <2>2, <2>3
<1>19. ASSUME NEW j \in Jobs, Retry(j) PROVE Served(e)'
  <2>1. CASE j = e
    <3>1. rows'[e].status = "queued" /\ e \in queue'
      BY <1>1, <1>2, <1>19, <2>1 DEF Retry, Columns
    <3> QED
      BY <3>1
  <2>2. CASE j # e
    BY <1>1, <1>2, <1>3, <1>19, <2>2 DEF Retry
  <2> QED
    BY <2>1, <2>2
<1>20. ASSUME NEW j \in Jobs, TrashOrRestore(j) PROVE Served(e)'
  <2>1. rows'[e].status = rows[e].status
    BY <1>1, <1>2, <1>20 DEF TrashOrRestore
  <2> QED
    BY <1>3, <1>20, <2>1 DEF TrashOrRestore
<1>21. ASSUME NEW j \in Jobs, DeleteRow(j) PROVE Served(e)'
  <2>1. /\ IF j = e THEN rows'[e].status = "none" ELSE rows'[e] = rows[e]
        /\ queue' = queue /\ UNCHANGED <<call, run>>
    BY <1>5, <1>21 DEF DeleteRow
  <2> QED
    BY <1>1, <2>1
<1>22. CASE RemoveObjects \/ UNCHANGED vars
  BY <1>3, <1>22 DEF RemoveObjects, vars
<1> QED
  BY <1>10, <1>11, <1>12, <1>13, <1>14, <1>15, <1>16, <1>17, <1>18, <1>19, <1>20, <1>21, <1>22
  DEF Next

(* Every edit that waits is waited for (EditJobs.WaitingIsServed): no      *)
(* refused delivery, retry, trash, deletion or failing run leaves a queued *)
(* edit without a delivery or a processing one without its worker.         *)
THEOREM WaitingEditsAreServed == Spec => []WaitingIsServed
  BY EditTypedInit, EditTypedStep, WaitingInit, WaitingStep, PTL DEF Spec

-----------------------------------------------------------------------------
(* The library.  A video's files are missing only where its row is gone.   *)

(* The removal that is under way takes a file of job j.                    *)
Takes(j) ==
    \/ OutputKey(j) \in removing \/ ThumbnailKey(j) \in removing
    \/ j = Upload /\ SourceKey \in removing

(* The job's id is in use.                                                 *)
InUse(j) == j = Upload \/ j \in DOMAIN known

(* What a row names is stored; what a run is about to record is stored     *)
(* unless its row went meanwhile; what is being removed is nobody's, and   *)
(* its id is never given out again.                                        *)
Filed(j) ==
    /\ j = Upload => SourceKey \in DOMAIN store
    /\ rows[j].output => OutputKey(j) \in DOMAIN store
    /\ rows[j].thumbnail => ThumbnailKey(j) \in DOMAIN store
    /\ run.step = "record" /\ run.job = j =>
          /\ OutputKey(j) \in DOMAIN store
          /\ run.thumbnail => ThumbnailKey(j) \in DOMAIN store

Library ==
    /\ \A j \in Jobs : Takes(j) => ~ Present(j) /\ InUse(j)
    /\ run.step # "idle" => InUse(run.job)
    /\ \A j \in Jobs : Present(j) => Filed(j)

LEMMA LibraryShown == ASSUME Library PROVE LibraryIsPlayable
<1> SUFFICES ASSUME NEW j \in Jobs, Present(j), NEW k \in OwnKeys(j) PROVE k \in DOMAIN store
  BY DEF LibraryIsPlayable
<1>1. Filed(j)
  BY DEF Library
<1> QED
  BY <1>1 DEF Filed, OwnKeys

LEMMA LibraryInit == Init => Library
<1> SUFFICES ASSUME Init PROVE Library
  OBVIOUS
<1>1. run.step = "idle" /\ removing = {}
  BY DEF Init, NoRun
<1>2. \A j \in Jobs : ~ Takes(j)
  BY <1>1 DEF Takes
<1>3. CASE FoundQueued
  <2>1. \A j \in Jobs : Present(j) =>
            j = Upload /\ rows[j].output = FALSE /\ rows[j].thumbnail = FALSE
    <3> TAKE j \in Jobs
    <3>1. CASE j = Upload
      <4>1. rows[j] = NewRow(SourceKey, NoOperations)
        BY <1>3, <3>1 DEF FoundQueued
      <4> QED
        BY <3>1, <4>1 DEF NewRow
    <3>2. CASE j # Upload
      BY <1>3, <3>2, NoRowShape DEF FoundQueued, Present
    <3> QED
      BY <3>1, <3>2
  <2> QED
    BY <1>1, <1>2, <1>3, <2>1 DEF Library, Filed, FoundQueued
<1>4. ASSUME NEW file, NEW size, NEW legacy \in BOOLEAN, FoundDone(file, size, legacy)
      PROVE  Library
  <2>1. \A j \in Jobs : rows[j] = IF j = Upload THEN DoneUpload(file, size)
                                  ELSE IF j = 1 /\ legacy THEN LegacyEdit ELSE NoRow
    BY <1>4 DEF FoundDone, Upload
  <2>2. \A j \in Jobs : Present(j) => (j = Upload \/ (j = 1 /\ legacy)) /\ rows[j].thumbnail = FALSE
    BY <2>1, FoundRowShape, NoRowShape DEF Present
  <2>3. \A j \in Jobs : Present(j) => OutputKey(j) \in DOMAIN store /\ SourceKey \in DOMAIN store
    BY <1>4, <2>2 DEF FoundDone
  <2> QED
    BY <1>1, <1>2, <2>2, <2>3 DEF Library, Filed
<1> QED
  BY <1>3, <1>4, InitFinds

\* The keys of different videos are different.
LEMMA KeysDiffer ==
    /\ \A i, j : OutputKey(i) = OutputKey(j) => i = j
    /\ \A i, j : ThumbnailKey(i) = ThumbnailKey(j) => i = j
    /\ \A i, j : OutputKey(i) # ThumbnailKey(j)
    /\ \A i : OutputKey(i) # SourceKey /\ ThumbnailKey(i) # SourceKey
  BY DEF OutputKey, ThumbnailKey, SourceKey

\* What a delete takes is the video's own.
LEMMA DeleteTakesOwn ==
    ASSUME EditTyped, NEW i \in Jobs, Present(i), NEW j \in Jobs, j # i
    PROVE  /\ OutputKey(j) \notin KeysOf(i) /\ ThumbnailKey(j) \notin KeysOf(i)
           /\ j = Upload => SourceKey \notin KeysOf(i)
<1>1. IsUpload(i) => i = Upload /\ rows[i].source = SourceKey
  BY DEF EditTyped, Shaped, Jobs
<1> QED
  BY <1>1, KeysDiffer DEF KeysOf

LEMMA LibraryStep ==
    ASSUME EditTyped, Library, [Next]_vars
    PROVE  Library'
<1>1. DOMAIN rows = Jobs /\ \A j \in Jobs : DOMAIN rows[j] = Columns
  BY DEF EditTyped, Shaped
<1>2. \A j \in Jobs : InUse(j) => InUse(j)'
  BY KnownGrows DEF InUse
<1>3. \A j \in Jobs : Present(j) => InUse(j)
  BY DEF EditTyped, Shaped, InUse, Jobs
<1>4. run.step # "idle" => run.job \in Jobs /\ InUse(run.job)
  BY DEF EditTyped, Shaped, Library
(* Steps that leave the files, the run and what is removed alone.          *)
<1>5. ASSUME UNCHANGED <<store, run, removing>>,
             \A j \in Jobs : Present(j)' =>
                 /\ Present(j)
                 /\ rows'[j].output => rows[j].output
                 /\ rows'[j].thumbnail => rows[j].thumbnail
      PROVE  Library'
  BY <1>2, <1>4, <1>5 DEF Library, Takes, Filed, InUse
(* Steps of the run that leave the rows alone.                             *)
<1>6. ASSUME rows' = rows, removing' = removing, DOMAIN store \subseteq DOMAIN store',
             run.step # "idle", run'.job = run.job,
             run'.step = "record" =>
                 /\ OutputKey(run.job) \in DOMAIN store'
                 /\ run'.thumbnail => ThumbnailKey(run.job) \in DOMAIN store'
      PROVE  Library'
  BY <1>2, <1>4, <1>6 DEF Library, Takes, Filed, InUse, Present
<1>10. ASSUME NEW j \in Jobs, NEW request \in Requests, AskEdit(j, request) PROVE Library'
  BY <1>5, <1>10 DEF AskEdit, Present
<1>11. ASSUME NEW e \in Edits, CreateEdit(e) PROVE Library'
  <2>1. /\ e \in Jobs /\ e # Upload /\ e \notin DOMAIN known
        /\ UNCHANGED <<store, run, removing>>
    BY <1>11 DEF CreateEdit, Jobs, Edits, Upload
  <2>2. /\ rows'[e].output = FALSE /\ rows'[e].thumbnail = FALSE
        /\ \A j \in Jobs \ {e} : rows'[j] = rows[j]
    <3>1. rows'[e] = NewRow(call.source, call.request)
      BY <1>1, <1>11, <2>1 DEF CreateEdit
    <3> QED
      BY <1>1, <1>11, <3>1 DEF CreateEdit, NewRow
  <2>3. ~ InUse(e) /\ ~ Takes(e) /\ (run.step # "idle" => run.job # e)
    BY <1>4, <2>1 DEF Library, InUse
  <2>4. \A j \in Jobs : Takes(j)' <=> Takes(j)
    BY <2>1 DEF Takes
  <2>5. \A j \in Jobs : Present(j)' => Filed(j)'
    BY <2>1, <2>2, <2>3 DEF Library, Filed, Present
  <2>6. \A j \in Jobs : Takes(j)' => ~ Present(j)' /\ InUse(j)'
    BY <1>2, <2>2, <2>3, <2>4 DEF Library, Present
  <2>7. (run.step # "idle" => InUse(run.job))'
    BY <1>2, <1>4, <2>1 DEF InUse
  <2> QED
    BY <2>5, <2>6, <2>7 DEF Library
<1>12. CASE Deliver
  BY <1>5, <1>12 DEF Deliver, Present
<1>13. CASE DeliveryRefused
  <2>1. call.job \in Jobs
    BY <1>13 DEF DeliveryRefused, EditTyped, Shaped, Jobs
  <2>2. rows'[call.job] = NoRow /\ \A j \in Jobs \ {call.job} : rows'[j] = rows[j]
    BY <1>1, <1>13, <2>1 DEF DeliveryRefused
  <2> QED
    BY <1>5, <1>13, <2>2, NoRowShape DEF DeliveryRefused, Present
<1>14. ASSUME NEW i \in Jobs, Claim(i) PROVE Library'
  <2>1. CASE rows[i].status = "queued"
    <3>1. /\ rows'[i].output = FALSE /\ rows'[i].thumbnail = FALSE
          /\ \A j \in Jobs \ {i} : rows'[j] = rows[j]
      BY <1>1, <1>14, <2>1 DEF Claim, Columns
    <3>2. Present(i) /\ InUse(i)
      BY <1>3, <2>1 DEF Present
    <3>3. run'.step = "open" /\ run'.job = i /\ UNCHANGED <<store, removing>>
      BY <1>14, <2>1 DEF Claim
    <3>4. \A j \in Jobs : Present(j)' => Filed(j)'
      BY <3>1, <3>2, <3>3 DEF Library, Filed, Present
    <3>5. \A j \in Jobs : Takes(j)' => ~ Present(j)' /\ InUse(j)'
      BY <1>2, <3>1, <3>2, <3>3 DEF Library, Takes, Present
    <3> QED
      BY <1>2, <3>2, <3>3, <3>4, <3>5 DEF Library, InUse
  <2>2. CASE rows[i].status # "queued"
    BY <1>5, <1>14, <2>2 DEF Claim, Present
  <2> QED
    BY <2>1, <2>2
<1>15. CASE OpenSource
  <2>1. run'.step \in {"work", "fail"} /\ run'.job = run.job
    BY <1>15 DEF OpenSource, Fails
  <2> QED
    BY <1>6, <1>15, <2>1 DEF OpenSource
<1>16. CASE Work
  <2>1. CASE Result.ok
    <3>1. /\ DOMAIN store \subseteq DOMAIN store' /\ run'.job = run.job
          /\ OutputKey(run.job) \in DOMAIN store'
          /\ run'.thumbnail => ThumbnailKey(run.job) \in DOMAIN store'
      BY <1>16, <2>1, WorkStores
    <3> QED
      BY <1>6, <1>16, <3>1 DEF Work
  <2>2. CASE ~ Result.ok
    BY <1>6, <1>16, <2>2 DEF Work, Fails
  <2> QED
    BY <2>1, <2>2
<1>17. CASE WorkTrouble
  BY <1>6, <1>17 DEF WorkTrouble, Fails
<1>18. CASE RecordDone
  <2>1. /\ run.job \in Jobs /\ run.step = "record" /\ run'.step = "idle"
        /\ UNCHANGED <<store, removing>>
    BY <1>4, <1>18 DEF RecordDone, NoRun
  <2>2. CASE rows[run.job].status = "processing"
    <3>1. /\ rows'[run.job].thumbnail = run.thumbnail /\ Present(run.job)
          /\ \A j \in Jobs \ {run.job} : rows'[j] = rows[j]
      BY <1>1, <1>18, <2>1, <2>2 DEF RecordDone, Columns, Present
    <3>2. Filed(run.job)
      BY <2>1, <3>1 DEF Library
    <3>3. \A j \in Jobs : Present(j)' => Filed(j)'
      BY <2>1, <3>1, <3>2 DEF Library, Filed, Present
    <3>4. \A j \in Jobs : Takes(j)' => ~ Present(j)' /\ InUse(j)'
      BY <1>2, <2>1, <3>1 DEF Library, Takes, Present
    <3> QED
      BY <2>1, <3>3, <3>4 DEF Library
  <2>3. CASE rows[run.job].status # "processing"
    <3>1. rows' = rows
      BY <1>18, <2>3 DEF RecordDone
    <3>2. \A j \in Jobs : Takes(j)' => ~ Present(j)' /\ InUse(j)'
      BY <1>2, <2>1, <3>1 DEF Library, Takes, Present
    <3> QED
      BY <2>1, <3>1, <3>2 DEF Library, Filed, Present
  <2> QED
    BY <2>2, <2>3
<1>19. CASE RecordFailure
  <2>1. run.job \in Jobs /\ UNCHANGED <<store, removing>> /\ run'.step = "idle"
    BY <1>4, <1>19 DEF RecordFailure, NoRun
  <2>2. \A j \in Jobs : /\ Present(j)' => Present(j)
                        /\ rows'[j].output = rows[j].output
                        /\ rows'[j].thumbnail = rows[j].thumbnail
    BY <1>1, <1>19, <2>1 DEF RecordFailure, Columns, Present
  <2>3. \A j \in Jobs : Takes(j)' => ~ Present(j)' /\ InUse(j)'
    BY <1>2, <2>1, <2>2 DEF Library, Takes
  <2> QED
    BY <2>1, <2>2, <2>3 DEF Library, Filed
<1>20. ASSUME NEW i \in Jobs, Retry(i) PROVE Library'
  <2>1. \A j \in Jobs : /\ Present(j)' => Present(j)
                        /\ rows'[j].output => rows[j].output
                        /\ rows'[j].thumbnail = rows[j].thumbnail
    BY <1>1, <1>20 DEF Retry, Columns, Present
  <2> QED
    BY <1>5, <1>20, <2>1 DEF Retry
<1>21. ASSUME NEW i \in Jobs, TrashOrRestore(i) PROVE Library'
  <2>1. \A j \in Jobs : /\ Present(j)' => Present(j)
                        /\ rows'[j].output = rows[j].output
                        /\ rows'[j].thumbnail = rows[j].thumbnail
    BY <1>1, <1>21 DEF TrashOrRestore, Columns, Present
  <2> QED
    BY <1>5, <1>21, <2>1 DEF TrashOrRestore
<1>22. ASSUME NEW i \in Jobs, DeleteRow(i) PROVE Library'
  <2>1. rows'[i] = NoRow /\ \A j \in Jobs \ {i} : rows'[j] = rows[j]
    BY <1>1, <1>22 DEF DeleteRow
  <2>2. ~ Present(i)' /\ InUse(i) /\ Present(i)
    BY <1>3, <1>22, <2>1, NoRowShape DEF DeleteRow, Present
  <2>3. \A j \in Jobs \ {i} : Takes(j)' => Takes(j)
    BY <1>22, <2>2, DeleteTakesOwn DEF DeleteRow, Takes
  <2>4. \A j \in Jobs : Takes(j)' => ~ Present(j)' /\ InUse(j)'
    BY <1>2, <2>1, <2>2, <2>3 DEF Library, Present
  <2>5. \A j \in Jobs : Present(j)' => Filed(j)'
    BY <1>22, <2>1, <2>2 DEF DeleteRow, Library, Filed, Present
  <2>6. (run.step # "idle" => InUse(run.job))'
    BY <1>2, <1>4, <1>22 DEF DeleteRow, InUse
  <2> QED
    BY <2>4, <2>5, <2>6 DEF Library
<1>23. CASE RemoveObjects
  <2>1. /\ DOMAIN store \ removing \subseteq DOMAIN store' /\ removing' = {}
        /\ UNCHANGED <<rows, run, known>>
    BY <1>23 DEF RemoveObjects
  <2>2. \A j \in Jobs : Present(j) => ~ Takes(j) /\ Filed(j)
    BY DEF Library
  <2>3. \A j \in Jobs : Present(j)' => Filed(j)'
    BY <2>1, <2>2 DEF Filed, Takes, Present
  <2> QED
    BY <1>4, <2>1, <2>3 DEF Library, Takes, InUse
<1>24. CASE UNCHANGED vars
  BY <1>5, <1>24 DEF vars, Present
<1> QED
  BY <1>10, <1>11, <1>12, <1>13, <1>14, <1>15, <1>16, <1>17, <1>18, <1>19, <1>20, <1>21, <1>22,
     <1>23, <1>24
  DEF Next

(* Every video in the library or the trash has the files its row names     *)
(* (EditJobs.LibraryIsPlayable): delete_job_storage and empty_trash take   *)
(* nothing that another video, an edit of it or a later one owns.          *)
THEOREM LibraryStaysPlayable == Spec => []LibraryIsPlayable
<1>1. Library => LibraryIsPlayable
  BY LibraryShown
<1> QED
  BY <1>1, EditTypedInit, EditTypedStep, LibraryInit, LibraryStep, PTL DEF Spec

-----------------------------------------------------------------------------
(* The media rules, which the API reads before it queues an edit and the   *)
(* worker before it runs FFmpeg.                                           *)

\* f is the frame that check_edit_operations has after each of n rules.
Judges(f, names, ops, frame, n) ==
    f = [i \in 0..n |->
            IF i = 0 THEN frame
            ELSE LET before == f[i - 1] IN
                 IF before = Refused THEN Refused
                 ELSE Rule(names[i], ops[names[i]], before)]

\* Rules that keep a frame within D let it pass.
LEMMA RulesStay ==
    ASSUME NEW ops, NEW D, NEW frame \in D, Refused \notin D,
           \A n \in DOMAIN ops, x \in D : Rule(n, ops[n], x) \in D,
           ~ (OutputFormat(ops) = "mp3" /\ DOMAIN ops \intersect ChangesPicture # {})
    PROVE  CheckEditOperations(ops, frame) \in D
<1> DEFINE names == ordered(DOMAIN ops)
           n == Len(names)
           F == [i \in 1..n |-> [x \in D |-> Rule(names[i], ops[names[i]], x)]]
           c == CHOOSE f : Judges(f, names, ops, frame, n)
<1>1. names \in Seq(ToSet(OPERATION_ORDER)) /\ ToSet(names) = ToSet(OPERATION_ORDER) \cap DOMAIN ops
  <2> DEFINE s == OPERATION_ORDER
             T == ToSet(OPERATION_ORDER)
  <2>1. DOMAIN s = 1..10 /\ s = [i \in 1..10 |-> s[i]]
    BY DEF OPERATION_ORDER
  <2>2. \A i \in 1..10 : s[i] \in T
    BY <2>1 DEF ToSet
  <2>3. s \in [1..10 -> T]
    <3> HIDE DEF s, T
    <3> QED
      BY <2>1, <2>2
  <2>4. s \in Seq(T)
    <3> HIDE DEF s, T
    <3> QED
      BY <2>3, ListIsSequence
  <2> QED
    BY <2>4, AmongKeeps DEF ordered
<1>2. n \in Nat /\ \A i \in 1..n : names[i] \in DOMAIN ops
  <2>1. n \in Nat /\ DOMAIN names = 1..n
    BY <1>1
  <2>2. \A i \in 1..n : names[i] \in ToSet(names)
    <3> HIDE DEF names
    <3> QED
      BY <2>1 DEF ToSet
  <2> HIDE DEF names
  <2> QED
    BY <1>1, <2>1, <2>2
<1> HIDE DEF names
<1>3. F \in [1..n -> [D -> D]]
  <2>1. \A i \in 1..n : \A x \in D : Rule(names[i], ops[names[i]], x) \in D
    <3> HIDE DEF n
    <3> QED
      BY <1>2
  <2> HIDE DEF n
  <2> QED
    BY <2>1
<1>4. Judges(c, names, ops, frame, n)
  <2>1. PICK f \in [0..n -> D] : f[0] = frame /\ \A i \in 1..n : f[i] = F[i][f[i - 1]]
    <3> HIDE DEF n, F
    <3> QED
      BY <1>2, <1>3, Recursion
  <2>2. ASSUME NEW i \in 0..n
        PROVE  f[i] = IF i = 0 THEN frame
                      ELSE IF f[i - 1] = Refused THEN Refused
                           ELSE Rule(names[i], ops[names[i]], f[i - 1])
    <3>1. CASE i = 0
      BY <2>1, <3>1
    <3>2. CASE i # 0
      <4>1. i \in 1..n /\ i - 1 \in 0..n
        <5> HIDE DEF n
        <5> QED
          BY <1>2, <3>2
      <4>2. f[i - 1] \in D /\ f[i] = F[i][f[i - 1]]
        <5> HIDE DEF F, n
        <5> QED
          BY <2>1, <4>1
      <4>3. F[i][f[i - 1]] = Rule(names[i], ops[names[i]], f[i - 1])
        <5> HIDE DEF n
        <5> QED
          BY <4>1, <4>2
      <4> HIDE DEF F, n
      <4> QED
        BY <3>2, <4>2, <4>3
    <3> QED
      BY <3>1, <3>2
  <2>3. Judges(f, names, ops, frame, n)
    <3>1. f = [i \in 0..n |-> f[i]]
      BY <2>1
    <3> HIDE DEF n
    <3> QED
      BY <2>2, <3>1 DEF Judges
  <2> HIDE DEF n
  <2> QED
    BY <2>3
<1>5. CheckEditOperations(ops, frame) = c[n]
  BY DEF CheckEditOperations, Judges, names
<1>6. \A i \in 0..n : c[i] \in D
  <2> HIDE DEF c, n
  <2>1. c[0] = frame
    BY <1>2, <1>4 DEF Judges
  <2>2. ASSUME NEW i \in 1..n, c[i - 1] \in D PROVE c[i] \in D
    <3>1. i \in 0..n /\ i # 0
      BY <1>2
    <3>2. c[i] = IF c[i - 1] = Refused THEN Refused
                 ELSE Rule(names[i], ops[names[i]], c[i - 1])
      BY <1>4, <3>1 DEF Judges
    <3> QED
      BY <1>2, <2>2, <3>2
  <2> QED
    BY <1>2, <2>1, <2>2, StaysIn
<1> HIDE DEF c, n
<1> QED
  BY <1>2, <1>5, <1>6

\* The API and the worker keep requests as they came: lists, without the
\* same operation twice.
Listed(request) == DOMAIN request = 1..Len(request)

\* So each operation has its own params, which the schema accepted.
LEMMA NamedAreValid ==
    ASSUME NEW request, IsEditRequest(request), Listed(request),
           NEW n \in Names(request)
    PROVE  /\ DOMAIN Named(request) = Names(request)
           /\ ParamsAreValid(n, Named(request)[n])
<1>1. PICK i \in DOMAIN request : request[i].operation = n
  BY DEF Names
<1>2. {k \in DOMAIN request : request[k].operation = n} = {i}
  BY <1>1 DEF IsEditRequest
<1>3. i \in Int
  <2>1. DOMAIN request = 1..Len(request) /\ Len(request) \in 1..Len(OPERATION_ORDER)
    BY DEF IsEditRequest, Listed
  <2>2. Len(OPERATION_ORDER) = 10
    BY DEF OPERATION_ORDER
  <2> QED
    BY <1>1, <2>1, <2>2
<1>4. Max({i}) = i
  BY <1>3 DEF Max
<1>5. Named(request)[n] = request[i].params
  BY <1>2, <1>4 DEF Named
<1> QED
  BY <1>1, <1>5 DEF IsEditRequest, Named

Scales == {"downscale", "upscale"}

\* A request that does not scale is refused for mixing a picture change with
\* MP3, and for nothing else, whatever the frame.
LEMMA OnlyScalesAreRefused ==
    ASSUME NEW request, IsEditRequest(request), Listed(request),
           Names(request) \intersect Scales = {},
           NEW a, NEW b, a # -1, b # -1,
           ~ (/\ OutputFormat(Named(request)) = "mp3"
              /\ DOMAIN Named(request) \intersect ChangesPicture # {})
    PROVE  CheckEditOperations(Named(request), Frame(a, b)) # Refused
<1> DEFINE ops == Named(request)
           V == {a, b} \union (IF "crop" \in DOMAIN ops
                               THEN {ops["crop"].w, ops["crop"].h} ELSE {})
           D == {Frame(x, y) : x \in V, y \in V}
<1>1. DOMAIN ops = Names(request) /\ \A n \in DOMAIN ops : ParamsAreValid(n, ops[n])
  <2>1. DOMAIN ops = Names(request)
    BY DEF Named
  <2> QED
    BY <2>1, NamedAreValid
<1>2. -1 \notin V
  <2>1. "crop" \in DOMAIN ops => ops["crop"].w > 0 /\ ops["crop"].h > 0
    <3> HIDE DEF ops
    <3> QED
      BY <1>1 DEF ParamsAreValid
  <2> HIDE DEF ops
  <2> QED
    BY <2>1
<1>3. Refused \notin D
  <2> HIDE DEF V
  <2> SUFFICES ASSUME NEW x \in V, NEW y \in V, Refused = Frame(x, y) PROVE FALSE
    OBVIOUS
  <2>1. Refused.width = -1 /\ Frame(x, y).width = x
    BY DEF Refused, Frame
  <2> QED
    BY <1>2, <2>1
<1>4. Frame(a, b) \in D
  OBVIOUS
<1>5. ASSUME NEW n \in DOMAIN ops, NEW frame \in D PROVE Rule(n, ops[n], frame) \in D
  <2>1. n \notin Scales
    BY <1>1
  <2>2. PICK x \in V, y \in V : frame = Frame(x, y)
    <3> HIDE DEF V
    <3> QED
      OBVIOUS
  <2>3. frame.width = x /\ frame.height = y
    BY <2>2 DEF Frame
  <2>4. CASE n = "crop"
    <3>1. Rule(n, ops[n], frame) = Frame(ops["crop"].w, ops["crop"].h)
      BY <2>4 DEF Rule
    <3> HIDE DEF ops
    <3>2. ops["crop"].w \in V /\ ops["crop"].h \in V
      BY <2>4
    <3> HIDE DEF V
    <3> QED
      BY <3>1, <3>2
  <2>5. CASE n # "crop"
    <3>1. Rule(n, ops[n], frame) \in {frame, Frame(y, x)}
      <4> HIDE DEF ops, V, D
      <4> QED
        BY <2>1, <2>3, <2>5 DEF Rule, Scales
    <3> HIDE DEF ops, V
    <3> QED
      BY <2>2, <3>1
  <2> QED
    BY <2>4, <2>5
<1> HIDE DEF D, V
<1> QED
  BY <1>3, <1>4, <1>5, RulesStay

\* What the API let pass, and what the worker may still say of it.
Approved(request, frame) ==
    /\ Listed(request) /\ IsEditRequest(request)
    /\ CheckEditOperations(Named(request), frame) # Refused
Excused(why, request, frame) ==
    /\ why \notin {"request", "command"}
    /\ why = "rules" => frame = NoSize /\ Names(request) \intersect Scales # {}

\* EditProcessor.run on a request that the API approved of, knowing either
\* nothing of the file or its size.
LEMMA ResultIsExcused ==
    ASSUME NEW request, NEW file, NEW frame \in {NoSize, DisplaySize(file)},
           Approved(request, frame), ~ EditResult(request, file).ok
    PROVE  Excused(EditResult(request, file).why, request, frame)
<1> DEFINE ops == Named(request)
           command == BuildEditCommand(ops, Probes(file) /\ file.hdr)
           why == EditResult(request, file).why
<1>1. ~ (OutputFormat(ops) = "mp3" /\ DOMAIN ops \intersect ChangesPicture # {})
  BY DEF Approved, CheckEditOperations
<1>2. command # NoCommand
  <2>1. command.codec \in {"x264", "mp3", "copy"}
    <3> HIDE DEF ops
    <3> QED
      BY <1>1 DEF BuildEditCommand
  <2>2. NoCommand.codec = "none"
    BY DEF NoCommand
  <2> HIDE DEF command
  <2> QED
    BY <2>1, <2>2
<1>3. ASSUME NeedsProbe(ops), Probes(file),
             CheckEditOperations(ops, DisplaySize(file)) = Refused
      PROVE  frame = NoSize /\ Names(request) \intersect Scales # {}
  <2>1. frame = NoSize
    BY <1>3 DEF Approved
  <2>2. file.w # -1 /\ file.h # -1
    BY <1>3 DEF Probes
  <2>3. DisplaySize(file) \in {Frame(file.w, file.h), Frame(file.h, file.w)}
    BY DEF DisplaySize
  <2>4. Names(request) \intersect Scales # {}
    BY <1>1, <1>3, <2>2, <2>3, OnlyScalesAreRefused DEF Approved
  <2> QED
    BY <2>1, <2>4
<1>4. /\ why \in {"probe", "bounds", "rules", "encoder"}
      /\ why = "rules" => /\ NeedsProbe(ops) /\ Probes(file)
                          /\ CheckEditOperations(ops, DisplaySize(file)) = Refused
  <2>1. IsEditRequest(request)
    BY DEF Approved
  <2> DEFINE output == RunCommand(file, command)
  <2>2. EditResult(request, file) =
          IF NeedsProbe(ops) /\ ~ Probes(file) THEN Failure("probe")
          ELSE IF NeedsProbe(ops) /\ ~ (ClipFits(ops, file) /\ CropFits(ops, file))
          THEN Failure("bounds")
          ELSE IF /\ NeedsProbe(ops)
                  /\ CheckEditOperations(ops, DisplaySize(file)) = Refused
          THEN Failure("rules")
          ELSE IF command.codec = "x264" /\ ~ EncoderTakes(output)
          THEN Failure("encoder")
          ELSE [ok |-> TRUE, file |-> output]
    BY <1>2, <2>1 DEF EditResult
  <2> HIDE DEF ops, command, output
  <2>3. CASE NeedsProbe(ops) /\ ~ Probes(file)
    BY <2>2, <2>3 DEF Failure
  <2>4. CASE /\ ~ (NeedsProbe(ops) /\ ~ Probes(file))
             /\ NeedsProbe(ops) /\ ~ (ClipFits(ops, file) /\ CropFits(ops, file))
    BY <2>2, <2>4 DEF Failure
  <2>5. CASE /\ ~ (NeedsProbe(ops) /\ ~ Probes(file))
             /\ ~ (NeedsProbe(ops) /\ ~ (ClipFits(ops, file) /\ CropFits(ops, file)))
             /\ NeedsProbe(ops) /\ CheckEditOperations(ops, DisplaySize(file)) = Refused
    BY <2>2, <2>5 DEF Failure
  <2>6. CASE /\ ~ (NeedsProbe(ops) /\ ~ Probes(file))
             /\ ~ (NeedsProbe(ops) /\ ~ (ClipFits(ops, file) /\ CropFits(ops, file)))
             /\ ~ (NeedsProbe(ops) /\ CheckEditOperations(ops, DisplaySize(file)) = Refused)
    <3>1. EditResult(request, file) \in {Failure("encoder"), [ok |-> TRUE, file |-> output]}
      BY <2>2, <2>6
    <3>2. EditResult(request, file) = Failure("encoder")
      BY <3>1
    <3> QED
      BY <3>2 DEF Failure
  <2> QED
    BY <2>3, <2>4, <2>5, <2>6
<1> QED
  BY <1>3, <1>4 DEF Excused

-----------------------------------------------------------------------------
(* What the API was told of a file stays true of it.                       *)

(* Nothing will write the output of b again.                               *)
Settled(b) ==
    /\ rows[b].status \in {"done", "none"} /\ InUse(b)
    /\ run.step # "idle" => run.job # b

(* A frame that the API knew of an edit's source is the file's, which      *)
(* stays as it is for as long as it is there.                              *)
TrueOf(source, frame) ==
    frame # NoSize =>
        /\ \A b \in Jobs : source = OutputKey(b) => Settled(b)
        /\ source \in DOMAIN store => frame = DisplaySize(store[source])

AskJudged ==
    call.step = "create" =>
        Approved(call.request, call.frame) /\ TrueOf(call.source, call.frame)

RowJudged(e) ==
    /\ Approved(rows[e].operations, known[e])
    /\ TrueOf(rows[e].source, known[e])
    /\ Excused(rows[e].why, rows[e].operations, known[e])

(* The sizes in the table, which the next edit is judged by.               *)
SizesTrue ==
    /\ IsUpload(Upload)
    /\ SourceKey \in DOMAIN store =>
          rows[Upload].size \in {NoSize, DisplaySize(store[SourceKey])}
    /\ \A e \in Edits : rows[e].output /\ OutputKey(e) \in DOMAIN store =>
          rows[e].size \in {NoSize, DisplaySize(store[OutputKey(e)])}

(* The run of the upload, and of an edit.                                  *)
UploadRun ==
    /\ run.step \in {"open", "work"} => run.operations = NoOperations
    /\ run.step = "open" => run.source = SourceKey
    /\ SourceKey \in DOMAIN store =>
          /\ run.step = "work" => run.file = store[SourceKey]
          /\ run.step = "record" => run.size = DisplaySize(store[SourceKey])
EditRun ==
    /\ run.step \in {"open", "work"} =>
          /\ run.operations # NoOperations
          /\ Approved(run.operations, known[run.job])
          /\ Present(run.job) => run.operations = rows[run.job].operations
    /\ run.step = "open" => run.source \in Sources /\ TrueOf(run.source, known[run.job])
    /\ run.step = "work" => known[run.job] \in {NoSize, DisplaySize(run.file)}
    /\ run.step = "record" /\ OutputKey(run.job) \in DOMAIN store =>
          run.size \in {NoSize, DisplaySize(store[OutputKey(run.job)])}
    /\ run.step = "fail" /\ Present(run.job) =>
          Excused(run.why, rows[run.job].operations, known[run.job])
RunJudged ==
    run.step # "idle" =>
        /\ rows[run.job].status \in {"processing", "none"}
        /\ run.job = Upload => UploadRun
        /\ run.job # Upload => EditRun

Judged ==
    /\ AskJudged
    /\ \A e \in Edits : Present(e) => RowJudged(e)
    /\ SizesTrue
    /\ RunJudged

JudgedBefore == EditTyped /\ Library /\ Judged

LEMMA JudgedShown == ASSUME EditTyped, Judged PROVE ApiAndWorkerAgree
<1> SUFFICES ASSUME NEW e \in Edits
             PROVE  /\ rows[e].why \notin {"request", "command"}
                    /\ rows[e].why = "rules" =>
                          /\ known[e] = NoSize
                          /\ Names(rows[e].operations) \intersect {"downscale", "upscale"} # {}
  BY DEF ApiAndWorkerAgree
<1>1. CASE Present(e)
  BY <1>1 DEF Judged, RowJudged, Excused, Scales
<1>2. CASE ~ Present(e)
  <2>1. e \in Jobs /\ rows[e].status = "none"
    BY <1>2 DEF Present, Jobs
  <2>2. rows[e].why = NoError
    BY <2>1 DEF EditTyped, TypeOK
  <2> QED
    BY <2>2 DEF NoError
<1> QED
  BY <1>1, <1>2

\* Where a run goes.
LEMMA RunMoves ==
    ASSUME EditTyped, [Next]_vars
    PROVE  \/ run'.step = "idle"
           \/ run.step # "idle" /\ run'.job = run.job
           \/ \E i \in Jobs : /\ Claim(i) /\ rows[i].status = "queued"
                              /\ run'.step = "open" /\ run'.job = i
<1>1. CASE run' = run
  BY <1>1
<1>2. ASSUME NEW i \in Jobs, Claim(i) PROVE run' = run \/ (rows[i].status = "queued" /\ run'.step = "open" /\ run'.job = i)
  BY <1>2 DEF Claim
<1>3. CASE OpenSource \/ WorkTrouble
  BY <1>3 DEF OpenSource, WorkTrouble, Fails
<1>4. CASE Work
  <2>1. CASE Result.ok
    BY <1>4, <2>1, WorkStores DEF Work
  <2>2. CASE ~ Result.ok
    BY <1>4, <2>2 DEF Work, Fails
  <2> QED
    BY <2>1, <2>2
<1>5. CASE RecordDone \/ RecordFailure
  BY <1>5 DEF RecordDone, RecordFailure, NoRun
<1>6. (~ \E i \in Jobs : Claim(i)) /\ ~ OpenSource /\ ~ Work /\ ~ WorkTrouble
          /\ ~ RecordDone /\ ~ RecordFailure => run' = run
  BY DEF Next, vars, AskEdit, CreateEdit, Deliver, DeliveryRefused, Retry, TrashOrRestore,
         DeleteRow, RemoveObjects
<1> QED
  BY <1>1, <1>2, <1>3, <1>4, <1>5, <1>6

\* What a run that worked has stored and is about to record.
LEMMA WorkRecords ==
    ASSUME EditTyped, Work, Result.ok
    PROVE  /\ run'.size \in {SizeToRecord(Result.file), NoSize}
           /\ run.operations = NoOperations => run'.size = SizeToRecord(Result.file)
           /\ store'[OutputKey(run.job)] = Result.file
           /\ \A k \in DOMAIN store' :
                 \/ k \in {OutputKey(run.job), ThumbnailKey(run.job)}
                 \/ k \in DOMAIN store /\ store'[k] = store[k]
<1>1. PICK size \in {SizeToRecord(Result.file), NoSize}, thumbnail \in BOOLEAN :
        /\ size # SizeToRecord(Result.file) => run.operations # NoOperations
        /\ store' = [k \in DOMAIN store \union {OutputKey(run.job)}
                             \union (IF thumbnail THEN {ThumbnailKey(run.job)} ELSE {}) |->
                        IF k \in {OutputKey(run.job), ThumbnailKey(run.job)}
                        THEN Result.file ELSE store[k]]
        /\ run' = [step |-> "record", job |-> run.job, from |-> run.file,
                   operations |-> run.operations, size |-> size, thumbnail |-> thumbnail]
  BY DEF Work
<1>2. run'.size = size
  BY <1>1
<1>3. \A k \in DOMAIN store' :
         \/ k \in {OutputKey(run.job), ThumbnailKey(run.job)}
         \/ k \in DOMAIN store /\ store'[k] = store[k]
  BY <1>1
<1>4. store'[OutputKey(run.job)] = Result.file
  BY <1>1
<1> QED
  BY <1>1, <1>2, <1>3, <1>4

\* What is stored under the keys of sources and settled outputs stays as it
\* is, until it is removed.
LEMMA SettledStays ==
    ASSUME EditTyped, [Next]_vars, NEW b \in Jobs, Settled(b)
    PROVE  Settled(b)'
<1>1. InUse(b)'
  BY KnownGrows DEF Settled, InUse
<1>2. run'.step # "idle" => run'.job # b
  BY RunMoves DEF Settled
<1>3. rows'[b].status \in {"done", "none"}
  <2>1. CASE OneRowMoves
    BY <2>1 DEF OneRowMoves, RowMove, Claimed, Recorded, GaveUp, Retried, Hidden, Settled
  <2>2. ASSUME NEW e \in Edits, CreateEdit(e) PROVE rows'[b].status \in {"done", "none"}
    <3>1. e # b /\ e \in Jobs
      BY <2>2 DEF CreateEdit, Settled, InUse, Edits, Upload, Jobs
    <3>2. rows'[b] = rows[b]
      BY <2>2, <3>1 DEF CreateEdit, EditTyped, Shaped
    <3> QED
      BY <3>2 DEF Settled
  <2>3. ASSUME NEW i \in Jobs, rows' = [rows EXCEPT ![i] = NoRow]
        PROVE  rows'[b].status \in {"done", "none"}
    <3>1. rows'[b] = rows[b] \/ rows'[b] = NoRow
      BY <2>3 DEF EditTyped, Shaped
    <3> QED
      BY <3>1, NoRowShape DEF Settled
  <2>4. ASSUME NEW i \in Jobs, DeleteRow(i) PROVE rows'[b].status \in {"done", "none"}
    BY <2>3, <2>4 DEF DeleteRow
  <2>5. CASE DeliveryRefused
    <3>1. call.job \in Jobs
      BY <2>5 DEF DeliveryRefused, EditTyped, Shaped, Jobs
    <3> QED
      BY <2>3, <2>5, <3>1 DEF DeliveryRefused
  <2> QED
    BY <2>1, <2>2, <2>4, <2>5, RowsMove
<1> QED
  BY <1>1, <1>2, <1>3 DEF Settled

\* Only Work writes, and only its own job's keys.
LEMMA StoreMoves ==
    ASSUME EditTyped, [Next]_vars, NEW k \in DOMAIN store'
    PROVE  \/ k \in DOMAIN store /\ store'[k] = store[k]
           \/ Work /\ Result.ok /\ k \in {OutputKey(run.job), ThumbnailKey(run.job)}
<1>1. CASE store' = store
  BY <1>1
<1>2. CASE RemoveObjects
  BY <1>2 DEF RemoveObjects
<1>3. CASE Work
  <2>1. CASE Result.ok
    BY <1>3, <2>1, WorkRecords
  <2>2. CASE ~ Result.ok
    BY <1>1, <1>3, <2>2 DEF Work
  <2> QED
    BY <2>1, <2>2
<1>4. ~ RemoveObjects /\ ~ Work => store' = store
  BY DEF Next, vars, AskEdit, CreateEdit, Deliver, DeliveryRefused, Claim, OpenSource, WorkTrouble,
         RecordDone, RecordFailure, Retry, TrashOrRestore, DeleteRow
<1> QED
  BY <1>1, <1>2, <1>3, <1>4

TrueLater(source, frame) ==
    frame # NoSize =>
        /\ \A b \in Jobs : source = OutputKey(b) => Settled(b)'
        /\ source \in DOMAIN store' => frame = DisplaySize(store'[source])

LEMMA TruthStays ==
    ASSUME EditTyped, [Next]_vars, NEW source \in Sources, NEW frame, TrueOf(source, frame)
    PROVE  TrueLater(source, frame)
<1> SUFFICES ASSUME frame # NoSize
             PROVE  /\ \A b \in Jobs : source = OutputKey(b) => Settled(b)'
                    /\ source \in DOMAIN store' => frame = DisplaySize(store'[source])
  BY DEF TrueLater
<1>1. \A b \in Jobs : source = OutputKey(b) => Settled(b)
  BY DEF TrueOf
<1>2. \A b \in Jobs : source = OutputKey(b) => Settled(b)'
  BY <1>1, SettledStays
<1>3. ASSUME source \in DOMAIN store' PROVE frame = DisplaySize(store'[source])
  <2>1. CASE source \in DOMAIN store /\ store'[source] = store[source]
    BY <2>1 DEF TrueOf
  <2>2. CASE Work /\ source \in {OutputKey(run.job), ThumbnailKey(run.job)}
    <3>1. run.step # "idle" /\ run.job \in Jobs
      BY <2>2 DEF Work, EditTyped, Shaped
    <3>2. source = OutputKey(run.job)
      BY <2>2, KeysDiffer DEF Sources
    <3>3. Settled(run.job)
      BY <1>1, <3>1, <3>2
    <3> QED
      BY <3>1, <3>3 DEF Settled
  <2> QED
    BY <1>3, <2>1, <2>2, StoreMoves
<1> QED
  BY <1>2, <1>3

\* What the row of an edit from before sprint 5 asked for the rules allow.
LEMMA LegacyIsApproved == Approved(LegacyEdit.operations, NoSize)
<1> DEFINE request == <<[operation |-> "flip", params |-> [axis |-> "vertical"]]>>
<1>1. LegacyEdit.operations = request
  BY DEF LegacyEdit, NewRow
<1>2. DOMAIN request = {1} /\ Len(request) = 1 /\ request[1].operation = "flip"
      /\ request[1].params.axis = "vertical"
  OBVIOUS
<1> HIDE DEF request
<1>3. Names(request) = {"flip"} /\ Listed(request)
  BY <1>2 DEF Names, Listed
<1>4. IsEditRequest(request)
  <2>1. ParamsAreValid(request[1].operation, request[1].params)
    BY <1>2 DEF ParamsAreValid
  <2>2. Len(request) \in 1..Len(OPERATION_ORDER)
    BY <1>2 DEF OPERATION_ORDER
  <2> QED
    BY <1>2, <1>3, <2>1, <2>2 DEF IsEditRequest
<1>5. OutputFormat(Named(request)) = "mp4" /\ DOMAIN Named(request) = {"flip"}
  BY <1>3 DEF OutputFormat, Named
<1>6. CheckEditOperations(Named(request), Frame(Unknown, Unknown)) # Refused
  BY <1>3, <1>4, <1>5, OnlyScalesAreRefused DEF Unknown, Scales
<1> QED
  BY <1>1, <1>3, <1>4, <1>6 DEF Approved, NoSize

LEMMA JudgedInit == Init => Judged
<1> SUFFICES ASSUME Init PROVE Judged
  OBVIOUS
<1>1. call.step = "idle" /\ run.step = "idle"
  BY DEF Init, NoCall, NoRun
<1>2. AskJudged /\ RunJudged
  BY <1>1 DEF AskJudged, RunJudged
<1>3. \A e \in Edits : e # Upload /\ e \in Jobs
  BY DEF Edits, Jobs, Upload
<1>4. Upload \in Jobs
  BY DEF Jobs
<1>5. NewRow(SourceKey, NoOperations).operations = NoOperations
      /\ NewRow(SourceKey, NoOperations).size = NoSize
  BY DEF NewRow
<1>6. NoRow.operations = NoOperations /\ NoRow.size = NoSize
  BY DEF NoRow, NewRow
<1>7. CASE FoundQueued
  <2>1. rows[Upload] = NewRow(SourceKey, NoOperations)
    BY <1>4, <1>7 DEF FoundQueued
  <2>2. \A e \in Edits : rows[e] = NoRow
    BY <1>3, <1>7 DEF FoundQueued
  <2>3. \A e \in Edits : ~ Present(e) /\ ~ rows[e].output
    BY <2>2, NoRowShape DEF Present
  <2> QED
    BY <1>2, <1>5, <2>1, <2>3 DEF Judged, SizesTrue, IsUpload
<1>8. ASSUME NEW file, NEW size, NEW legacy \in BOOLEAN, FoundDone(file, size, legacy)
      PROVE  Judged
  <2>1. \A j \in Jobs : rows[j] = IF j = Upload THEN DoneUpload(file, size)
                                  ELSE IF j = 1 /\ legacy THEN LegacyEdit ELSE NoRow
    BY <1>8 DEF FoundDone, Upload
  <2>2. rows[Upload].operations = NoOperations /\ rows[Upload].size = size
    <3>1. rows[Upload] = DoneUpload(file, size)
      BY <1>4, <2>1
    <3> QED
      BY <3>1 DEF DoneUpload, NewRow
  <2>3. LegacyEdit.size = NoSize
    BY DEF LegacyEdit, NewRow
  <2>4. SizesTrue
    <3>1. \A e \in Edits : rows[e].size = NoSize
      BY <1>3, <1>6, <2>1, <2>3
    <3> QED
      BY <1>8, <2>2, <3>1 DEF SizesTrue, IsUpload, FoundDone
  <2>5. ASSUME NEW e \in Edits, Present(e) PROVE RowJudged(e)
    <3>1. e = 1 /\ legacy /\ rows[e] = LegacyEdit
      BY <1>3, <2>1, <2>5, NoRowShape DEF Present
    <3>2. known[e] = NoSize
      BY <1>8, <3>1 DEF FoundDone
    <3>3. Excused(NoError, rows[e].operations, known[e])
      BY DEF Excused, NoError
    <3> QED
      BY <3>1, <3>2, <3>3, LegacyIsApproved, FoundRowShape DEF RowJudged, TrueOf
  <2> QED
    BY <1>2, <2>4, <2>5 DEF Judged
<1> QED
  BY <1>7, <1>8, InitFinds

\* The request being handled: what edit_job_by_id reads of the base is true
\* of the file that the edit will start from.
LEMMA AskIsJudged ==
    ASSUME JudgedBefore, NEW j \in Jobs, NEW request \in Requests, AskEdit(j, request)
    PROVE  AskJudged'
<1> DEFINE base == EditBase(j)
<1>1. /\ EditTyped /\ Library /\ SizesTrue /\ RunJudged
  BY DEF JudgedBefore, Judged
<1>2. Present(j) /\ rows[j].status = "done" /\ rows[j].output
  BY DEF AskEdit, Visible, IsDone
<1>3. base \in Jobs /\ Present(base)
  BY <1>2, BaseIsPresent
<1>4. Approved(request, KnownFrame(base))
  BY EditBounds DEF AskEdit, Approved, Listed
<1>5. call' = [step |-> "create", source |-> EditSource(base), request |-> request,
               frame |-> KnownFrame(base)]
  BY DEF AskEdit
<1>6. UNCHANGED <<rows, store, run, known>>
  BY DEF AskEdit
<1>7. \A file : Frame(DisplaySize(file).width, DisplaySize(file).height) = DisplaySize(file)
  BY DEF DisplaySize, Frame
<1>8. Frame(NoSize.width, NoSize.height) = NoSize
  BY DEF NoSize, Frame
<1>9. TrueOf(EditSource(base), KnownFrame(base))
  <2>1. CASE IsUpload(base)
    <3>1. base = Upload
      BY <1>1, <1>3, <2>1 DEF EditTyped, Shaped, Jobs
    <3>2. EditSource(base) = SourceKey
      BY <1>1, <2>1, <3>1 DEF EditSource, EditTyped, Shaped
    <3>3. SourceKey \in DOMAIN store
      BY <1>1, <1>3, <3>1 DEF Library, Filed
    <3>4. rows[base].size \in {NoSize, DisplaySize(store[SourceKey])}
      BY <1>1, <3>1, <3>3 DEF SizesTrue
    <3>5. KnownFrame(base) = rows[base].size
      BY <1>7, <1>8, <3>4 DEF KnownFrame, EditableHeight
    <3> QED
      BY <3>2, <3>4, <3>5, KeysDiffer DEF TrueOf
  <2>2. CASE ~ IsUpload(base)
    <3>1. base = j
      BY <2>2 DEF EditBase
    <3>2. base # Upload /\ base \in Edits
      BY <1>1, <1>3, <2>2 DEF SizesTrue, Jobs
    <3>3. EditSource(base) = OutputKey(base)
      BY <2>2 DEF EditSource
    <3>4. OutputKey(base) \in DOMAIN store
      BY <1>1, <1>2, <1>3, <3>1 DEF Library, Filed
    <3>5. rows[base].size \in {NoSize, DisplaySize(store[OutputKey(base)])}
      BY <1>1, <1>2, <3>1, <3>2, <3>4 DEF SizesTrue
    <3>6. KnownFrame(base) = rows[base].size
      BY <1>7, <1>8, <3>5 DEF KnownFrame, EditableHeight
    <3>7. Settled(base)
      <4>1. InUse(base)
        BY <1>1, <1>3, <3>2 DEF EditTyped, Shaped, InUse
      <4>2. run.step # "idle" => run.job # base
        BY <1>1, <1>2, <3>1 DEF RunJudged
      <4> QED
        BY <1>2, <3>1, <4>1, <4>2 DEF Settled
    <3>8. \A b \in Jobs : EditSource(base) = OutputKey(b) => b = base
      BY <3>3, KeysDiffer
    <3> HIDE DEF base
    <3> QED
      BY <3>3, <3>5, <3>6, <3>7, <3>8 DEF TrueOf
  <2> QED
    BY <2>1, <2>2
<1> HIDE DEF base
<1>10. call'.request = request /\ call'.frame = KnownFrame(base) /\ call'.source = EditSource(base)
  BY <1>5
<1>11. TrueOf(EditSource(base), KnownFrame(base)) => TrueOf(call.source, call.frame)'
  BY <1>6, <1>10 DEF TrueOf, Settled, InUse
<1> QED
  BY <1>4, <1>9, <1>10, <1>11 DEF AskJudged

LEMMA AskJudgedStep ==
    ASSUME JudgedBefore, [Next]_vars
    PROVE  AskJudged'
<1>1. EditTyped /\ AskJudged
  BY DEF JudgedBefore, Judged
<1>2. CASE call' = call
  <2> SUFFICES ASSUME call.step = "create"
               PROVE  (Approved(call.request, call.frame) /\ TrueOf(call.source, call.frame))'
    BY <1>2 DEF AskJudged
  <2>1. call.source \in Sources
    BY <1>1 DEF EditTyped, Shaped
  <2>2. Approved(call.request, call.frame) /\ TrueOf(call.source, call.frame)
    BY <1>1 DEF AskJudged
  <2>3. TrueLater(call.source, call.frame)
    BY <1>1, <2>1, <2>2, TruthStays
  <2> QED
    BY <1>2, <2>2, <2>3 DEF TrueLater, TrueOf
<1>3. CASE call'.step # "create"
  BY <1>3 DEF AskJudged
<1>4. ASSUME NEW e \in Edits, CreateEdit(e) PROVE call'.step # "create"
  BY <1>4 DEF CreateEdit
<1>5. Deliver \/ DeliveryRefused => call'.step # "create"
  BY DEF Deliver, DeliveryRefused, NoCall
<1>6. /\ ~ \E j \in Jobs, request \in Requests : AskEdit(j, request)
      /\ ~ \E e \in Edits : CreateEdit(e)
      /\ ~ Deliver /\ ~ DeliveryRefused
      => call' = call
  BY DEF Next, vars, Claim, OpenSource, Work, WorkTrouble,
         RecordDone, RecordFailure, Retry, TrashOrRestore, DeleteRow, RemoveObjects
<1> QED
  BY <1>2, <1>3, <1>4, <1>5, <1>6, AskIsJudged

\* A present edit's row: only a failure the run gave up with changes what
\* it says of itself.
LEMMA RowsJudgedStep ==
    ASSUME JudgedBefore, [Next]_vars
    PROVE  \A e \in Edits : Present(e)' => RowJudged(e)'
<1>1. EditTyped /\ Library /\ RunJudged /\ AskJudged /\ \A e \in Edits : Present(e) => RowJudged(e)
  BY DEF JudgedBefore, Judged
<1>2. \A j \in Jobs : rows[j].source \in Sources
  BY <1>1 DEF EditTyped, TypeOK, Sources
(* A row that only the run may have changed.                               *)
<1>3. ASSUME NEW e \in Edits, Present(e), e \in Jobs, RowMove(e), known'[e] = known[e],
             rows'[e].source = rows[e].source, rows'[e].operations = rows[e].operations
      PROVE  RowJudged(e)'
  <2>1. RowJudged(e)
    BY <1>1, <1>3
  <2>2. TrueLater(rows[e].source, known[e])
    BY <1>1, <1>2, <1>3, <2>1, TruthStays DEF RowJudged
  <2>3. Excused(rows'[e].why, rows[e].operations, known[e])
    <3>1. CASE rows'[e].why = rows[e].why
      BY <2>1, <3>1 DEF RowJudged
    <3>2. CASE rows'[e].why = NoError
      BY <3>2 DEF Excused, NoError
    <3>3. CASE GaveUp(e)
      <4>1. run.step = "fail" /\ run.job = e /\ e # Upload /\ run.why = rows'[e].why
        BY <3>3 DEF GaveUp, Edits, Upload
      <4>2. EditRun
        BY <1>1, <4>1 DEF RunJudged
      <4> QED
        BY <1>3, <4>1, <4>2 DEF EditRun
    <3> QED
      BY <1>3, <3>1, <3>2, <3>3 DEF RowMove, Claimed, Recorded, Retried, Hidden
  <2>4. Approved(rows[e].operations, known[e])
    BY <2>1 DEF RowJudged
  <2> QED
    BY <1>3, <2>2, <2>3, <2>4 DEF RowJudged, TrueLater, TrueOf
<1>4. \A e \in Edits : e \in Jobs
  BY DEF Jobs
<1>5. CASE OneRowMoves
  <2> SUFFICES ASSUME NEW e \in Edits, Present(e)' PROVE RowJudged(e)'
    OBVIOUS
  <2>1. /\ RowMove(e) /\ rows'[e].source = rows[e].source
        /\ rows'[e].operations = rows[e].operations
    BY <1>4, <1>5 DEF OneRowMoves
  <2>2. Present(e)
    BY <2>1 DEF RowMove, Claimed, Recorded, GaveUp, Retried, Hidden, Present
  <2>3. e \in DOMAIN known /\ known'[e] = known[e]
    <3>1. e \in DOMAIN known
      BY <1>1, <2>2 DEF EditTyped, Shaped
    <3>2. ASSUME NEW d \in Edits, CreateEdit(d) PROVE known'[e] = known[e]
      BY <3>1, <3>2 DEF CreateEdit
    <3> QED
      BY <1>1, <3>1, <3>2, KnownGrows
  <2> QED
    BY <1>3, <1>4, <2>1, <2>2, <2>3
<1>6. ASSUME NEW d \in Edits, CreateEdit(d), NEW e \in Edits, Present(e)' PROVE RowJudged(e)'
  <2>1. CASE e = d
    <3>1. rows'[e] = NewRow(call.source, call.request) /\ known'[e] = call.frame
      BY <1>1, <1>4, <1>6, <2>1 DEF CreateEdit, EditTyped, Shaped
    <3>2. /\ rows'[e].source = call.source /\ rows'[e].operations = call.request
          /\ rows'[e].why = NoError
      BY <3>1 DEF NewRow
    <3>3. Approved(call.request, call.frame) /\ TrueOf(call.source, call.frame)
          /\ call.source \in Sources
      BY <1>1, <1>6 DEF CreateEdit, AskJudged, EditTyped, Shaped
    <3>4. TrueLater(call.source, call.frame)
      BY <1>1, <3>3, TruthStays
    <3>5. Excused(NoError, call.request, call.frame)
      BY DEF Excused, NoError
    <3> QED
      BY <3>1, <3>2, <3>3, <3>4, <3>5 DEF RowJudged, TrueLater, TrueOf
  <2>2. CASE e # d
    <3>1. rows'[e] = rows[e]
      BY <1>1, <1>4, <1>6, <2>2 DEF CreateEdit, EditTyped, Shaped
    <3>2. Present(e)
      BY <1>6, <3>1 DEF Present
    <3>3. e \in DOMAIN known
      BY <1>1, <3>2 DEF EditTyped, Shaped
    <3>4. known'[e] = known[e]
      BY <1>6, <2>2, <3>3 DEF CreateEdit
    <3> QED
      BY <1>3, <1>4, <3>1, <3>2, <3>4 DEF RowMove
  <2> QED
    BY <2>1, <2>2
<1>7. ASSUME NEW i \in Jobs, rows' = [rows EXCEPT ![i] = NoRow], known' = known,
             NEW e \in Edits, Present(e)'
      PROVE  RowJudged(e)'
  <2>1. /\ rows'[i] = NoRow /\ \A j \in Jobs \ {i} : rows'[j] = rows[j]
    BY <1>1, <1>7, WriteKeeps
  <2>2. e # i
    BY <1>7, <2>1, NoRowShape DEF Present
  <2>3. rows'[e] = rows[e]
    BY <1>4, <2>1, <2>2
  <2>4. Present(e)
    BY <1>7, <2>3 DEF Present
  <2> QED
    BY <1>3, <1>4, <1>7, <2>3, <2>4 DEF RowMove
<1>8. ASSUME NEW i \in Jobs, DeleteRow(i) PROVE \A e \in Edits : Present(e)' => RowJudged(e)'
  BY <1>7, <1>8 DEF DeleteRow
<1>9. CASE DeliveryRefused
  <2>1. call.job \in Jobs
    BY <1>1, <1>4, <1>9 DEF DeliveryRefused, EditTyped, Shaped
  <2> QED
    BY <1>7, <1>9, <2>1 DEF DeliveryRefused
<1> QED
  BY <1>1, <1>5, <1>6, <1>8, <1>9, RowsMove

\* What the table says of a size, from one state to the next.
LEMMA SizeMoves ==
    ASSUME EditTyped, [Next]_vars, NEW i \in Jobs
    PROVE  \/ rows'[i].size = NoSize /\ ~ rows'[i].output
           \/ rows'[i].size = rows[i].size /\ (rows'[i].output => rows[i].output)
           \/ RecordDone /\ run.job = i /\ rows'[i].size = run.size
<1>1. DOMAIN rows = Jobs /\ \A j \in Jobs : DOMAIN rows[j] = Columns
  BY DEF EditTyped, Shaped
<1> DEFINE Moves == \/ rows'[i].size = NoSize /\ ~ rows'[i].output
                    \/ rows'[i].size = rows[i].size /\ (rows'[i].output => rows[i].output)
                    \/ RecordDone /\ run.job = i /\ rows'[i].size = run.size
<1>2. ASSUME rows'[i] = rows[i] PROVE Moves
  BY <1>2
<1>3. ASSUME NEW j \in Jobs, Claim(j) PROVE Moves
  BY <1>1, <1>3 DEF Claim, Columns
<1>4. ASSUME RecordDone PROVE Moves
  BY <1>1, <1>4 DEF RecordDone, Columns
<1>5. ASSUME RecordFailure PROVE Moves
  BY <1>1, <1>5 DEF RecordFailure, Columns
<1>6. ASSUME NEW j \in Jobs, Retry(j) \/ TrashOrRestore(j) PROVE Moves
  BY <1>1, <1>6 DEF Retry, TrashOrRestore, Columns
<1>7. ASSUME NEW j, rows' = [rows EXCEPT ![j] = NoRow] PROVE Moves
  <2>1. rows'[i] = rows[i] \/ rows'[i] = NoRow
    BY <1>1, <1>7
  <2>2. NoRow.size = NoSize
    BY DEF NoRow, NewRow
  <2> QED
    BY <1>2, <2>1, <2>2, NoRowShape
<1>8. ASSUME NEW e \in Edits, CreateEdit(e) PROVE Moves
  <2>1. rows'[i] = rows[i] \/ rows'[i] = NewRow(call.source, call.request)
    BY <1>1, <1>8 DEF CreateEdit
  <2>2. /\ NewRow(call.source, call.request).size = NoSize
        /\ NewRow(call.source, call.request).output = FALSE
    BY DEF NewRow
  <2> QED
    BY <1>2, <2>1, <2>2
<1>9. ASSUME NEW j \in Jobs, DeleteRow(j) PROVE Moves
  BY <1>7, <1>9 DEF DeleteRow
<1>10. ASSUME DeliveryRefused PROVE Moves
  BY <1>7, <1>10 DEF DeliveryRefused
<1>11. ASSUME NEW j \in Jobs, NEW request \in Requests, AskEdit(j, request) PROVE Moves
  BY <1>2, <1>11 DEF AskEdit
<1>12. ASSUME Deliver \/ OpenSource \/ Work \/ WorkTrouble \/ RemoveObjects \/ UNCHANGED vars
       PROVE  Moves
  BY <1>2, <1>12 DEF Deliver, OpenSource, Work, WorkTrouble, RemoveObjects, vars
<1> HIDE DEF Moves
<1>13. Moves
  BY <1>3, <1>4, <1>5, <1>6, <1>8, <1>9, <1>10, <1>11, <1>12 DEF Next
<1> QED
  BY <1>13 DEF Moves

LEMMA SizesTrueStep ==
    ASSUME JudgedBefore, [Next]_vars
    PROVE  SizesTrue'
<1>1. EditTyped /\ SizesTrue /\ RunJudged /\ Upload \in Jobs /\ \A e \in Edits : e \in Jobs /\ e # Upload
  BY DEF JudgedBefore, Judged, Jobs, Edits, Upload
<1>2. RecordDone => run.step = "record" /\ run.job \in Jobs /\ store' = store
  BY <1>1 DEF RecordDone, EditTyped, Shaped
<1>3. IsUpload(Upload)'
  <2>1. IsUpload(Upload)
    BY <1>1 DEF SizesTrue
  <2>2. CASE OneRowMoves
    BY <1>1, <2>1, <2>2 DEF OneRowMoves, IsUpload
  <2>3. ASSUME NEW i \in Jobs, rows' = [rows EXCEPT ![i] = NoRow] PROVE IsUpload(Upload)'
    <3>1. rows'[Upload] = rows[Upload] \/ rows'[Upload] = NoRow
      BY <1>1, <2>3, WriteKeeps
    <3>2. NoRow.operations = NoOperations
      BY DEF NoRow, NewRow
    <3> QED
      BY <2>1, <3>1, <3>2 DEF IsUpload
  <2>4. ASSUME NEW i \in Jobs, DeleteRow(i) PROVE IsUpload(Upload)'
    BY <2>3, <2>4 DEF DeleteRow
  <2>5. ASSUME DeliveryRefused PROVE IsUpload(Upload)'
    BY <1>1, <2>3, <2>5 DEF DeliveryRefused, EditTyped, Shaped
  <2>6. ASSUME NEW e \in Edits, CreateEdit(e) PROVE IsUpload(Upload)'
    <3>1. rows'[Upload] = rows[Upload]
      BY <1>1, <2>6 DEF CreateEdit, EditTyped, Shaped
    <3> QED
      BY <2>1, <3>1 DEF IsUpload
  <2> QED
    BY <1>1, <2>2, <2>4, <2>5, <2>6, RowsMove
<1>4. ASSUME SourceKey \in DOMAIN store'
      PROVE  rows'[Upload].size \in {NoSize, DisplaySize(store'[SourceKey])}
  <2>1. SourceKey \in DOMAIN store /\ store'[SourceKey] = store[SourceKey]
    BY <1>1, <1>4, StoreMoves, KeysDiffer
  <2>2. CASE RecordDone /\ run.job = Upload /\ rows'[Upload].size = run.size
    <3>1. run.size = DisplaySize(store[SourceKey])
      BY <1>1, <1>2, <2>1, <2>2 DEF RunJudged, UploadRun
    <3> QED
      BY <2>1, <2>2, <3>1
  <2>3. CASE rows'[Upload].size \in {NoSize, rows[Upload].size}
    BY <1>1, <2>1, <2>3 DEF SizesTrue
  <2> QED
    BY <1>1, <2>2, <2>3, SizeMoves
<1>5. ASSUME NEW e \in Edits, rows'[e].output, OutputKey(e) \in DOMAIN store'
      PROVE  rows'[e].size \in {NoSize, DisplaySize(store'[OutputKey(e)])}
  <2>1. CASE RecordDone /\ run.job = e /\ rows'[e].size = run.size
    <3>1. run.size \in {NoSize, DisplaySize(store[OutputKey(e)])}
      BY <1>1, <1>2, <1>5, <2>1 DEF RunJudged, EditRun
    <3> QED
      BY <1>2, <2>1, <3>1
  <2>2. CASE rows'[e].size = rows[e].size /\ rows[e].output
    <3>1. rows[e].status = "done"
      BY <1>1, <2>2 DEF EditTyped, TypeOK
    <3>2. ~ (run.step # "idle" /\ run.job = e)
      BY <1>1, <3>1 DEF RunJudged
    <3>3. OutputKey(e) \in DOMAIN store /\ store'[OutputKey(e)] = store[OutputKey(e)]
      <4>1. Work => run.step # "idle"
        BY DEF Work
      <4> QED
        BY <1>1, <1>5, <3>2, <4>1, StoreMoves, KeysDiffer
    <3> QED
      BY <1>1, <2>2, <3>3 DEF SizesTrue
  <2> QED
    BY <1>1, <1>5, <2>1, <2>2, SizeMoves
<1> QED
  BY <1>3, <1>4, <1>5 DEF SizesTrue

\* The job of a run that goes on stays being processed, or is deleted.
LEMMA RunIsBusy ==
    ASSUME JudgedBefore, [Next]_vars, run.step # "idle", run'.step # "idle"
    PROVE  /\ rows'[run.job].status \in {"processing", "none"}
           /\ rows'[run.job].status # "none" =>
                 Present(run.job) /\ rows'[run.job].operations = rows[run.job].operations
           /\ run.job \in Edits => known'[run.job] = known[run.job]
<1> DEFINE j == run.job
           Stays == rows'[j].status = "none" \/ (rows'[j].status = rows[j].status
                                                 /\ rows'[j].operations = rows[j].operations)
<1>1. EditTyped /\ j \in Jobs /\ InUse(j) /\ rows[j].status \in {"processing", "none"}
  BY DEF JudgedBefore, Judged, EditTyped, Shaped, Library, RunJudged
<1>2. DOMAIN rows = Jobs /\ DOMAIN rows[j] = Columns /\ \A i \in Jobs : DOMAIN rows[i] = Columns
  BY <1>1 DEF EditTyped, Shaped
<1>3. ~ RecordDone /\ ~ RecordFailure
  BY DEF RecordDone, RecordFailure, NoRun
<1> HIDE DEF j
<1>4. ASSUME rows'[j] = rows[j] PROVE Stays
  BY <1>4
<1>5. ASSUME NEW i \in Jobs, Claim(i) PROVE Stays
  BY <1>1, <1>2, <1>5 DEF Claim, NoRun
<1>6. ASSUME NEW e \in Edits, CreateEdit(e) PROVE Stays
  <2>1. e # j
    BY <1>1, <1>6 DEF CreateEdit, InUse, Edits, Upload
  <2> QED
    BY <1>1, <1>2, <1>6, <2>1 DEF CreateEdit
<1>7. ASSUME NEW i \in Jobs, Retry(i) PROVE Stays
  <2>1. i # j
    BY <1>1, <1>7 DEF Retry
  <2> QED
    BY <1>1, <1>2, <1>7, <2>1 DEF Retry
<1>8. ASSUME NEW i \in Jobs, TrashOrRestore(i) PROVE Stays
  BY <1>1, <1>2, <1>8 DEF TrashOrRestore, Columns
<1>9. ASSUME NEW i, rows' = [rows EXCEPT ![i] = NoRow] PROVE Stays
  <2>1. rows'[j] = rows[j] \/ rows'[j] = NoRow
    BY <1>1, <1>2, <1>9
  <2> QED
    BY <2>1, NoRowShape
<1>10. ASSUME NEW i \in Jobs, DeleteRow(i) PROVE Stays
  BY <1>9, <1>10 DEF DeleteRow
<1>11. ASSUME DeliveryRefused PROVE Stays
  BY <1>9, <1>11 DEF DeliveryRefused
<1>12. ASSUME NEW i \in Jobs, NEW request \in Requests, AskEdit(i, request) PROVE Stays
  BY <1>4, <1>12 DEF AskEdit
<1>13. ASSUME Deliver \/ OpenSource \/ Work \/ WorkTrouble \/ RemoveObjects \/ UNCHANGED vars
       PROVE  Stays
  BY <1>4, <1>13 DEF Deliver, OpenSource, Work, WorkTrouble, RemoveObjects, vars
<1> HIDE DEF Stays
<1>14. Stays
  BY <1>3, <1>5, <1>6, <1>7, <1>8, <1>10, <1>11, <1>12, <1>13 DEF Next
<1>15. ASSUME j \in Edits PROVE known'[j] = known[j]
  <2>1. j \in DOMAIN known
    BY <1>1, <1>15 DEF InUse, Edits, Upload
  <2>2. ASSUME NEW e \in Edits, CreateEdit(e) PROVE known'[j] = known[j]
    BY <2>1, <2>2 DEF CreateEdit
  <2> QED
    BY <1>1, <2>2, KnownGrows
<1> QED
  BY <1>1, <1>14, <1>15 DEF Stays, Present, j

\* A run that no step of its own moves.
LEMMA RunKept ==
    ASSUME JudgedBefore, [Next]_vars, run' = run, run.step # "idle",
           ~ Work
    PROVE  RunJudged'
<1>1. EditTyped /\ RunJudged /\ run.job \in Jobs
  BY DEF JudgedBefore, Judged, EditTyped, Shaped
<1>2. /\ rows'[run.job].status \in {"processing", "none"}
      /\ rows'[run.job].status # "none" =>
            Present(run.job) /\ rows'[run.job].operations = rows[run.job].operations
      /\ run.job \in Edits => known'[run.job] = known[run.job]
  BY RunIsBusy
<1>3. \A k \in DOMAIN store' : k \in DOMAIN store /\ store'[k] = store[k]
  BY <1>1, StoreMoves
<1>4. ASSUME run.job = Upload PROVE UploadRun'
  <2>1. UploadRun
    BY <1>1, <1>4 DEF RunJudged
  <2> QED
    BY <1>3, <2>1 DEF UploadRun
<1>5. ASSUME run.job # Upload PROVE EditRun'
  <2>1. EditRun /\ run.job \in Edits
    BY <1>1, <1>5 DEF RunJudged, Jobs
  <2>2. known'[run.job] = known[run.job]
    BY <1>2, <2>1
  <2>3. run.step = "open" => TrueLater(run.source, known[run.job])
    BY <1>1, <2>1, TruthStays DEF EditRun
  <2>4. run.step = "open" => TrueOf(run.source, known[run.job])'
    BY <2>2, <2>3 DEF TrueOf, TrueLater
  <2> HIDE DEF TrueOf
  <2>5. (Present(run.job) => run.operations = rows[run.job].operations)
          => (Present(run.job) => run.operations = rows[run.job].operations)'
    BY <1>2 DEF Present
  <2>6. (run.step = "fail" /\ Present(run.job) =>
           Excused(run.why, rows[run.job].operations, known[run.job]))'
    BY <1>2, <2>1, <2>2 DEF EditRun, Present
  <2>7. (run.step = "record" /\ OutputKey(run.job) \in DOMAIN store =>
           run.size \in {NoSize, DisplaySize(store[OutputKey(run.job)])})'
    BY <1>3, <2>1 DEF EditRun
  <2>8. (run.step = "work" => known[run.job] \in {NoSize, DisplaySize(run.file)})'
    BY <2>1, <2>2 DEF EditRun
  <2>9. (run.step \in {"open", "work"} =>
            /\ run.operations # NoOperations
            /\ Approved(run.operations, known[run.job])
            /\ Present(run.job) => run.operations = rows[run.job].operations)'
    BY <2>1, <2>2, <2>5 DEF EditRun
  <2>10. (run.step = "open" => run.source \in Sources)'
    BY <2>1 DEF EditRun, Sources
  <2> QED
    BY <2>4, <2>6, <2>7, <2>8, <2>9, <2>10 DEF EditRun
<1> QED
  BY <1>2, <1>4, <1>5 DEF RunJudged

LEMMA ClaimIsJudged ==
    ASSUME JudgedBefore, [Next]_vars, NEW j \in Jobs, Claim(j), rows[j].status = "queued"
    PROVE  RunJudged'
<1>1. EditTyped /\ SizesTrue /\ \A e \in Edits : Present(e) => RowJudged(e)
  BY DEF JudgedBefore, Judged
<1>2. /\ run' = [step |-> "open", job |-> j, source |-> rows[j].source,
                 operations |-> rows[j].operations]
      /\ UNCHANGED <<store, known>>
  BY DEF Claim
<1>3. rows'[j].status = "processing" /\ rows'[j].operations = rows[j].operations
  BY <1>1 DEF Claim, EditTyped, Shaped, Columns
<1>4. CASE j = Upload
  BY <1>1, <1>2, <1>3, <1>4 DEF RunJudged, UploadRun, SizesTrue, IsUpload, EditTyped, Shaped
<1>5. CASE j # Upload
  <2>1. j \in Edits /\ Present(j) /\ ~ IsUpload(j)
    BY <1>1, <1>5 DEF Jobs, Present, EditTyped, Shaped
  <2>2. RowJudged(j)
    BY <1>1, <2>1
  <2>3. rows[j].source \in Sources
    BY <1>1 DEF EditTyped, TypeOK, Sources
  <2>4. TrueLater(rows[j].source, known[j])
    BY <1>1, <2>2, <2>3, TruthStays DEF RowJudged
  <2>5. run'.step = "open" /\ run'.job = j /\ run'.source = rows[j].source
        /\ run'.operations = rows[j].operations
    BY <1>2
  <2>6. TrueOf(run.source, known[run.job])'
    BY <1>2, <2>4, <2>5 DEF TrueOf, TrueLater
  <2> HIDE DEF TrueOf
  <2>7. EditRun'
    BY <1>2, <1>3, <2>1, <2>2, <2>3, <2>5, <2>6 DEF EditRun, RowJudged, IsUpload, Sources
  <2> QED
    BY <1>3, <1>5, <2>5, <2>7 DEF RunJudged
<1> QED
  BY <1>4, <1>5

LEMMA OpenIsJudged ==
    ASSUME JudgedBefore, [Next]_vars, OpenSource
    PROVE  RunJudged'
<1>1. EditTyped /\ RunJudged /\ run.job \in Jobs /\ run.step = "open"
  BY DEF JudgedBefore, Judged, EditTyped, Shaped, OpenSource
<1>2. UNCHANGED <<rows, store, known>>
  BY DEF OpenSource
<1>3. rows'[run.job].status \in {"processing", "none"}
  BY <1>1, <1>2 DEF RunJudged
<1>4. CASE run.source \in DOMAIN store
  <2>1. run' = [step |-> "work", job |-> run.job, operations |-> run.operations,
                file |-> store[run.source]]
    BY <1>4 DEF OpenSource
  <2>2. /\ run'.step = "work" /\ run'.job = run.job /\ run'.operations = run.operations
        /\ run'.file = store[run.source]
    BY <2>1
  <2>3. run.job = Upload => UploadRun'
    BY <1>1, <1>2, <2>2 DEF RunJudged, UploadRun
  <2>4. ASSUME run.job # Upload PROVE EditRun'
    <3>1. EditRun
      BY <1>1, <2>4 DEF RunJudged
    <3>2. known[run.job] \in {NoSize, DisplaySize(store[run.source])}
      BY <1>1, <1>4, <3>1 DEF EditRun, TrueOf
    <3> QED
      BY <1>1, <1>2, <2>2, <3>1, <3>2 DEF EditRun, Present
  <2> QED
    BY <1>3, <2>2, <2>3, <2>4 DEF RunJudged
<1>5. CASE run.source \notin DOMAIN store
  <2>1. run'.step = "fail" /\ run'.job = run.job /\ run'.why = "missing"
    BY <1>5 DEF OpenSource, Fails
  <2>2. Excused("missing", rows'[run.job].operations, known'[run.job])
    BY DEF Excused
  <2> QED
    BY <1>3, <2>1, <2>2 DEF RunJudged, UploadRun, EditRun
<1> QED
  BY <1>4, <1>5

LEMMA WorkIsJudged ==
    ASSUME JudgedBefore, [Next]_vars, Work
    PROVE  RunJudged'
<1>1. EditTyped /\ RunJudged /\ run.job \in Jobs /\ run.step = "work"
  BY DEF JudgedBefore, Judged, EditTyped, Shaped, Work
<1>2. UNCHANGED <<rows, known>>
  BY DEF Work
<1>3. rows'[run.job].status \in {"processing", "none"}
  BY <1>1, <1>2 DEF RunJudged
<1>4. CASE Result.ok
  <2>1. /\ run'.step = "record" /\ run'.job = run.job
        /\ run'.size \in {SizeToRecord(Result.file), NoSize}
        /\ run.operations = NoOperations => run'.size = SizeToRecord(Result.file)
        /\ store'[OutputKey(run.job)] = Result.file
    BY <1>1, <1>4, WorkStores, WorkRecords
  <2>2. ASSUME run.job = Upload PROVE UploadRun'
    <3>1. UploadRun
      BY <1>1, <2>2 DEF RunJudged
    <3>2. run'.size = DisplaySize(run.file)
      BY <1>1, <2>1, <3>1 DEF UploadRun, SizeToRecord
    <3>3. SourceKey \in DOMAIN store' => SourceKey \in DOMAIN store /\ store'[SourceKey] = store[SourceKey]
      BY <1>1, StoreMoves, KeysDiffer
    <3> QED
      BY <1>1, <2>1, <3>1, <3>2, <3>3 DEF UploadRun
  <2>3. ASSUME run.job # Upload PROVE EditRun'
    <3>1. run.operations # NoOperations
      BY <1>1, <2>3 DEF RunJudged, EditRun
    <3>2. run'.size \in {NoSize, DisplaySize(Result.file)}
      BY <2>1, <3>1 DEF SizeToRecord
    <3> QED
      BY <2>1, <3>2 DEF EditRun
  <2> QED
    BY <1>3, <2>1, <2>2, <2>3 DEF RunJudged
<1>5. CASE ~ Result.ok
  <2>1. run'.step = "fail" /\ run'.job = run.job /\ run'.why = Result.why
    BY <1>5 DEF Work, Fails
  <2>2. run.job = Upload => UploadRun'
    BY <2>1 DEF UploadRun
  <2>3. ASSUME run.job # Upload PROVE EditRun'
    <3>1. EditRun
      BY <1>1, <2>3 DEF RunJudged
    <3>2. Result = EditResult(run.operations, run.file)
      BY <1>1, <3>1 DEF Result, EditRun
    <3>3. /\ known[run.job] \in {NoSize, DisplaySize(run.file)}
          /\ Approved(run.operations, known[run.job])
      BY <1>1, <3>1 DEF EditRun
    <3>4. Excused(Result.why, run.operations, known[run.job])
      BY <1>5, <3>2, <3>3, ResultIsExcused
    <3>5. Present(run.job)' => rows'[run.job].operations = run.operations
      BY <1>1, <1>2, <2>1, <3>1 DEF EditRun, Present
    <3> QED
      BY <1>2, <2>1, <3>4, <3>5 DEF EditRun
  <2> QED
    BY <1>3, <2>1, <2>2, <2>3 DEF RunJudged
<1> QED
  BY <1>4, <1>5

LEMMA RunJudgedStep ==
    ASSUME JudgedBefore, [Next]_vars
    PROVE  RunJudged'
<1>1. CASE run'.step = "idle"
  BY <1>1 DEF RunJudged
<1>2. CASE run' = run /\ run.step # "idle" /\ ~ Work
  BY <1>2, RunKept
<1>3. ASSUME NEW j \in Jobs, Claim(j) PROVE RunJudged'
  <2>1. CASE rows[j].status = "queued"
    BY <1>3, <2>1, ClaimIsJudged
  <2>2. CASE rows[j].status # "queued"
    BY <1>1, <1>3, <2>2 DEF Claim, NoRun
  <2> QED
    BY <2>1, <2>2
<1>4. ASSUME WorkTrouble PROVE RunJudged'
  <2>1. run'.step = "fail" /\ run'.job = run.job /\ run'.why = "trouble" /\ run.step # "idle"
    BY <1>4 DEF WorkTrouble, Fails
  <2>2. rows'[run.job].status \in {"processing", "none"}
    BY <2>1, RunIsBusy
  <2>3. Excused("trouble", rows'[run.job].operations, known'[run.job])
    BY DEF Excused
  <2> QED
    BY <2>1, <2>2, <2>3 DEF RunJudged, UploadRun, EditRun
<1>5. RecordDone \/ RecordFailure => run'.step = "idle"
  BY DEF RecordDone, RecordFailure, NoRun
<1>6. /\ ~ \E j \in Jobs : Claim(j)
      /\ ~ OpenSource /\ ~ Work /\ ~ WorkTrouble /\ ~ RecordDone /\ ~ RecordFailure
      => run' = run
  BY DEF Next, vars, AskEdit, CreateEdit, Deliver, DeliveryRefused, Retry, TrashOrRestore,
         DeleteRow, RemoveObjects
<1> QED
  BY <1>1, <1>2, <1>3, <1>4, <1>5, <1>6, OpenIsJudged, WorkIsJudged

LEMMA JudgedStep ==
    ASSUME JudgedBefore, [Next]_vars
    PROVE  Judged'
  BY AskJudgedStep, RowsJudgedStep, SizesTrueStep, RunJudgedStep DEF Judged

(* "They must read the same ones" (EditJobs.ApiAndWorkerAgree): whatever   *)
(* the API queued, with whatever it knew of the file, EditProcessor does   *)
(* not call malformed or unbuildable, and refuses by the media rules only  *)
(* a scale of a video whose size the API did not know.  What edit_job_by_id *)
(* read of a video's size is still true when the worker opens the file,    *)
(* because nothing but the run of a job writes the job's output, and a     *)
(* done job never runs again.                                              *)
THEOREM ApiAndWorkerAlwaysAgree == Spec => []ApiAndWorkerAgree
<1>1. EditTyped /\ Judged => ApiAndWorkerAgree
  BY JudgedShown
<1>2. EditTyped /\ Library /\ Judged /\ [Next]_vars => Judged'
  BY JudgedStep DEF JudgedBefore
<1> QED
  BY <1>1, <1>2, EditTypedInit, EditTypedStep, LibraryInit, LibraryStep, JudgedInit, PTL DEF Spec

-----------------------------------------------------------------------------
(* Where an edit starts.                                                   *)

(* While the upload's row is there, every edit is an edit of it, by its    *)
(* own file or, before sprint 5, by its MP4, and so is the next one.       *)
EditsOfUpload ==
    Present(Upload) =>
        /\ \A e \in Edits : Present(e) =>
              \/ rows[e].source = SourceKey
              \/ rows[e].source = OutputKey(Upload) /\ rows[Upload].output
        /\ call.step = "create" => call.source = SourceKey

\* f collects the ancestors of j, hop by hop.
Reaches(f, j) ==
    f = [hops \in 0..(MaxEdits + 1) |->
            IF hops = 0 THEN {j}
            ELSE LET seen == f[hops - 1] IN
                 seen \union {k \in Jobs : /\ Present(k)
                                          /\ \E i \in seen :
                                                rows[i].source \in OwnKeys(k)}]

(* One hop more.                                                           *)
Reached(seen) ==
    seen \union {k \in Jobs : Present(k) /\ \E i \in seen : rows[i].source \in OwnKeys(k)}

LEMMA AncestorsAreReached ==
    ASSUME NEW j \in Jobs
    PROVE  \E f : /\ f[0] = {j}
                  /\ \A i \in 1..(MaxEdits + 1) : f[i] = Reached(f[i - 1])
                  /\ Ancestors(j) = f[MaxEdits + 1]
<1> DEFINE D == SUBSET Jobs
           n == MaxEdits + 1
           F == [i \in 1..n |-> [seen \in D |-> Reached(seen)]]
           c == CHOOSE f : Reaches(f, j)
<1>1. n \in Nat
  BY EditBounds
<1>2. {j} \in D /\ \A seen \in D : Reached(seen) \in D
  BY DEF Reached
<1> HIDE DEF D
<1>3. F \in [1..n -> [D -> D]]
  BY <1>2
<1>4. Reaches(c, j)
  <2>1. PICK f \in [0..n -> D] : f[0] = {j} /\ \A i \in 1..n : f[i] = F[i][f[i - 1]]
    <3> DEFINE a == {j}
    <3>1. a \in D
      BY <1>2
    <3> HIDE DEF n, F, a
    <3>2. \E f \in [0..n -> D] : f[0] = a /\ \A i \in 1..n : f[i] = F[i][f[i - 1]]
      BY <1>1, <1>3, <3>1, Recursion, Z3
    <3> QED
      BY <3>2 DEF a
  <2>2. ASSUME NEW i \in 0..n
        PROVE  f[i] = IF i = 0 THEN {j} ELSE Reached(f[i - 1])
    <3>1. CASE i = 0
      BY <2>1, <3>1
    <3>2. CASE i # 0
      <4>1. i \in 1..n /\ i - 1 \in 0..n
        <5> HIDE DEF n
        <5> QED
          BY <1>1, <3>2
      <4>2. f[i - 1] \in D /\ f[i] = F[i][f[i - 1]]
        <5> HIDE DEF F, n
        <5> QED
          BY <2>1, <4>1
      <4>3. F[i][f[i - 1]] = Reached(f[i - 1])
        <5> HIDE DEF n
        <5> QED
          BY <4>1, <4>2
      <4> HIDE DEF F, n
      <4> QED
        BY <3>2, <4>2, <4>3
    <3> QED
      BY <3>1, <3>2
  <2>3. f = [i \in 0..n |-> f[i]]
    BY <2>1
  <2>4. f = [i \in 0..n |-> IF i = 0 THEN {j} ELSE Reached(f[i - 1])]
    <3> HIDE DEF n
    <3> QED
      BY <2>2, <2>3
  <2>5. Reaches(f, j)
    BY <2>4 DEF Reaches, Reached
  <2> QED
    BY <2>5
<1>5. Ancestors(j) = c[n]
  BY DEF Ancestors, Reaches
<1>6. c[0] = {j} /\ \A i \in 1..n : c[i] = Reached(c[i - 1])
  <2> HIDE DEF c
  <2>1. \A i \in 0..n : c[i] = IF i = 0 THEN {j} ELSE Reached(c[i - 1])
    BY <1>4 DEF Reaches, Reached
  <2> HIDE DEF n
  <2> QED
    BY <1>1, <2>1
<1> HIDE DEF c
<1> QED
  BY <1>5, <1>6

\* While the upload is there, it is every video's root and among its
\* ancestors.
LEMMA UploadIsRoot ==
    ASSUME EditTyped, SizesTrue, EditsOfUpload, Present(Upload),
           NEW j \in Jobs, Present(j)
    PROVE  Root(j) = Upload /\ Upload \in Ancestors(j)
<1>1. Upload \in Jobs /\ IsUpload(Upload) /\ rows[Upload].source = SourceKey
  BY DEF SizesTrue, EditTyped, Shaped, Jobs
<1>2. j = Upload \/ j \in Edits
  BY DEF Jobs
<1>3. ASSUME j # Upload PROVE Parents(j) = {Upload}
  <2>1. ~ IsUpload(j)
    BY <1>2, <1>3 DEF EditTyped, Shaped
  <2>2. \A k \in Jobs : Present(k) /\ IsUpload(k) => k = Upload
    BY DEF EditTyped, Shaped, Jobs
  <2>3. CASE rows[j].source = SourceKey
    <3>1. {k \in Jobs : Present(k) /\ IsUpload(k) /\ rows[k].source = rows[j].source} = {Upload}
      BY <1>1, <2>2, <2>3
    <3> QED
      BY <2>1, <3>1 DEF Parents
  <2>4. CASE rows[j].source = OutputKey(Upload) /\ rows[Upload].output
    <3>1. {k \in Jobs : Present(k) /\ IsUpload(k) /\ rows[k].source = rows[j].source} = {}
      BY <1>1, <2>2, <2>4, KeysDiffer
    <3>2. {k \in Jobs : Present(k) /\ rows[k].output /\ OutputKey(k) = rows[j].source} = {Upload}
      BY <1>1, <2>4, KeysDiffer
    <3> QED
      BY <1>3, <2>1, <3>1, <3>2 DEF Parents
  <2> QED
    BY <1>2, <1>3, <2>3, <2>4 DEF EditsOfUpload
<1>4. Parents(Upload) = {}
  BY <1>1 DEF Parents
<1>5. Hop(j) \in {Upload}
  BY <1>3, <1>4 DEF Hop
<1>6. Root(j) = Upload
  <2>1. \A k \in {Upload} : Parents(k) \subseteq {Upload}
    BY <1>4
  <2>2. Root(j) \in {Upload}
    BY <1>5, <2>1, RootStays
  <2> QED
    BY <2>2
<1>7. PICK f : /\ f[0] = {j}
               /\ \A i \in 1..(MaxEdits + 1) : f[i] = Reached(f[i - 1])
               /\ Ancestors(j) = f[MaxEdits + 1]
  BY AncestorsAreReached
<1>8. j = Upload \/ rows[j].source \in OwnKeys(Upload)
  <2>1. OutputKey(Upload) \in Keys /\ SourceKey \in Keys
    BY <1>1 DEF Keys, OutputKey
  <2> QED
    BY <1>2, <2>1 DEF EditsOfUpload, OwnKeys
<1>9. \A seen : Upload \in seen => Upload \in Reached(seen)
  BY DEF Reached
<1> DEFINE D == {seen \in SUBSET Jobs : Upload \in seen}
           m == MaxEdits
           g == [i \in 0..m |-> f[i + 1]]
<1>10. m \in Nat
  BY EditBounds
<1>11. g[0] \in D
  <2>1. f[1] = Reached(f[0])
    <3>1. 1 \in 1..(MaxEdits + 1) /\ 1 - 1 = 0
      BY EditBounds
    <3> QED
      BY <1>7, <3>1
  <2>2. f[1] = Reached({j}) /\ g[0] = f[1]
    BY <1>7, <1>10, <2>1
  <2>3. Upload \in Reached({j}) /\ Reached({j}) \subseteq Jobs
    BY <1>1, <1>8 DEF Reached
  <2> HIDE DEF g
  <2> QED
    BY <2>2, <2>3
<1>12. ASSUME NEW i \in 1..m, g[i - 1] \in D PROVE g[i] \in D
  <2>1. g[i - 1] = f[i] /\ g[i] = f[i + 1] /\ f[i + 1] = Reached(f[i])
    <3>1. i + 1 \in 1..(MaxEdits + 1) /\ (i + 1) - 1 = i /\ (i - 1) + 1 = i
          /\ i - 1 \in 0..m /\ i \in 0..m
      BY <1>10
    <3>2. f[i + 1] = Reached(f[(i + 1) - 1])
      BY <1>7, <3>1
    <3> QED
      BY <3>1, <3>2
  <2> HIDE DEF g
  <2>2. f[i] \in D
    BY <1>12, <2>1
  <2>3. Reached(f[i]) \in SUBSET Jobs
    BY <2>2 DEF Reached
  <2> QED
    BY <1>9, <2>1, <2>2, <2>3
<1> HIDE DEF g, D
<1>13. \A i \in 0..m : g[i] \in D
  BY <1>10, <1>11, <1>12, StaysIn
<1>14. Ancestors(j) \in D
  <2>1. g[m] = f[MaxEdits + 1]
    BY <1>10 DEF g
  <2> QED
    BY <1>7, <1>10, <1>13, <2>1
<1> QED
  BY <1>6, <1>14 DEF D

\* Once it is gone, no root or ancestor is an upload.
LEMMA NoUploadLeft ==
    ASSUME EditTyped, ~ Present(Upload), NEW j \in Jobs, Present(j)
    PROVE  ~ IsUpload(Root(j)) /\ \A k \in Ancestors(j) : ~ IsUpload(k)
<1> DEFINE Left == {k \in Jobs : Present(k)}
<1>1. \A k \in Left : ~ IsUpload(k)
  BY DEF EditTyped, Shaped, Jobs
<1>2. Root(j) \in Left
  BY BaseIsPresent, RootIsJob
<1>3. PICK f : /\ f[0] = {j}
               /\ \A i \in 1..(MaxEdits + 1) : f[i] = Reached(f[i - 1])
               /\ Ancestors(j) = f[MaxEdits + 1]
  BY AncestorsAreReached
<1> DEFINE D == SUBSET Left
<1>4. f[0] \in D
  BY <1>3
<1>5. \A seen \in D : Reached(seen) \in D
  BY DEF Reached
<1> HIDE DEF D
<1>6. \A i \in 1..(MaxEdits + 1) : f[i - 1] \in D => f[i] \in D
  BY <1>3, <1>5
<1>7. MaxEdits + 1 \in Nat
  BY EditBounds
<1>8. \A i \in 0..(MaxEdits + 1) : f[i] \in D
  BY <1>4, <1>6, <1>7, StaysIn
<1>9. Ancestors(j) \in D
  BY <1>3, <1>7, <1>8
<1> HIDE DEF Left
<1> QED
  BY <1>1, <1>2, <1>9 DEF D

\* The next edit starts from the upload's file, or from the chosen video's.
LEMMA AskedFrom ==
    ASSUME EditTyped, Library, SizesTrue, EditsOfUpload,
           NEW j \in Jobs, NEW request \in Requests, AskEdit(j, request)
    PROVE  /\ call'.step = "create"
           /\ call'.source = IF Present(Upload) THEN SourceKey ELSE OutputKey(j)
<1>1. Present(j) /\ rows[j].output
  BY DEF AskEdit, Visible, IsDone
<1>2. call'.step = "create" /\ call'.source = EditSource(EditBase(j))
  BY DEF AskEdit
<1>3. CASE Present(Upload)
  <2>1. Root(j) = Upload
    BY <1>1, <1>3, UploadIsRoot
  <2>2. IsUpload(Upload) /\ rows[Upload].source = SourceKey
    BY DEF SizesTrue, EditTyped, Shaped
  <2> QED
    BY <1>2, <1>3, <2>1, <2>2 DEF EditSource, EditBase
<1>4. CASE ~ Present(Upload)
  <2>1. ~ IsUpload(Root(j))
    BY <1>1, <1>4, NoUploadLeft
  <2>2. ~ IsUpload(j)
    BY <1>1, <1>4 DEF EditTyped, Shaped, Jobs
  <2> QED
    BY <1>2, <1>4, <2>1, <2>2 DEF EditSource, EditBase
<1> QED
  BY <1>3, <1>4

LEMMA EditsOfUploadInit == Init => EditsOfUpload
<1> SUFFICES ASSUME Init PROVE EditsOfUpload
  OBVIOUS
<1>1. call.step # "create"
  BY DEF Init, NoCall
<1>2. \A e \in Edits : e # Upload /\ e \in Jobs
  BY DEF Edits, Jobs, Upload
<1>3. CASE FoundQueued
  <2>1. \A e \in Edits : ~ Present(e)
    BY <1>2, <1>3, NoRowShape DEF FoundQueued, Present
  <2> QED
    BY <1>1, <2>1 DEF EditsOfUpload
<1>4. ASSUME NEW file, NEW size, NEW legacy \in BOOLEAN, FoundDone(file, size, legacy)
      PROVE  EditsOfUpload
  <2>1. \A j \in Jobs : rows[j] = IF j = Upload THEN DoneUpload(file, size)
                                  ELSE IF j = 1 /\ legacy THEN LegacyEdit ELSE NoRow
    BY <1>4 DEF FoundDone, Upload
  <2>2. Upload \in Jobs
    BY DEF Jobs
  <2> QED
    BY <1>1, <1>2, <2>1, <2>2, NoRowShape, FoundRowShape DEF EditsOfUpload, Present
<1> QED
  BY <1>3, <1>4, InitFinds

LEMMA EditsOfUploadStep ==
    ASSUME EditTyped, Library, SizesTrue, EditsOfUpload, [Next]_vars
    PROVE  EditsOfUpload'
<1>1. Upload \in Jobs /\ \A e \in Edits : e \in Jobs /\ e # Upload
  BY DEF Jobs, Edits, Upload
<1>2. SUFFICES ASSUME Present(Upload)'
               PROVE  /\ \A e \in Edits : Present(e)' =>
                            \/ rows'[e].source = SourceKey
                            \/ rows'[e].source = OutputKey(Upload) /\ rows'[Upload].output
                      /\ call'.step = "create" => call'.source = SourceKey
  BY DEF EditsOfUpload
<1>3. /\ Present(Upload) /\ (rows[Upload].output => rows'[Upload].output)
      /\ \A e \in Edits : Present(e)' =>
            \/ Present(e) /\ rows'[e].source = rows[e].source
            \/ rows'[e].source = call.source /\ CreateEdit(e)
  <2>1. CASE OneRowMoves
    <3>1. Present(Upload) /\ (rows[Upload].output => rows'[Upload].output)
      BY <1>1, <1>2, <2>1
      DEF OneRowMoves, RowMove, Claimed, Recorded, GaveUp, Retried, Hidden, Present, EditTyped, TypeOK
    <3>2. ASSUME NEW e \in Edits, Present(e)'
          PROVE  Present(e) /\ rows'[e].source = rows[e].source
      BY <1>1, <2>1, <3>2
      DEF OneRowMoves, RowMove, Claimed, Recorded, GaveUp, Retried, Hidden, Present
    <3> QED
      BY <3>1, <3>2
  <2>2. ASSUME NEW d \in Edits, CreateEdit(d)
        PROVE  /\ Present(Upload) /\ (rows[Upload].output => rows'[Upload].output)
               /\ \A e \in Edits : Present(e)' =>
                     \/ Present(e) /\ rows'[e].source = rows[e].source
                     \/ rows'[e].source = call.source /\ CreateEdit(e)
    <3>1. rows'[d] = NewRow(call.source, call.request) /\ \A i \in Jobs \ {d} : rows'[i] = rows[i]
      BY <1>1, <2>2 DEF CreateEdit, EditTyped, Shaped
    <3>2. rows'[d].source = call.source
      BY <3>1 DEF NewRow
    <3> QED
      BY <1>1, <1>2, <2>2, <3>1, <3>2 DEF Present
  <2>3. ASSUME NEW i, rows' = [rows EXCEPT ![i] = NoRow]
        PROVE  /\ Present(Upload) /\ (rows[Upload].output => rows'[Upload].output)
               /\ \A e \in Edits : Present(e)' => Present(e) /\ rows'[e].source = rows[e].source
    <3>1. \A k \in Jobs : rows'[k] = rows[k] \/ rows'[k] = NoRow
      BY <2>3 DEF EditTyped, Shaped
    <3> QED
      BY <1>1, <1>2, <3>1, NoRowShape DEF Present
  <2>4. ASSUME NEW i \in Jobs, DeleteRow(i)
        PROVE  /\ Present(Upload) /\ (rows[Upload].output => rows'[Upload].output)
               /\ \A e \in Edits : Present(e)' => Present(e) /\ rows'[e].source = rows[e].source
    BY <2>3, <2>4 DEF DeleteRow
  <2>5. ASSUME DeliveryRefused
        PROVE  /\ Present(Upload) /\ (rows[Upload].output => rows'[Upload].output)
               /\ \A e \in Edits : Present(e)' => Present(e) /\ rows'[e].source = rows[e].source
    BY <2>3, <2>5 DEF DeliveryRefused
  <2> QED
    BY <2>1, <2>2, <2>4, <2>5, RowsMove
<1>4. /\ \A e \in Edits : Present(e) =>
            \/ rows[e].source = SourceKey
            \/ rows[e].source = OutputKey(Upload) /\ rows[Upload].output
      /\ call.step = "create" => call.source = SourceKey
  BY <1>3 DEF EditsOfUpload
<1>5. ASSUME NEW e \in Edits, Present(e)'
      PROVE  \/ rows'[e].source = SourceKey
             \/ rows'[e].source = OutputKey(Upload) /\ rows'[Upload].output
  BY <1>3, <1>4, <1>5 DEF CreateEdit
<1>6. call'.step = "create" => call'.source = SourceKey
  <2>1. ASSUME NEW j \in Jobs, NEW request \in Requests, AskEdit(j, request)
        PROVE  call'.source = SourceKey
    BY <1>3, <2>1, AskedFrom
  <2>2. ASSUME NEW e \in Edits, CreateEdit(e) PROVE call'.step # "create"
    BY <2>2 DEF CreateEdit
  <2>3. Deliver \/ DeliveryRefused => call'.step # "create"
    BY DEF Deliver, DeliveryRefused, NoCall
  <2>4. /\ ~ \E j \in Jobs, request \in Requests : AskEdit(j, request)
        /\ ~ \E e \in Edits : CreateEdit(e)
        /\ ~ Deliver /\ ~ DeliveryRefused
        => call' = call
    BY DEF Next, vars, Claim, OpenSource, Work, WorkTrouble,
           RecordDone, RecordFailure, Retry, TrashOrRestore, DeleteRow, RemoveObjects
  <2> QED
    BY <1>4, <2>1, <2>2, <2>3, <2>4
<1> QED
  BY <1>5, <1>6

(* The step of StartsFromOriginal.                                         *)
LEMMA StartsStep ==
    ASSUME EditTyped, Library, SizesTrue, EditsOfUpload, Next, call = NoCall, call' # NoCall
    PROVE  /\ call'.source \in DOMAIN store
           /\ \E j \in Jobs :
                 /\ Visible(j)
                 /\ IF \E k \in Ancestors(j) : IsUpload(k)
                    THEN call'.source = SourceKey
                    ELSE call'.source = OutputKey(j)
<1>1. PICK j \in Jobs, request \in Requests : AskEdit(j, request)
  <2>1. call.step = "idle"
    BY DEF NoCall
  <2> QED
    BY <2>1 DEF Next, CreateEdit, Deliver, DeliveryRefused, Claim, OpenSource, Work, WorkTrouble,
       RecordDone, RecordFailure, Retry, TrashOrRestore, DeleteRow, RemoveObjects
<1>2. Visible(j) /\ Present(j) /\ rows[j].output
  BY <1>1 DEF AskEdit, Visible, IsDone
<1>3. call'.source = IF Present(Upload) THEN SourceKey ELSE OutputKey(j)
  BY <1>1, AskedFrom
<1>4. CASE Present(Upload)
  <2>1. SourceKey \in DOMAIN store /\ IsUpload(Upload)
    BY <1>4 DEF Library, Filed, Jobs, SizesTrue
  <2>2. Upload \in Ancestors(j)
    BY <1>2, <1>4, UploadIsRoot
  <2> QED
    BY <1>2, <1>3, <1>4, <2>1, <2>2
<1>5. CASE ~ Present(Upload)
  <2>1. OutputKey(j) \in DOMAIN store
    BY <1>2 DEF Library, Filed
  <2>2. ~ \E k \in Ancestors(j) : IsUpload(k)
    BY <1>2, <1>5, NoUploadLeft
  <2> QED
    BY <1>2, <1>3, <1>5, <2>1, <2>2
<1> QED
  BY <1>4, <1>5

(* An edit starts from the upload's own file for as long as that upload    *)
(* can be reached, however many older edits lie between, and otherwise     *)
(* from the video the owner chose; either way the file is there            *)
(* (EditJobs.StartsFromOriginal): resolve_edit_roots never loses its way   *)
(* among edits of both kinds, deleted and retried ones included, and its   *)
(* eight hops are always enough, because a present upload is one hop away. *)
THEOREM EditsStartFromOriginal == Spec => StartsFromOriginal
<1> DEFINE Inv == EditTyped /\ Library /\ Judged /\ EditsOfUpload
<1>1. Init => Inv
  BY EditTypedInit, LibraryInit, JudgedInit, EditsOfUploadInit
<1>2. Inv /\ [Next]_vars => Inv'
  BY EditTypedStep, LibraryStep, JudgedStep, EditsOfUploadStep DEF JudgedBefore, Judged
<1>3. Inv /\ [Next]_vars =>
        [call = NoCall /\ call' # NoCall =>
            /\ call'.source \in DOMAIN store
            /\ \E j \in Jobs :
                  /\ Visible(j)
                  /\ IF \E k \in Ancestors(j) : IsUpload(k)
                     THEN call'.source = SourceKey
                     ELSE call'.source = OutputKey(j)]_vars
  BY StartsStep DEF Judged
<1> HIDE DEF Inv
<1> QED
  BY <1>1, <1>2, <1>3, PTL DEF Spec, StartsFromOriginal
=============================================================================
