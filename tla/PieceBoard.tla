----------------------------- MODULE PieceBoard -----------------------------
(***************************************************************************)
(* One job's video encoded in pieces across workers: the board in Redis    *)
(* (PieceBoard in app/worker/chunked.py), the coordinator that opens it    *)
(* (ChunkedMp4, and LadderPieces for the ladder's own board) and the       *)
(* helpers that take pieces from it (help_encode, help_ladder).            *)
(*                                                                         *)
(* Each Redis command, MULTI/EXEC pipeline and call to the object store is *)
(* a step of its own.  A job is attempted again after it was given back,   *)
(* failed or lost, with the same keys in Redis and in the bucket; a piece  *)
(* is represented by the attempt whose plan it was encoded by.             *)
(***************************************************************************)
EXTENDS Integers, FiniteSets, SequencesExt

CONSTANTS
    Helpers,     \* worker processes that take helper entries
    MaxHelpers,  \* the setting: helper entries a coordinator asks for
    MaxPieces,   \* the most pieces a plan has here
    Limits       \* how often each of Bounded may happen

(* Attempts at the job; a process killed without warning; a call or an     *)
(* encode that raises (a stop, a timeout, an error of FFmpeg, Redis or the *)
(* bucket); a board opened while a helper of an earlier attempt is still   *)
(* at work.                                                                *)
Bounded == {"attempt", "crash", "fail", "straggle"}

ASSUME PieceAssumption ==
    /\ MaxHelpers \in Nat
    /\ MaxPieces \in Nat
    /\ Limits \in [Bounded -> Nat]

VARIABLES
    plan,      \* the board's plan: the attempt that wrote it, or 0
    todo,      \* pieces nobody has taken, in order
    inflight,  \* per piece, the note of when it was taken
    done,      \* pieces reported as finished
    stored,    \* per piece, the attempt by whose plan the object in the bucket is
    coord,     \* the coordinator
    helper,    \* per helper process, the entry it works on
    waiting,   \* helper entries on the pieces queue
    left       \* what remains of Limits

vars == <<plan, todo, inflight, done, stored, coord, helper, waiting, left>>
board == <<plan, todo, inflight, done>>

Pieces == 0 .. MaxPieces - 1
First(n) == 0 .. n - 1
NoPiece == MaxPieces

Note == {"none", "fresh", "stale"}

Before == {"idle", "clearing", "opening"}
Scanning == {"scanInflight", "scanTodo", "dropStale", "scanDone", "countDone"}
AtWork == {"asking", "audio", "loop", "noting", "encoding", "finishing", "joining", "closing"}
          \union Scanning
CoordPc == Before \union AtWork \union {"sweeping"}
HelperPc == {"idle", "take", "noting", "encoding", "checking", "uploading", "finishing", "giving"}

(* The coordinator's attempt, the count of its plan, the helpers still to  *)
(* ask for, the piece in hand, the pieces it encoded itself (mine) and     *)
(* what unclaimed has read of the board so far.                            *)
Coordinators == [pc : CoordPc, attempt : Nat, count : 0 .. MaxPieces, ask : Nat,
                 piece : Nat, mine : SUBSET Pieces,
                 busy : SUBSET Pieces, stale : SUBSET Pieces, queued : SUBSET Pieces]
NewCoord == [pc |-> "idle", attempt |-> 0, count |-> 0, ask |-> 0, piece |-> NoPiece,
             mine |-> {}, busy |-> {}, stale |-> {}, queued |-> {}]
HelperRuns == [pc : HelperPc, plan : Nat, piece : Nat]
NewHelper == [pc |-> "idle", plan |-> 0, piece |-> NoPiece]

TypeOK ==
    /\ plan \in Nat
    /\ todo \in Seq(Pieces)
    /\ inflight \in [Pieces -> Note]
    /\ done \subseteq Pieces
    /\ stored \in [Pieces -> Nat]
    /\ coord \in Coordinators
    /\ helper \in [Helpers -> HelperRuns]
    /\ waiting \in Nat
    /\ left \in [Bounded -> Nat]
    /\ coord.pc # "idle" => coord.count >= 2
    /\ coord.pc \in {"encoding", "noting", "finishing"} => coord.piece \in Pieces
    /\ \A h \in Helpers : helper[h].pc \notin {"idle", "take"} => helper[h].piece \in Pieces

NoNotes == [i \in Pieces |-> "none"]

Init ==
    /\ plan = 0 /\ todo = <<>> /\ inflight = NoNotes /\ done = {}
    /\ stored = [i \in Pieces |-> 0]
    /\ coord = NewCoord
    /\ helper = [h \in Helpers |-> NewHelper]
    /\ waiting = 0
    /\ left = Limits

Spend(what) == left[what] > 0 /\ left' = [left EXCEPT ![what] = @ - 1]

CoordAt(pc) == coord.pc = pc
CoordGo(pc) == coord' = [coord EXCEPT !.pc = pc]
(* encode returns or raises; the next attempt is numbered on.              *)
CoordEnds == coord' = [NewCoord EXCEPT !.attempt = coord.attempt]
HelperAt(h, pc) == helper[h].pc = pc
HelperGo(h, pc) == helper' = [helper EXCEPT ![h].pc = pc]
(* The task returns or raises: its process is free for the next entry.     *)
HelperEnds(h) == helper' = [helper EXCEPT ![h] = NewHelper]

-----------------------------------------------------------------------------
(* The coordinator: ChunkedMp4.encode, LadderPieces.encode.                *)

(* A worker runs the job: frame times and rate give a plan of n pieces; a  *)
(* source that cannot be cut in two is encoded whole, and has no board.    *)
Attempt(n) ==
    /\ CoordAt("idle")
    /\ Spend("attempt")
    /\ coord' = IF n < 2 THEN [coord EXCEPT !.attempt = @ + 1]
                ELSE [coord EXCEPT !.pc = "clearing", !.attempt = @ + 1, !.count = n]
    /\ UNCHANGED <<board, stored, helper, waiting>>

(* "Pieces from an attempt that was given back are not trusted": the       *)
(* prefix is emptied before the board is opened.                           *)
ClearPieces ==
    /\ CoordAt("clearing")
    /\ stored' = [i \in Pieces |-> 0]
    /\ CoordGo("opening")
    /\ UNCHANGED <<board, helper, waiting, left>>

HelpersGone == \A h \in Helpers : HelperAt(h, "idle")

(* open: one transaction forgets the old board and writes the new plan.    *)
(* Nothing waits for the helpers of an earlier attempt: while one is still *)
(* at work this takes one of Limits[straggle].                             *)
Open ==
    /\ CoordAt("opening")
    /\ IF HelpersGone THEN UNCHANGED left ELSE Spend("straggle")
    /\ plan' = coord.attempt
    /\ todo' = [k \in 1 .. coord.count |-> k - 1]
    /\ inflight' = NoNotes
    /\ done' = {}
    /\ coord' = [coord EXCEPT !.pc = "asking",
                              !.ask = IF MaxHelpers < coord.count - 1 THEN MaxHelpers
                                      ELSE coord.count - 1]
    /\ UNCHANGED <<stored, helper, waiting>>

AskHelper ==
    /\ CoordAt("asking") /\ coord.ask > 0
    /\ waiting' = waiting + 1
    /\ coord' = [coord EXCEPT !.ask = @ - 1]
    /\ UNCHANGED <<board, stored, helper, left>>

AllAsked ==
    /\ CoordAt("asking") /\ coord.ask = 0
    /\ CoordGo("audio")
    /\ UNCHANGED <<board, stored, helper, waiting, left>>

EncodeAudio ==
    /\ CoordAt("audio")
    /\ CoordGo("loop")
    /\ UNCHANGED <<board, stored, helper, waiting, left>>

(* take, first half: LPOP.                                                 *)
CoordPop ==
    /\ CoordAt("loop")
    /\ IF todo = <<>>
       THEN CoordGo("scanInflight") /\ UNCHANGED todo
       ELSE /\ coord' = [coord EXCEPT !.pc = "noting", !.piece = Head(todo)]
            /\ todo' = Tail(todo)
    /\ UNCHANGED <<plan, inflight, done, stored, helper, waiting, left>>

(* take, second half: the in-flight note.                                  *)
CoordNote ==
    /\ CoordAt("noting")
    /\ inflight' = [inflight EXCEPT ![coord.piece] = "fresh"]
    /\ CoordGo("encoding")
    /\ UNCHANGED <<plan, todo, done, stored, helper, waiting, left>>

CoordEncodes ==
    /\ CoordAt("encoding")
    /\ coord' = [coord EXCEPT !.pc = "finishing", !.mine = @ \union {coord.piece}]
    /\ UNCHANGED <<board, stored, helper, waiting, left>>

(* finish, by either side.                                                 *)
Finish(i) ==
    /\ done' = done \union {i}
    /\ inflight' = [inflight EXCEPT ![i] = "none"]
    /\ UNCHANGED <<plan, todo>>

CoordFinish ==
    /\ CoordAt("finishing")
    /\ Finish(coord.piece)
    /\ coord' = [coord EXCEPT !.pc = "loop", !.piece = NoPiece]
    /\ UNCHANGED <<stored, helper, waiting, left>>

(* unclaimed: four commands, and anybody's between two of them.            *)
ScanInflight ==
    /\ CoordAt("scanInflight")
    /\ coord' = [coord EXCEPT !.pc = "scanTodo",
                              !.busy = {i \in Pieces : inflight[i] = "fresh"},
                              !.stale = {i \in Pieces : inflight[i] = "stale"}]
    /\ UNCHANGED <<board, stored, helper, waiting, left>>

ScanTodo ==
    /\ CoordAt("scanTodo")
    /\ coord' = [coord EXCEPT !.pc = IF coord.stale = {} THEN "scanDone" ELSE "dropStale",
                              !.queued = ToSet(todo)]
    /\ UNCHANGED <<board, stored, helper, waiting, left>>

DropStale ==
    /\ CoordAt("dropStale")
    /\ inflight' = [i \in Pieces |-> IF i \in coord.stale THEN "none" ELSE inflight[i]]
    /\ CoordGo("scanDone")
    /\ UNCHANGED <<plan, todo, done, stored, helper, waiting, left>>

(* Mutant: only what went stale, not what was lost before its note.        *)
StaleOnly == coord.stale \ done

(* unclaimed's result.                                                     *)
Orphans == First(coord.count) \ (done \union coord.busy \union coord.queued)

(* The first orphan is the coordinator's, without a note of its own.       *)
ScanDone ==
    /\ CoordAt("scanDone")
    /\ coord' = [coord EXCEPT !.pc = IF Orphans = {} THEN "countDone" ELSE "encoding",
                              !.piece = IF Orphans = {} THEN NoPiece ELSE Min(Orphans),
                              !.busy = {}, !.stale = {}, !.queued = {}]
    /\ UNCHANGED <<board, stored, helper, waiting, left>>

(* Every piece is done, or helpers are still on theirs: sleep and look     *)
(* again.                                                                  *)
CountDone ==
    /\ CoordAt("countDone")
    /\ CoordGo(IF Cardinality(done) >= coord.count THEN "joining" ELSE "loop")
    /\ UNCHANGED <<board, stored, helper, waiting, left>>

(* Every piece is here or fetched from the bucket, measured and joined; or *)
(* a fetch finds no object and raises.  Both end in the finally block.     *)
Join ==
    /\ CoordAt("joining")
    /\ CoordGo("closing")
    /\ UNCHANGED <<board, stored, helper, waiting, left>>

(* Anything in the try block raises, the deadline of the loop included.    *)
CoordRaises ==
    /\ coord.pc \in AtWork \ {"closing"}
    /\ Spend("fail")
    /\ CoordGo("closing")
    /\ UNCHANGED <<board, stored, helper, waiting>>

(* finally: close deletes the board's keys, then the prefix is emptied,    *)
(* and a refusal to empty it is only logged.                               *)
Close ==
    /\ CoordAt("closing")
    /\ plan' = 0 /\ todo' = <<>> /\ inflight' = NoNotes /\ done' = {}
    /\ CoordGo("sweeping")
    /\ UNCHANGED <<stored, helper, waiting, left>>

DeletePieces ==
    /\ CoordAt("sweeping")
    /\ stored' = [i \in Pieces |-> 0]
    /\ CoordEnds
    /\ UNCHANGED <<board, helper, waiting, left>>

(* delete_prefix or open refuses before the try block: the attempt fails.  *)
(* The last delete_prefix refuses: the pieces stay.                        *)
DeleteRefused ==
    /\ coord.pc \in {"clearing", "opening", "sweeping"}
    /\ Spend("fail")
    /\ CoordEnds
    /\ UNCHANGED <<board, stored, helper, waiting>>

(* The process is killed: no finally, and the board stays.                 *)
CoordKilled ==
    /\ coord.pc # "idle"
    /\ Spend("crash")
    /\ CoordEnds
    /\ UNCHANGED <<board, stored, helper, waiting>>

(* BOARD_TTL_SECONDS after the last write, long after any job: what a      *)
(* crash left of the board expires.                                        *)
BoardExpires ==
    /\ CoordAt("idle") /\ HelpersGone
    /\ plan # 0
    /\ plan' = 0 /\ todo' = <<>> /\ inflight' = NoNotes /\ done' = {}
    /\ UNCHANGED <<stored, coord, helper, waiting, left>>

-----------------------------------------------------------------------------
(* The helpers: help_encode, help_ladder.                                  *)

(* A worker takes a helper entry; a job without a board needs no help.     *)
HelperStart(h) ==
    /\ HelperAt(h, "idle") /\ waiting > 0
    /\ waiting' = waiting - 1
    /\ helper' = IF plan = 0 THEN helper
                 ELSE [helper EXCEPT ![h] = [NewHelper EXCEPT !.pc = "take", !.plan = plan]]
    /\ UNCHANGED <<board, stored, coord, left>>

HelperPop(h) ==
    /\ HelperAt(h, "take")
    /\ IF todo = <<>>
       THEN HelperEnds(h) /\ UNCHANGED todo
       ELSE /\ helper' = [helper EXCEPT ![h].pc = "noting", ![h].piece = Head(todo)]
            /\ todo' = Tail(todo)
    /\ UNCHANGED <<plan, inflight, done, stored, coord, waiting, left>>

HelperNote(h) ==
    /\ HelperAt(h, "noting")
    /\ inflight' = [inflight EXCEPT ![helper[h].piece] = "fresh"]
    /\ HelperGo(h, "encoding")
    /\ UNCHANGED <<plan, todo, done, stored, coord, waiting, left>>

(* The source is downloaded and the piece encoded, by the helper's plan.   *)
HelperEncodes(h) ==
    /\ HelperAt(h, "encoding")
    /\ HelperGo(h, "checking")
    /\ UNCHANGED <<board, stored, coord, waiting, left>>

(* "The job finished, failed or was given back meanwhile."                 *)
HelperChecks(h) ==
    /\ HelperAt(h, "checking")
    /\ IF plan = 0 THEN HelperEnds(h) ELSE HelperGo(h, "uploading")
    /\ UNCHANGED <<board, stored, coord, waiting, left>>

(* Mutant: finish is reported before the upload.                           *)
HelperUploadsLater(h) ==
    /\ HelperAt(h, "uploading")
    /\ HelperGo(h, "finishing")
    /\ UNCHANGED <<board, stored, coord, waiting, left>>

HelperUploads(h) ==
    /\ HelperAt(h, "uploading")
    /\ stored' = [stored EXCEPT ![helper[h].piece] = helper[h].plan]
    /\ HelperGo(h, "finishing")
    /\ UNCHANGED <<board, coord, waiting, left>>

HelperFinish(h) ==
    /\ HelperAt(h, "finishing")
    /\ Finish(helper[h].piece)
    /\ helper' = [helper EXCEPT ![h].pc = "take", ![h].piece = NoPiece]
    /\ UNCHANGED <<stored, coord, waiting, left>>

(* Mutant: a piece is given back that was never taken.                     *)
HelperRaisesUntaken(h) ==
    /\ helper[h].pc \in {"take", "encoding", "checking", "uploading", "finishing"}
    /\ Spend("fail")
    /\ HelperGo(h, "giving")
    /\ UNCHANGED <<board, stored, coord, waiting>>

(* Anything raises with a piece in hand, a stop included.                  *)
HelperRaises(h) ==
    /\ helper[h].pc \in {"encoding", "checking", "uploading", "finishing"}
    /\ Spend("fail")
    /\ HelperGo(h, "giving")
    /\ UNCHANGED <<board, stored, coord, waiting>>

(* give_back: the piece goes to the front, whatever board is there now.    *)
HelperGivesBack(h) ==
    /\ HelperAt(h, "giving")
    /\ inflight' = [inflight EXCEPT ![helper[h].piece] = "none"]
    /\ todo' = <<helper[h].piece>> \o todo
    /\ HelperEnds(h)
    /\ UNCHANGED <<plan, done, stored, coord, waiting, left>>

HelperKilled(h) ==
    /\ helper[h].pc # "idle"
    /\ Spend("crash")
    /\ HelperEnds(h)
    /\ UNCHANGED <<board, stored, coord, waiting>>

(* stale_after seconds pass since a piece was taken.                       *)
GoesStale(i) ==
    /\ inflight[i] = "fresh"
    /\ inflight' = [inflight EXCEPT ![i] = "stale"]
    /\ UNCHANGED <<plan, todo, done, stored, coord, helper, waiting, left>>

-----------------------------------------------------------------------------
CoordStep ==
    \/ ClearPieces \/ Open \/ AskHelper \/ AllAsked \/ EncodeAudio
    \/ CoordPop \/ CoordNote \/ CoordEncodes \/ CoordFinish
    \/ ScanInflight \/ ScanTodo \/ DropStale \/ ScanDone \/ CountDone
    \/ Join \/ Close \/ DeletePieces

HelperStep(h) ==
    \/ HelperStart(h) \/ HelperPop(h) \/ HelperNote(h) \/ HelperEncodes(h)
    \/ HelperChecks(h) \/ HelperUploads(h) \/ HelperFinish(h) \/ HelperGivesBack(h)

Fault ==
    \/ CoordRaises \/ DeleteRefused \/ CoordKilled \/ BoardExpires
    \/ \E h \in Helpers : HelperRaises(h) \/ HelperKilled(h)

Next ==
    \/ \E n \in 0 .. MaxPieces : Attempt(n)
    \/ CoordStep
    \/ \E h \in Helpers : HelperStep(h)
    \/ \E i \in Pieces : GoesStale(i)
    \/ Fault

Spec == Init /\ [][Next]_vars

(* The coordinator's process keeps running and time passes; no helper is   *)
(* ever sure to take a step.                                               *)
Fairness == WF_vars(CoordStep) /\ \A i \in Pieces : WF_vars(GoesStale(i))
FairSpec == Spec /\ Fairness

-----------------------------------------------------------------------------
(* Properties.                                                             *)

(* What is joined is whole and of one plan: each piece was encoded by the  *)
(* coordinator itself, or is in the bucket and was encoded by a helper     *)
(* from this attempt's plan, however pieces were taken over, given back,   *)
(* finished twice or left behind by an earlier attempt.                    *)
JoinsOwnPieces ==
    CoordAt("joining") =>
        \A i \in First(coord.count) : i \in coord.mine \/ stored[i] = coord.attempt

(* "The coordinator never depends on a helper": once its board is open the *)
(* attempt comes to an end, although no helper is sure to take any step,   *)
(* and helpers may stop, fail or die with a piece in hand.                 *)
AttemptEnds == coord.pc \in AtWork ~> CoordAt("idle")
=============================================================================
