-------------------------- MODULE PieceBoardProofs --------------------------
(***************************************************************************)
(* Machine-checked proofs about PieceBoard, for any number of pieces,      *)
(* helpers, attempts, crashes and failures.                                *)
(***************************************************************************)
EXTENDS PieceBoard, FiniteSetTheorems, WellFoundedInduction,
        SequenceTheorems, TLAPS

-----------------------------------------------------------------------------
(* Types.                                                                  *)

(* A bounded event leaves the budget typed.                                *)
LEMMA SpendTyped ==
    ASSUME left \in [Bounded -> Nat], NEW what \in Bounded, Spend(what)
    PROVE  left' \in [Bounded -> Nat]
  BY DEF Spend

(* Removing the head of a list of pieces, and putting a piece before it.   *)
LEMMA ListTyped ==
    ASSUME NEW S, NEW s \in Seq(S), NEW x \in S
    PROVE  /\ s # <<>> => Head(s) \in S /\ Tail(s) \in Seq(S)
           /\ <<x>> \o s \in Seq(S)
  OBVIOUS

(* A non-empty set of naturals has a least element: Min is defined on it.  *)
LEMMA LeastExists ==
    ASSUME NEW S \in SUBSET Nat, S # {}
    PROVE  Min(S) \in S
  <1>. DEFINE R == {p \in Nat \X Nat : p[1] < p[2]}
  <1>1. OpToRel(<, Nat) = R
    BY Zenon DEF OpToRel
  <1>2. IsWellFoundedOn(R, Nat)
    BY <1>1, NatLessThanWellFounded
  <1>3. PICK x \in S : \A y \in S : ~(<<y, x>> \in R)
    BY <1>2, WFMin, Zenon
  <1>4. \A y \in S : y < x => <<y, x>> \in R
    OBVIOUS
  <1>5. \A y \in S : x =< y
    <2>. HIDE DEF R
    <2>1. \A y \in S : ~(y < x)
      BY <1>3, <1>4, Zenon
    <2>. QED BY <2>1
  <1>. QED
    BY <1>5 DEF Min

(* The initial state is well typed.                                        *)
LEMMA TypeInit == Init => TypeOK
  BY PieceAssumption DEF Init, TypeOK, NewCoord, NewHelper, Coordinators, HelperRuns,
     NoPiece, CoordPc, Before, HelperPc, NoNotes, Note, Pieces

(* A field of the coordinator or of a helper given a value of its type.    *)
LEMMA FieldsTyped ==
    /\ \A c \in Coordinators : \A x \in CoordPc : [c EXCEPT !.pc = x] \in Coordinators
    /\ \A c \in Coordinators : \A x \in Nat : [c EXCEPT !.attempt = x] \in Coordinators
    /\ \A c \in Coordinators : \A x \in 0 .. MaxPieces : [c EXCEPT !.count = x] \in Coordinators
    /\ \A c \in Coordinators : \A x \in Nat : [c EXCEPT !.ask = x] \in Coordinators
    /\ \A c \in Coordinators : \A x \in Nat : [c EXCEPT !.piece = x] \in Coordinators
    /\ \A c \in Coordinators : \A x \in SUBSET Pieces : [c EXCEPT !.mine = x] \in Coordinators
    /\ \A c \in Coordinators : \A x \in SUBSET Pieces : [c EXCEPT !.busy = x] \in Coordinators
    /\ \A c \in Coordinators : \A x \in SUBSET Pieces : [c EXCEPT !.stale = x] \in Coordinators
    /\ \A c \in Coordinators : \A x \in SUBSET Pieces : [c EXCEPT !.queued = x] \in Coordinators
    /\ NoPiece \in Nat
    /\ NewCoord \in Coordinators
    /\ NewHelper \in HelperRuns
  BY PieceAssumption DEF Coordinators, HelperRuns, NewCoord, NewHelper, NoPiece,
     CoordPc, Before, HelperPc

(* A task that ends leaves its process idle and typed.                     *)
LEMMA EndsTyped ==
    /\ TypeOK /\ CoordEnds => coord' \in Coordinators /\ coord'.pc = "idle"
    /\ \A h \in Helpers : TypeOK /\ HelperEnds(h) =>
          /\ helper' \in [Helpers -> HelperRuns]
          /\ \A g \in Helpers : helper'[g].pc \notin {"idle", "take"} => helper'[g].piece \in Pieces
  <1>1. TypeOK /\ CoordEnds => coord' \in Coordinators /\ coord'.pc = "idle"
    <2>1. TypeOK /\ CoordEnds => /\ coord' = [NewCoord EXCEPT !.attempt = coord.attempt]
                                 /\ coord.attempt \in Nat
      BY DEF CoordEnds, TypeOK, Coordinators
    <2>2. \A x \in Nat : /\ [NewCoord EXCEPT !.attempt = x] \in Coordinators
                         /\ [NewCoord EXCEPT !.attempt = x].pc = "idle"
      BY PieceAssumption DEF Coordinators, NewCoord, NoPiece, CoordPc, Before
    <2>. QED
      BY <2>1, <2>2
  <1>2. NewHelper \in HelperRuns /\ NewHelper.pc = "idle"
    BY PieceAssumption DEF NewHelper, HelperRuns, HelperPc, NoPiece
  <1>3. ASSUME NEW h \in Helpers, TypeOK, HelperEnds(h)
        PROVE  /\ helper' \in [Helpers -> HelperRuns]
               /\ \A g \in Helpers : helper'[g].pc \notin {"idle", "take"} =>
                                        helper'[g].piece \in Pieces
    BY <1>2, <1>3 DEF HelperEnds, TypeOK
  <1>. QED
    BY <1>1, <1>3

(* The names of the coordinator's program counter.                         *)
LEMMA PcsTyped == Before \union AtWork \union {"sweeping"} = CoordPc
  BY DEF CoordPc

(* The new board's list: every piece of the plan, in order.                *)
LEMMA NewList ==
    ASSUME NEW n \in Nat, n =< MaxPieces
    PROVE  /\ [k \in 1 .. n |-> k - 1] \in Seq(First(n))
           /\ First(n) \subseteq Pieces
  <1>1. [k \in 1 .. n |-> k - 1] \in [1 .. n -> First(n)]
    BY DEF First
  <1>. QED
    BY <1>1, SeqDef, PieceAssumption DEF First, Pieces

(* The board is opened with a typed plan and list.                         *)
LEMMA OpenTyped == ASSUME TypeOK, Open PROVE TypeOK'
  <1>. DEFINE n == IF MaxHelpers < coord.count - 1 THEN MaxHelpers ELSE coord.count - 1
  <1>1. coord.count \in Nat /\ coord.count >= 2 /\ coord.count =< MaxPieces
    BY PieceAssumption DEF TypeOK, Coordinators, Open, CoordAt
  <1>2. n \in Nat
    BY <1>1, PieceAssumption
  <1>3. coord' = [coord EXCEPT !.pc = "asking", !.ask = n]
    BY DEF Open
  <1>. HIDE DEF n
  <1>4. coord' \in Coordinators /\ coord'.count = coord.count /\ coord'.pc = "asking"
    BY <1>2, <1>3 DEF TypeOK, Coordinators, CoordPc, AtWork
  <1>5. todo' \in Seq(Pieces)
    <2>1. todo' \in Seq(First(coord.count)) /\ First(coord.count) \subseteq Pieces
      BY <1>1, NewList DEF Open
    <2>. QED
      BY <2>1, SeqDef
  <1>6. left' \in [Bounded -> Nat]
    BY SpendTyped DEF Open, TypeOK, Bounded
  <1>7. inflight' \in [Pieces -> Note] /\ plan' \in Nat /\ done' \subseteq Pieces
    BY DEF Open, TypeOK, Coordinators, NoNotes, Note
  <1>. QED
    BY <1>1, <1>4, <1>5, <1>6, <1>7 DEF Open, TypeOK

(* What the coordinator does keeps the state typed: one case per action.   *)
LEMMA CoordStepTyped == ASSUME TypeOK, CoordStep PROVE TypeOK'
  <1>1. CASE ClearPieces
    BY <1>1 DEF ClearPieces, CoordGo, board, TypeOK, Coordinators, CoordPc, Before, AtWork,
       Scanning, CoordAt
  <1>2. CASE Open
    BY <1>2, OpenTyped
  <1>3. CASE AskHelper
    <2>1. coord.ask - 1 \in Nat
      BY <1>3 DEF AskHelper, TypeOK, Coordinators
    <2>2. coord' \in Coordinators
      BY <1>3, <2>1, FieldsTyped DEF AskHelper, TypeOK
    <2>3. coord'.pc = "asking" /\ coord'.count = coord.count
      BY <1>3 DEF AskHelper, TypeOK, Coordinators, CoordAt
    <2>. QED
      BY <1>3, <2>2, <2>3 DEF AskHelper, board, TypeOK, CoordAt
  <1>4. CASE AllAsked
    BY <1>4 DEF AllAsked, CoordGo, board, TypeOK, Coordinators, CoordPc, Before, AtWork,
       Scanning, CoordAt
  <1>5. CASE EncodeAudio
    BY <1>5 DEF EncodeAudio, CoordGo, board, TypeOK, Coordinators, CoordPc, Before, AtWork,
       Scanning, CoordAt
  <1>6. CASE CoordPop
    <2>1. CASE todo = <<>>
      BY <1>6, <2>1 DEF CoordPop, CoordGo, TypeOK, Coordinators, CoordPc, Before, AtWork,
         Scanning, CoordAt
    <2>2. CASE todo # <<>>
      <3>1. Head(todo) \in Pieces /\ Tail(todo) \in Seq(Pieces)
        BY <2>2, ListTyped DEF TypeOK
      <3>2. coord' = [coord EXCEPT !.pc = "noting", !.piece = Head(todo)] /\ todo' = Tail(todo)
        BY <1>6, <2>2 DEF CoordPop
      <3>3. coord' \in Coordinators /\ coord'.pc = "noting" /\ coord'.count = coord.count
            /\ coord'.piece = Head(todo)
        <4>1. Head(todo) \in Nat
          BY <3>1, PieceAssumption DEF Pieces
        <4>. QED
          BY <3>2, <4>1 DEF TypeOK, Coordinators, CoordPc, AtWork
      <3>. QED
        BY <1>6, <3>1, <3>2, <3>3 DEF CoordPop, TypeOK, CoordAt
    <2>. QED
      BY <2>1, <2>2
  <1>7. CASE CoordNote
    BY <1>7 DEF CoordNote, CoordGo, Note, TypeOK, Coordinators, CoordPc, Before, AtWork,
       Scanning, CoordAt
  <1>8. CASE CoordEncodes
    BY <1>8 DEF CoordEncodes, board, TypeOK, Coordinators, CoordPc, Before, AtWork, Scanning,
       CoordAt
  <1>9. CASE CoordFinish
    <2>1. coord' = [[coord EXCEPT !.pc = "loop"] EXCEPT !.piece = NoPiece]
      BY <1>9 DEF CoordFinish
    <2>2. coord' \in Coordinators
      BY <2>1, FieldsTyped, PcsTyped DEF TypeOK, AtWork
    <2>3. coord'.pc = "loop" /\ coord'.count = coord.count
      BY <2>1 DEF TypeOK, Coordinators
    <2>. QED
      BY <1>9, <2>2, <2>3 DEF CoordFinish, Finish, Note, TypeOK, CoordAt
  <1>10. CASE ScanInflight
    BY <1>10 DEF ScanInflight, board, TypeOK, Coordinators, CoordPc, Before, AtWork,
       Scanning, CoordAt
  <1>11. CASE ScanTodo
    <2>1. ToSet(todo) \subseteq Pieces
      BY DEF ToSet, TypeOK
    <2>. QED
      BY <1>11, <2>1 DEF ScanTodo, board, TypeOK, Coordinators, CoordPc, Before, AtWork,
         Scanning, CoordAt
  <1>12. CASE DropStale
    BY <1>12 DEF DropStale, CoordGo, Note, TypeOK, Coordinators, CoordPc, Before, AtWork,
       Scanning, CoordAt
  <1>13. CASE ScanDone
    <2>1. Orphans \subseteq Pieces /\ Pieces \subseteq Nat
      BY PieceAssumption DEF Orphans, First, Pieces, TypeOK, Coordinators
    <2>2. Orphans # {} => Min(Orphans) \in Pieces
      BY <2>1, LeastExists
    <2>3. CASE Orphans = {}
      <3>1. coord' = [coord EXCEPT !.pc = "countDone", !.piece = NoPiece,
                                   !.busy = {}, !.stale = {}, !.queued = {}]
        BY <1>13, <2>3 DEF ScanDone
      <3>2. NoPiece \in Nat
        BY FieldsTyped
      <3>. QED
        BY <1>13, <3>1, <3>2
           DEF ScanDone, board, TypeOK, Coordinators, CoordPc, AtWork, Scanning, CoordAt
    <2>4. CASE Orphans # {}
      <3>1. coord' = [coord EXCEPT !.pc = "encoding", !.piece = Min(Orphans),
                                   !.busy = {}, !.stale = {}, !.queued = {}]
        BY <1>13, <2>4 DEF ScanDone
      <3>2. Min(Orphans) \in Pieces /\ Min(Orphans) \in Nat
        BY <2>1, <2>2, <2>4
      <3>. QED
        BY <1>13, <3>1, <3>2 DEF ScanDone, board, TypeOK, Coordinators, CoordPc, AtWork, CoordAt
    <2>. QED
      BY <2>3, <2>4
  <1>14. CASE CountDone
    BY <1>14 DEF CountDone, CoordGo, board, TypeOK, Coordinators, CoordPc, Before, AtWork,
       Scanning, CoordAt
  <1>15. CASE Join
    BY <1>15 DEF Join, CoordGo, board, TypeOK, Coordinators, CoordPc, Before, AtWork,
       Scanning, CoordAt
  <1>16. CASE Close
    <2>1. coord' \in Coordinators /\ coord'.pc = "sweeping" /\ coord'.count = coord.count
      BY <1>16 DEF Close, CoordGo, TypeOK, Coordinators, CoordPc, Before, AtWork, Scanning,
         CoordAt
    <2>. QED
      BY <1>16, <2>1 DEF Close, NoNotes, Note, TypeOK, CoordAt
  <1>17. CASE DeletePieces
    <2>1. coord' \in Coordinators /\ coord'.pc = "idle"
      BY <1>17, EndsTyped DEF DeletePieces
    <2>. QED
      BY <1>17, <2>1 DEF DeletePieces, board, TypeOK
  <1>. QED
    BY <1>1, <1>2, <1>3, <1>4, <1>5, <1>6, <1>7, <1>8, <1>9, <1>10, <1>11, <1>12, <1>13,
       <1>14, <1>15, <1>16, <1>17 DEF CoordStep

(* What a helper does keeps the state typed.                               *)
LEMMA HelperStepTyped == ASSUME TypeOK, NEW h \in Helpers, HelperStep(h) PROVE TypeOK'
  <1>1. CASE HelperStart(h)
    <2>1. waiting' \in Nat
      BY <1>1 DEF HelperStart, TypeOK
    <2>2. [NewHelper EXCEPT !.pc = "take", !.plan = plan] \in HelperRuns
      BY FieldsTyped DEF TypeOK, HelperRuns, HelperPc
    <2>3. helper' \in [Helpers -> HelperRuns]
      BY <1>1, <2>2 DEF HelperStart, TypeOK
    <2>4. helper'[h].pc \in {"idle", "take"}
      BY <1>1 DEF HelperStart, HelperAt, TypeOK, NewHelper
    <2>. QED
      BY <1>1, <2>1, <2>3, <2>4 DEF HelperStart, board, TypeOK
  <1>2. CASE HelperPop(h)
    <2>1. CASE todo = <<>>
      BY <1>2, <2>1, EndsTyped DEF HelperPop, TypeOK
    <2>2. CASE todo # <<>>
      <3>1. Head(todo) \in Pieces /\ Tail(todo) \in Seq(Pieces)
        BY <2>2, ListTyped DEF TypeOK
      <3>2. Head(todo) \in Nat
        BY <3>1, PieceAssumption DEF Pieces
      <3>3. [helper[h] EXCEPT !.pc = "noting", !.piece = Head(todo)] \in HelperRuns
        BY <3>2 DEF TypeOK, HelperRuns, HelperPc
      <3>4. helper' = [helper EXCEPT ![h] = [helper[h] EXCEPT !.pc = "noting", !.piece = Head(todo)]]
        BY <1>2, <2>2 DEF HelperPop, TypeOK, HelperRuns
      <3>. QED
        BY <1>2, <2>2, <3>1, <3>3, <3>4 DEF HelperPop, TypeOK, HelperRuns
    <2>. QED
      BY <2>1, <2>2
  <1>3. CASE HelperNote(h)
    BY <1>3 DEF HelperNote, HelperAt, HelperGo, Note, TypeOK, HelperRuns, HelperPc
  <1>4. CASE HelperEncodes(h)
    BY <1>4 DEF HelperEncodes, HelperAt, HelperGo, board, TypeOK, HelperRuns, HelperPc
  <1>5. CASE HelperChecks(h)
    <2>1. CASE plan = 0
      BY <1>5, <2>1, EndsTyped DEF HelperChecks, board, TypeOK
    <2>2. CASE plan # 0
      <3>1. helper' = [helper EXCEPT ![h].pc = "uploading"] /\ helper[h].piece \in Pieces
        BY <1>5, <2>2 DEF HelperChecks, HelperAt, HelperGo, TypeOK
      <3>. QED
        BY <1>5, <3>1 DEF HelperChecks, board, TypeOK, HelperRuns, HelperPc
    <2>. QED
      BY <2>1, <2>2
  <1>6. CASE HelperUploads(h)
    BY <1>6 DEF HelperUploads, HelperAt, HelperGo, board, TypeOK, HelperRuns, HelperPc
  <1>7. CASE HelperFinish(h)
    <2>1. [helper[h] EXCEPT !.pc = "take", !.piece = NoPiece] \in HelperRuns
      BY FieldsTyped DEF TypeOK, HelperRuns, HelperPc
    <2>2. helper' = [helper EXCEPT ![h] = [helper[h] EXCEPT !.pc = "take", !.piece = NoPiece]]
      BY <1>7 DEF HelperFinish, TypeOK, HelperRuns
    <2>. QED
      BY <1>7, <2>1, <2>2 DEF HelperFinish, HelperAt, Finish, Note, TypeOK, HelperRuns
  <1>8. CASE HelperGivesBack(h)
    <2>1. <<helper[h].piece>> \o todo \in Seq(Pieces)
      BY <1>8, ListTyped DEF HelperGivesBack, HelperAt, TypeOK
    <2>. QED
      BY <1>8, <2>1, EndsTyped DEF HelperGivesBack, Note, TypeOK
  <1>. QED
    BY <1>1, <1>2, <1>3, <1>4, <1>5, <1>6, <1>7, <1>8 DEF HelperStep

(* A new attempt, and what the environment does, keep the state typed.     *)
LEMMA AttemptTyped ==
    ASSUME TypeOK, NEW n \in 0 .. MaxPieces, Attempt(n) PROVE TypeOK'
  <1>1. left' \in [Bounded -> Nat]
    BY SpendTyped DEF Attempt, TypeOK, Bounded
  <1>2. coord.attempt + 1 \in Nat
    BY DEF TypeOK, Coordinators
  <1>3. CASE n < 2
    BY <1>1, <1>2, <1>3 DEF Attempt, CoordAt, board, TypeOK, Coordinators
  <1>4. CASE n >= 2
    BY <1>1, <1>2, <1>4 DEF Attempt, CoordAt, board, TypeOK, Coordinators, CoordPc, Before
  <1>. QED
    BY <1>3, <1>4, PieceAssumption

(* So does what goes wrong.                                                *)
LEMMA FaultTyped == ASSUME TypeOK, Fault PROVE TypeOK'
  <1>1. CASE CoordRaises
    <2>1. left' \in [Bounded -> Nat]
      BY <1>1, SpendTyped DEF CoordRaises, TypeOK, Bounded
    <2>2. coord.pc # "idle"
      BY <1>1 DEF CoordRaises, AtWork, Scanning
    <2>. QED
      BY <1>1, <2>1, <2>2 DEF CoordRaises, CoordGo, board, TypeOK, Coordinators, CoordPc, AtWork
  <1>2. CASE DeleteRefused \/ CoordKilled
    <2>1. left' \in [Bounded -> Nat]
      BY <1>2, SpendTyped DEF DeleteRefused, CoordKilled, TypeOK, Bounded
    <2>2. coord' \in Coordinators /\ coord'.pc = "idle"
      BY <1>2, EndsTyped DEF DeleteRefused, CoordKilled
    <2>. QED
      BY <1>2, <2>1, <2>2 DEF DeleteRefused, CoordKilled, board, TypeOK
  <1>3. CASE BoardExpires
    BY <1>3 DEF BoardExpires, NoNotes, Note, TypeOK
  <1>4. ASSUME NEW h \in Helpers, HelperRaises(h) PROVE TypeOK'
    <2>1. left' \in [Bounded -> Nat]
      BY <1>4, SpendTyped DEF HelperRaises, TypeOK, Bounded
    <2>. QED
      BY <1>4, <2>1 DEF HelperRaises, HelperGo, board, TypeOK, HelperRuns, HelperPc
  <1>5. ASSUME NEW h \in Helpers, HelperKilled(h) PROVE TypeOK'
    <2>1. left' \in [Bounded -> Nat]
      BY <1>5, SpendTyped DEF HelperKilled, TypeOK, Bounded
    <2>. QED
      BY <1>5, <2>1, EndsTyped DEF HelperKilled, board, TypeOK
  <1>. QED
    BY <1>1, <1>2, <1>3, <1>4, <1>5 DEF Fault

(* Every step keeps the state typed.                                       *)
LEMMA TypeStep == TypeOK /\ [Next]_vars => TypeOK'
  <1>. SUFFICES ASSUME TypeOK, [Next]_vars PROVE TypeOK'
    OBVIOUS
  <1>1. ASSUME NEW i \in Pieces, GoesStale(i) PROVE TypeOK'
    BY <1>1 DEF GoesStale, Note, TypeOK
  <1>2. CASE UNCHANGED vars
    BY <1>2 DEF vars, TypeOK
  <1>. QED
    BY <1>1, <1>2, CoordStepTyped, HelperStepTyped, AttemptTyped, FaultTyped DEF Next

(* Every reachable state of a piecewise encode is well typed: a worker     *)
(* that encodes, uploads or gives back always has a piece of the board in  *)
(* hand, and a coordinator past its plan has at least two pieces.          *)
THEOREM PiecesTyped == Spec => []TypeOK
  BY TypeInit, TypeStep, PTL DEF Spec

-----------------------------------------------------------------------------
(* What is joined.                                                         *)

(* While a coordinator is at work the board is of its plan, and so is      *)
(* everybody who works on it.                                              *)
BoardOfPlan ==
    /\ plan = coord.attempt
    /\ todo \in Seq(First(coord.count))
    /\ done \subseteq First(coord.count)
    /\ coord.pc \in {"encoding", "noting", "finishing"} => coord.piece \in First(coord.count)
    /\ \A h \in Helpers : helper[h].pc # "idle" => helper[h].plan = coord.attempt
    /\ \A h \in Helpers : helper[h].pc \notin {"idle", "take"} =>
                             helper[h].piece \in First(coord.count)

(* A piece is reported as done only after it is in the bucket, encoded by  *)
(* this plan, or in the coordinator's hands.                               *)
DoneIsMade ==
    /\ \A i \in done : i \in coord.mine \/ stored[i] = coord.attempt
    /\ \A h \in Helpers : HelperAt(h, "finishing") => stored[helper[h].piece] = coord.attempt
    /\ CoordAt("finishing") => coord.piece \in coord.mine
    /\ CoordAt("joining") => Cardinality(done) >= coord.count

BoardInv ==
    /\ left["straggle"] = 0
    /\ coord.pc \in AtWork => BoardOfPlan /\ DoneIsMade

(* As many pieces done as the plan has: all of them.                       *)
LEMMA AllOfThem ==
    ASSUME NEW n \in Nat, NEW S \in SUBSET First(n), Cardinality(S) >= n
    PROVE  S = First(n)
  <1>1. IsFiniteSet(First(n)) /\ Cardinality(First(n)) = n
    <2>. DEFINE b == n - 1
    <2>1. b \in Int /\ 0 \in Int
      OBVIOUS
    <2>2. IsFiniteSet(0 .. b) /\ Cardinality(0 .. b) = (IF 0 > b THEN 0 ELSE b - 0 + 1)
      <3>. HIDE DEF b
      <3>. QED
        BY <2>1, FS_Interval
    <2>3. (IF 0 > b THEN 0 ELSE b - 0 + 1) = n
      OBVIOUS
    <2>4. First(n) = 0 .. b
      BY DEF First
    <2>. HIDE DEF b
    <2>. QED
      BY <2>2, <2>3, <2>4
  <1>2. IsFiniteSet(S) /\ Cardinality(S) =< n /\ Cardinality(S) \in Nat
    BY <1>1, FS_Subset, FS_CardinalityType
  <1>3. Cardinality(First(n)) = Cardinality(S)
    BY <1>1, <1>2
  <1>. QED
    BY <1>1, <1>3, FS_Subset

(* No straggler is allowed: the budget only shrinks.                       *)
LEMMA NoStraggle ==
    ASSUME TypeOK, left["straggle"] = 0, [Next]_vars
    PROVE  left'["straggle"] = 0
  <1>1. ASSUME NEW what \in Bounded, Spend(what)
        PROVE  left'["straggle"] = 0
    BY <1>1 DEF Spend, TypeOK, Bounded
  <1>2. CASE UNCHANGED left
    BY <1>2
  <1>3. \/ UNCHANGED left
        \/ \E what \in Bounded : Spend(what)
    <2>1. \A n \in 0 .. MaxPieces : Attempt(n) => Spend("attempt")
      BY DEF Attempt
    <2>2. CoordStep => UNCHANGED left \/ Spend("straggle")
      BY DEF CoordStep, ClearPieces, Open, AskHelper, AllAsked, EncodeAudio, CoordPop,
         CoordNote,
             CoordEncodes, CoordFinish, ScanInflight, ScanTodo, DropStale, ScanDone, CountDone,
             Join, Close, DeletePieces
    <2>3. \A h \in Helpers : HelperStep(h) => UNCHANGED left
      BY DEF HelperStep, HelperStart, HelperPop, HelperNote, HelperEncodes, HelperChecks,
             HelperUploads, HelperFinish, HelperGivesBack
    <2>4. Fault => UNCHANGED left \/ Spend("fail") \/ Spend("crash")
      BY DEF Fault, CoordRaises, DeleteRefused, CoordKilled, BoardExpires, HelperRaises,
         HelperKilled
    <2>5. \A i \in Pieces : GoesStale(i) => UNCHANGED left
      BY DEF GoesStale
    <2>. QED
      BY <2>1, <2>2, <2>3, <2>4, <2>5 DEF Next, vars, Bounded
  <1>. QED
    BY <1>1, <1>2, <1>3

(* Opening: no helper is at work, and the new board is of the new plan.    *)
LEMMA OpenBoard ==
    ASSUME TypeOK, left["straggle"] = 0, Open
    PROVE  BoardOfPlan' /\ DoneIsMade'
  <1>1. HelpersGone
    BY DEF Open, Spend
  <1>2. coord'.attempt = coord.attempt /\ coord'.count = coord.count /\ coord'.pc = "asking"
    BY DEF Open, TypeOK, Coordinators
  <1>3. todo' \in Seq(First(coord.count))
    BY NewList, PieceAssumption DEF Open, TypeOK, Coordinators
  <1>4. BoardOfPlan'
    BY <1>1, <1>2, <1>3 DEF Open, BoardOfPlan, HelpersGone, HelperAt
  <1>5. DoneIsMade'
    BY <1>1, <1>2 DEF Open, DoneIsMade, HelpersGone, HelperAt, CoordAt
  <1>. QED
    BY <1>4, <1>5

(* What the coordinator does at work, one case per action.                 *)
LEMMA CoordBoard ==
    ASSUME TypeOK, BoardOfPlan, DoneIsMade, coord.pc \in AtWork, CoordStep, coord'.pc \in AtWork
    PROVE  BoardOfPlan' /\ DoneIsMade'
  <1>1. CASE ClearPieces
    BY <1>1 DEF ClearPieces, CoordAt, AtWork, Scanning
  <1>2. CASE Open
    BY <1>2 DEF Open, CoordAt, AtWork, Scanning
  <1>3. CASE AskHelper
    BY <1>3 DEF AskHelper, board, BoardOfPlan, DoneIsMade, TypeOK, Coordinators,
       CoordAt, HelperAt
  <1>4. CASE AllAsked
    BY <1>4 DEF AllAsked, CoordGo, board, BoardOfPlan, DoneIsMade, TypeOK, Coordinators,
       CoordAt, HelperAt
  <1>5. CASE EncodeAudio
    BY <1>5 DEF EncodeAudio, CoordGo, board, BoardOfPlan, DoneIsMade, TypeOK, Coordinators,
       CoordAt, HelperAt
  <1>6. CASE CoordPop
    <2>1. CASE todo = <<>>
      BY <1>6, <2>1 DEF CoordPop, CoordGo, BoardOfPlan, DoneIsMade, TypeOK, Coordinators,
         CoordAt, HelperAt
    <2>2. CASE todo # <<>>
      <3>1. Head(todo) \in First(coord.count) /\ Tail(todo) \in Seq(First(coord.count))
        BY <2>2, ListTyped DEF BoardOfPlan
      <3>. QED
        BY <1>6, <2>2, <3>1 DEF CoordPop, BoardOfPlan, DoneIsMade, TypeOK, Coordinators,
           CoordAt, HelperAt
    <2>. QED
      BY <2>1, <2>2
  <1>7. CASE CoordNote
    BY <1>7 DEF CoordNote, CoordGo, BoardOfPlan, DoneIsMade, TypeOK, Coordinators,
       CoordAt, HelperAt
  <1>8. CASE CoordEncodes
    BY <1>8 DEF CoordEncodes, board, BoardOfPlan, DoneIsMade, TypeOK, Coordinators,
       CoordAt, HelperAt
  <1>9. CASE CoordFinish
    BY <1>9 DEF CoordFinish, Finish, BoardOfPlan, DoneIsMade, TypeOK, Coordinators,
       CoordAt, HelperAt
  <1>10. CASE ScanInflight
    BY <1>10 DEF ScanInflight, board, BoardOfPlan, DoneIsMade, TypeOK, Coordinators,
       CoordAt, HelperAt
  <1>11. CASE ScanTodo
    BY <1>11 DEF ScanTodo, board, BoardOfPlan, DoneIsMade, TypeOK, Coordinators,
       CoordAt, HelperAt
  <1>12. CASE DropStale
    BY <1>12 DEF DropStale, CoordGo, BoardOfPlan, DoneIsMade, TypeOK, Coordinators,
       CoordAt, HelperAt
  <1>13. CASE ScanDone
    <2>1. Orphans \subseteq First(coord.count) /\ Orphans \subseteq Nat
      BY DEF Orphans, First, TypeOK, Coordinators
    <2>2. Orphans # {} => Min(Orphans) \in First(coord.count)
      BY <2>1, LeastExists
    <2>3. /\ coord'.attempt = coord.attempt /\ coord'.count = coord.count /\ coord'.mine = coord.mine
          /\ coord'.pc \in {"countDone", "encoding"}
          /\ coord'.pc = "encoding" => coord'.piece \in First(coord.count)
      BY <1>13, <2>2 DEF ScanDone, TypeOK, Coordinators
    <2>. QED
      BY <1>13, <2>3 DEF ScanDone, board, BoardOfPlan, DoneIsMade, CoordAt, HelperAt
  <1>14. CASE CountDone
    BY <1>14 DEF CountDone, CoordGo, board, BoardOfPlan, DoneIsMade, TypeOK, Coordinators,
       CoordAt, HelperAt
  <1>15. CASE Join
    BY <1>15 DEF Join, CoordGo, board, BoardOfPlan, DoneIsMade, TypeOK, Coordinators,
       CoordAt, HelperAt
  <1>16. CASE Close
    BY <1>16 DEF Close, CoordGo, TypeOK, Coordinators, AtWork, Scanning
  <1>17. CASE DeletePieces
    BY <1>17 DEF DeletePieces, CoordAt, AtWork, Scanning
  <1>. QED
    BY <1>1, <1>2, <1>3, <1>4, <1>5, <1>6, <1>7, <1>8, <1>9, <1>10, <1>11, <1>12, <1>13,
       <1>14, <1>15, <1>16, <1>17 DEF CoordStep

(* A helper that ends touches nothing the coordinator relies on.           *)
LEMMA HelperLeaves ==
    ASSUME TypeOK, BoardOfPlan, DoneIsMade, NEW h \in Helpers,
           helper' = [helper EXCEPT ![h] = NewHelper], UNCHANGED <<board, stored, coord>>
    PROVE  BoardOfPlan' /\ DoneIsMade'
  <1>1. NewHelper.pc = "idle"
    BY DEF NewHelper
  <1>2. BoardOfPlan'
    BY <1>1 DEF board, BoardOfPlan, TypeOK
  <1>3. DoneIsMade'
    BY <1>1 DEF board, DoneIsMade, HelperAt, CoordAt, TypeOK
  <1>. QED
    BY <1>2, <1>3

(* What a helper does while a coordinator is at work.                      *)
LEMMA HelperBoard ==
    ASSUME TypeOK, BoardOfPlan, DoneIsMade, NEW h \in Helpers, HelperStep(h)
    PROVE  BoardOfPlan' /\ DoneIsMade'
  <1>1. CASE HelperStart(h)
    BY <1>1 DEF HelperStart, HelperAt, CoordAt, NewHelper, board, BoardOfPlan, DoneIsMade,
       TypeOK
  <1>2. CASE HelperPop(h)
    <2>1. CASE todo = <<>>
      <3>1. helper' = [helper EXCEPT ![h] = NewHelper] /\ UNCHANGED <<board, stored, coord>>
        BY <1>2, <2>1 DEF HelperPop, HelperEnds, board
      <3>. QED
        BY <3>1, HelperLeaves
    <2>2. CASE todo # <<>>
      <3>1. Head(todo) \in First(coord.count) /\ Tail(todo) \in Seq(First(coord.count))
        BY <2>2, ListTyped DEF BoardOfPlan
      <3>2. /\ helper' = [helper EXCEPT ![h].pc = "noting", ![h].piece = Head(todo)]
            /\ todo' = Tail(todo) /\ UNCHANGED <<plan, done, stored, coord>>
        BY <1>2, <2>2 DEF HelperPop
      <3>3. helper[h].plan = coord.attempt
        BY <1>2 DEF HelperPop, HelperAt, BoardOfPlan
      <3>4. BoardOfPlan'
        BY <3>1, <3>2, <3>3 DEF BoardOfPlan, TypeOK, HelperRuns
      <3>5. DoneIsMade'
        BY <3>2 DEF DoneIsMade, HelperAt, CoordAt, TypeOK, HelperRuns
      <3>. QED
        BY <3>4, <3>5
    <2>. QED
      BY <2>1, <2>2
  <1>3. CASE HelperNote(h)
    BY <1>3 DEF HelperNote, HelperAt, HelperGo, CoordAt, BoardOfPlan, DoneIsMade, TypeOK,
       HelperRuns
  <1>4. CASE HelperEncodes(h)
    BY <1>4 DEF HelperEncodes, HelperAt, HelperGo, CoordAt, board, BoardOfPlan, DoneIsMade,
       TypeOK, HelperRuns
  <1>5. CASE HelperChecks(h)
    <2>1. CASE plan = 0
      BY <1>5, <2>1, HelperLeaves DEF HelperChecks, HelperEnds
    <2>2. CASE plan # 0
      <3>1. /\ helper' = [helper EXCEPT ![h].pc = "uploading"]
            /\ UNCHANGED <<board, stored, coord>>
            /\ helper[h].pc = "checking"
        BY <1>5, <2>2 DEF HelperChecks, HelperAt, HelperGo
      <3>. QED
        BY <3>1 DEF HelperAt, CoordAt, board, BoardOfPlan, DoneIsMade, TypeOK, HelperRuns
    <2>. QED
      BY <2>1, <2>2
  <1>6. CASE HelperUploads(h)
    BY <1>6 DEF HelperUploads, HelperAt, HelperGo, CoordAt, board, BoardOfPlan, DoneIsMade,
       TypeOK, HelperRuns
  <1>7. CASE HelperFinish(h)
    <2>1. /\ helper' = [helper EXCEPT ![h].pc = "take", ![h].piece = NoPiece]
          /\ done' = done \union {helper[h].piece}
          /\ UNCHANGED <<plan, todo, stored, coord>>
          /\ helper[h].pc = "finishing"
      BY <1>7 DEF HelperFinish, Finish, HelperAt
    <2>2. BoardOfPlan'
      BY <2>1 DEF BoardOfPlan, TypeOK, HelperRuns
    <2>3. ~CoordAt("joining") \/ done' = done
      <3>1. CoordAt("joining") => done = First(coord.count)
        BY AllOfThem DEF BoardOfPlan, DoneIsMade, TypeOK, Coordinators
      <3>. QED
        BY <2>1, <3>1 DEF BoardOfPlan
    <2>4. DoneIsMade'
      <3>1. stored[helper[h].piece] = coord.attempt
        BY <2>1 DEF DoneIsMade, HelperAt
      <3>2. \A i \in done' : i \in coord'.mine \/ stored'[i] = coord'.attempt
        BY <2>1, <3>1 DEF DoneIsMade
      <3>3. \A g \in Helpers : HelperAt(g, "finishing")' => stored'[helper'[g].piece] = coord'.attempt
        BY <2>1 DEF DoneIsMade, HelperAt, TypeOK, HelperRuns
      <3>4. CoordAt("joining")' => Cardinality(done') >= coord'.count
        BY <2>1, <2>3 DEF DoneIsMade, CoordAt
      <3>. QED
        BY <2>1, <3>2, <3>3, <3>4 DEF DoneIsMade, CoordAt
    <2>. QED
      BY <2>2, <2>4
  <1>8. CASE HelperGivesBack(h)
    <2>1. <<helper[h].piece>> \o todo \in Seq(First(coord.count))
      BY <1>8, ListTyped DEF HelperGivesBack, HelperAt, BoardOfPlan
    <2>. QED
      BY <1>8, <2>1 DEF HelperGivesBack, HelperAt, HelperEnds, NewHelper, CoordAt,
         BoardOfPlan, DoneIsMade, TypeOK
  <1>. QED
    BY <1>1, <1>2, <1>3, <1>4, <1>5, <1>6, <1>7, <1>8 DEF HelperStep

(* A fault that leaves the coordinator at work.                            *)
LEMMA FaultBoard ==
    ASSUME TypeOK, BoardOfPlan, DoneIsMade, coord.pc \in AtWork, Fault, coord'.pc \in AtWork
    PROVE  BoardOfPlan' /\ DoneIsMade'
  <1>1. CASE CoordRaises
    BY <1>1 DEF CoordRaises, CoordGo, CoordAt, HelperAt, board, BoardOfPlan, DoneIsMade,
       TypeOK, Coordinators
  <1>2. CASE DeleteRefused \/ CoordKilled
    BY <1>2, EndsTyped DEF DeleteRefused, CoordKilled, AtWork, Scanning
  <1>3. CASE BoardExpires
    BY <1>3 DEF BoardExpires, CoordAt, AtWork, Scanning
  <1>4. ASSUME NEW h \in Helpers, HelperRaises(h) PROVE BoardOfPlan' /\ DoneIsMade'
    BY <1>4 DEF HelperRaises, HelperGo, HelperAt, CoordAt, board, BoardOfPlan, DoneIsMade,
       TypeOK, HelperRuns
  <1>5. ASSUME NEW h \in Helpers, HelperKilled(h) PROVE BoardOfPlan' /\ DoneIsMade'
    BY <1>5 DEF HelperKilled, HelperEnds, HelperAt, CoordAt, NewHelper, board, BoardOfPlan,
       DoneIsMade, TypeOK
  <1>. QED
    BY <1>1, <1>2, <1>3, <1>4, <1>5 DEF Fault

(* The invariant is inductive.                                             *)
LEMMA BoardStep == TypeOK /\ BoardInv /\ [Next]_vars => BoardInv'
  <1>. SUFFICES ASSUME TypeOK, BoardInv, [Next]_vars, coord'.pc \in AtWork
                PROVE  BoardOfPlan' /\ DoneIsMade'
    BY NoStraggle DEF BoardInv
  <1>1. CASE coord.pc \in AtWork
    <2>1. BoardOfPlan /\ DoneIsMade
      BY <1>1 DEF BoardInv
    <2>2. CASE CoordStep
      BY <1>1, <2>1, <2>2, CoordBoard
    <2>3. ASSUME NEW h \in Helpers, HelperStep(h) PROVE BoardOfPlan' /\ DoneIsMade'
      BY <2>1, <2>3, HelperBoard
    <2>4. ASSUME NEW i \in Pieces, GoesStale(i) PROVE BoardOfPlan' /\ DoneIsMade'
      BY <2>1, <2>4 DEF GoesStale, BoardOfPlan, DoneIsMade, CoordAt, HelperAt
    <2>5. CASE Fault
      BY <1>1, <2>1, <2>5, FaultBoard
    <2>6. ASSUME NEW n \in 0 .. MaxPieces, Attempt(n) PROVE FALSE
      BY <1>1, <2>6 DEF Attempt, CoordAt, AtWork, Scanning
    <2>7. CASE UNCHANGED vars
      BY <2>1, <2>7 DEF vars, BoardOfPlan, DoneIsMade, CoordAt, HelperAt
    <2>. QED
      BY <2>2, <2>3, <2>4, <2>5, <2>6, <2>7 DEF Next
  <1>2. CASE coord.pc \notin AtWork
    <2>1. ASSUME NEW n \in 0 .. MaxPieces, Attempt(n) PROVE FALSE
      BY <1>2, <2>1 DEF Attempt, CoordAt, TypeOK, Coordinators, AtWork, Scanning
    <2>2. CASE Open
      BY <2>2, OpenBoard DEF BoardInv
    <2>3. CASE ClearPieces \/ DeletePieces
      BY <2>3, EndsTyped DEF ClearPieces, DeletePieces, CoordGo, TypeOK, Coordinators,
         AtWork, Scanning
    <2>4. CASE CoordStep
      <3>1. ~(AskHelper \/ AllAsked \/ EncodeAudio \/ CoordPop \/ CoordNote \/ CoordEncodes)
        BY <1>2 DEF AskHelper, AllAsked, EncodeAudio, CoordPop, CoordNote, CoordEncodes,
           CoordAt, AtWork
      <3>2. ~(CoordFinish \/ ScanInflight \/ ScanTodo \/ DropStale \/ ScanDone \/ CountDone
              \/ Join \/ Close)
        BY <1>2 DEF CoordFinish, ScanInflight, ScanTodo, DropStale, ScanDone, CountDone,
           Join, Close,
           CoordAt, AtWork, Scanning
      <3>. QED
        BY <2>2, <2>3, <2>4, <3>1, <3>2 DEF CoordStep
    <2>5. CASE UNCHANGED coord
      BY <1>2, <2>5
    <2>6. CASE Fault
      <3>1. ~CoordRaises
        BY <1>2 DEF CoordRaises
      <3>2. CASE DeleteRefused \/ CoordKilled
        BY <3>2, EndsTyped DEF DeleteRefused, CoordKilled, AtWork, Scanning
      <3>. QED
        BY <2>5, <2>6, <3>1, <3>2 DEF Fault, BoardExpires, HelperRaises, HelperKilled
    <2>7. \A h \in Helpers : HelperStep(h) => UNCHANGED coord
      BY DEF HelperStep, HelperStart, HelperPop, HelperNote, HelperEncodes, HelperChecks,
             HelperUploads, HelperFinish, HelperGivesBack
    <2>. QED
      BY <2>1, <2>4, <2>5, <2>6, <2>7 DEF Next, GoesStale, vars
  <1>. QED
    BY <1>1, <1>2

(* As long as no board is opened while a helper of an earlier attempt is   *)
(* at work, a video is joined from all pieces of its plan, each encoded by *)
(* that plan: for any number of pieces, helpers and attempts, whatever     *)
(* crashes, fails, goes stale or is finished twice.                        *)
THEOREM JoinIsWhole ==
    ASSUME Limits["straggle"] = 0
    PROVE  Spec => []JoinsOwnPieces
  <1>1. Init => BoardInv
    BY DEF Init, BoardInv, NewCoord, AtWork, Scanning
  <1>2. TypeOK /\ BoardInv => JoinsOwnPieces
    <2>. SUFFICES ASSUME TypeOK, BoardInv, CoordAt("joining")
                  PROVE  \A i \in First(coord.count) : i \in coord.mine \/ stored[i] = coord.attempt
      BY DEF JoinsOwnPieces
    <2>1. BoardOfPlan /\ DoneIsMade
      BY DEF BoardInv, CoordAt, AtWork
    <2>2. done = First(coord.count)
      BY <2>1, AllOfThem DEF BoardOfPlan, DoneIsMade, TypeOK, Coordinators
    <2>. QED
      BY <2>1, <2>2 DEF DoneIsMade
  <1>. QED
    BY <1>1, <1>2, BoardStep, PiecesTyped, PTL DEF Spec

=============================================================================
