---------------------------- MODULE MCPieceBoard ----------------------------
(***************************************************************************)
(* TLC instances of PieceBoard: what may go wrong in each, and how often.  *)
(***************************************************************************)
EXTENDS PieceBoard

(* A second attempt after one that failed or was killed; a helper that     *)
(* dies or fails.  Helpers of the first attempt are gone when the second   *)
(* opens its board.                                                        *)
PieceLimits ==
    "attempt" :> 2 @@ "crash" :> 1 @@ "fail" :> 1 @@ "straggle" :> 0

(* A helper of an attempt that was given back is still at work.            *)
StragglerLimits ==
    "attempt" :> 2 @@ "crash" :> 0 @@ "fail" :> 1 @@ "straggle" :> 1
=============================================================================
