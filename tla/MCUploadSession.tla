-------------------------- MODULE MCUploadSession --------------------------
(***************************************************************************)
(* The TLC instance of UploadSession.                                      *)
(***************************************************************************)
EXTENDS UploadSession, TLC

UploadLimits == "fail" :> 1 @@ "late" :> 1 @@ "job" :> 1 @@ "account" :> 1
=============================================================================
