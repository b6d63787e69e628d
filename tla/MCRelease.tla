----------------------------- MODULE MCRelease -----------------------------
(* Model-checking instance of Release: model values and two versions only. *)
EXTENDS Release
=============================================================================
