------------------------------- MODULE MCStdio -------------------------------
(***************************************************************************)
(* Numbers for the runs of Stdio: every sign, zeros inside and at the end. *)
(***************************************************************************)
EXTENDS Stdio

SomeInts == {7, -30, 1005}
=============================================================================
