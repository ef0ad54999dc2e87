------------------------------ MODULE MCProcess ------------------------------
(***************************************************************************)
(* Values for the runs of Process.                                         *)
(***************************************************************************)
EXTENDS Process

\* Two pieces, for the ten of the code.
Pieces == <<1, 2>>
=============================================================================
