----------------------------- MODULE MCTimerXio -----------------------------
(***************************************************************************)
(* Two strands and a third thread that may close the channel; the reader   *)
(* uses timeouts and the writer does not.                                  *)
(***************************************************************************)
EXTENDS TimerXio
=============================================================================
