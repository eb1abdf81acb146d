---------------------------- MODULE MCAsyncLogging ----------------------------
(***************************************************************************)
(* Two threads that log and one sink, with three tasks in all: enough for  *)
(* tasks of both in one batch, a batch pushed while another is executed,   *)
(* and both around the destructor.  The system stops when all is done.     *)
(***************************************************************************)
EXTENDS AsyncLogging
=============================================================================
