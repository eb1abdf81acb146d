---------------------------- MODULE MCBlockingIo ----------------------------
(***************************************************************************)
(* A channel of capacity 2, which can be empty, partly full and full, so   *)
(* that both sides block; the reader uses timeouts and the writer does     *)
(* not, and a third thread may close the channel.                          *)
(***************************************************************************)
EXTENDS BlockingIo
=============================================================================
