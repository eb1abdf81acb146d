---------------------------- MODULE MCDummySession ----------------------------
(***************************************************************************)
(* The channels of SyncBackend (one frame each way), which make both sides *)
(* wait for each other as often as possible; requests enough to reach the  *)
(* instance and use it twice; every operation may fail, and streams may be *)
(* abandoned.  A session stops when it is closed.                          *)
(***************************************************************************)
EXTENDS DummySession
=============================================================================
