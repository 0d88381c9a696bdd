---------------------------- MODULE MCHistoryStore ----------------------------
(* Values of HistoryStore's constants for TLC: five writes, a queue of     *)
(* three and batches of two, so that the queue overflows, a batch leaves   *)
(* jobs behind and a batch holds a job before and after a failing one.     *)
EXTENDS HistoryStore

MCBroken == {2}
MCNone == {}
=============================================================================
