--------------------------- MODULE MCSecondDaemon ---------------------------
(***************************************************************************)
(* Values of SecondDaemon's constants: one job, no request but its         *)
(* submission, no crash of the first daemon.                               *)
(***************************************************************************)
EXTENDS SecondDaemon

CONSTANTS w1, w2

MCOneAttr == {[priority |-> 0, site |-> 1, path |-> 0, maxRetries |-> 2]}
MCNothing == {}
MCEnqueueOnly == {"enqueue"}
MCNothingStored == {0}
=============================================================================
