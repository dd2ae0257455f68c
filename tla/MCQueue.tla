------------------------------ MODULE MCQueue ------------------------------
(***************************************************************************)
(* Values of Queue's constants for model checking.  The bounds: one to     *)
(* three jobs, two or three worker slots, one client (its requests still   *)
(* overlap with every goroutine of the queue), at most one crash or        *)
(* shutdown.                                                               *)
(***************************************************************************)
EXTENDS Queue, TLC

CONSTANTS w1, w2, w3

(* Submissions. *)
submission(s, retries) == [priority |-> 0, site |-> s, path |-> 0, maxRetries |-> retries]

MCSmallBudget == {submission(1, 1)}
MCOneAttr == {submission(1, 2)}
MCHosts == {submission(1, 1), submission(2, 1), submission(3, 1)}

(* Limits and stored settings. *)
MCNoLimits == {}
MCOneOrTwo == {1, 2}
MCNothingStored == {0}

(* Requests. *)
ByPrefix(names) == {[action |-> a, ids |-> {}, prefix |-> Attrs] : a \in names}

MCNoBatches == {}
MCLeaseBatches == ByPrefix({"cancel"})
MCWakeupBatches == ByPrefix({"resume", "unquarantine", "retry"})

MCEnqueueOnly == {"enqueue"}
MCCancelOps == {"enqueue", "cancel"}
MCHostOps == {"enqueue", "retry"}
MCCoreOps == {"enqueue", "quarantine", "retry"}
MCLeaseOps == {"enqueue", "pauseJob", "resumeJob", "delete"}
MCWakeupOps ==
  {"enqueue", "pause", "resume", "setConcurrency", "pauseJob", "resumeJob", "unquarantine"}

(* Worker slots are interchangeable. *)
MCSymmetry == Permutations(Workers)
=============================================================================
