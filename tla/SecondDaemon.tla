---------------------------- MODULE SecondDaemon ----------------------------
(***************************************************************************)
(* A second mirrord started on the database of a running one.  main        *)
(* (cmd/mirrord/main.go) opens the store and starts the queue, which       *)
(* recovers orphans and starts dispatching, before it dials the socket     *)
(* and finds that another instance is listening; log.Fatalf then exits     *)
(* without the deferred Stop.  Only the tables are shared.                 *)
(***************************************************************************)
EXTENDS Queue

VARIABLES
  second,  \* "absent", "started" (its queue is), "dead" (one is enough)
  claims   \* how many jobs it has claimed

secondVars == <<second, claims>>

SecondInit == Init /\ second = "absent" /\ claims = 0

(* NewQueue and Start of the second process. *)
SecondStart ==
  /\ daemon = "up" /\ second = "absent"
  /\ RecoverOrphanedJobs
  /\ second' = "started"
  /\ OnlyStore /\ UNCHANGED <<client, claims>>

(* Its own dispatcher claims for its own workers, up to the limit; the process
   is gone before one of their jobs ends. *)
SecondClaim ==
  /\ second = "started" /\ ~ storedPaused /\ claims < LoadedConcurrency
  /\ claims' = claims + 1
  /\ \E j \in JobId : ClaimNextJob(j)
  /\ OnlyStore /\ UNCHANGED <<client, second>>

(* The first daemon answers on the socket: log.Fatalf, every goroutine is gone. *)
SecondExit ==
  /\ second = "started"
  /\ second' = "dead"
  /\ UNCHANGED <<vars, claims>>

SecondNext == SecondStart \/ SecondClaim \/ SecondExit \/ (Next /\ UNCHANGED secondVars)

SecondSpec == SecondInit /\ [][SecondNext]_<<vars, secondVars>>

(* Recovery takes only jobs "orphaned from a prior crash or termination"
   (queue.go:68): no start requeues or quarantines a row that a live worker or
   dispatcher owns. *)
OnlyOrphansRecovered ==
  [][\A j \in RowsIn({"running"}) :
       Owned(j) /\ (Start \/ SecondStart) => jobs'[j].state = "running"]_<<vars, secondVars>>
=============================================================================
