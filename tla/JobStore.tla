------------------------------ MODULE JobStore ------------------------------
(***************************************************************************)
(* The persistent half of mirrord's queue: the SQLite tables jobs and      *)
(* queue_state and the methods of Store (internal/daemon/store.go) that    *)
(* write them.  Every method holds s.mu from its first statement to its    *)
(* return, so each is one atomic action, and what they wrote survives a    *)
(* crash.                                                                  *)
(*                                                                         *)
(* A row keeps what the queue decides by: its state, its retry_count,      *)
(* whether quarantine_reason is filled in, and what the submission fixed   *)
(* (attr).  Timestamps are left out, except that created_at orders rows as *)
(* their ids do; last_error and the job's payload decide nothing.          *)
(***************************************************************************)
EXTENDS Integers, FiniteSets

CONSTANTS
  MaxJobs,  \* bound: how many jobs are ever submitted
  Attrs,    \* what a submission may fix: its priority, site, path, maxRetries
  Limits    \* the concurrency limits clients may ask for

(* EnqueueJob replaces a max_retries of zero or less by 3 (store.go:220).
   Sites and paths are compared by the order of their names only. *)
ASSUME MaxJobsAssumption == MaxJobs \in Nat
ASSUME AttrsAssumption ==
  Attrs \subseteq [priority : Int, site : Int, path : Int, maxRetries : Nat \ {0}]
ASSUME LimitsAssumption == Limits \subseteq Nat \ {0}

VARIABLES
  jobs,          \* table jobs: a function from the ids of its rows
  lastId,        \* sqlite_sequence: the largest id ever given (AUTOINCREMENT)
  storedPaused,  \* queue_state.paused
  storedConc     \* queue_state.concurrency, 0 when the key was never written

storeVars == <<jobs, lastId, storedPaused, storedConc>>
settings == <<storedPaused, storedConc>>

JobId == 1 .. MaxJobs
JobState ==
  {"queued", "running", "paused", "completed", "failed", "quarantined", "cancelled"}
Job == [state : JobState, retries : Nat, reason : BOOLEAN, attr : Attrs]

StoreTypeOK ==
  /\ lastId \in 0 .. MaxJobs
  /\ DOMAIN jobs \subseteq 1 .. lastId
  /\ jobs \in [DOMAIN jobs -> Job]
  /\ storedPaused \in BOOLEAN
  /\ storedConc \in Nat

-----------------------------------------------------------------------------
(* SQL's vocabulary: the rows in some states, and an UPDATE of some rows. *)

RowsIn(states) == {j \in DOMAIN jobs : jobs[j].state \in states}

Update(rows, Set(_)) ==
  jobs' = [j \in DOMAIN jobs |-> IF j \in rows THEN Set(jobs[j]) ELSE jobs[j]]

Remove(rows) == jobs' = [j \in DOMAIN jobs \ rows |-> jobs[j]]

(* Faulty: the reason is forgotten. *)
BadQuarantined(r) == [r EXCEPT !.state = "quarantined"]

Reset(r) == [r EXCEPT !.state = "queued", !.retries = 0, !.reason = FALSE]
Quarantined(r) == [r EXCEPT !.state = "quarantined", !.reason = TRUE]

(* retry_count + 1.  The code only ever compares the count with max_retries,
   so it is counted up to max_retries + 1 and no further. *)
Counted(r) ==
  [r EXCEPT !.retries = IF @ > r.attr.maxRetries THEN @ ELSE @ + 1]

-----------------------------------------------------------------------------
(* EnqueueJob: a new row under the next id, queued. *)
EnqueueJob(a) ==
  LET id == lastId + 1
      row == [state |-> "queued", retries |-> 0, reason |-> FALSE, attr |-> a]
  IN  /\ lastId < MaxJobs
      /\ jobs' = [j \in DOMAIN jobs \cup {id} |-> IF j = id THEN row ELSE jobs[j]]
      /\ lastId' = id
      /\ UNCHANGED settings

(* The ORDER BY of ClaimNextJob: priority, then a site nothing is running for,
   then the names of site and path, then the age of the row. *)
Busy(j) == \E k \in RowsIn({"running"}) : jobs[k].attr.site = jobs[j].attr.site

Precedes(j, k) ==
  LET a == jobs[j].attr
      b == jobs[k].attr
  IN  \/ a.priority > b.priority
      \/ /\ a.priority = b.priority
         /\ \/ ~ Busy(j) /\ Busy(k)
            \/ /\ Busy(j) = Busy(k)
               /\ \/ a.site < b.site
                  \/ a.site = b.site /\ a.path < b.path
                  \/ a.site = b.site /\ a.path = b.path /\ j < k

ClaimNextJob(j) ==
  /\ j \in RowsIn({"queued"})
  /\ \A k \in RowsIn({"queued"}) \ {j} : Precedes(j, k)
  /\ Update({j}, LAMBDA r : [r EXCEPT !.state = "running"])
  /\ UNCHANGED <<lastId, settings>>

(* FinishJob writes the state it is given over whatever the row holds. *)
FinishJob(j, state) ==
  /\ Update({j}, LAMBDA r : [r EXCEPT !.state = state])
  /\ UNCHANGED <<lastId, settings>>

(* Faulty: the budget is compared before the attempt is counted, with >. *)
BadFailedBudget(r) ==
  IF r.retries > r.attr.maxRetries
    THEN Quarantined(Counted(r))
    ELSE [Counted(r) EXCEPT !.state = "queued"]

(* Faulty: the attempt is not counted. *)
BadFailedCount(r) ==
  IF r.retries + 1 >= r.attr.maxRetries
    THEN Quarantined(Counted(r))
    ELSE [r EXCEPT !.state = "queued"]

(* The row FailAndRetryJob leaves: queued for another attempt, or quarantined
   with the last attempt of its budget.  No row, no change. *)
Failed(r) ==
  IF r.retries + 1 >= r.attr.maxRetries
    THEN Quarantined(Counted(r))
    ELSE [Counted(r) EXCEPT !.state = "queued"]

FailAndRetryJob(j) ==
  /\ Update({j}, Failed)
  /\ UNCHANGED <<lastId, settings>>

(* RecoverOrphanedJobs issues two UPDATEs: running rows with retries left go
   back to queued, then those still running are quarantined. *)
Orphan(r) == r.retries < r.attr.maxRetries

Requeued(r) == [Counted(r) EXCEPT !.state = "queued"]

RequeueOrphans ==
  /\ Update({j \in RowsIn({"running"}) : Orphan(jobs[j])}, Requeued)
  /\ UNCHANGED <<lastId, settings>>

RecoverOrphanedJobs ==
  /\ Update(RowsIn({"running"}),
            LAMBDA r : IF Orphan(r) THEN Requeued(r) ELSE Quarantined(r))
  /\ UNCHANGED <<lastId, settings>>

-----------------------------------------------------------------------------
(* The operations on one job: an UPDATE whose WHERE names the id and the
   states the operation applies to.  When no row matches nothing changes. *)

Live == {"queued", "running", "paused"}
Deletable == {"completed", "failed", "cancelled", "quarantined"}

QuarantineJob(j) ==
  Update({j}, Quarantined) /\ UNCHANGED <<lastId, settings>>

UnquarantineJob(j) ==
  Update({j} \cap RowsIn({"quarantined"}), Reset) /\ UNCHANGED <<lastId, settings>>

RetryJob(j) ==
  Update({j}, Reset) /\ UNCHANGED <<lastId, settings>>

(* Faulty: the WHERE clause forgets the state. *)
BadPauseJob(j) ==
  /\ Update({j}, LAMBDA r : [r EXCEPT !.state = "paused"])
  /\ UNCHANGED <<lastId, settings>>

BadResumeJob(j) ==
  /\ Update({j}, LAMBDA r : [r EXCEPT !.state = "queued"])
  /\ UNCHANGED <<lastId, settings>>

PauseJob(j) ==
  /\ Update({j} \cap RowsIn({"queued"}), LAMBDA r : [r EXCEPT !.state = "paused"])
  /\ UNCHANGED <<lastId, settings>>

ResumeJob(j) ==
  /\ Update({j} \cap RowsIn({"paused"}), LAMBDA r : [r EXCEPT !.state = "queued"])
  /\ UNCHANGED <<lastId, settings>>

CancelJob(j) ==
  /\ Update({j} \cap RowsIn(Live), LAMBDA r : [r EXCEPT !.state = "cancelled"])
  /\ UNCHANGED <<lastId, settings>>

DeleteJob(j) ==
  Remove({j} \cap RowsIn(Deletable)) /\ UNCHANGED <<lastId, settings>>

-----------------------------------------------------------------------------
(* BatchAction.  Explicit ids are taken as they are; a prefix selects, among
   the rows in the action's source states, those it matches.  A prefix is the
   set of attrs matchPrefix accepts for it, {} when none is given. *)

BatchName ==
  {"pause", "resume", "quarantine", "unquarantine", "cancel", "retry", "delete"}

PrefixStates ==
  [pause        |-> {"queued"},
   resume       |-> {"paused"},
   quarantine   |-> {"queued", "paused", "failed", "running"},
   unquarantine |-> {"quarantined"},
   cancel       |-> Live,
   retry        |-> {"failed", "completed", "cancelled"},
   delete       |-> Deletable]

WhereStates ==
  [pause        |-> {"queued"},
   resume       |-> {"paused"},
   quarantine   |-> JobState,
   unquarantine |-> {"quarantined"},
   cancel       |-> Live,
   retry        |-> JobState,
   delete       |-> Deletable]

BatchTargets(action, ids, prefix) ==
  IF ids # {}
    THEN ids
    ELSE {j \in RowsIn(PrefixStates[action]) : jobs[j].attr \in prefix}

BatchSet(action, r) ==
  CASE action = "pause" -> [r EXCEPT !.state = "paused"]
    [] action = "resume" -> [r EXCEPT !.state = "queued"]
    [] action = "quarantine" -> Quarantined(r)
    [] action = "cancel" -> [r EXCEPT !.state = "cancelled"]
    [] action \in {"unquarantine", "retry"} -> Reset(r)

BatchAction(action, ids, prefix) ==
  LET rows == BatchTargets(action, ids, prefix) \cap RowsIn(WhereStates[action])
  IN  /\ IF action = "delete"
           THEN Remove(rows)
           ELSE Update(rows, LAMBDA r : BatchSet(action, r))
      /\ UNCHANGED <<lastId, settings>>

-----------------------------------------------------------------------------
(* The queue_state table; GetQueueConfig reads 2 when nothing was stored. *)

SetQueuePaused(p) ==
  storedPaused' = p /\ UNCHANGED <<jobs, lastId, storedConc>>

SetQueueConcurrency(n) ==
  storedConc' = n /\ UNCHANGED <<jobs, lastId, storedPaused>>

(* Faulty: the default is forgotten. *)
BadLoadedConcurrency == storedConc

LoadedConcurrency == IF storedConc = 0 THEN 2 ELSE storedConc

-----------------------------------------------------------------------------
(* The store under arbitrary callers: a job is claimed, or anything else. *)

StoreInit ==
  /\ jobs = [j \in {} |-> 0]
  /\ lastId = 0
  /\ storedPaused = FALSE
  /\ storedConc \in Nat

StoreWrite ==
  \/ \E a \in Attrs : EnqueueJob(a)
  \/ \E j \in JobId :
        \/ FailAndRetryJob(j)
        \/ \E s \in {"completed", "cancelled"} : FinishJob(j, s)
        \/ QuarantineJob(j) \/ UnquarantineJob(j) \/ RetryJob(j)
        \/ PauseJob(j) \/ ResumeJob(j) \/ CancelJob(j) \/ DeleteJob(j)
  \/ RequeueOrphans \/ RecoverOrphanedJobs
  \/ \E action \in BatchName, ids \in SUBSET JobId, prefix \in SUBSET Attrs :
        BatchAction(action, ids, prefix)
  \/ \E p \in BOOLEAN : SetQueuePaused(p)
  \/ \E n \in Limits : SetQueueConcurrency(n)

StoreNext == (\E j \in JobId : ClaimNextJob(j)) \/ StoreWrite

StoreSpec == StoreInit /\ [][StoreNext]_storeVars

-----------------------------------------------------------------------------
(* A job that can still be claimed has not used up its retries: whatever the
   order of failures, restarts, pauses and resets, no queued, paused or
   running row has counted more than max_retries attempts (store.go:182 and
   353-367 count them in different methods). *)
RetryBudget ==
  \A j \in RowsIn(Live) : jobs[j].retries <= jobs[j].attr.maxRetries

(* A quarantined row always says why (quarantine_reason): no overlap of a
   worker's outcome, a manual quarantine, a reset and a recovery leaves one in
   quarantine with its reason erased. *)
QuarantineExplained ==
  \A j \in RowsIn({"quarantined"}) : jobs[j].reason
=============================================================================
