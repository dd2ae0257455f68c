---------------------------- MODULE QueueProofs -----------------------------
(***************************************************************************)
(* What mirrord's queue keeps with any number of jobs, workers, clients    *)
(* and restarts, any mix of requests and any failing store calls: what     *)
(* every method of the store preserves; the queue's types and those of its *)
(* store; that no running row and no entry of its maps is left without the *)
(* goroutine it belongs to; and what it does for the store's and the job   *)
(* lease's abstract specifications.                                        *)
(***************************************************************************)
EXTENDS Queue, FiniteSetTheorems, TLAPS

-----------------------------------------------------------------------------
(* The strengthening: types and both properties, all of them row by row. *)
StoreInv == StoreTypeOK /\ RetryBudget /\ QuarantineExplained

(* A row the budget and the reason allow. *)
GoodRow(r) ==
  /\ r \in Job
  /\ r.state \in Live => r.retries <= r.attr.maxRetries
  /\ r.state = "quarantined" => r.reason

-----------------------------------------------------------------------------
(* Writing a state that asks for nothing, or another live state over a live
   one, keeps a row good. *)
LEMMA StateWritten ==
  ASSUME NEW r \in Job, GoodRow(r), NEW s \in JobState \ {"quarantined"},
         r.state \in Live \/ s \notin Live
  PROVE  GoodRow([r EXCEPT !.state = s])
  BY DEF GoodRow, Job, JobState, Live

(* A reset row starts over, whatever it was. *)
LEMMA ResetRow ==
  ASSUME NEW r \in Job
  PROVE  GoodRow(Reset(r))
<1>1. r.attr.maxRetries \in Nat \ {0}
  BY AttrsAssumption DEF Job
<1>2. Reset(r) \in Job /\ Reset(r).retries = 0 /\ Reset(r).state = "queued"
      /\ Reset(r).attr = r.attr
  BY DEF Job, JobState, Reset
<1>. QED
  BY <1>1, <1>2 DEF GoodRow, Job, JobState, Live

(* A quarantined row carries its reason. *)
LEMMA QuarantinedRow ==
  ASSUME NEW r \in Job
  PROVE  GoodRow(Quarantined(r))
<1>1. Quarantined(r) \in Job /\ Quarantined(r).state = "quarantined"
      /\ Quarantined(r).reason = TRUE
  BY DEF Job, JobState, Quarantined
<1>. QED
  BY <1>1 DEF GoodRow, Job, JobState, Live

(* Counting an attempt changes the count alone, by one at most. *)
LEMMA CountedRow ==
  ASSUME NEW r \in Job
  PROVE  /\ Counted(r) \in Job
         /\ Counted(r).attr = r.attr /\ Counted(r).reason = r.reason
         /\ Counted(r).retries \in Nat
         /\ r.retries < r.attr.maxRetries => Counted(r).retries = r.retries + 1
<1>1. r.attr.maxRetries \in Nat /\ r.retries \in Nat
  BY AttrsAssumption DEF Job
<1>2. PICK n \in Nat : /\ n = IF r.retries > r.attr.maxRetries THEN r.retries ELSE r.retries + 1
                       /\ r.retries < r.attr.maxRetries => n = r.retries + 1
  BY <1>1
<1>3. Counted(r) = [r EXCEPT !.retries = n]
  BY <1>2 DEF Counted
<1>. QED
  BY <1>2, <1>3 DEF Job

(* A row with retries left may be queued again, the attempt counted. *)
LEMMA RequeuedRow ==
  ASSUME NEW r \in Job, r.retries < r.attr.maxRetries
  PROVE  GoodRow([Counted(r) EXCEPT !.state = "queued"])
<1>1. r.attr.maxRetries \in Nat /\ r.retries \in Nat
  BY AttrsAssumption DEF Job
<1>. DEFINE c == Counted(r)
<1>2. c \in Job /\ c.attr = r.attr /\ c.retries = r.retries + 1
  BY CountedRow
<1>3. [c EXCEPT !.state = "queued"] \in Job
      /\ [c EXCEPT !.state = "queued"].state = "queued"
      /\ [c EXCEPT !.state = "queued"].retries = c.retries
      /\ [c EXCEPT !.state = "queued"].attr = c.attr
  <2>. HIDE DEF c
  <2>. QED BY <1>2 DEF Job, JobState
<1>. QED
  BY <1>1, <1>2, <1>3 DEF GoodRow, Job, JobState, Live

(* A failed attempt leaves a good row, the last one a quarantined row. *)
LEMMA FailedRow ==
  ASSUME NEW r \in Job
  PROVE  GoodRow(Failed(r))
<1>1. r.attr.maxRetries \in Nat /\ r.retries \in Nat
  BY AttrsAssumption DEF Job
<1>2. CASE r.retries + 1 >= r.attr.maxRetries
  BY <1>2, CountedRow, QuarantinedRow DEF Failed
<1>3. CASE ~ (r.retries + 1 >= r.attr.maxRetries)
  BY <1>1, <1>3, RequeuedRow DEF Failed
<1>. QED
  BY <1>2, <1>3
-----------------------------------------------------------------------------
(* The invariant is one of rows: what is left of a step is that the rows it
   leaves, under ids it found, are good. *)
LEMMA GoodRows ==
  StoreInv => \A j \in DOMAIN jobs : GoodRow(jobs[j])
  BY DEF StoreInv, StoreTypeOK, RetryBudget, QuarantineExplained, GoodRow, RowsIn

LEMMA RowByRow ==
  ASSUME StoreTypeOK, UNCHANGED <<lastId, settings>>,
         DOMAIN jobs' \subseteq DOMAIN jobs,
         jobs' = [j \in DOMAIN jobs' |-> jobs'[j]],
         \A j \in DOMAIN jobs' : GoodRow(jobs'[j])
  PROVE  StoreInv'
  BY DEF StoreInv, StoreTypeOK, settings, RetryBudget, QuarantineExplained, GoodRow, RowsIn

-----------------------------------------------------------------------------
(* The methods, one by one. *)

(* EnqueueJob adds a good row under an id no row had. *)
LEMMA EnqueueKeeps ==
  ASSUME StoreInv, NEW a \in Attrs, EnqueueJob(a)
  PROVE  StoreInv'
<1>. DEFINE row == [state |-> "queued", retries |-> 0, reason |-> FALSE, attr |-> a]
<1>1. GoodRow(row)
  BY AttrsAssumption DEF GoodRow, Job, JobState, Live
<1>2. /\ lastId \in Nat /\ lastId' = lastId + 1 /\ lastId' \in 0 .. MaxJobs
      /\ UNCHANGED settings
  BY MaxJobsAssumption DEF StoreInv, StoreTypeOK, EnqueueJob
<1>3. /\ DOMAIN jobs' = DOMAIN jobs \cup {lastId'}
      /\ jobs' = [j \in DOMAIN jobs' |-> jobs'[j]]
      /\ \A j \in DOMAIN jobs' : jobs'[j] = IF j = lastId' THEN row ELSE jobs[j]
  BY <1>2 DEF EnqueueJob
<1>4. \A j \in DOMAIN jobs' : GoodRow(jobs'[j])
  BY <1>1, <1>3, GoodRows
<1>5. DOMAIN jobs' \subseteq 1 .. lastId'
  BY <1>2, <1>3 DEF StoreInv, StoreTypeOK
<1>. QED
  BY <1>2, <1>3, <1>4, <1>5
  DEF StoreInv, StoreTypeOK, settings, RetryBudget, QuarantineExplained, GoodRow, RowsIn

(* The methods that write a state and nothing else. *)
LEMMA StateKeeps ==
  ASSUME StoreInv, NEW rows, NEW s \in JobState \ {"quarantined"},
         s \notin Live \/ rows \subseteq RowsIn(Live),
         Update(rows, LAMBDA r : [r EXCEPT !.state = s]),
         UNCHANGED <<lastId, settings>>
  PROVE  StoreInv'
<1>1. /\ DOMAIN jobs' = DOMAIN jobs /\ jobs' = [j \in DOMAIN jobs' |-> jobs'[j]]
      /\ \A j \in DOMAIN jobs :
           jobs'[j] = IF j \in rows THEN [jobs[j] EXCEPT !.state = s] ELSE jobs[j]
  BY DEF Update
<1>2. ASSUME NEW j \in DOMAIN jobs
      PROVE  GoodRow(jobs'[j])
  <2>1. GoodRow(jobs[j]) /\ jobs[j] \in Job
    BY GoodRows DEF GoodRow
  <2>2. CASE j \in rows
    <3>1. jobs[j].state \in Live \/ s \notin Live
      BY <2>2 DEF RowsIn
    <3>. QED BY <1>1, <2>1, <2>2, <3>1, StateWritten
  <2>3. CASE j \notin rows
    BY <1>1, <2>1, <2>3
  <2>. QED BY <2>2, <2>3
<1>. QED
  BY <1>1, <1>2, RowByRow DEF StoreInv

(* The methods that reset rows. *)
LEMMA ResetKeeps ==
  ASSUME StoreInv, NEW rows, Update(rows, Reset), UNCHANGED <<lastId, settings>>
  PROVE  StoreInv'
<1>1. /\ DOMAIN jobs' = DOMAIN jobs /\ jobs' = [j \in DOMAIN jobs' |-> jobs'[j]]
      /\ \A j \in DOMAIN jobs : jobs'[j] = IF j \in rows THEN Reset(jobs[j]) ELSE jobs[j]
  BY DEF Update
<1>2. \A j \in DOMAIN jobs : GoodRow(jobs'[j])
  BY <1>1, GoodRows, ResetRow DEF GoodRow
<1>. QED
  BY <1>1, <1>2, RowByRow DEF StoreInv

(* The methods that quarantine rows. *)
LEMMA QuarantineKeeps ==
  ASSUME StoreInv, NEW rows, Update(rows, Quarantined), UNCHANGED <<lastId, settings>>
  PROVE  StoreInv'
<1>1. /\ DOMAIN jobs' = DOMAIN jobs /\ jobs' = [j \in DOMAIN jobs' |-> jobs'[j]]
      /\ \A j \in DOMAIN jobs :
           jobs'[j] = IF j \in rows THEN Quarantined(jobs[j]) ELSE jobs[j]
  BY DEF Update
<1>2. \A j \in DOMAIN jobs : GoodRow(jobs'[j])
  BY <1>1, GoodRows, QuarantinedRow DEF GoodRow
<1>. QED
  BY <1>1, <1>2, RowByRow DEF StoreInv

(* FailAndRetryJob. *)
LEMMA FailKeeps ==
  ASSUME StoreInv, NEW j, FailAndRetryJob(j)
  PROVE  StoreInv'
<1>1. /\ DOMAIN jobs' = DOMAIN jobs /\ jobs' = [k \in DOMAIN jobs' |-> jobs'[k]]
      /\ \A k \in DOMAIN jobs : jobs'[k] = IF k \in {j} THEN Failed(jobs[k]) ELSE jobs[k]
  BY DEF FailAndRetryJob, Update
<1>2. \A k \in DOMAIN jobs : GoodRow(jobs'[k])
  BY <1>1, GoodRows, FailedRow DEF GoodRow
<1>. QED
  BY <1>1, <1>2, RowByRow DEF StoreInv, FailAndRetryJob

(* The recovery, whole or cut short after its first UPDATE. *)
LEMMA RecoverKeeps ==
  ASSUME StoreInv, RequeueOrphans \/ RecoverOrphanedJobs
  PROVE  StoreInv'
<1>1. /\ DOMAIN jobs' = DOMAIN jobs /\ jobs' = [j \in DOMAIN jobs' |-> jobs'[j]]
      /\ \A j \in DOMAIN jobs :
           \/ jobs'[j] = jobs[j]
           \/ Orphan(jobs[j]) /\ jobs'[j] = Requeued(jobs[j])
           \/ jobs'[j] = Quarantined(jobs[j])
  BY DEF RequeueOrphans, RecoverOrphanedJobs, Update
<1>2. \A j \in DOMAIN jobs : GoodRow(jobs'[j])
  BY <1>1, GoodRows, RequeuedRow, QuarantinedRow DEF GoodRow, Orphan, Requeued
<1>. QED
  BY <1>1, <1>2, RowByRow DEF StoreInv, RequeueOrphans, RecoverOrphanedJobs

(* The methods that delete rows. *)
LEMMA RemoveKeeps ==
  ASSUME StoreInv, NEW rows, Remove(rows), UNCHANGED <<lastId, settings>>
  PROVE  StoreInv'
<1>1. /\ DOMAIN jobs' \subseteq DOMAIN jobs /\ jobs' = [j \in DOMAIN jobs' |-> jobs'[j]]
      /\ \A j \in DOMAIN jobs' : jobs'[j] = jobs[j]
  BY DEF Remove
<1>2. \A j \in DOMAIN jobs' : GoodRow(jobs'[j])
  BY <1>1, GoodRows
<1>. QED
  BY <1>1, <1>2, RowByRow DEF StoreInv

(* BatchAction, in each of its seven forms. *)
LEMMA BatchKeeps ==
  ASSUME StoreInv, NEW action \in BatchName, NEW ids, NEW prefix,
         BatchAction(action, ids, prefix)
  PROVE  StoreInv'
<1>. DEFINE rows == BatchTargets(action, ids, prefix) \cap RowsIn(WhereStates[action])
<1>. UNCHANGED <<lastId, settings>>
  BY DEF BatchAction
<1>1. CASE action = "delete"
  BY <1>1, RemoveKeeps DEF BatchAction
<1>2. CASE action \in {"retry", "unquarantine"}
  <2>1. Update(rows, Reset)
    BY <1>2 DEF BatchAction, BatchSet, Update
  <2>. QED BY <2>1, ResetKeeps
<1>3. CASE action = "quarantine"
  <2>1. Update(rows, Quarantined)
    BY <1>3 DEF BatchAction, BatchSet, Update
  <2>. QED BY <2>1, QuarantineKeeps
<1>4. CASE action = "cancel"
  <2>1. Update(rows, LAMBDA r : [r EXCEPT !.state = "cancelled"])
    BY <1>4 DEF BatchAction, BatchSet, Update
  <2>. QED BY <2>1, StateKeeps DEF JobState, Live
<1>5. CASE action = "pause"
  <2>1. Update(rows, LAMBDA r : [r EXCEPT !.state = "paused"])
    BY <1>5 DEF BatchAction, BatchSet, Update
  <2>2. rows \subseteq RowsIn(Live)
    BY <1>5 DEF RowsIn, WhereStates, Live
  <2>. QED BY <2>1, <2>2, StateKeeps DEF JobState
<1>6. CASE action = "resume"
  <2>1. Update(rows, LAMBDA r : [r EXCEPT !.state = "queued"])
    BY <1>6 DEF BatchAction, BatchSet, Update
  <2>2. rows \subseteq RowsIn(Live)
    BY <1>6 DEF RowsIn, WhereStates, Live
  <2>. QED BY <2>1, <2>2, StateKeeps DEF JobState
<1>. QED
  BY <1>1, <1>2, <1>3, <1>4, <1>5, <1>6 DEF BatchName

-----------------------------------------------------------------------------
(* What any step of any caller keeps. *)
LEMMA StoreStep ==
  ASSUME StoreInv, [StoreNext]_storeVars
  PROVE  StoreInv'
<1>1. ASSUME NEW a \in Attrs, EnqueueJob(a) PROVE StoreInv'
  BY <1>1, EnqueueKeeps
<1>2. ASSUME NEW j \in JobId, ClaimNextJob(j) PROVE StoreInv'
  BY <1>2, StateKeeps DEF ClaimNextJob, JobState, RowsIn, Live
<1>3. ASSUME NEW j \in JobId, FailAndRetryJob(j) PROVE StoreInv'
  BY <1>3, FailKeeps
<1>4. ASSUME NEW j \in JobId, NEW s \in {"completed", "cancelled"}, FinishJob(j, s)
      PROVE  StoreInv'
  BY <1>4, StateKeeps DEF FinishJob, JobState, Live
<1>5. ASSUME NEW j \in JobId, QuarantineJob(j) PROVE StoreInv'
  BY <1>5, QuarantineKeeps DEF QuarantineJob
<1>6. ASSUME NEW j \in JobId, UnquarantineJob(j) \/ RetryJob(j) PROVE StoreInv'
  BY <1>6, ResetKeeps DEF UnquarantineJob, RetryJob
<1>7. ASSUME NEW j \in JobId, PauseJob(j) PROVE StoreInv'
  <2>1. Update({j} \cap RowsIn({"queued"}), LAMBDA r : [r EXCEPT !.state = "paused"])
    BY <1>7 DEF PauseJob, Update
  <2>2. {j} \cap RowsIn({"queued"}) \subseteq RowsIn(Live) /\ UNCHANGED <<lastId, settings>>
    BY <1>7 DEF PauseJob, RowsIn, Live
  <2>. QED BY <2>1, <2>2, StateKeeps DEF JobState
<1>8. ASSUME NEW j \in JobId, ResumeJob(j) PROVE StoreInv'
  <2>1. Update({j} \cap RowsIn({"paused"}), LAMBDA r : [r EXCEPT !.state = "queued"])
    BY <1>8 DEF ResumeJob, Update
  <2>2. {j} \cap RowsIn({"paused"}) \subseteq RowsIn(Live) /\ UNCHANGED <<lastId, settings>>
    BY <1>8 DEF ResumeJob, RowsIn, Live
  <2>. QED BY <2>1, <2>2, StateKeeps DEF JobState
<1>9. ASSUME NEW j \in JobId, CancelJob(j) PROVE StoreInv'
  <2>1. Update({j} \cap RowsIn(Live), LAMBDA r : [r EXCEPT !.state = "cancelled"])
    BY <1>9 DEF CancelJob, Update
  <2>2. {j} \cap RowsIn(Live) \subseteq RowsIn(Live) /\ UNCHANGED <<lastId, settings>>
    BY <1>9 DEF CancelJob, RowsIn, Live
  <2>. QED BY <2>1, <2>2, StateKeeps DEF JobState
<1>10. ASSUME NEW j \in JobId, DeleteJob(j) PROVE StoreInv'
  BY <1>10, RemoveKeeps DEF DeleteJob
<1>11. CASE RequeueOrphans \/ RecoverOrphanedJobs
  BY <1>11, RecoverKeeps
<1>12. ASSUME NEW action \in BatchName, NEW ids, NEW prefix, BatchAction(action, ids, prefix)
       PROVE  StoreInv'
  BY <1>12, BatchKeeps
<1>13. ASSUME NEW p \in BOOLEAN, SetQueuePaused(p) PROVE StoreInv'
  BY <1>13 DEF SetQueuePaused, StoreInv, StoreTypeOK, RetryBudget, QuarantineExplained, RowsIn
<1>14. ASSUME NEW n \in Limits, SetQueueConcurrency(n) PROVE StoreInv'
  BY <1>14, LimitsAssumption
  DEF SetQueueConcurrency, StoreInv, StoreTypeOK, RetryBudget, QuarantineExplained, RowsIn
<1>15. CASE UNCHANGED storeVars
  BY <1>15
  DEF storeVars, settings, StoreInv, StoreTypeOK, RetryBudget, QuarantineExplained, RowsIn
<1>. QED
  BY <1>1, <1>2, <1>3, <1>4, <1>5, <1>6, <1>7, <1>8, <1>9, <1>10, <1>11, <1>12, <1>13,
     <1>14, <1>15 DEF StoreNext, StoreWrite

(* A row is set running by a claim and by nothing else. *)
LEMMA OnlyClaimRuns ==
  ASSUME StoreTypeOK, [StoreWrite]_storeVars
  PROVE  RowsIn({"running"})' \subseteq RowsIn({"running"})
<1>. DEFINE Still == RowsIn({"running"})' \subseteq RowsIn({"running"})
<1>r. \A r \in Job :
        /\ Reset(r).state = "queued" /\ Quarantined(r).state = "quarantined"
        /\ Requeued(r).state = "queued" /\ Failed(r).state \in {"queued", "quarantined"}
        /\ \A s : [r EXCEPT !.state = s].state = s
  <2>1. \A r \in Job : Counted(r) \in Job
    BY CountedRow
  <2>. QED BY <2>1 DEF Job, Reset, Quarantined, Requeued, Failed
<1>j. \A j \in DOMAIN jobs : jobs[j] \in Job
  BY DEF StoreTypeOK
<1>1. ASSUME NEW a \in Attrs, EnqueueJob(a) PROVE Still
  BY <1>1 DEF EnqueueJob, RowsIn
<1>2. ASSUME NEW j \in JobId,
             FailAndRetryJob(j) \/ \E s \in {"completed", "cancelled"} : FinishJob(j, s)
      PROVE  Still
  <2>1. CASE FailAndRetryJob(j)
    BY <2>1, <1>r, <1>j DEF FailAndRetryJob, Update, RowsIn
  <2>2. ASSUME NEW s \in {"completed", "cancelled"}, FinishJob(j, s) PROVE Still
    BY <2>2, <1>r, <1>j DEF FinishJob, Update, RowsIn
  <2>. QED BY <1>2, <2>1, <2>2
<1>3. ASSUME NEW j \in JobId, QuarantineJob(j) \/ UnquarantineJob(j) \/ RetryJob(j)
      PROVE  Still
  BY <1>3, <1>r, <1>j DEF QuarantineJob, UnquarantineJob, RetryJob, Update, RowsIn
<1>4. ASSUME NEW j \in JobId, PauseJob(j) \/ ResumeJob(j) \/ CancelJob(j) \/ DeleteJob(j)
      PROVE  Still
  <2>1. CASE PauseJob(j)
    BY <2>1, <1>r, <1>j DEF PauseJob, Update, RowsIn
  <2>2. CASE ResumeJob(j)
    BY <2>2, <1>r, <1>j DEF ResumeJob, Update, RowsIn
  <2>3. CASE CancelJob(j)
    BY <2>3, <1>r, <1>j DEF CancelJob, Update, RowsIn
  <2>4. CASE DeleteJob(j)
    BY <2>4 DEF DeleteJob, Remove, RowsIn
  <2>. QED BY <1>4, <2>1, <2>2, <2>3, <2>4
<1>5. CASE RequeueOrphans \/ RecoverOrphanedJobs
  BY <1>5, <1>r, <1>j DEF RequeueOrphans, RecoverOrphanedJobs, Update, RowsIn
<1>6. ASSUME NEW action \in BatchName, NEW ids, NEW prefix, BatchAction(action, ids, prefix)
      PROVE  Still
  <2>1. \A r \in Job : action # "delete" => BatchSet(action, r).state # "running"
    BY <1>r DEF BatchSet, BatchName
  <2>. QED BY <1>6, <1>j, <2>1 DEF BatchAction, Update, Remove, RowsIn
<1>7. CASE UNCHANGED jobs
  BY <1>7 DEF RowsIn
<1>. QED
  BY <1>1, <1>2, <1>3, <1>4, <1>5, <1>6, <1>7
  DEF StoreWrite, storeVars, SetQueuePaused, SetQueueConcurrency

(* No method but a failure, a recovery and a reset makes a row wait again. *)
LEMMA NoNewWaiting ==
  ASSUME StoreTypeOK, NEW j,
         \/ \E s \in {"completed", "cancelled"} : FinishJob(j, s)
         \/ QuarantineJob(j) \/ PauseJob(j) \/ ResumeJob(j) \/ CancelJob(j) \/ DeleteJob(j)
         \/ \E action \in BatchName \ {"retry", "unquarantine"} :
               \E ids, prefix : BatchAction(action, ids, prefix)
  PROVE  /\ RowsIn({"queued", "paused"})' \subseteq RowsIn({"queued", "paused"})
         /\ UNCHANGED lastId
<1>. DEFINE Goal == /\ RowsIn({"queued", "paused"})' \subseteq RowsIn({"queued", "paused"})
                   /\ UNCHANGED lastId
<1>r. \A r \in Job : Quarantined(r).state = "quarantined" /\ \A s : [r EXCEPT !.state = s].state = s
  BY DEF Job, Quarantined
<1>j. \A k \in DOMAIN jobs : jobs[k] \in Job
  BY DEF StoreTypeOK
<1>1. ASSUME NEW s \in {"completed", "cancelled"}, FinishJob(j, s) PROVE Goal
  BY <1>1, <1>r, <1>j DEF FinishJob, Update, RowsIn
<1>2. CASE QuarantineJob(j)
  BY <1>2, <1>r, <1>j DEF QuarantineJob, Update, RowsIn
<1>3. CASE PauseJob(j)
  BY <1>3, <1>r, <1>j DEF PauseJob, Update, RowsIn
<1>4. CASE ResumeJob(j)
  BY <1>4, <1>r, <1>j DEF ResumeJob, Update, RowsIn
<1>5. CASE CancelJob(j)
  BY <1>5, <1>r, <1>j DEF CancelJob, Update, RowsIn
<1>6. CASE DeleteJob(j)
  BY <1>6 DEF DeleteJob, Remove, RowsIn
<1>7. ASSUME NEW action \in BatchName \ {"retry", "unquarantine"}, NEW ids, NEW prefix,
             BatchAction(action, ids, prefix)
      PROVE  Goal
  <2>. DEFINE rows == BatchTargets(action, ids, prefix) \cap RowsIn(WhereStates[action])
  <2>1. CASE action = "delete"
    BY <1>7, <2>1 DEF BatchAction, Remove, RowsIn
  <2>2. CASE action \in {"quarantine", "cancel"}
    <3>1. \A r \in Job : BatchSet(action, r).state \notin {"queued", "paused"}
      BY <1>r, <2>2 DEF BatchSet
    <3>. QED BY <1>7, <1>j, <2>2, <3>1 DEF BatchAction, Update, RowsIn
  <2>3. CASE action \in {"pause", "resume"}
    <3>1. rows \subseteq RowsIn({"queued", "paused"})
      BY <2>3 DEF WhereStates, RowsIn
    <3>2. jobs' = [k \in DOMAIN jobs |-> IF k \in rows THEN BatchSet(action, jobs[k]) ELSE jobs[k]]
      BY <1>7, <2>3 DEF BatchAction, Update
    <3>. HIDE DEF rows
    <3>. QED BY <1>7, <3>1, <3>2 DEF BatchAction, RowsIn
  <2>. QED BY <2>1, <2>2, <2>3 DEF BatchName
<1>. QED
  BY <1>1, <1>2, <1>3, <1>4, <1>5, <1>6, <1>7

(* An empty store is in order. *)
LEMMA StoreStart ==
  ASSUME StoreInit
  PROVE  StoreInv
<1>1. DOMAIN jobs = {} /\ jobs = [j \in DOMAIN jobs |-> jobs[j]]
  BY DEF StoreInit
<1>2. jobs \in [DOMAIN jobs -> Job] /\ DOMAIN jobs \subseteq 1 .. lastId
  BY <1>1
<1>3. lastId = 0 /\ storedPaused = FALSE /\ storedConc \in Nat
  BY DEF StoreInit
<1>4. lastId \in 0 .. MaxJobs
  BY <1>3, MaxJobsAssumption
<1>5. storedPaused \in BOOLEAN
  BY <1>3
<1>6. StoreTypeOK
  BY <1>2, <1>3, <1>4, <1>5 DEF StoreTypeOK
<1>7. RetryBudget /\ QuarantineExplained
  BY <1>1 DEF RetryBudget, QuarantineExplained, RowsIn
<1>. QED
  BY <1>6, <1>7 DEF StoreInv

(* Whoever calls the methods of the store and in whatever order, the retry
   budget is never exceeded by a row that can still run and a quarantined row
   has its reason. *)
THEOREM StoreInvariant == StoreSpec => [](StoreTypeOK /\ RetryBudget /\ QuarantineExplained)
<1>1. StoreInit => StoreInv
  BY StoreStart
<1>2. StoreInv /\ [StoreNext]_storeVars => StoreInv'
  BY StoreStep
<1>. QED
  BY <1>1, <1>2, PTL DEF StoreSpec, StoreInv

-----------------------------------------------------------------------------
(* What a client's request says about the fields it carries. *)
LEMMA RequestFields ==
  ASSUME NEW x \in {Idle, Notifying} \cup StoreCall
  PROVE  /\ x.op = "setPaused" => x.value \in BOOLEAN
         /\ x.op = "setConcurrency" => x.value \in Limits
         /\ x.op \in {"cancel", "quarantine"} => x.id \in JobId
         /\ x.op = "batch" => x.request \in Batches
  BY DEF Idle, Notifying, StoreCall

(* The records requests are made of. *)
LEMMA RequestRecords ==
  /\ Idle \in {Idle, Notifying} \cup StoreCall
  /\ Notifying \in {Idle, Notifying} \cup StoreCall
  /\ \A p \in BOOLEAN : [op |-> "setPaused", value |-> p] \in StoreCall
  /\ \A n \in Limits : [op |-> "setConcurrency", value |-> n] \in StoreCall
  /\ \A j \in JobId : /\ [op |-> "cancel", id |-> j] \in StoreCall
                      /\ [op |-> "quarantine", id |-> j] \in StoreCall
  /\ \A b \in Batches : [op |-> "batch", request |-> b] \in StoreCall
  BY DEF StoreCall

(* The queue changes the tables through the store's methods only, and claims
   a job in dispatchLoop only. *)
LEMMA StoreCalls ==
  ASSUME TypeOK, [Next]_vars
  PROVE  DispatchClaim \/ [StoreWrite]_storeVars
<1>1. CASE Start
  BY <1>1 DEF Start, Recover, StoreWrite
<1>2. CASE StartInterrupted
  BY <1>2 DEF StartInterrupted, StoreWrite
<1>3. CASE Crash \/ StopClose \/ StopCancel \/ StopReturn
  BY <1>3 DEF Crash, StopClose, StopCancel, StopReturn, Exit
<1>4. CASE DispatchTop \/ DispatchSnapshot \/ DispatchNothing \/ DispatchWake
  BY <1>4 DEF DispatchTop, DispatchSnapshot, DispatchNothing, DispatchWake
<1>6. ASSUME NEW w \in Workers, DispatchRegister(w) PROVE [StoreWrite]_storeVars
  BY <1>6 DEF DispatchRegister
<1>7. ASSUME NEW w \in Workers, ExecReturn(w) \/ Cleanup(w) PROVE [StoreWrite]_storeVars
  BY <1>7 DEF ExecReturn, Cleanup
<1>8. ASSUME NEW w \in Workers, RecordOutcome(w) PROVE [StoreWrite]_storeVars
  <2>1. wjob[w] \in JobId
    BY <1>8 DEF RecordOutcome, TypeOK
  <2>2. CASE UNCHANGED storeVars
    BY <2>2
  <2>3. CASE Outcome(wjob[w], wout[w])
    <3>1. wout[w] \in {"cancelled", "ok", "fatal", "error"}
      BY <1>8 DEF RecordOutcome, TypeOK
    <3>. QED BY <2>1, <2>3, <3>1 DEF Outcome, StoreWrite
  <2>. QED BY <1>8, <2>2, <2>3 DEF RecordOutcome
<1>9. ASSUME NEW c \in Clients, Enqueue(c) PROVE [StoreWrite]_storeVars
  BY <1>9 DEF Enqueue, StoreWrite
<1>10. ASSUME NEW c \in Clients, NEW p \in BOOLEAN, SetPaused(c, p)
       PROVE  [StoreWrite]_storeVars
  BY <1>10 DEF SetPaused, OnlyMemory
<1>11. ASSUME NEW c \in Clients, NEW n \in Limits, SetConcurrency(c, n)
       PROVE  [StoreWrite]_storeVars
  BY <1>11 DEF SetConcurrency, OnlyMemory
<1>12. ASSUME NEW c \in Clients, NEW j \in JobId, Cancel(c, j) \/ Quarantine(c, j)
       PROVE  [StoreWrite]_storeVars
  BY <1>12 DEF Cancel, Quarantine, OnlyMemory
<1>13. ASSUME NEW c \in Clients, NEW j \in JobId,
              \/ PauseOne(c, j) \/ ResumeOne(c, j) \/ RetryOne(c, j)
              \/ UnquarantineOne(c, j) \/ DeleteOne(c, j)
       PROVE  [StoreWrite]_storeVars
  BY <1>13 DEF PauseOne, ResumeOne, RetryOne, UnquarantineOne, DeleteOne, StoreWrite
<1>14. ASSUME NEW c \in Clients, NEW b \in Batches, BatchJobs(c, b)
       PROVE  [StoreWrite]_storeVars
  BY <1>14 DEF BatchJobs, OnlyMemory
<1>15. ASSUME NEW c \in Clients, FinishRequest(c) PROVE [StoreWrite]_storeVars
  <2>1. client[c] \in {Idle, Notifying} \cup StoreCall
    BY DEF TypeOK
  <2>2. CASE StorePaused(c)
    BY <2>1, <2>2, RequestFields DEF StorePaused, StoreWrite
  <2>3. CASE StoreConcurrency(c)
    BY <2>1, <2>3, RequestFields DEF StoreConcurrency, StoreWrite
  <2>4. CASE StoreJob(c)
    BY <2>1, <2>4, RequestFields DEF StoreJob, StoreWrite
  <2>5. CASE StoreBatch(c)
    <3>1. client[c].request \in BatchRequest
      BY <2>1, <2>5, RequestFields, CallsAssumption DEF StoreBatch
    <3>. DEFINE b == client[c].request
    <3>2. b.action \in BatchName /\ b.ids \in SUBSET JobId /\ b.prefix \in SUBSET Attrs
      BY <3>1 DEF BatchRequest
    <3>3. BatchAction(b.action, b.ids, b.prefix)
      BY <2>5 DEF StoreBatch
    <3>. QED BY <3>2, <3>3 DEF StoreWrite
  <2>6. CASE StoreFails(c) \/ NotifyDispatcher(c)
    BY <2>6 DEF StoreFails, NotifyDispatcher
  <2>. QED BY <1>15, <2>2, <2>3, <2>4, <2>5, <2>6 DEF FinishRequest
<1>16. CASE UNCHANGED vars
  BY <1>16 DEF vars
<1>. QED
  BY <1>1, <1>2, <1>3, <1>4, <1>6, <1>7, <1>8, <1>9, <1>10, <1>11, <1>12, <1>13,
     <1>14, <1>15, <1>16 DEF Next, Dispatch, Worker, NewRequest

-----------------------------------------------------------------------------
(* The queue's own part of the type invariant, goroutine by goroutine. *)
MemoryTypeOK ==
  /\ daemon \in {"down", "up", "closing", "draining"} /\ restarts \in 0 .. MaxRestarts
  /\ paused \in BOOLEAN /\ concurrency \in Nat \ {0}
  /\ activeJobs \subseteq JobId
  /\ runningCancels \in [JobId -> Workers \cup {NoWorker}]
  /\ notifyCh \in BOOLEAN

DispatcherTypeOK ==
  /\ dpc \in {"top", "snapshot", "claim", "register", "park", "exited"}
  /\ djob \in JobId \cup {0} /\ (dpc = "register" <=> djob # 0)

WorkersTypeOK ==
  /\ wpc \in [Workers -> {"idle", "exec", "record", "cleanup"}]
  /\ wjob \in [Workers -> JobId \cup {0}]
  /\ \A w \in Workers : wpc[w] = "idle" <=> wjob[w] = 0
  /\ wcancelled \in [Workers -> BOOLEAN]
  /\ wout \in [Workers -> {"none", "cancelled", "ok", "fatal", "error"}]
  /\ \A w \in Workers : wpc[w] = "record" => wout[w] # "none"

ClientsTypeOK == client \in [Clients -> {Idle, Notifying} \cup StoreCall]

LEMMA TypeParts ==
  /\ TypeOK <=> /\ StoreTypeOK /\ MemoryTypeOK /\ DispatcherTypeOK
                /\ WorkersTypeOK /\ ClientsTypeOK
  /\ TypeOK' <=> /\ StoreTypeOK' /\ MemoryTypeOK' /\ DispatcherTypeOK'
                 /\ WorkersTypeOK' /\ ClientsTypeOK'
  BY DEF TypeOK, MemoryTypeOK, DispatcherTypeOK, WorkersTypeOK, ClientsTypeOK

(* What a step leaves alone stays well typed. *)
LEMMA Unchanged ==
  /\ MemoryTypeOK /\ UNCHANGED <<process, memory, notifyCh>> => MemoryTypeOK'
  /\ DispatcherTypeOK /\ UNCHANGED dispatcher => DispatcherTypeOK'
  /\ WorkersTypeOK /\ UNCHANGED workers => WorkersTypeOK'
  /\ ClientsTypeOK /\ UNCHANGED client => ClientsTypeOK'
  BY DEF MemoryTypeOK, DispatcherTypeOK, WorkersTypeOK, ClientsTypeOK,
         process, memory, dispatcher, workers

(* A client moves on to a request it can make. *)
LEMMA NextRequest ==
  ASSUME ClientsTypeOK, NEW c \in Clients, NEW x \in {Idle, Notifying} \cup StoreCall,
         Then(c, x)
  PROVE  ClientsTypeOK'
  BY DEF ClientsTypeOK, Then

(* Cancelling contexts sets flags only. *)
LEMMA CancelTypes ==
  ASSUME WorkersTypeOK, NEW ids, CancelContexts(ids), UNCHANGED <<wpc, wjob, wout>>
  PROVE  WorkersTypeOK'
  BY DEF WorkersTypeOK, CancelContexts

(* What types alone do not give: a process that is down has no goroutines. *)
DownIsEmpty ==
  daemon = "down" => dpc = "exited" /\ \A w \in Workers : ~ InFlight(w)

(* Jobs have ids from 1. *)
LEMMA JobIds == 0 \notin JobId /\ JobId \subseteq Nat
  BY MaxJobsAssumption DEF JobId

LEMMA ProcessTypes ==
  ASSUME MemoryTypeOK, DispatcherTypeOK, WorkersTypeOK, ClientsTypeOK, StoreTypeOK,
         DownIsEmpty,
         \/ Start \/ StartInterrupted \/ Crash \/ StopClose \/ StopCancel \/ StopReturn
  PROVE  MemoryTypeOK' /\ DispatcherTypeOK' /\ WorkersTypeOK' /\ ClientsTypeOK'
<1>1. CASE Start
  <2>1. paused' \in BOOLEAN /\ concurrency' \in Nat \ {0}
    BY <1>1 DEF Start, memory, LoadedConcurrency, StoreTypeOK, MemoryTypeOK
  <2>2. MemoryTypeOK'
    BY <1>1, <2>1 DEF Start, MemoryTypeOK
  <2>3. DispatcherTypeOK'
    BY <1>1 DEF Start, DispatcherTypeOK, DownIsEmpty
  <2>. QED BY <1>1, <2>2, <2>3, Unchanged DEF Start
<1>2. CASE StartInterrupted
  <2>1. MemoryTypeOK'
    BY <1>2, FailureAssumption DEF StartInterrupted, MemoryTypeOK, memory
  <2>. QED BY <1>2, <2>1, Unchanged DEF StartInterrupted
<1>3. CASE Crash \/ StopReturn
  <2>1. Exit /\ restarts' \in 0 .. MaxRestarts
    BY <1>3, FailureAssumption DEF Crash, StopReturn, MemoryTypeOK
  <2>2. MemoryTypeOK'
    BY <2>1, ConcurrencyAssumption DEF Exit, MemoryTypeOK, NoCancels
  <2>3. DispatcherTypeOK'
    BY <2>1 DEF Exit, DispatcherTypeOK
  <2>4. WorkersTypeOK'
    BY <2>1 DEF Exit, WorkersTypeOK, AllWorkers
  <2>5. ClientsTypeOK'
    BY <2>1 DEF Exit, ClientsTypeOK
  <2>. QED BY <2>2, <2>3, <2>4, <2>5
<1>4. CASE StopClose
  <2>1. MemoryTypeOK'
    BY <1>4, FailureAssumption DEF StopClose, MemoryTypeOK, memory
  <2>. QED BY <1>4, <2>1, Unchanged DEF StopClose
<1>5. CASE StopCancel
  <2>1. MemoryTypeOK'
    BY <1>5 DEF StopCancel, MemoryTypeOK, NoCancels
  <2>2. WorkersTypeOK'
    BY <1>5, CancelTypes DEF StopCancel
  <2>. QED BY <1>5, <2>1, <2>2, Unchanged DEF StopCancel
<1>. QED
  BY <1>1, <1>2, <1>3, <1>4, <1>5

LEMMA DispatchTypes ==
  ASSUME MemoryTypeOK, DispatcherTypeOK, WorkersTypeOK, ClientsTypeOK, Dispatch
  PROVE  MemoryTypeOK' /\ DispatcherTypeOK' /\ WorkersTypeOK' /\ ClientsTypeOK'
<1>1. CASE DispatchTop \/ DispatchSnapshot \/ DispatchNothing \/ DispatchWake
  <2>1. PICK pc \in {"top", "snapshot", "claim", "park", "exited"} : DispatchTo(pc)
    BY <1>1 DEF DispatchTop, DispatchSnapshot, DispatchNothing, DispatchWake
  <2>2. dpc # "register"
    BY <1>1 DEF DispatchTop, DispatchSnapshot, DispatchNothing, DispatchWake
  <2>3. DispatcherTypeOK'
    BY <2>1, <2>2 DEF DispatchTo, DispatcherTypeOK
  <2>4. notifyCh' \in BOOLEAN
    BY <1>1 DEF DispatchTop, DispatchSnapshot, DispatchNothing, DispatchWake, MemoryTypeOK
  <2>5. MemoryTypeOK'
    BY <2>1, <2>4 DEF DispatchTo, MemoryTypeOK, process, memory
  <2>. QED BY <2>1, <2>3, <2>5, Unchanged DEF DispatchTo
<1>2. CASE DispatchClaim
  <2>1. DispatcherTypeOK'
    BY <1>2, JobIds DEF DispatchClaim, DispatcherTypeOK
  <2>. QED BY <1>2, <2>1, Unchanged DEF DispatchClaim
<1>3. ASSUME NEW w \in Workers, DispatchRegister(w)
      PROVE  MemoryTypeOK' /\ DispatcherTypeOK' /\ WorkersTypeOK' /\ ClientsTypeOK'
  <2>1. djob \in JobId
    BY <1>3 DEF DispatchRegister, DispatcherTypeOK
  <2>2. MemoryTypeOK'
    BY <1>3, <2>1 DEF DispatchRegister, MemoryTypeOK, process
  <2>3. DispatcherTypeOK'
    BY <1>3 DEF DispatchRegister, DispatcherTypeOK
  <2>4. WorkersTypeOK'
    BY <1>3, <2>1, JobIds DEF DispatchRegister, WorkersTypeOK
  <2>. QED BY <1>3, <2>2, <2>3, <2>4, Unchanged DEF DispatchRegister
<1>. QED
  BY <1>1, <1>2, <1>3 DEF Dispatch

LEMMA WorkerTypes ==
  ASSUME MemoryTypeOK, DispatcherTypeOK, WorkersTypeOK, ClientsTypeOK,
         NEW w \in Workers, Worker(w)
  PROVE  MemoryTypeOK' /\ DispatcherTypeOK' /\ WorkersTypeOK' /\ ClientsTypeOK'
<1>1. CASE ExecReturn(w)
  <2>1. PICK out \in {"cancelled", "ok", "fatal", "error"} :
          wout' = [wout EXCEPT ![w] = out]
    BY <1>1 DEF ExecReturn
  <2>2. WorkersTypeOK'
    BY <1>1, <2>1 DEF ExecReturn, WorkersTypeOK
  <2>. QED BY <1>1, <2>2, Unchanged DEF ExecReturn
<1>2. CASE RecordOutcome(w)
  <2>1. WorkersTypeOK'
    BY <1>2 DEF RecordOutcome, WorkersTypeOK
  <2>. QED BY <1>2, <2>1, Unchanged DEF RecordOutcome
<1>3. CASE Cleanup(w)
  <2>1. wjob[w] \in JobId
    BY <1>3 DEF Cleanup, WorkersTypeOK
  <2>2. MemoryTypeOK'
    BY <1>3, <2>1 DEF Cleanup, MemoryTypeOK, Notify, process
  <2>3. WorkersTypeOK'
    BY <1>3 DEF Cleanup, WorkersTypeOK
  <2>. QED BY <1>3, <2>2, <2>3, Unchanged DEF Cleanup
<1>. QED
  BY <1>1, <1>2, <1>3 DEF Worker

(* A request that touches the tables only, or then waits to notify. *)
LEMMA NewRequestTypes ==
  ASSUME MemoryTypeOK, DispatcherTypeOK, WorkersTypeOK, ClientsTypeOK, 
         NEW c \in Clients, NewRequest(c)
  PROVE  MemoryTypeOK' /\ DispatcherTypeOK' /\ WorkersTypeOK' /\ ClientsTypeOK'
<1>1. ASSUME OnlyStore, NEW x \in {Idle, Notifying, client[c]}, Then(c, x) \/ UNCHANGED client
      PROVE  MemoryTypeOK' /\ DispatcherTypeOK' /\ WorkersTypeOK' /\ ClientsTypeOK'
  <2>1. x \in {Idle, Notifying} \cup StoreCall
    BY DEF ClientsTypeOK
  <2>. QED BY <1>1, <2>1, Unchanged, NextRequest DEF OnlyStore
<1>2. CASE Enqueue(c)
  BY <1>2, <1>1 DEF Enqueue
<1>3. ASSUME NEW p \in BOOLEAN, SetPaused(c, p)
      PROVE  MemoryTypeOK' /\ DispatcherTypeOK' /\ WorkersTypeOK' /\ ClientsTypeOK'
  <2>1. MemoryTypeOK'
    BY <1>3 DEF SetPaused, OnlyMemory, MemoryTypeOK, process
  <2>2. WorkersTypeOK'
    BY <1>3 DEF SetPaused, OnlyMemory, WorkersTypeOK
  <2>3. ClientsTypeOK'
    BY <1>3, NextRequest, RequestRecords DEF SetPaused
  <2>. QED BY <1>3, <2>1, <2>2, <2>3, Unchanged DEF SetPaused, OnlyMemory
<1>4. ASSUME NEW n \in Limits, SetConcurrency(c, n)
      PROVE  MemoryTypeOK' /\ DispatcherTypeOK' /\ WorkersTypeOK' /\ ClientsTypeOK'
  <2>1. MemoryTypeOK'
    BY <1>4, LimitsAssumption DEF SetConcurrency, OnlyMemory, MemoryTypeOK, process
  <2>2. WorkersTypeOK'
    BY <1>4 DEF SetConcurrency, OnlyMemory, WorkersTypeOK
  <2>3. ClientsTypeOK'
    BY <1>4, NextRequest, RequestRecords DEF SetConcurrency
  <2>. QED BY <1>4, <2>1, <2>2, <2>3, Unchanged DEF SetConcurrency, OnlyMemory
<1>5. ASSUME NEW j \in JobId, Cancel(c, j) \/ Quarantine(c, j)
      PROVE  MemoryTypeOK' /\ DispatcherTypeOK' /\ WorkersTypeOK' /\ ClientsTypeOK'
  <2>1. MemoryTypeOK'
    BY <1>5, Unchanged DEF Cancel, Quarantine, OnlyMemory
  <2>2. WorkersTypeOK'
    BY <1>5, CancelTypes DEF Cancel, Quarantine, OnlyMemory
  <2>3. ClientsTypeOK'
    BY <1>5, NextRequest, RequestRecords DEF Cancel, Quarantine
  <2>. QED BY <1>5, <2>1, <2>2, <2>3, Unchanged DEF Cancel, Quarantine, OnlyMemory
<1>6. ASSUME NEW j \in JobId,
             \/ PauseOne(c, j) \/ ResumeOne(c, j) \/ RetryOne(c, j)
             \/ UnquarantineOne(c, j) \/ DeleteOne(c, j)
      PROVE  MemoryTypeOK' /\ DispatcherTypeOK' /\ WorkersTypeOK' /\ ClientsTypeOK'
  BY <1>6, <1>1 DEF PauseOne, ResumeOne, RetryOne, UnquarantineOne, DeleteOne
<1>7. ASSUME NEW b \in Batches, BatchJobs(c, b)
      PROVE  MemoryTypeOK' /\ DispatcherTypeOK' /\ WorkersTypeOK' /\ ClientsTypeOK'
  <2>1. runningCancels' \in [JobId -> Workers \cup {NoWorker}]
    BY <1>7 DEF BatchJobs, MemoryTypeOK
  <2>2. MemoryTypeOK'
    BY <1>7, <2>1 DEF BatchJobs, OnlyMemory, MemoryTypeOK, process
  <2>3. WorkersTypeOK'
    BY <1>7, CancelTypes DEF BatchJobs, OnlyMemory
  <2>4. ClientsTypeOK'
    BY <1>7, NextRequest, RequestRecords DEF BatchJobs
  <2>. QED BY <1>7, <2>2, <2>3, <2>4, Unchanged DEF BatchJobs, OnlyMemory
<1>. QED
  BY <1>2, <1>3, <1>4, <1>5, <1>6, <1>7 DEF NewRequest

LEMMA FinishRequestTypes ==
  ASSUME MemoryTypeOK, DispatcherTypeOK, WorkersTypeOK, ClientsTypeOK,
         NEW c \in Clients, FinishRequest(c)
  PROVE  MemoryTypeOK' /\ DispatcherTypeOK' /\ WorkersTypeOK' /\ ClientsTypeOK'
<1>1. PICK x \in {Idle, Notifying} : Then(c, x)
  BY DEF FinishRequest, StorePaused, StoreConcurrency, StoreJob, StoreBatch, StoreFails,
         NotifyDispatcher
<1>2. UNCHANGED <<process, memory, dispatcher, workers>>
  BY DEF FinishRequest, StorePaused, StoreConcurrency, StoreJob, StoreBatch, StoreFails,
         NotifyDispatcher, OnlyStore
<1>3. notifyCh' = notifyCh \/ notifyCh' = TRUE
  BY DEF FinishRequest, StorePaused, StoreConcurrency, StoreJob, StoreBatch, StoreFails,
         NotifyDispatcher, OnlyStore, Notify
<1>4. MemoryTypeOK'
  BY <1>2, <1>3 DEF MemoryTypeOK, process, memory
<1>. QED
  BY <1>1, <1>2, <1>4, NextRequest, Unchanged

(* Requests change no goroutine of the queue. *)
LEMMA RequestsLeave ==
  ASSUME NEW c \in Clients, NewRequest(c) \/ FinishRequest(c)
  PROVE  UNCHANGED <<daemon, dpc, djob, wpc, wjob>>
  BY DEF NewRequest, Enqueue, SetPaused, SetConcurrency, Cancel, Quarantine, PauseOne,
         ResumeOne, RetryOne, UnquarantineOne, DeleteOne, BatchJobs, FinishRequest,
         StorePaused, StoreConcurrency, StoreJob, StoreBatch, StoreFails,
         NotifyDispatcher, OnlyStore, OnlyMemory, process, dispatcher, workers

(* No goroutine starts in a process that is down. *)
LEMMA DownStep ==
  ASSUME TypeOK, DownIsEmpty, [Next]_vars
  PROVE  DownIsEmpty'
<1>1. CASE Start \/ StartInterrupted \/ Crash \/ StopClose \/ StopCancel \/ StopReturn
  BY <1>1 DEF Start, StartInterrupted, Crash, StopClose, StopCancel, StopReturn, Exit,
              DownIsEmpty, InFlight, AllWorkers, dispatcher, workers
<1>2. CASE Dispatch
  BY <1>2 DEF Dispatch, DispatchTop, DispatchSnapshot, DispatchClaim, DispatchNothing,
              DispatchRegister, DispatchWake, DispatchTo, DownIsEmpty, process
<1>3. ASSUME NEW w \in Workers, Worker(w) PROVE DownIsEmpty'
  BY <1>3 DEF Worker, ExecReturn, RecordOutcome, Cleanup, DownIsEmpty, InFlight, process
<1>4. ASSUME NEW c \in Clients, NewRequest(c) \/ FinishRequest(c) PROVE DownIsEmpty'
  BY <1>4, RequestsLeave DEF DownIsEmpty, InFlight
<1>5. CASE UNCHANGED vars
  BY <1>5 DEF vars, process, dispatcher, workers, DownIsEmpty, InFlight
<1>. QED
  BY <1>1, <1>2, <1>3, <1>4, <1>5 DEF Next

(* A process that is down stays down until it is started. *)
LEMMA DownStays ==
  ASSUME DownIsEmpty, daemon = "down", [Next]_vars, ~ Start
  PROVE  daemon' = "down"
<1>1. ~ Crash /\ ~ StopClose /\ ~ StopCancel /\ ~ StopReturn
  BY DEF Crash, StopClose, StopCancel, StopReturn
<1>2. StartInterrupted => daemon' = daemon
  BY DEF StartInterrupted
<1>3. Dispatch => daemon' = daemon
  BY DEF Dispatch, DispatchTop, DispatchSnapshot, DispatchClaim, DispatchNothing,
         DispatchRegister, DispatchWake, DispatchTo, process
<1>4. ASSUME NEW w \in Workers, Worker(w) PROVE daemon' = daemon
  BY <1>4 DEF Worker, ExecReturn, RecordOutcome, Cleanup, process
<1>5. UNCHANGED vars => daemon' = daemon
  BY DEF vars, process
<1>. QED
  BY <1>1, <1>2, <1>3, <1>4, <1>5, RequestsLeave DEF Next

-----------------------------------------------------------------------------
(* The inductive invariant the rest is built on. *)
Inv == TypeOK /\ RetryBudget /\ QuarantineExplained /\ DownIsEmpty

LEMMA InvInit ==
  ASSUME Init
  PROVE  Inv
<1>1. StoreInv
  <2>1. StoreInit
    BY ConcurrencyAssumption DEF Init, StoreInit
  <2>. QED BY <2>1, StoreStart
<1>2. MemoryTypeOK
  <2>1. restarts \in 0 .. MaxRestarts /\ concurrency \in Nat \ {0}
    BY ConcurrencyAssumption, FailureAssumption DEF Init
  <2>2. runningCancels \in [JobId -> Workers \cup {NoWorker}]
    BY DEF Init, NoCancels
  <2>3. paused \in BOOLEAN /\ notifyCh \in BOOLEAN
    BY DEF Init
  <2>. QED BY <2>1, <2>2, <2>3 DEF Init, MemoryTypeOK
<1>3. DispatcherTypeOK /\ WorkersTypeOK /\ ClientsTypeOK
  BY DEF Init, DispatcherTypeOK, WorkersTypeOK, ClientsTypeOK, AllWorkers
<1>4. DownIsEmpty
  BY DEF Init, DownIsEmpty, InFlight, AllWorkers
<1>. QED
  BY <1>1, <1>2, <1>3, <1>4, TypeParts DEF StoreInv, Inv

LEMMA InvStep ==
  ASSUME Inv, [Next]_vars
  PROVE  Inv'
<1>1. StoreInv'
  <2>1. [StoreNext]_storeVars
    BY StoreCalls DEF Inv, DispatchClaim, StoreNext
  <2>. QED BY <2>1, StoreStep DEF Inv, TypeOK, StoreInv
<1>2. MemoryTypeOK' /\ DispatcherTypeOK' /\ WorkersTypeOK' /\ ClientsTypeOK'
  <2>. MemoryTypeOK /\ DispatcherTypeOK /\ WorkersTypeOK /\ ClientsTypeOK /\ StoreTypeOK
    BY TypeParts DEF Inv
  <2>1. CASE Start \/ StartInterrupted \/ Crash \/ StopClose \/ StopCancel \/ StopReturn
    BY <2>1, ProcessTypes DEF Inv
  <2>2. CASE Dispatch
    BY <2>2, DispatchTypes
  <2>3. ASSUME NEW w \in Workers, Worker(w)
        PROVE  MemoryTypeOK' /\ DispatcherTypeOK' /\ WorkersTypeOK' /\ ClientsTypeOK'
    BY <2>3, WorkerTypes
  <2>4. ASSUME NEW c \in Clients, NewRequest(c) \/ FinishRequest(c)
        PROVE  MemoryTypeOK' /\ DispatcherTypeOK' /\ WorkersTypeOK' /\ ClientsTypeOK'
    BY <2>4, NewRequestTypes, FinishRequestTypes
  <2>5. CASE UNCHANGED vars
    BY <2>5, Unchanged DEF vars
  <2>. QED BY <2>1, <2>2, <2>3, <2>4, <2>5 DEF Next
<1>3. DownIsEmpty'
  BY DownStep DEF Inv
<1>. QED
  BY <1>1, <1>2, <1>3, TypeParts DEF StoreInv, Inv

LEMMA Invariance == Spec => []Inv
<1>1. Init => Inv
  BY InvInit
<1>2. Inv /\ [Next]_vars => Inv'
  BY InvStep
<1>. QED
  BY <1>1, <1>2, PTL DEF Spec

(* Every goroutine's state stays what the code can make of it. *)
THEOREM TypeCorrect == Spec => []TypeOK
<1>1. Inv => TypeOK
  BY DEF Inv
<1>. QED
  BY <1>1, Invariance, PTL

(* A job never runs on a spent budget, whatever interleaves with its retries. *)
THEOREM BudgetKept == Spec => []RetryBudget
<1>1. Inv => RetryBudget
  BY DEF Inv
<1>. QED
  BY <1>1, Invariance, PTL

(* A quarantined job always has its reason. *)
THEOREM ReasonKept == Spec => []QuarantineExplained
<1>1. Inv => QuarantineExplained
  BY DEF Inv
<1>. QED
  BY <1>1, Invariance, PTL

(* The queue with its goroutines, requests, crashes and restarts implements
   the store under arbitrary callers: it never touches a row by other means. *)
THEOREM QueueImplementsStore == Spec => StoreSpec
<1>1. Init => StoreInit
  BY ConcurrencyAssumption DEF Init, StoreInit
<1>2. Inv /\ [Next]_vars => [StoreNext]_storeVars
  BY StoreCalls DEF Inv, DispatchClaim, StoreNext
<1>. QED
  BY <1>1, <1>2, Invariance, PTL DEF Spec, StoreSpec

-----------------------------------------------------------------------------
(* RunningHasOwner is inductive.  Goroutines that go on with their work stay
   owners ... *)
LEMMA OwnersStay ==
  ASSUME UNCHANGED <<djob, wpc, wjob>>, dpc' = dpc \/ dpc # "register", NEW j, Owned(j)
  PROVE  Owned(j)'
  BY DEF Owned, Executing

(* ... and a row is not running any more when its owner has recorded. *)
LEMMA RecordedIsNotRunning ==
  ASSUME StoreTypeOK, NEW j, NEW out \in {"cancelled", "ok", "fatal", "error"},
         Outcome(j, out)
  PROVE  j \notin RowsIn({"running"})'
<1>1. \A r \in Job : /\ Failed(r).state # "running" /\ Quarantined(r).state # "running"
                      /\ \A s : [r EXCEPT !.state = s].state = s
  BY FailedRow, CountedRow DEF Failed, Quarantined, Job
<1>2. \A k \in DOMAIN jobs : jobs[k] \in Job
  BY DEF StoreTypeOK
<1>3. CASE out \in {"ok", "cancelled"}
  <2>1. PICK s \in {"completed", "cancelled"} : FinishJob(j, s)
    BY <1>3 DEF Outcome
  <2>. QED BY <1>1, <1>2, <2>1 DEF FinishJob, Update, RowsIn
<1>5. CASE out = "fatal"
  BY <1>1, <1>2, <1>5 DEF Outcome, QuarantineJob, Update, RowsIn
<1>6. CASE out = "error"
  BY <1>1, <1>2, <1>6 DEF Outcome, FailAndRetryJob, Update, RowsIn
<1>. QED
  BY <1>3, <1>5, <1>6

(* A row the dispatcher has just claimed is the one it holds. *)
LEMMA ClaimedIsHeld ==
  ASSUME DispatchClaim, NEW j \in RowsIn({"running"})', j \notin RowsIn({"running"})
  PROVE  Owned(j)'
<1>1. PICK k \in JobId : ClaimNextJob(k) /\ djob' = k
  BY DEF DispatchClaim
<1>2. j = k
  BY <1>1 DEF ClaimNextJob, Update, RowsIn
<1>. QED
  BY <1>1, <1>2 DEF DispatchClaim, Owned

LEMMA OwnerStep ==
  ASSUME Inv, RunningHasOwner, [Next]_vars
  PROVE  RunningHasOwner'
<1>. SUFFICES ASSUME daemon' # "down", ~ StoreCanFail, NEW j \in RowsIn({"running"})'
              PROVE  Owned(j)'
  BY DEF RunningHasOwner
<1>. StoreTypeOK /\ TypeOK
  BY DEF Inv, TypeOK
<1>1. CASE Start
  <2>1. \A k \in DOMAIN jobs : jobs[k] \in Job
    BY DEF StoreTypeOK
  <2>2. \A r \in Job : Requeued(r).state # "running" /\ Quarantined(r).state # "running"
    BY CountedRow DEF Requeued, Quarantined, Job
  <2>3. RecoverOrphanedJobs
    BY <1>1 DEF Start, Recover
  <2>4. RowsIn({"running"})' = {}
    BY <2>1, <2>2, <2>3 DEF RecoverOrphanedJobs, Update, RowsIn
  <2>. QED BY <2>4
<1>2. CASE StartInterrupted \/ Crash \/ StopReturn
  BY <1>2 DEF StartInterrupted, Crash, StopReturn, Exit
<1>3. CASE DispatchClaim
  <2>1. CASE j \in RowsIn({"running"})
    <3>1. Owned(j)
      BY <1>3, <2>1, daemon # "down" DEF RunningHasOwner, DispatchClaim, process
    <3>. QED BY <1>3, <3>1 DEF DispatchClaim, Owned, Executing, workers
  <2>2. CASE j \notin RowsIn({"running"})
    BY <1>3, <2>2, ClaimedIsHeld
  <2>. QED BY <2>1, <2>2
<1>4. ASSUME ~ Start, ~ StartInterrupted, ~ Crash, ~ StopReturn, ~ DispatchClaim
      PROVE  Owned(j)'
  <2>1. j \in RowsIn({"running"})
    BY <1>4, StoreCalls, OnlyClaimRuns
  <2>2. daemon # "down"
    BY <1>4, DownStays DEF Inv
  <2>3. Owned(j)
    BY <2>1, <2>2 DEF RunningHasOwner
  <2>4. ASSUME NEW w \in Workers, DispatchRegister(w) PROVE Owned(j)'
    BY <2>3, <2>4 DEF DispatchRegister, Owned, Executing, InFlight, TypeOK
  <2>5. ASSUME NEW w \in Workers, ExecReturn(w) \/ Cleanup(w) PROVE Owned(j)'
    BY <2>3, <2>5 DEF ExecReturn, Cleanup, dispatcher, Owned, Executing, TypeOK
  <2>6. ASSUME NEW w \in Workers, RecordOutcome(w) PROVE Owned(j)'
    <3>1. wjob[w] # j
      BY <2>6, RecordedIsNotRunning DEF RecordOutcome, TypeOK
    <3>. QED BY <2>3, <2>6, <3>1 DEF RecordOutcome, dispatcher, Owned, Executing, TypeOK
  <2>7. CASE DispatchTop \/ DispatchSnapshot \/ DispatchNothing \/ DispatchWake
    BY <2>3, <2>7, OwnersStay
    DEF DispatchTop, DispatchSnapshot, DispatchNothing, DispatchWake, DispatchTo, workers
  <2>8. CASE StopClose \/ StopCancel
    BY <2>3, <2>8, OwnersStay DEF StopClose, StopCancel, dispatcher, workers
  <2>9. ASSUME NEW c \in Clients, NewRequest(c) \/ FinishRequest(c) PROVE Owned(j)'
    BY <2>3, <2>9, OwnersStay, RequestsLeave
  <2>10. CASE UNCHANGED vars
    BY <2>3, <2>10, OwnersStay DEF vars, dispatcher, workers
  <2>. QED
    BY <1>4, <2>4, <2>5, <2>6, <2>7, <2>8, <2>9, <2>10 DEF Next, Dispatch, Worker
<1>. QED
  BY <1>1, <1>2, <1>3, <1>4

(* While the daemon runs every running row has a goroutine that will still
   record its outcome. *)
THEOREM NoOrphansWhileUp == Spec => []RunningHasOwner
<1>1. Init => RunningHasOwner
  BY DEF Init, RunningHasOwner
<1>2. Inv /\ RunningHasOwner /\ [Next]_vars => RunningHasOwner'
  BY OwnerStep
<1>. QED
  BY <1>1, <1>2, Invariance, PTL DEF Spec

(* A Stop that returns has waited for every owner. *)
THEOREM StopIsClean == Spec => CleanStop
<1>1. ASSUME RunningHasOwner, StopReturn, ~ StoreCanFail
      PROVE  RowsIn({"running"}) = {}
  BY <1>1 DEF RunningHasOwner, StopReturn, Owned, Executing, InFlight
<1>2. RunningHasOwner /\ [Next]_vars
        => [StopReturn /\ ~ StoreCanFail => RowsIn({"running"}) = {}]_vars
  BY <1>1
<1>. QED
  BY <1>2, NoOrphansWhileUp, PTL DEF Spec, CleanStop

-----------------------------------------------------------------------------
(* EntriesAreLive is inductive.  Only a registration, a cleanup, a batch, a
   Stop and the end of the process write the maps, and only the workers'
   goroutines come and go. *)
LEMMA EntriesStep ==
  ASSUME TypeOK, EntriesAreLive, [Next]_vars
  PROVE  EntriesAreLive'
<1>. DEFINE Same == UNCHANGED <<activeJobs, runningCancels, wpc, wjob>>
<1>1. Same => EntriesAreLive'
  BY DEF EntriesAreLive, InFlight
<1>2. CASE Start \/ StartInterrupted \/ StopClose
  BY <1>1, <1>2 DEF Start, StartInterrupted, StopClose, memory, workers
<1>3. CASE Crash \/ StopReturn
  <2>1. activeJobs' = {} /\ \A j \in JobId : runningCancels'[j] = NoWorker
    BY <1>3 DEF Crash, StopReturn, Exit, NoCancels
  <2>. QED BY <2>1 DEF EntriesAreLive
<1>4. CASE StopCancel
  <2>1. \A j \in JobId : runningCancels'[j] = NoWorker
    BY <1>4 DEF StopCancel, NoCancels
  <2>2. UNCHANGED <<activeJobs, wpc, wjob>>
    BY <1>4 DEF StopCancel
  <2>. QED BY <2>1, <2>2 DEF EntriesAreLive, InFlight
<1>5. CASE DispatchTop \/ DispatchSnapshot \/ DispatchClaim \/ DispatchNothing \/ DispatchWake
  BY <1>1, <1>5 DEF DispatchTop, DispatchSnapshot, DispatchClaim, DispatchNothing,
                    DispatchWake, DispatchTo, memory, workers
<1>6. ASSUME NEW w \in Workers, DispatchRegister(w) PROVE EntriesAreLive'
  <2>1. /\ wpc[w] = "idle" /\ djob \in JobId
        /\ activeJobs' = activeJobs \cup {djob}
        /\ runningCancels' = [runningCancels EXCEPT ![djob] = w]
        /\ wpc' = [wpc EXCEPT ![w] = "exec"] /\ wjob' = [wjob EXCEPT ![w] = djob]
    BY <1>6 DEF DispatchRegister, InFlight, TypeOK
  <2>2. /\ runningCancels \in [JobId -> Workers \cup {NoWorker}]
        /\ DOMAIN wpc = Workers /\ DOMAIN wjob = Workers
    BY DEF TypeOK
  <2>3. \A j \in activeJobs' : \E v \in Workers : InFlight(v)' /\ wjob'[v] = j
    BY <2>1, <2>2 DEF EntriesAreLive, InFlight
  <2>4. ASSUME NEW j \in JobId, runningCancels'[j] # NoWorker
        PROVE  /\ j \in activeJobs'
               /\ InFlight(runningCancels[j])' /\ wjob'[runningCancels'[j]] = j
    BY <2>1, <2>2, <2>4 DEF EntriesAreLive, InFlight
  <2>. QED BY <2>3, <2>4 DEF EntriesAreLive
<1>7. ASSUME NEW w \in Workers, ExecReturn(w) \/ RecordOutcome(w) PROVE EntriesAreLive'
  <2>1. \A v \in Workers : InFlight(v) => InFlight(v)'
    BY <1>7 DEF ExecReturn, RecordOutcome, InFlight, TypeOK
  <2>2. UNCHANGED <<activeJobs, runningCancels, wjob>>
    BY <1>7 DEF ExecReturn, RecordOutcome, memory
  <2>3. runningCancels \in [JobId -> Workers \cup {NoWorker}]
    BY DEF TypeOK
  <2>. QED BY <2>1, <2>2, <2>3 DEF EntriesAreLive
<1>8. ASSUME NEW w \in Workers, Cleanup(w) PROVE EntriesAreLive'
  <2>1. /\ wjob[w] \in JobId
        /\ activeJobs' = activeJobs \ {wjob[w]}
        /\ runningCancels' = [runningCancels EXCEPT ![wjob[w]] = NoWorker]
        /\ wpc' = [wpc EXCEPT ![w] = "idle"] /\ wjob' = [wjob EXCEPT ![w] = 0]
    BY <1>8 DEF Cleanup, TypeOK
  <2>2. /\ runningCancels \in [JobId -> Workers \cup {NoWorker}]
        /\ wpc \in [Workers -> {"idle", "exec", "record", "cleanup"}] /\ DOMAIN wjob = Workers
    BY DEF TypeOK
  <2>3. ASSUME NEW v \in Workers, InFlight(v), wjob[v] # wjob[w]
        PROVE  InFlight(v)' /\ wjob'[v] = wjob[v]
    BY <2>1, <2>2, <2>3 DEF InFlight
  <2>4. \A j \in activeJobs' : \E v \in Workers : InFlight(v)' /\ wjob'[v] = j
    BY <2>1, <2>3 DEF EntriesAreLive
  <2>5. ASSUME NEW j \in JobId, runningCancels'[j] # NoWorker
        PROVE  /\ j \in activeJobs'
               /\ InFlight(runningCancels[j])' /\ wjob'[runningCancels'[j]] = j
    <3>1. j # wjob[w] /\ runningCancels'[j] = runningCancels[j] /\ runningCancels[j] \in Workers
      BY <2>1, <2>2, <2>5
    <3>2. PICK v \in Workers : v = runningCancels[j] /\ InFlight(v) /\ wjob[v] = j
      BY <2>5, <3>1 DEF EntriesAreLive
    <3>3. InFlight(v)' /\ wjob'[v] = j /\ runningCancels'[j] = v
      BY <2>3, <3>1, <3>2
    <3>4. j \in activeJobs'
      BY <2>1, <2>5, <3>1 DEF EntriesAreLive
    <3>. QED BY <3>3, <3>4 DEF InFlight
  <2>. QED BY <2>4, <2>5 DEF EntriesAreLive
<1>9. ASSUME NEW c \in Clients, NEW b \in Batches, BatchJobs(c, b) PROVE EntriesAreLive'
  <2>1. UNCHANGED <<activeJobs, wpc, wjob>>
    BY <1>9 DEF BatchJobs, OnlyMemory
  <2>2. \A j \in JobId : runningCancels'[j] \in {runningCancels[j], NoWorker}
    BY <1>9 DEF BatchJobs
  <2>. QED BY <2>1, <2>2 DEF EntriesAreLive, InFlight
<1>10. ASSUME NEW c \in Clients, FinishRequest(c) PROVE EntriesAreLive'
  BY <1>1, <1>10
  DEF FinishRequest, StorePaused, StoreConcurrency, StoreJob, StoreBatch, StoreFails,
      NotifyDispatcher, OnlyStore, memory, workers
<1>11. ASSUME NEW c \in Clients, NewRequest(c), ~ \E b \in Batches : BatchJobs(c, b)
       PROVE  EntriesAreLive'
  BY <1>1, <1>11
  DEF NewRequest, Enqueue, SetPaused, SetConcurrency, Cancel, Quarantine, PauseOne,
      ResumeOne, RetryOne, UnquarantineOne, DeleteOne, OnlyStore, OnlyMemory, memory, workers
<1>12. CASE UNCHANGED vars
  BY <1>1, <1>12 DEF vars, memory, workers
<1>. QED
  BY <1>2, <1>3, <1>4, <1>5, <1>6, <1>7, <1>8, <1>9, <1>10, <1>11, <1>12
  DEF Next, Dispatch, Worker

(* An entry of the queue's maps never outlives the worker it stands for. *)
THEOREM EntriesStayLive == Spec => []EntriesAreLive
<1>1. Init => EntriesAreLive
  BY DEF Init, EntriesAreLive, NoCancels
<1>2. Inv /\ EntriesAreLive /\ [Next]_vars => EntriesAreLive'
  BY EntriesStep DEF Inv
<1>. QED
  BY <1>1, <1>2, Invariance, PTL DEF Spec

-----------------------------------------------------------------------------
(* ExclusiveExecution needs to know what a second claim would need: that a row
   somebody owns is neither queued nor paused, so that without resets only its
   owner can make it claimable again. *)
OwnedRows ==
  NoResets =>
    \A j \in JobId : Owned(j) => j <= lastId /\ j \notin RowsIn({"queued", "paused"})

(* Steps that move no goroutine between owning and not owning. *)
LEMMA PassiveStep ==
  ASSUME TypeOK, OwnedRows, ExclusiveExecution, NoResets,
         UNCHANGED <<djob, wpc, wjob>>, dpc' = dpc \/ "register" \notin {dpc, dpc'},
         lastId' = lastId \/ lastId' = lastId + 1,
         RowsIn({"queued", "paused"})' \subseteq RowsIn({"queued", "paused"}) \cup {lastId + 1}
  PROVE  OwnedRows' /\ ExclusiveExecution'
<1>1. \A j : Owned(j)' <=> Owned(j)
  BY DEF Owned, Executing
<1>2. ExclusiveExecution'
  BY DEF ExclusiveExecution, Executing, NoResets
<1>3. lastId \in Nat
  BY MaxJobsAssumption DEF TypeOK, StoreTypeOK
<1>4. ASSUME NEW j \in JobId, Owned(j)
      PROVE  j <= lastId' /\ j \notin RowsIn({"queued", "paused"})'
  <2>1. j <= lastId /\ j \notin RowsIn({"queued", "paused"}) /\ j \in Nat
    BY <1>4, JobIds DEF OwnedRows
  <2>2. j # lastId + 1 /\ j <= lastId'
    BY <1>3, <2>1
  <2>. QED BY <2>1, <2>2
<1>. QED
  BY <1>1, <1>2, <1>4 DEF OwnedRows

LEMMA ExclusiveStep ==
  ASSUME Inv, OwnedRows, ExclusiveExecution, [Next]_vars
  PROVE  OwnedRows' /\ ExclusiveExecution'
<1>. SUFFICES ASSUME NoResets PROVE OwnedRows' /\ ExclusiveExecution'
  BY DEF OwnedRows, ExclusiveExecution, NoResets
<1>. USE DEF Inv
<1>. DEFINE Goal == OwnedRows' /\ ExclusiveExecution'
            Waiting == RowsIn({"queued", "paused"})
<1>. TypeOK /\ StoreTypeOK
  BY DEF TypeOK
<1>0. \A j \in JobId : Owned(j) => j <= lastId /\ j \notin Waiting
  BY DEF OwnedRows
(* Nobody owns anything in a process that is or goes down. *)
<1>1. ASSUME dpc' # "register", \A w \in Workers : ~ InFlight(w)'
      PROVE  Goal
  BY <1>1 DEF OwnedRows, ExclusiveExecution, Owned, Executing, InFlight
<1>2. CASE Start
  BY <1>1, <1>2 DEF Start, DownIsEmpty, InFlight, workers
<1>3. CASE StartInterrupted
  BY <1>1, <1>3 DEF StartInterrupted, DownIsEmpty, InFlight, workers, dispatcher
<1>4. CASE Crash \/ StopReturn
  BY <1>1, <1>4 DEF Crash, StopReturn, Exit, InFlight, AllWorkers
<1>5. CASE StopClose \/ StopCancel
  BY <1>5, PassiveStep DEF StopClose, StopCancel, dispatcher, workers, storeVars, RowsIn
<1>6. CASE DispatchTop \/ DispatchSnapshot \/ DispatchNothing \/ DispatchWake
  BY <1>6, PassiveStep
  DEF DispatchTop, DispatchSnapshot, DispatchNothing, DispatchWake, DispatchTo, workers,
      storeVars, RowsIn
<1>7. CASE DispatchClaim
  <2>1. PICK k \in JobId : ClaimNextJob(k) /\ djob' = k
    BY <1>7 DEF DispatchClaim
  <2>2. k \in Waiting /\ lastId' = lastId /\ k <= lastId
    BY <2>1 DEF ClaimNextJob, RowsIn, StoreTypeOK
  <2>3. \A w \in Workers : Executing(w) => wjob[w] # k
    BY <1>0, <2>2 DEF Owned
  <2>4. /\ UNCHANGED <<wpc, wjob>> /\ dpc' = "register" /\ dpc = "claim"
    BY <1>7 DEF DispatchClaim, workers
  <2>5. ExclusiveExecution'
    BY <2>1, <2>3, <2>4 DEF ExclusiveExecution, Executing, NoResets
  <2>6. k \notin Waiting' /\ Waiting' \subseteq Waiting
    <3>1. jobs[k] \in Job /\ k \in DOMAIN jobs
      BY <2>2 DEF StoreTypeOK, RowsIn
    <3>2. [jobs[k] EXCEPT !.state = "running"].state = "running"
      BY <3>1 DEF Job
    <3>. QED BY <2>1, <3>1, <3>2 DEF ClaimNextJob, Update, RowsIn
  <2>7. \A j \in JobId : Owned(j)' => j = k \/ Owned(j)
    BY <2>1, <2>4 DEF Owned, Executing
  <2>. QED BY <1>0, <2>2, <2>5, <2>6, <2>7 DEF OwnedRows
<1>8. ASSUME NEW w \in Workers, DispatchRegister(w) PROVE Goal
  <2>1. /\ dpc = "register" /\ djob \in JobId /\ wpc[w] = "idle" /\ UNCHANGED storeVars
        /\ wpc' = [wpc EXCEPT ![w] = "exec"] /\ wjob' = [wjob EXCEPT ![w] = djob]
        /\ dpc' = "top" /\ djob' = 0
    BY <1>8 DEF DispatchRegister, InFlight, TypeOK
  <2>2. DOMAIN wpc = Workers /\ wjob \in [Workers -> JobId \cup {0}] /\ 0 \notin JobId
    BY JobIds DEF TypeOK
  <2>3. \A v \in Workers : /\ Executing(v)' <=> (Executing(v) \/ v = w)
                           /\ wjob'[v] = IF v = w THEN djob ELSE wjob[v]
    BY <2>1, <2>2 DEF Executing
  <2>4. ~ Executing(w) /\ \A v \in Workers : Executing(v) => wjob[v] \in JobId
    BY <2>1 DEF Executing, TypeOK
  <2>5. ExclusiveExecution'
    BY <2>1, <2>2, <2>3, <2>4 DEF ExclusiveExecution, NoResets
  <2>6. \A j \in JobId : Owned(j)' => Owned(j)
    BY <2>1, <2>3 DEF Owned
  <2>. QED BY <1>0, <2>1, <2>5, <2>6 DEF OwnedRows, storeVars, RowsIn
<1>9. ASSUME NEW w \in Workers, ExecReturn(w) PROVE Goal
  <2>1. \A v \in Workers : Executing(v)' <=> Executing(v)
    BY <1>9 DEF ExecReturn, Executing, TypeOK
  <2>2. UNCHANGED <<storeVars, dpc, djob, wjob>>
    BY <1>9 DEF ExecReturn, dispatcher
  <2>. QED BY <1>0, <2>1, <2>2
       DEF OwnedRows, ExclusiveExecution, Owned, NoResets, storeVars, RowsIn
<1>10. ASSUME NEW w \in Workers, RecordOutcome(w) PROVE Goal
  <2>1. /\ \A v \in Workers : Executing(v)' <=> Executing(v) /\ v # w
        /\ Executing(w) /\ wjob[w] \in JobId
    BY <1>10 DEF RecordOutcome, Executing, TypeOK
  <2>2. UNCHANGED <<dpc, djob, wjob>>
    BY <1>10 DEF RecordOutcome, dispatcher
  <2>3. lastId' = lastId /\ Waiting' \subseteq Waiting \cup {wjob[w]}
    <3>1. CASE UNCHANGED storeVars
      BY <3>1 DEF storeVars, RowsIn
    <3>2. CASE Outcome(wjob[w], wout[w])
      <4>1. wout[w] \in {"cancelled", "ok", "fatal", "error"}
        BY <1>10 DEF RecordOutcome, TypeOK
      <4>2. CASE wout[w] \in {"cancelled", "ok", "fatal"}
        <5>1. \/ \E s \in {"completed", "cancelled"} : FinishJob(wjob[w], s)
              \/ QuarantineJob(wjob[w])
          BY <3>2, <4>2 DEF Outcome
        <5>. QED BY <5>1, NoNewWaiting
      <4>3. CASE wout[w] = "error"
        BY <3>2, <4>3 DEF Outcome, FailAndRetryJob, Update, RowsIn
      <4>. QED BY <4>1, <4>2, <4>3
    <3>. QED BY <1>10, <3>1, <3>2 DEF RecordOutcome
  <2>4. ExclusiveExecution'
    BY <2>1, <2>2 DEF ExclusiveExecution, NoResets
  <2>5. ASSUME NEW j \in JobId, Owned(j)'
        PROVE  Owned(j) /\ j # wjob[w]
    <3>1. CASE dpc = "register" /\ djob = j
      BY <2>1, <3>1 DEF ExclusiveExecution, Owned
    <3>2. ASSUME NEW v \in Workers, Executing(v), v # w, wjob[v] = j
          PROVE  Owned(j) /\ j # wjob[w]
      BY <2>1, <3>2 DEF ExclusiveExecution, Owned
    <3>. QED BY <2>1, <2>2, <2>5, <3>1, <3>2 DEF Owned
  <2>. QED BY <1>0, <2>3, <2>4, <2>5 DEF OwnedRows
<1>11. ASSUME NEW w \in Workers, Cleanup(w) PROVE Goal
  <2>1. \A v \in Workers : /\ Executing(v)' <=> Executing(v)
                           /\ Executing(v) => wjob'[v] = wjob[v]
    BY <1>11 DEF Cleanup, Executing, TypeOK
  <2>2. UNCHANGED <<storeVars, dpc, djob>>
    BY <1>11 DEF Cleanup, dispatcher
  <2>. QED BY <1>0, <2>1, <2>2
       DEF OwnedRows, ExclusiveExecution, Owned, NoResets, storeVars, RowsIn
<1>12. ASSUME NEW c \in Clients, NewRequest(c) \/ FinishRequest(c) PROVE Goal
  <2>1. UNCHANGED <<dpc, djob, wpc, wjob>>
    BY <1>12, RequestsLeave
  <2>2. CASE UNCHANGED storeVars
    BY <2>1, <2>2, PassiveStep DEF storeVars, RowsIn
  <2>3. ASSUME NEW a \in Attrs, EnqueueJob(a) PROVE Goal
    <3>1. lastId' = lastId + 1 /\ Waiting' \subseteq Waiting \cup {lastId + 1}
      BY <2>3 DEF EnqueueJob, RowsIn
    <3>. QED BY <2>1, <3>1, PassiveStep
  <2>4. ASSUME NEW j, PauseJob(j) \/ ResumeJob(j) \/ CancelJob(j) \/ QuarantineJob(j) \/ DeleteJob(j)
        PROVE  Goal
    BY <2>1, <2>4, NoNewWaiting, PassiveStep
  <2>5. ASSUME NEW b \in Batches, BatchAction(b.action, b.ids, b.prefix) PROVE Goal
    <3>1. b.action \in BatchName \ {"retry", "unquarantine"}
      BY CallsAssumption DEF BatchRequest, NoResets
    <3>. QED BY <2>1, <2>5, <3>1, NoNewWaiting, PassiveStep
  <2>6. CASE NewRequest(c)
    <3>1. \/ UNCHANGED storeVars \/ \E a \in Attrs : EnqueueJob(a)
          \/ \E j : PauseJob(j) \/ ResumeJob(j) \/ DeleteJob(j)
      BY <2>6
      DEF NewRequest, Enqueue, SetPaused, SetConcurrency, Cancel, Quarantine, PauseOne,
          ResumeOne, RetryOne, UnquarantineOne, DeleteOne, BatchJobs, OnlyMemory, NoResets
    <3>. QED BY <2>2, <2>3, <2>4, <3>1
  <2>7. CASE FinishRequest(c)
    <3>1. CASE StorePaused(c) \/ StoreConcurrency(c)
      <4>1. UNCHANGED <<jobs, lastId>>
        BY <3>1 DEF StorePaused, StoreConcurrency, SetQueuePaused, SetQueueConcurrency
      <4>. QED BY <2>1, <4>1, PassiveStep DEF RowsIn
    <3>2. CASE StoreJob(c)
      BY <2>4, <3>2 DEF StoreJob
    <3>3. CASE StoreBatch(c)
      <4>1. client[c].request \in Batches
        BY <3>3, RequestFields DEF StoreBatch, TypeOK
      <4>. QED BY <2>5, <3>3, <4>1 DEF StoreBatch
    <3>4. CASE StoreFails(c) \/ NotifyDispatcher(c)
      BY <2>2, <3>4 DEF StoreFails, NotifyDispatcher
    <3>. QED BY <2>7, <3>1, <3>2, <3>3, <3>4 DEF FinishRequest
  <2>. QED BY <1>12, <2>6, <2>7
<1>13. CASE UNCHANGED vars
  BY <1>13, PassiveStep DEF vars, dispatcher, workers, storeVars, RowsIn
<1>. QED
  BY <1>2, <1>3, <1>4, <1>5, <1>6, <1>7, <1>8, <1>9, <1>10, <1>11, <1>12, <1>13
  DEF Next, Dispatch, Worker

(* Without resets no job is ever executed twice at once, and none the
   dispatcher holds is already being executed. *)
THEOREM NeverTwiceAtOnce == Spec => []ExclusiveExecution
<1>1. Init => OwnedRows /\ ExclusiveExecution
  BY DEF Init, OwnedRows, ExclusiveExecution, Owned, Executing, AllWorkers
<1>2. Inv /\ OwnedRows /\ ExclusiveExecution /\ [Next]_vars
        => OwnedRows' /\ ExclusiveExecution'
  BY ExclusiveStep
<1>. QED
  BY <1>1, <1>2, Invariance, PTL DEF Spec

-----------------------------------------------------------------------------
(* OneAtATime holds because, with a limit of one, the only worker's job is in
   activeJobs for as long as it runs and the dispatcher goes on to claim only
   when nobody runs. *)
Solo ==
  concurrency = 1 /\ Limits = {} =>
    /\ \A v, w \in Workers : InFlight(v) /\ InFlight(w) => v = w
    /\ \A w \in Workers : InFlight(w) => wjob[w] \in activeJobs
    /\ dpc \in {"claim", "register"} => \A w \in Workers : ~ InFlight(w)

(* There are finitely many active jobs. *)
LEMMA ActiveIsFinite ==
  ASSUME TypeOK
  PROVE  IsFiniteSet(activeJobs) /\ Cardinality(activeJobs) \in Nat
<1>1. IsFiniteSet(JobId)
  BY MaxJobsAssumption, FS_Interval DEF JobId
<1>2. activeJobs \subseteq JobId
  BY DEF TypeOK
<1>. QED
  BY <1>1, <1>2, FS_Subset, FS_CardinalityType

LEMMA SoloStep ==
  ASSUME Inv, Solo, [Next]_vars
  PROVE  Solo'
<1>. USE DEF Inv
<1>1. ASSUME dpc' = dpc \/ dpc' \notin {"claim", "register"},
             UNCHANGED <<concurrency, activeJobs, wpc, wjob>>
      PROVE  Solo'
  BY <1>1 DEF Solo, InFlight
<1>2. ASSUME dpc' \notin {"claim", "register"}, \A w \in Workers : ~ InFlight(w)'
      PROVE  Solo'
  BY <1>2 DEF Solo
<1>3. CASE Start \/ Crash \/ StopReturn
  BY <1>2, <1>3 DEF Start, Crash, StopReturn, Exit, DownIsEmpty, InFlight, AllWorkers, workers
<1>4. CASE StartInterrupted \/ StopClose \/ StopCancel
  BY <1>1, <1>4 DEF StartInterrupted, StopClose, StopCancel, memory, dispatcher, workers
<1>5. CASE DispatchTop \/ DispatchNothing \/ DispatchWake
  BY <1>1, <1>5 DEF DispatchTop, DispatchNothing, DispatchWake, DispatchTo, memory, workers
<1>6. CASE DispatchSnapshot
  <2>1. UNCHANGED <<concurrency, activeJobs, wpc, wjob>>
    BY <1>6 DEF DispatchSnapshot, DispatchTo, memory, workers
  <2>2. CASE dpc' = "park"
    BY <1>1, <2>1, <2>2
  <2>3. CASE Cardinality(activeJobs) < concurrency
    <3>1. SUFFICES ASSUME concurrency = 1, Limits = {} PROVE Solo'
      BY <2>1 DEF Solo
    <3>2. Cardinality(activeJobs) = 0
      BY <2>3, <3>1, ActiveIsFinite
    <3>3. activeJobs = {}
      BY <3>2, ActiveIsFinite, FS_EmptySet
    <3>4. \A w \in Workers : ~ InFlight(w)
      BY <3>1, <3>3 DEF Solo
    <3>. QED BY <2>1, <3>4 DEF Solo, InFlight
  <2>4. dpc' = "park" \/ Cardinality(activeJobs) < concurrency
    <3>1. Cardinality(activeJobs) \in Nat /\ concurrency \in Nat
      BY ActiveIsFinite DEF TypeOK
    <3>. QED BY <1>6, <3>1 DEF DispatchSnapshot, DispatchTo
  <2>. QED BY <2>2, <2>3, <2>4
<1>7. CASE DispatchClaim
  BY <1>7 DEF DispatchClaim, Solo, InFlight, memory, workers
<1>8. ASSUME NEW w \in Workers, DispatchRegister(w) PROVE Solo'
  <2>1. /\ dpc = "register" /\ dpc' = "top" /\ concurrency' = concurrency
        /\ activeJobs' = activeJobs \cup {djob}
        /\ wpc' = [wpc EXCEPT ![w] = "exec"] /\ wjob' = [wjob EXCEPT ![w] = djob]
    BY <1>8 DEF DispatchRegister, TypeOK
  <2>2. DOMAIN wpc = Workers /\ DOMAIN wjob = Workers
    BY DEF TypeOK
  <2>3. SUFFICES ASSUME concurrency = 1, Limits = {} PROVE Solo'
    BY <2>1 DEF Solo
  <2>4. \A v \in Workers : InFlight(v)' <=> v = w
    BY <2>1, <2>2, <2>3 DEF Solo, InFlight
  <2>. QED BY <2>1, <2>2, <2>4 DEF Solo
<1>9. ASSUME NEW w \in Workers, ExecReturn(w) \/ RecordOutcome(w) PROVE Solo'
  <2>1. \A v \in Workers : InFlight(v)' <=> InFlight(v)
    BY <1>9 DEF ExecReturn, RecordOutcome, InFlight, TypeOK
  <2>2. UNCHANGED <<concurrency, activeJobs, dpc, wjob>>
    BY <1>9 DEF ExecReturn, RecordOutcome, memory, dispatcher
  <2>. QED BY <2>1, <2>2 DEF Solo
<1>10. ASSUME NEW w \in Workers, Cleanup(w) PROVE Solo'
  <2>1. UNCHANGED <<concurrency, dpc>> /\ InFlight(w)
    BY <1>10 DEF Cleanup, dispatcher, InFlight
  <2>2. \A v \in Workers : InFlight(v)' <=> InFlight(v) /\ v # w
    BY <1>10 DEF Cleanup, InFlight, TypeOK
  <2>. QED BY <2>1, <2>2 DEF Solo
<1>11. ASSUME NEW c \in Clients, NewRequest(c) \/ FinishRequest(c) PROVE Solo'
  <2>1. UNCHANGED <<dpc, wpc, wjob>>
    BY <1>11, RequestsLeave
  <2>2. UNCHANGED activeJobs /\ (UNCHANGED concurrency \/ Limits # {})
    BY <1>11
    DEF NewRequest, Enqueue, SetPaused, SetConcurrency, Cancel, Quarantine, PauseOne,
        ResumeOne, RetryOne, UnquarantineOne, DeleteOne, BatchJobs, FinishRequest,
        StorePaused, StoreConcurrency, StoreJob, StoreBatch, StoreFails,
        NotifyDispatcher, OnlyStore, OnlyMemory, memory
  <2>. QED BY <1>1, <2>1, <2>2 DEF Solo
<1>12. CASE UNCHANGED vars
  BY <1>1, <1>12 DEF vars, memory, dispatcher, workers
<1>. QED
  BY <1>3, <1>4, <1>5, <1>6, <1>7, <1>8, <1>9, <1>10, <1>11, <1>12 DEF Next, Dispatch, Worker

(* A limit of one that nobody may change makes the queue sequential. *)
THEOREM LimitOneIsSequential == Spec => []OneAtATime
<1>1. Init => Solo
  BY DEF Init, Solo, InFlight, AllWorkers
<1>2. Inv /\ Solo /\ [Next]_vars => Solo'
  BY SoloStep
<1>3. Solo => OneAtATime
  BY DEF Solo, OneAtATime
<1>. QED
  BY <1>1, <1>2, <1>3, Invariance, PTL DEF Spec

-----------------------------------------------------------------------------
(* NoLostWakeup is inductive once it is read as a promise: whoever adds work
   or room for it still has a token to send. *)
WillWake(x) ==
  \/ x = Notifying
  \/ x.op = "setPaused" /\ ~ x.value
  \/ x.op = "setConcurrency"

Asleep ==
  /\ daemon = "up" /\ dpc = "park" /\ ~ StoreCanFail
  /\ ~ paused /\ Cardinality(activeJobs) < concurrency
  /\ RowsIn({"queued"}) # {}

Waker ==
  notifyCh \/ (\E c \in Clients : WillWake(client[c])) \/ (\E w \in Workers : wpc[w] = "cleanup")

LEMMA WakeupParts ==
  (NoLostWakeup <=> (Asleep => Waker)) /\ (NoLostWakeup' <=> (Asleep' => Waker'))
  BY DEF NoLostWakeup, Asleep, Waker, WillWake

(* The methods of the store that never make a row claimable. *)
LEMMA NothingQueued ==
  ASSUME StoreTypeOK, NEW j,
         \/ QuarantineJob(j) \/ PauseJob(j) \/ CancelJob(j) \/ DeleteJob(j)
         \/ \E action \in BatchName \ {"resume", "retry", "unquarantine"} :
               \E ids, prefix : BatchAction(action, ids, prefix)
  PROVE  RowsIn({"queued"})' \subseteq RowsIn({"queued"})
<1>. DEFINE Goal == RowsIn({"queued"})' \subseteq RowsIn({"queued"})
<1>r. \A r \in Job : Quarantined(r).state = "quarantined" /\ \A s : [r EXCEPT !.state = s].state = s
  BY DEF Job, Quarantined
<1>j. \A k \in DOMAIN jobs : jobs[k] \in Job
  BY DEF StoreTypeOK
<1>1. CASE QuarantineJob(j)
  BY <1>1, <1>r, <1>j DEF QuarantineJob, Update, RowsIn
<1>2. CASE PauseJob(j)
  BY <1>2, <1>r, <1>j DEF PauseJob, Update, RowsIn
<1>3. CASE CancelJob(j)
  BY <1>3, <1>r, <1>j DEF CancelJob, Update, RowsIn
<1>4. CASE DeleteJob(j)
  BY <1>4 DEF DeleteJob, Remove, RowsIn
<1>5. ASSUME NEW action \in BatchName \ {"resume", "retry", "unquarantine"},
             NEW ids, NEW prefix, BatchAction(action, ids, prefix)
      PROVE  Goal
  <2>1. CASE action = "delete"
    BY <1>5, <2>1 DEF BatchAction, Remove, RowsIn
  <2>2. CASE action \in {"quarantine", "cancel", "pause"}
    <3>1. \A r \in Job : BatchSet(action, r).state # "queued"
      BY <1>r, <2>2 DEF BatchSet
    <3>. DEFINE rows == BatchTargets(action, ids, prefix) \cap RowsIn(WhereStates[action])
    <3>2. jobs' = [k \in DOMAIN jobs |-> IF k \in rows THEN BatchSet(action, jobs[k]) ELSE jobs[k]]
      BY <1>5, <2>2 DEF BatchAction, Update
    <3>. HIDE DEF rows
    <3>. QED BY <1>j, <3>1, <3>2 DEF RowsIn
  <2>. QED BY <2>1, <2>2 DEF BatchName
<1>. QED
  BY <1>1, <1>2, <1>3, <1>4, <1>5

(* Steps that only take work away leave the wakers there are. *)
LEMMA QuietStep ==
  ASSUME NoLostWakeup, UNCHANGED <<daemon, dpc, paused, concurrency, activeJobs>>,
         RowsIn({"queued"})' \subseteq RowsIn({"queued"}),
         notifyCh => notifyCh',
         \A w \in Workers : wpc[w] = "cleanup" => wpc'[w] = "cleanup",
         \A c \in Clients : WillWake(client[c]) => WillWake(client'[c])
  PROVE  NoLostWakeup'
<1>1. Asleep' => Asleep
  BY DEF Asleep
<1>2. Waker => Waker'
  BY DEF Waker
<1>. QED
  BY <1>1, <1>2, WakeupParts

(* A client that says what it does next, and every other client as it was. *)
LEMMA OtherClients ==
  ASSUME ClientsTypeOK, NEW c \in Clients, NEW x, Then(c, x)
  PROVE  /\ client'[c] = x
         /\ ~ WillWake(client[c])
              => \A d \in Clients : WillWake(client[d]) => WillWake(client'[d])
<1>1. DOMAIN client = Clients
  BY DEF ClientsTypeOK
<1>2. \A d \in Clients : client'[d] = IF d = c THEN x ELSE client[d]
  BY <1>1 DEF Then
<1>. QED
  BY <1>2

LEMMA SleepersIdle ==
  /\ WillWake(Notifying) /\ ~ WillWake(Idle)
  /\ WillWake([op |-> "setPaused", value |-> FALSE])
  /\ \A n : WillWake([op |-> "setConcurrency", value |-> n])
<1>1. Idle.op = "idle" /\ Notifying.op = "notify"
  BY DEF Idle, Notifying
<1>. QED
  BY <1>1 DEF WillWake

LEMMA NewRequestWakes ==
  ASSUME TypeOK, NoLostWakeup, NEW c \in Clients, NewRequest(c)
  PROVE  NoLostWakeup'
<1>. StoreTypeOK /\ ClientsTypeOK
  BY TypeParts
<1>1. UNCHANGED <<daemon, dpc, wpc, activeJobs, notifyCh>> /\ client[c] = Idle
  BY DEF NewRequest, Enqueue, SetPaused, SetConcurrency, Cancel, Quarantine, PauseOne,
         ResumeOne, RetryOne, UnquarantineOne, DeleteOne, BatchJobs, Serving,
         OnlyStore, OnlyMemory, process, memory, dispatcher, workers
<1>2. ASSUME NEW x, WillWake(x), Then(c, x) PROVE NoLostWakeup'
  BY <1>2, OtherClients, WakeupParts DEF Waker
<1>3. ASSUME UNCHANGED <<paused, concurrency>>,
             RowsIn({"queued"})' \subseteq RowsIn({"queued"}),
             UNCHANGED client \/ \E x : Then(c, x)
      PROVE  NoLostWakeup'
  BY <1>1, <1>3, OtherClients, SleepersIdle, QuietStep
<1>4. CASE Enqueue(c)
  BY <1>2, <1>4, SleepersIdle DEF Enqueue
<1>5. ASSUME NEW p \in BOOLEAN, SetPaused(c, p) PROVE NoLostWakeup'
  <2>1. CASE p
    BY <1>5, <2>1, WakeupParts DEF SetPaused, Asleep
  <2>2. CASE ~ p
    BY <1>2, <1>5, <2>2, SleepersIdle DEF SetPaused
  <2>. QED BY <2>1, <2>2
<1>6. ASSUME NEW n \in Limits, SetConcurrency(c, n) PROVE NoLostWakeup'
  BY <1>2, <1>6, SleepersIdle DEF SetConcurrency
<1>7. ASSUME NEW j \in JobId, Cancel(c, j) \/ Quarantine(c, j) PROVE NoLostWakeup'
  <2>1. UNCHANGED <<paused, concurrency, jobs>> /\ \E x : Then(c, x)
    BY <1>7 DEF Cancel, Quarantine, OnlyMemory, memory, storeVars
  <2>. QED BY <1>3, <2>1 DEF RowsIn
<1>8. ASSUME NEW b \in Batches, BatchJobs(c, b) PROVE NoLostWakeup'
  <2>1. UNCHANGED <<paused, concurrency, jobs>> /\ \E x : Then(c, x)
    BY <1>8 DEF BatchJobs, OnlyMemory, storeVars
  <2>. QED BY <1>3, <2>1 DEF RowsIn
<1>9. ASSUME NEW j \in JobId, PauseOne(c, j) \/ DeleteOne(c, j) PROVE NoLostWakeup'
  BY <1>3, <1>9, NothingQueued DEF PauseOne, DeleteOne, OnlyStore, memory
<1>10. ASSUME NEW j \in JobId, ResumeOne(c, j) \/ UnquarantineOne(c, j) PROVE NoLostWakeup'
  BY <1>2, <1>10, SleepersIdle DEF ResumeOne, UnquarantineOne
<1>11. ASSUME NEW j \in JobId, RetryOne(c, j) PROVE NoLostWakeup'
  <2>1. CASE StoreCanFail
    BY <2>1, WakeupParts DEF Asleep
  <2>2. CASE ~ StoreCanFail
    <3>1. PICK unread \in {FALSE, StoreCanFail} : Then(c, IF unread THEN Idle ELSE Notifying)
      BY <1>11 DEF RetryOne
    <3>2. unread = FALSE
      BY <2>2, <3>1, FailureAssumption, Zenon
    <3>3. Then(c, Notifying)
      BY <3>1, <3>2
    <3>. QED BY <1>2, <3>3, SleepersIdle
  <2>. QED BY <2>1, <2>2
<1>. QED
  BY <1>4, <1>5, <1>6, <1>7, <1>8, <1>9, <1>10, <1>11 DEF NewRequest

LEMMA FinishRequestWakes ==
  ASSUME TypeOK, NoLostWakeup, NEW c \in Clients, FinishRequest(c)
  PROVE  NoLostWakeup'
<1>. StoreTypeOK /\ ClientsTypeOK
  BY TypeParts
<1>. DEFINE r == client[c]
<1>1. UNCHANGED <<daemon, dpc, paused, concurrency, activeJobs, wpc>>
  BY DEF FinishRequest, StorePaused, StoreConcurrency, StoreJob, StoreBatch, StoreFails,
         NotifyDispatcher, OnlyStore, process, memory, dispatcher, workers
<1>2. ASSUME Then(c, Notifying) PROVE NoLostWakeup'
  BY <1>2, OtherClients, SleepersIdle, WakeupParts DEF Waker
<1>3. ASSUME ~ WillWake(r), NEW x, Then(c, x), notifyCh => notifyCh',
             RowsIn({"queued"})' \subseteq RowsIn({"queued"})
      PROVE  NoLostWakeup'
  BY <1>1, <1>3, OtherClients, QuietStep
<1>4. r \in {Idle, Notifying} \cup StoreCall
  BY DEF ClientsTypeOK
<1>5. r = Notifying => r.op = "notify"
  BY DEF Notifying
<1>6. CASE StorePaused(c)
  <2>1. CASE r.value
    <3>1. ~ WillWake(r)
      BY <1>5, <1>6, <2>1 DEF StorePaused, WillWake
    <3>2. UNCHANGED <<jobs, notifyCh>>
      BY <1>6 DEF StorePaused, SetQueuePaused, OnlyStore
    <3>. QED BY <1>3, <1>6, <3>1, <3>2 DEF StorePaused, RowsIn
  <2>2. CASE ~ r.value
    BY <1>2, <1>6, <2>2 DEF StorePaused
  <2>. QED BY <2>1, <2>2
<1>7. CASE StoreConcurrency(c)
  BY <1>2, <1>7 DEF StoreConcurrency
<1>8. CASE StoreJob(c)
  <2>1. ~ WillWake(r)
    BY <1>5, <1>8 DEF StoreJob, WillWake
  <2>2. \E j : CancelJob(j) \/ QuarantineJob(j)
    BY <1>8 DEF StoreJob
  <2>. QED BY <1>3, <1>8, <2>1, <2>2, NothingQueued DEF StoreJob, OnlyStore
<1>9. CASE StoreBatch(c)
  <2>. DEFINE b == r.request
  <2>1. ~ WillWake(r)
    BY <1>5, <1>9 DEF StoreBatch, WillWake
  <2>2. b.action \in BatchName
    BY <1>4, <1>9, RequestFields, CallsAssumption DEF StoreBatch, BatchRequest
  <2>3. CASE b.action \in {"resume", "unquarantine", "retry"}
    BY <1>2, <1>9, <2>3 DEF StoreBatch
  <2>4. CASE b.action \notin {"resume", "unquarantine", "retry"}
    <3>1. b.action \in BatchName \ {"resume", "retry", "unquarantine"}
      BY <2>2, <2>4
    <3>2. BatchAction(b.action, b.ids, b.prefix) /\ Then(c, Idle) /\ UNCHANGED notifyCh
      BY <1>9, <2>4 DEF StoreBatch, OnlyStore
    <3>3. RowsIn({"queued"})' \subseteq RowsIn({"queued"})
      BY <3>1, <3>2, NothingQueued
    <3>. QED BY <1>3, <2>1, <3>2, <3>3
  <2>. QED BY <2>3, <2>4
<1>10. CASE StoreFails(c)
  BY <1>10, WakeupParts, <1>1 DEF StoreFails, Asleep
<1>11. CASE NotifyDispatcher(c)
  BY <1>11, WakeupParts DEF NotifyDispatcher, Notify, Waker
<1>. QED
  BY <1>6, <1>7, <1>8, <1>9, <1>10, <1>11 DEF FinishRequest

LEMMA WakeupStep ==
  ASSUME TypeOK, NoLostWakeup, [Next]_vars
  PROVE  NoLostWakeup'
<1>1. ASSUME daemon' # "up" \/ dpc' # "park" PROVE NoLostWakeup'
  BY <1>1, WakeupParts DEF Asleep
<1>2. CASE Start \/ Crash \/ StopReturn \/ StopClose \/ StopCancel
  BY <1>1, <1>2 DEF Start, Crash, StopReturn, Exit, StopClose, StopCancel
<1>3. CASE StartInterrupted
  BY <1>1, <1>3 DEF StartInterrupted
<1>4. CASE DispatchTop \/ DispatchClaim \/ DispatchWake
  BY <1>1, <1>4 DEF DispatchTop, DispatchClaim, DispatchWake, DispatchTo
<1>5. ASSUME NEW w \in Workers, DispatchRegister(w) PROVE NoLostWakeup'
  BY <1>1, <1>5 DEF DispatchRegister
<1>6. CASE DispatchSnapshot
  <2>1. UNCHANGED <<paused, activeJobs, concurrency>>
    BY <1>6 DEF DispatchSnapshot, DispatchTo, memory
  <2>2. Cardinality(activeJobs) \in Nat /\ concurrency \in Nat
    BY ActiveIsFinite DEF TypeOK
  <2>3. dpc' = "park" => paused \/ Cardinality(activeJobs) >= concurrency
    BY <1>6 DEF DispatchSnapshot, DispatchTo
  <2>4. ~ Asleep'
    BY <2>1, <2>2, <2>3 DEF Asleep
  <2>. QED BY <2>4, WakeupParts
<1>7. CASE DispatchNothing
  <2>1. StoreCanFail \/ RowsIn({"queued"}) = {}
    BY <1>7 DEF DispatchNothing
  <2>2. RowsIn({"queued"})' = RowsIn({"queued"})
    BY <1>7 DEF DispatchNothing, storeVars, RowsIn
  <2>. QED BY <2>1, <2>2, WakeupParts DEF Asleep
<1>8. ASSUME NEW w \in Workers, ExecReturn(w) PROVE NoLostWakeup'
  <2>1. \A v \in Workers : wpc[v] = "cleanup" => wpc'[v] = "cleanup"
    BY <1>8 DEF ExecReturn, TypeOK
  <2>2. UNCHANGED <<daemon, dpc, paused, concurrency, activeJobs, notifyCh, client, jobs>>
    BY <1>8 DEF ExecReturn, process, memory, dispatcher, storeVars
  <2>. QED BY <2>1, <2>2, QuietStep DEF RowsIn
<1>9. ASSUME NEW w \in Workers, RecordOutcome(w) PROVE NoLostWakeup'
  BY <1>9, WakeupParts DEF RecordOutcome, TypeOK, Waker
<1>10. ASSUME NEW w \in Workers, Cleanup(w) PROVE NoLostWakeup'
  BY <1>10, WakeupParts DEF Cleanup, Notify, Waker
<1>11. ASSUME NEW c \in Clients, NewRequest(c) \/ FinishRequest(c) PROVE NoLostWakeup'
  BY <1>11, NewRequestWakes, FinishRequestWakes
<1>12. CASE UNCHANGED vars
  BY <1>12, QuietStep DEF vars, process, memory, dispatcher, workers, storeVars, RowsIn
<1>. QED
  BY <1>2, <1>3, <1>4, <1>5, <1>6, <1>7, <1>8, <1>9, <1>10, <1>11, <1>12
  DEF Next, Dispatch, Worker

(* The dispatcher never sleeps through work it could start: no order of
   submissions, resumes, changes of the limit and finishing workers loses the
   last wakeup. *)
THEOREM WorkIsNoticed == Spec => []NoLostWakeup
<1>1. Init => NoLostWakeup
  BY DEF Init, NoLostWakeup
<1>2. Inv /\ NoLostWakeup /\ [Next]_vars => NoLostWakeup'
  BY WakeupStep DEF Inv
<1>. QED
  BY <1>1, <1>2, Invariance, PTL DEF Spec

-----------------------------------------------------------------------------
(* The refinement of JobLease, job by job.  Beside the invariants above it
   needs that the row of an owned job keeps within its budget, even when a
   client has meanwhile cancelled or quarantined it. *)
Within(j) == Owned(j) /\ j \in DOMAIN jobs => jobs[j].retries <= jobs[j].attr.maxRetries

OwnedBudget == NoResets => \A j \in JobId : Within(j)

(* One job's part of a step of JobLease. *)
LeaseStep(j) ==
  \/ UNCHANGED <<LeaseStatus(j), LeaseCredit(j)>>
  \/ Leases!Change(LeaseStatus(j), LeaseCredit(j), LeaseStatus(j)', LeaseCredit(j)')

(* What a refinement step may take for granted of the state it starts in. *)
Leased == Inv /\ OwnedRows /\ ExclusiveExecution /\ OwnedBudget

(* What the parts of Leased say of one job. *)
LEMMA LeasedRow ==
  ASSUME Leased, NoResets, NEW j \in JobId
  PROVE  /\ lastId \in Nat /\ j \in Nat
         /\ j \in DOMAIN jobs => /\ jobs[j] \in Job /\ j <= lastId
                                 /\ jobs[j].retries \in Nat
                                 /\ jobs[j].attr.maxRetries \in Nat
         /\ j \in DOMAIN jobs /\ jobs[j].state \in Live
              => jobs[j].retries <= jobs[j].attr.maxRetries
         /\ Owned(j) => j <= lastId
         /\ Owned(j) /\ j \in DOMAIN jobs
              => /\ jobs[j].state \notin {"queued", "paused"}
                 /\ jobs[j].retries <= jobs[j].attr.maxRetries
<1>1. StoreTypeOK
  BY DEF Leased, Inv, TypeOK
<1>2. lastId \in Nat /\ j \in Nat
  BY <1>1, MaxJobsAssumption, JobIds DEF StoreTypeOK
<1>3. ASSUME j \in DOMAIN jobs
      PROVE  /\ jobs[j] \in Job /\ j <= lastId
             /\ jobs[j].retries \in Nat /\ jobs[j].attr.maxRetries \in Nat
  <2>1. jobs[j] \in Job /\ j \in 1 .. lastId
    BY <1>1, <1>3 DEF StoreTypeOK
  <2>. QED BY <1>2, <2>1, AttrsAssumption DEF Job
<1>4. j \in DOMAIN jobs /\ jobs[j].state \in Live => jobs[j].retries <= jobs[j].attr.maxRetries
  BY DEF Leased, Inv, RetryBudget, RowsIn
<1>5. Owned(j) => j <= lastId /\ (j \in DOMAIN jobs => jobs[j].state \notin {"queued", "paused"})
  BY DEF Leased, OwnedRows, RowsIn
<1>6. Within(j)
  BY DEF Leased, OwnedBudget
<1>. QED
  BY <1>2, <1>3, <1>4, <1>5, <1>6 DEF Within

(* A job whose row a step leaves alone keeps its status, or is over when its
   owner is gone. *)
LEMMA RowKept ==
  ASSUME Leased, NoResets, NEW j \in JobId,
         j \in DOMAIN jobs' <=> j \in DOMAIN jobs,
         j \in DOMAIN jobs => jobs'[j] = jobs[j],
         j > lastId' <=> j > lastId,
         Owned(j)' => Owned(j)
  PROVE  LeaseStep(j) /\ Within(j)'
<1>1. Within(j)'
  BY LeasedRow DEF Within
<1>2. LeaseStep(j)
  BY LeasedRow DEF LeaseStep, LeaseStatus, LeaseCredit, Leases!Change
<1>. QED
  BY <1>1, <1>2

-----------------------------------------------------------------------------
(* What a request may do to the row of a job. *)
ClientRow(j) ==
  \/ /\ j \in DOMAIN jobs' <=> j \in DOMAIN jobs
     /\ j \in DOMAIN jobs => jobs'[j] = jobs[j]
  \/ /\ j \in DOMAIN jobs /\ j \in DOMAIN jobs'
     /\ jobs'[j].attr = jobs[j].attr /\ jobs'[j].retries = jobs[j].retries
     /\ \/ jobs[j].state = "queued" /\ jobs'[j].state = "paused"
        \/ jobs[j].state = "paused" /\ jobs'[j].state = "queued"
        \/ jobs'[j].state \in {"cancelled", "quarantined"}
  \/ /\ j \in DOMAIN jobs /\ j \notin DOMAIN jobs'
     /\ jobs[j].state \in Deletable

(* Each of the writes a request may make, when none resets a job. *)
LEMMA ClientRows ==
  ASSUME StoreTypeOK, NEW j,
         \/ QuarantineJob(j) \/ PauseJob(j) \/ ResumeJob(j) \/ CancelJob(j) \/ DeleteJob(j)
         \/ \E action \in BatchName \ {"retry", "unquarantine"} :
               \E ids, prefix : BatchAction(action, ids, prefix)
  PROVE  (\A k : ClientRow(k)) /\ UNCHANGED lastId
<1>. DEFINE Goal == (\A k : ClientRow(k)) /\ UNCHANGED lastId
<1>r. \A r \in Job : /\ Quarantined(r).state = "quarantined"
                     /\ Quarantined(r).attr = r.attr /\ Quarantined(r).retries = r.retries
                     /\ \A s : /\ [r EXCEPT !.state = s].state = s
                               /\ [r EXCEPT !.state = s].attr = r.attr
                               /\ [r EXCEPT !.state = s].retries = r.retries
  BY DEF Job, Quarantined
<1>j. \A k \in DOMAIN jobs : jobs[k] \in Job
  BY DEF StoreTypeOK
<1>1. CASE QuarantineJob(j)
  BY <1>1, <1>r, <1>j DEF QuarantineJob, Update, ClientRow
<1>2. CASE PauseJob(j)
  BY <1>2, <1>r, <1>j DEF PauseJob, Update, RowsIn, ClientRow
<1>3. CASE ResumeJob(j)
  BY <1>3, <1>r, <1>j DEF ResumeJob, Update, RowsIn, ClientRow
<1>4. CASE CancelJob(j)
  BY <1>4, <1>r, <1>j DEF CancelJob, Update, RowsIn, ClientRow
<1>5. CASE DeleteJob(j)
  BY <1>5 DEF DeleteJob, Remove, RowsIn, ClientRow
<1>6. ASSUME NEW action \in BatchName \ {"retry", "unquarantine"}, NEW ids, NEW prefix,
             BatchAction(action, ids, prefix)
      PROVE  Goal
  <2>. DEFINE rows == BatchTargets(action, ids, prefix) \cap RowsIn(WhereStates[action])
  <2>1. CASE action = "delete"
    <3>1. rows \subseteq RowsIn(Deletable) /\ Remove(rows) /\ UNCHANGED lastId
      BY <1>6, <2>1 DEF BatchAction, WhereStates, RowsIn
    <3>. HIDE DEF rows
    <3>. QED BY <3>1 DEF Remove, RowsIn, ClientRow
  <2>2. CASE action \in {"quarantine", "cancel", "pause", "resume"}
    <3>1. /\ jobs' = [k \in DOMAIN jobs |-> IF k \in rows THEN BatchSet(action, jobs[k]) ELSE jobs[k]]
          /\ UNCHANGED lastId
      BY <1>6, <2>2 DEF BatchAction, Update
    <3>2. /\ action = "pause" => rows \subseteq RowsIn({"queued"})
          /\ action = "resume" => rows \subseteq RowsIn({"paused"})
      BY DEF WhereStates, RowsIn
    <3>3. \A r \in Job : /\ BatchSet(action, r).attr = r.attr
                         /\ BatchSet(action, r).retries = r.retries
                         /\ action = "pause" => BatchSet(action, r).state = "paused"
                         /\ action = "resume" => BatchSet(action, r).state = "queued"
                         /\ action \in {"quarantine", "cancel"}
                              => BatchSet(action, r).state \in {"cancelled", "quarantined"}
      BY <1>r, <2>2 DEF BatchSet
    <3>. HIDE DEF rows
    <3>. QED BY <1>j, <2>2, <3>1, <3>2, <3>3 DEF RowsIn, ClientRow
  <2>. QED BY <2>1, <2>2 DEF BatchName
<1>. QED
  BY <1>1, <1>2, <1>3, <1>4, <1>5, <1>6

(* Such a write pauses, resumes, ends or deletes a job in the lease's terms,
   or does nothing. *)
LEMMA ClientLease ==
  ASSUME Leased, NoResets, NEW j \in JobId, ClientRow(j), UNCHANGED lastId,
         Owned(j)' <=> Owned(j)
  PROVE  LeaseStep(j) /\ Within(j)'
<1>1. Within(j)'
  BY LeasedRow DEF Within, ClientRow
<1>2. CASE j \notin DOMAIN jobs \/ (j \in DOMAIN jobs' /\ jobs'[j] = jobs[j])
  BY <1>2, RowKept DEF ClientRow
<1>o. ~ (j > lastId') <=> ~ (j > lastId)
  OBVIOUS
<1>3. CASE j \in DOMAIN jobs /\ j \notin DOMAIN jobs'
  <2>1. jobs[j].state \in Deletable /\ ~ (j > lastId)
    BY <1>3, LeasedRow DEF ClientRow
  <2>2. LeaseStatus(j) \in {"leased", "done"}
    BY <1>3, <2>1 DEF LeaseStatus, Deletable
  <2>3. LeaseStatus(j)' = "gone" /\ LeaseCredit(j)' = 0
    BY <1>3, <1>o, <2>1 DEF LeaseStatus, LeaseCredit
  <2>. QED BY <1>1, <2>2, <2>3 DEF LeaseStep, Leases!Change
<1>4. CASE /\ j \in DOMAIN jobs /\ j \in DOMAIN jobs'
           /\ jobs'[j].attr = jobs[j].attr /\ jobs'[j].retries = jobs[j].retries
           /\ \/ jobs[j].state = "queued" /\ jobs'[j].state = "paused"
              \/ jobs[j].state = "paused" /\ jobs'[j].state = "queued"
              \/ jobs'[j].state \in {"cancelled", "quarantined"}
  <2>1. /\ jobs[j].state \in JobState /\ ~ (j > lastId)
        /\ Owned(j) => jobs[j].state \notin {"queued", "paused"}
    BY <1>4, LeasedRow DEF Job
  <2>2. CASE Owned(j)
    <3>1. LeaseStatus(j) = "leased" /\ LeaseStatus(j)' = "leased"
      BY <1>4, <1>o, <2>1, <2>2 DEF LeaseStatus
    <3>. QED BY <1>1, <1>4, <3>1 DEF LeaseStep, LeaseCredit
  <2>3. CASE ~ Owned(j) /\ jobs'[j].state \in {"cancelled", "quarantined"}
    <3>1. LeaseStatus(j) \in {"pending", "held", "leased", "done"}
      BY <1>4, <2>1, <2>3 DEF LeaseStatus
    <3>2. LeaseStatus(j)' = "done" /\ LeaseCredit(j)' = 0
      BY <1>4, <1>o, <2>1, <2>3 DEF LeaseStatus, LeaseCredit
    <3>3. LeaseStatus(j) = "done" => LeaseCredit(j) = 0
      BY DEF LeaseCredit
    <3>. QED BY <1>1, <3>1, <3>2, <3>3 DEF LeaseStep, Leases!Change
  <2>4. CASE jobs[j].state = "queued" /\ jobs'[j].state = "paused"
    <3>1. LeaseStatus(j) = "pending" /\ LeaseStatus(j)' = "held"
      BY <1>4, <1>o, <2>1, <2>4 DEF LeaseStatus
    <3>2. LeaseCredit(j)' = LeaseCredit(j)
      BY <1>4, <3>1 DEF LeaseCredit
    <3>. QED BY <1>1, <3>1, <3>2 DEF LeaseStep, Leases!Change
  <2>5. CASE jobs[j].state = "paused" /\ jobs'[j].state = "queued"
    <3>1. LeaseStatus(j) = "held" /\ LeaseStatus(j)' = "pending"
      BY <1>4, <1>o, <2>1, <2>5 DEF LeaseStatus
    <3>2. LeaseCredit(j)' = LeaseCredit(j)
      BY <1>4, <3>1 DEF LeaseCredit
    <3>. QED BY <1>1, <3>1, <3>2 DEF LeaseStep, Leases!Change
  <2>. QED BY <1>4, <2>2, <2>3, <2>4, <2>5
<1>. QED
  BY <1>1, <1>2, <1>3, <1>4 DEF ClientRow

-----------------------------------------------------------------------------
(* The steps that start, end or give back a lease. *)

(* A submission is a new job with all its credit. *)
LEMMA SubmitLease ==
  ASSUME Leased, NoResets, NEW a \in Attrs, EnqueueJob(a), NEW j \in JobId,
         Owned(j)' <=> Owned(j)
  PROVE  LeaseStep(j) /\ Within(j)'
<1>. DEFINE row == [state |-> "queued", retries |-> 0, reason |-> FALSE, attr |-> a]
<1>1. /\ lastId' = lastId + 1 /\ DOMAIN jobs' = DOMAIN jobs \cup {lastId + 1}
      /\ \A k \in DOMAIN jobs' : jobs'[k] = IF k = lastId + 1 THEN row ELSE jobs[k]
  BY DEF EnqueueJob
<1>2. lastId \in Nat /\ j \in Nat
  BY LeasedRow
<1>3. CASE j # lastId + 1
  BY <1>1, <1>2, <1>3, RowKept
<1>4. CASE j = lastId + 1
  <2>0. ~ Owned(j)
    <3>1. Owned(j) => j <= lastId
      BY LeasedRow
    <3>. QED BY <1>2, <1>4, <3>1
  <2>1. j \in DOMAIN jobs' /\ jobs'[j] = row /\ ~ Owned(j)'
    BY <1>1, <1>4, <2>0
  <2>b. j > lastId /\ ~ (j > lastId')
    BY <1>1, <1>2, <1>4
  <2>2. a.maxRetries \in Nat
    BY AttrsAssumption
  <2>3. LeaseStatus(j) = "none" /\ LeaseStatus(j)' = "pending" /\ LeaseCredit(j)' = a.maxRetries
    BY <2>1, <2>b, <2>2 DEF LeaseStatus, LeaseCredit
  <2>. QED BY <2>1, <2>2, <2>3 DEF LeaseStep, Leases!Change, Within
<1>. QED
  BY <1>3, <1>4

(* A claim leases the job it takes, and only that. *)
LEMMA ClaimLease ==
  ASSUME Leased, NoResets, DispatchClaim, NEW j \in JobId
  PROVE  LeaseStep(j) /\ Within(j)'
<1>1. PICK k \in JobId : ClaimNextJob(k) /\ djob' = k
  BY DEF DispatchClaim
<1>2. /\ k \in DOMAIN jobs /\ jobs[k].state = "queued" /\ lastId' = lastId
      /\ jobs' = [i \in DOMAIN jobs |->
                    IF i \in {k} THEN [jobs[i] EXCEPT !.state = "running"] ELSE jobs[i]]
  BY <1>1 DEF ClaimNextJob, Update, RowsIn
<1>3. UNCHANGED <<wpc, wjob>> /\ dpc' = "register" /\ dpc = "claim"
  BY DEF DispatchClaim, workers
<1>4. CASE j # k
  <2>1. Owned(j)' => Owned(j)
    BY <1>1, <1>3, <1>4 DEF Owned, Executing
  <2>. QED BY <1>2, <1>4, <2>1, RowKept
<1>5. CASE j = k
  <2>1. jobs'[j] = [jobs[j] EXCEPT !.state = "running"] /\ j \in DOMAIN jobs'
    BY <1>2, <1>5
  <2>2. jobs'[j].attr = jobs[j].attr /\ jobs'[j].retries = jobs[j].retries
        /\ jobs'[j].state = "running"
    BY <1>2, <1>5, <2>1, LeasedRow DEF Job
  <2>3. jobs[j].retries <= jobs[j].attr.maxRetries
    BY <1>2, <1>5, LeasedRow DEF Live
  <2>4. ~ Owned(j) /\ ~ (j > lastId) /\ ~ (j > lastId')
    BY <1>2, <1>5, LeasedRow
  <2>5. /\ LeaseStatus(j) = "pending" /\ LeaseStatus(j)' = "leased"
        /\ LeaseCredit(j)' = LeaseCredit(j)
    BY <1>2, <1>5, <2>1, <2>2, <2>4 DEF LeaseStatus, LeaseCredit
  <2>. QED BY <2>2, <2>3, <2>5 DEF LeaseStep, Leases!Change, Within
<1>. QED
  BY <1>4, <1>5

(* A lease that ends for good, or comes back at the cost of one credit. *)
LEMMA LeaseEnds ==
  ASSUME Leased, NoResets, NEW j \in JobId, j \in DOMAIN jobs, j \in DOMAIN jobs',
         LeaseStatus(j) = "leased", ~ Owned(j)', UNCHANGED lastId,
         \/ jobs'[j].state \in Deletable
         \/ /\ jobs[j].retries < jobs[j].attr.maxRetries
            /\ jobs'[j] = [Counted(jobs[j]) EXCEPT !.state = "queued"]
  PROVE  LeaseStep(j) /\ Within(j)'
<1>1. Within(j)'
  BY DEF Within
<1>2. ~ (j > lastId') /\ jobs[j] \in Job
  BY LeasedRow
<1>3. CASE jobs'[j].state \in Deletable
  <2>1. LeaseStatus(j)' = "done" /\ LeaseCredit(j)' = 0
    BY <1>2, <1>3 DEF LeaseStatus, LeaseCredit, Deletable
  <2>. QED BY <1>1, <2>1 DEF LeaseStep, Leases!Change
<1>4. CASE /\ jobs[j].retries < jobs[j].attr.maxRetries
           /\ jobs'[j] = [Counted(jobs[j]) EXCEPT !.state = "queued"]
  <2>. DEFINE c == Counted(jobs[j])
  <2>1. c \in Job /\ c.attr = jobs[j].attr /\ c.retries = jobs[j].retries + 1
    BY <1>2, <1>4, CountedRow
  <2>2. jobs'[j] = [c EXCEPT !.state = "queued"]
    BY <1>4
  <2>. HIDE DEF c
  <2>3. jobs'[j].attr = c.attr /\ jobs'[j].retries = c.retries /\ jobs'[j].state = "queued"
    BY <2>1, <2>2 DEF Job
  <2>4. LeaseStatus(j)' = "pending"
    BY <1>2, <2>3 DEF LeaseStatus
  <2>5. LeaseCredit(j)' = jobs[j].attr.maxRetries - (jobs[j].retries + 1)
    BY <2>1, <2>3, <2>4 DEF LeaseCredit
  <2>6. LeaseCredit(j) = jobs[j].attr.maxRetries - jobs[j].retries
    BY DEF LeaseCredit
  <2>7. jobs[j].attr.maxRetries \in Nat /\ jobs[j].retries \in Nat
    BY LeasedRow
  <2>8. LeaseCredit(j) > 0 /\ LeaseCredit(j)' = LeaseCredit(j) - 1
    BY <1>4, <2>5, <2>6, <2>7
  <2>. QED BY <1>1, <2>4, <2>8 DEF LeaseStep, Leases!Change
<1>. QED
  BY <1>3, <1>4

(* A recorded outcome ends the lease of the worker's own job; the job is not
   owned a second time. *)
LEMMA RecordLease ==
  ASSUME Leased, NoResets, NEW w \in Workers, RecordOutcome(w), NEW j \in JobId
  PROVE  LeaseStep(j) /\ Within(j)'
<1>. DEFINE k == wjob[w]
<1>1. TypeOK /\ StoreTypeOK
  BY DEF Leased, Inv, TypeOK
<1>2. /\ \A v \in Workers : Executing(v)' <=> Executing(v) /\ v # w
      /\ Executing(w) /\ k \in JobId
      /\ wout[w] \in {"cancelled", "ok", "fatal", "error"}
  BY <1>1 DEF RecordOutcome, Executing, TypeOK
<1>3. UNCHANGED <<dpc, djob, wjob>>
  BY DEF RecordOutcome, dispatcher
<1>4. Owned(j)' => Owned(j) /\ j # k
  BY <1>2, <1>3 DEF Leased, ExclusiveExecution, Owned
<1>5. Owned(k)
  BY <1>2 DEF Owned
<1>6. CASE UNCHANGED storeVars
  BY <1>4, <1>6, RowKept DEF storeVars
<1>7. ASSUME UNCHANGED lastId, DOMAIN jobs' = DOMAIN jobs,
             \A i \in DOMAIN jobs \ {k} : jobs'[i] = jobs[i],
             k \in DOMAIN jobs =>
               \/ jobs'[k].state \in Deletable
               \/ /\ jobs[k].retries < jobs[k].attr.maxRetries
                  /\ jobs'[k] = [Counted(jobs[k]) EXCEPT !.state = "queued"]
      PROVE  LeaseStep(j) /\ Within(j)'
  <2>2. CASE j # k \/ j \notin DOMAIN jobs
    BY <1>4, <1>7, <2>2, RowKept
  <2>3. CASE j = k /\ j \in DOMAIN jobs
    <3>1. ~ (j > lastId)
      BY <2>3, LeasedRow
    <3>2. LeaseStatus(j) = "leased"
      BY <1>5, <2>3, <3>1 DEF LeaseStatus
    <3>. QED BY <1>4, <1>7, <2>3, <3>2, LeaseEnds
  <2>. QED BY <2>2, <2>3
<1>8. CASE Outcome(k, wout[w])
  <2>1. k \in DOMAIN jobs => jobs[k] \in Job
    BY <1>1 DEF StoreTypeOK
  <2>2. CASE wout[w] \in {"cancelled", "ok"}
    <3>1. PICK s \in {"completed", "cancelled"} : FinishJob(k, s)
      BY <1>8, <2>2 DEF Outcome
    <3>2. k \in DOMAIN jobs => [jobs[k] EXCEPT !.state = s].state \in Deletable
      BY <2>1 DEF Job, Deletable
    <3>. QED BY <1>7, <3>1, <3>2 DEF FinishJob, Update
  <2>3. CASE wout[w] = "fatal"
    <3>1. QuarantineJob(k)
      BY <1>8, <2>3 DEF Outcome
    <3>2. k \in DOMAIN jobs => Quarantined(jobs[k]).state \in Deletable
      BY <2>1 DEF Job, Quarantined, Deletable
    <3>. QED BY <1>7, <3>1, <3>2 DEF QuarantineJob, Update
  <2>4. CASE wout[w] = "error"
    <3>1. FailAndRetryJob(k)
      BY <1>8, <2>4 DEF Outcome
    <3>2. ASSUME k \in DOMAIN jobs
          PROVE  \/ Failed(jobs[k]).state \in Deletable
                 \/ /\ jobs[k].retries < jobs[k].attr.maxRetries
                    /\ Failed(jobs[k]) = [Counted(jobs[k]) EXCEPT !.state = "queued"]
      <4>1. jobs[k].retries \in Nat /\ jobs[k].attr.maxRetries \in Nat
        BY <1>2, <3>2, LeasedRow
      <4>2. CASE jobs[k].retries + 1 >= jobs[k].attr.maxRetries
        <5>1. Failed(jobs[k]) = Quarantined(Counted(jobs[k])) /\ Counted(jobs[k]) \in Job
          BY <2>1, <3>2, <4>2, CountedRow DEF Failed
        <5>. QED BY <5>1 DEF Job, Quarantined, Deletable
      <4>3. CASE ~ (jobs[k].retries + 1 >= jobs[k].attr.maxRetries)
        BY <4>1, <4>3 DEF Failed
      <4>. QED BY <4>2, <4>3
    <3>. QED BY <1>7, <3>1, <3>2 DEF FailAndRetryJob, Update
  <2>. QED BY <1>2, <2>2, <2>3, <2>4
<1>. QED
  BY <1>6, <1>8 DEF RecordOutcome

(* A start gives orphans back for one credit each, or ends them. *)
LEMMA RecoverLease ==
  ASSUME Leased, NoResets, NEW j \in JobId, daemon = "down", ~ Owned(j)',
         \/ RecoverOrphanedJobs \/ RequeueOrphans \/ UNCHANGED storeVars
  PROVE  LeaseStep(j) /\ Within(j)'
<1>1. ~ Owned(j)
  BY DEF Leased, Inv, DownIsEmpty, Owned, InFlight, Executing
<1>2. CASE UNCHANGED storeVars
  BY <1>1, <1>2, RowKept DEF storeVars
<1>3. CASE RecoverOrphanedJobs \/ RequeueOrphans
  <2>1. /\ DOMAIN jobs' = DOMAIN jobs /\ UNCHANGED lastId
        /\ \A k \in DOMAIN jobs :
             \/ jobs'[k] = jobs[k]
             \/ /\ jobs[k].state = "running"
                /\ \/ jobs'[k] = Quarantined(jobs[k])
                   \/ Orphan(jobs[k]) /\ jobs'[k] = Requeued(jobs[k])
    BY <1>3 DEF RequeueOrphans, RecoverOrphanedJobs, Update, RowsIn
  <2>2. CASE j \notin DOMAIN jobs \/ jobs'[j] = jobs[j]
    BY <1>1, <2>1, <2>2, RowKept
  <2>3. CASE j \in DOMAIN jobs /\ jobs'[j] # jobs[j]
    <3>1. LeaseStatus(j) = "leased"
      BY <2>1, <2>3, LeasedRow DEF LeaseStatus
    <3>2. jobs[j] \in Job
      BY <2>3, LeasedRow
    <3>3. Quarantined(jobs[j]).state \in Deletable
      BY <3>2 DEF Job, Quarantined, Deletable
    <3>. QED BY <2>1, <2>3, <3>1, <3>3, LeaseEnds DEF Orphan, Requeued
  <2>. QED BY <2>2, <2>3
<1>. QED
  BY <1>2, <1>3

-----------------------------------------------------------------------------
(* Every step of the queue is a step of the lease for every job. *)
LEMMA EveryLeaseStep ==
  ASSUME Leased, NoResets, [Next]_vars, NEW j \in JobId
  PROVE  LeaseStep(j) /\ Within(j)'
<1>. DEFINE Goal == LeaseStep(j) /\ Within(j)'
<1>. TypeOK /\ StoreTypeOK
  BY DEF Leased, Inv, TypeOK
<1>1. ASSUME UNCHANGED storeVars, Owned(j)' => Owned(j) PROVE Goal
  BY <1>1, RowKept DEF storeVars
<1>2. ASSUME dpc' # "register", \A w \in Workers : ~ InFlight(w)' PROVE ~ Owned(j)'
  BY <1>2 DEF Owned, Executing, InFlight
<1>3. CASE Start
  <2>1. ~ Owned(j)'
    BY <1>2, <1>3 DEF Start, Leased, Inv, DownIsEmpty, InFlight, workers
  <2>. QED BY <1>3, <2>1, RecoverLease DEF Start, Recover
<1>4. CASE StartInterrupted
  <2>1. ~ Owned(j)'
    BY <1>2, <1>4 DEF StartInterrupted, Leased, Inv, DownIsEmpty, InFlight, workers, dispatcher
  <2>. QED BY <1>4, <2>1, RecoverLease DEF StartInterrupted
<1>5. CASE Crash \/ StopReturn
  BY <1>1, <1>2, <1>5 DEF Crash, StopReturn, Exit, InFlight, AllWorkers
<1>6. CASE StopClose \/ StopCancel
  BY <1>1, <1>6 DEF StopClose, StopCancel, dispatcher, workers, Owned, Executing
<1>7. CASE DispatchTop \/ DispatchSnapshot \/ DispatchNothing \/ DispatchWake
  <2>1. UNCHANGED storeVars
    BY <1>7 DEF DispatchTop, DispatchSnapshot, DispatchNothing, DispatchWake
  <2>2. UNCHANGED <<djob, wpc, wjob>> /\ dpc' # "register"
    BY <1>7 DEF DispatchTop, DispatchSnapshot, DispatchNothing, DispatchWake, DispatchTo, workers
  <2>. QED BY <1>1, <2>1, <2>2 DEF Owned, Executing
<1>8. CASE DispatchClaim
  BY <1>8, ClaimLease
<1>9. ASSUME NEW w \in Workers, DispatchRegister(w) PROVE Goal
  <2>1. /\ dpc = "register" /\ wpc[w] = "idle" /\ UNCHANGED storeVars
        /\ wpc' = [wpc EXCEPT ![w] = "exec"] /\ wjob' = [wjob EXCEPT ![w] = djob]
        /\ dpc' = "top"
    BY <1>9 DEF DispatchRegister, InFlight
  <2>2. \A v \in Workers : /\ Executing(v)' <=> (Executing(v) \/ v = w)
                           /\ wjob'[v] = IF v = w THEN djob ELSE wjob[v]
    BY <2>1 DEF Executing, TypeOK
  <2>. QED BY <1>1, <2>1, <2>2 DEF Owned
<1>10. ASSUME NEW w \in Workers, ExecReturn(w) PROVE Goal
  <2>1. \A v \in Workers : Executing(v)' <=> Executing(v)
    BY <1>10 DEF ExecReturn, Executing, TypeOK
  <2>2. UNCHANGED <<storeVars, dpc, djob, wjob>>
    BY <1>10 DEF ExecReturn, dispatcher
  <2>. QED BY <1>1, <2>1, <2>2 DEF Owned
<1>11. ASSUME NEW w \in Workers, RecordOutcome(w) PROVE Goal
  BY <1>11, RecordLease
<1>12. ASSUME NEW w \in Workers, Cleanup(w) PROVE Goal
  <2>1. \A v \in Workers : /\ Executing(v)' <=> Executing(v)
                           /\ Executing(v) => wjob'[v] = wjob[v]
    BY <1>12 DEF Cleanup, Executing, TypeOK
  <2>2. UNCHANGED <<storeVars, dpc, djob>>
    BY <1>12 DEF Cleanup, dispatcher
  <2>. QED BY <1>1, <2>1, <2>2 DEF Owned
<1>13. ASSUME NEW c \in Clients, NewRequest(c) \/ FinishRequest(c) PROVE Goal
  <2>1. Owned(j)' <=> Owned(j)
    BY <1>13, RequestsLeave DEF Owned, Executing
  <2>2. ASSUME UNCHANGED <<jobs, lastId>> PROVE Goal
    BY <2>1, <2>2, RowKept
  <2>3. ASSUME NEW a \in Attrs, EnqueueJob(a) PROVE Goal
    BY <2>1, <2>3, SubmitLease
  <2>4. ASSUME NEW i, PauseJob(i) \/ ResumeJob(i) \/ CancelJob(i) \/ QuarantineJob(i) \/ DeleteJob(i)
        PROVE  Goal
    BY <2>1, <2>4, ClientRows, ClientLease
  <2>5. ASSUME NEW b \in Batches, BatchAction(b.action, b.ids, b.prefix) PROVE Goal
    <3>1. b.action \in BatchName \ {"retry", "unquarantine"}
      BY CallsAssumption DEF BatchRequest, NoResets
    <3>. QED BY <2>1, <2>5, <3>1, ClientRows, ClientLease
  <2>6. CASE NewRequest(c)
    <3>1. \/ UNCHANGED storeVars \/ \E a \in Attrs : EnqueueJob(a)
          \/ \E i : PauseJob(i) \/ ResumeJob(i) \/ DeleteJob(i)
      BY <2>6
      DEF NewRequest, Enqueue, SetPaused, SetConcurrency, Cancel, Quarantine, PauseOne,
          ResumeOne, RetryOne, UnquarantineOne, DeleteOne, BatchJobs, OnlyMemory, NoResets
    <3>. QED BY <2>2, <2>3, <2>4, <3>1 DEF storeVars
  <2>7. CASE FinishRequest(c)
    <3>1. CASE StorePaused(c) \/ StoreConcurrency(c)
      BY <2>2, <3>1 DEF StorePaused, StoreConcurrency, SetQueuePaused, SetQueueConcurrency
    <3>2. CASE StoreJob(c)
      BY <2>4, <3>2 DEF StoreJob
    <3>3. CASE StoreBatch(c)
      <4>1. client[c].request \in Batches
        BY <3>3, RequestFields DEF StoreBatch, TypeOK
      <4>. QED BY <2>5, <3>3, <4>1 DEF StoreBatch
    <3>4. CASE StoreFails(c) \/ NotifyDispatcher(c)
      BY <2>2, <3>4 DEF StoreFails, NotifyDispatcher, storeVars
    <3>. QED BY <2>7, <3>1, <3>2, <3>3, <3>4 DEF FinishRequest
  <2>. QED BY <1>13, <2>6, <2>7
<1>14. CASE UNCHANGED vars
  BY <1>1, <1>14 DEF vars, dispatcher, workers, Owned, Executing
<1>. QED
  BY <1>3, <1>4, <1>5, <1>6, <1>7, <1>8, <1>9, <1>10, <1>11, <1>12, <1>13, <1>14
  DEF Next, Dispatch, Worker

(* The lease's own types: no credit is ever overdrawn. *)
LEMMA LeaseTypes ==
  ASSUME StoreTypeOK', RetryBudget', NEW j \in JobId, Within(j)'
  PROVE  LeaseStatus(j)' \in Leases!Status /\ LeaseCredit(j)' \in Nat
<1>1. LeaseStatus(j)' \in Leases!Status
  BY DEF LeaseStatus, Leases!Status
<1>2. CASE LeaseStatus(j)' \in {"pending", "held", "leased"}
  <2>1. j \in DOMAIN jobs' /\ (Owned(j)' \/ jobs'[j].state \in Live)
    BY <1>2 DEF LeaseStatus, Live
  <2>2. jobs'[j].retries \in Nat /\ jobs'[j].attr.maxRetries \in Nat
    BY <2>1, AttrsAssumption DEF StoreTypeOK, Job
  <2>3. jobs'[j].retries <= jobs'[j].attr.maxRetries
    BY <2>1 DEF Within, RetryBudget, RowsIn
  <2>4. LeaseCredit(j)' = jobs'[j].attr.maxRetries - jobs'[j].retries
    BY <1>2 DEF LeaseCredit
  <2>. QED BY <1>1, <2>2, <2>3, <2>4
<1>3. CASE LeaseStatus(j)' \notin {"pending", "held", "leased"}
  BY <1>1, <1>3 DEF LeaseCredit
<1>. QED
  BY <1>2, <1>3

(* The two lemmas put together: a step of JobLease. *)
LEMMA LeaseNext ==
  ASSUME Leased, NoResets, [Next]_vars, Inv'
  PROVE  Leases!Next /\ OwnedBudget'
<1>1. \A j \in JobId : LeaseStep(j) /\ Within(j)'
  BY EveryLeaseStep
<1>2. \A j \in JobId : LeaseStatus(j)' \in Leases!Status /\ LeaseCredit(j)' \in Nat
  BY <1>1, LeaseTypes DEF Inv, TypeOK
<1>3. Leases!Next
  BY <1>1, <1>2 DEF Leases!Next, LeaseStep
<1>. QED
  BY <1>1, <1>3 DEF OwnedBudget

(* Without resets the queue is a lease: a job is executed at most maxRetries + 1
   times, by one worker at a time and never after it is over, whatever crashes,
   failing store calls, cancels, pauses, batches and deletes come between. *)
THEOREM QueueImplementsLease == NoResets => (Spec => LeaseSpec)
<1>. SUFFICES ASSUME NoResets PROVE Spec => LeaseSpec
  OBVIOUS
<1>. DEFINE All == OwnedRows /\ ExclusiveExecution /\ OwnedBudget
            status == [j \in JobId |-> LeaseStatus(j)]
            credit == [j \in JobId |-> LeaseCredit(j)]
<1>1. Init => All
  BY DEF Init, OwnedRows, ExclusiveExecution, OwnedBudget, Within, Owned, Executing, AllWorkers
<1>2. Inv /\ Inv' /\ All /\ [Next]_vars => All'
  BY ExclusiveStep, LeaseNext DEF Leased
<1>3. Init => Leases!Init
  <2>1. ASSUME Init, NEW j \in JobId PROVE LeaseStatus(j) = "none" /\ LeaseCredit(j) = 0
    BY <2>1, JobIds DEF Init, LeaseStatus, LeaseCredit, JobId
  <2>. QED BY <2>1 DEF Leases!Init
<1>4. Inv /\ Inv' /\ All /\ [Next]_vars => [Leases!Next]_<<status, credit>>
  BY LeaseNext DEF Leased
<1>. QED
  BY <1>1, <1>2, <1>3, <1>4, Invariance, PTL DEF Spec, LeaseSpec, Leases!Spec
=============================================================================
