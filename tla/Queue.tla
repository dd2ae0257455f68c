------------------------------- MODULE Queue -------------------------------
(***************************************************************************)
(* mirrord's queue (internal/daemon/queue.go): the dispatcher goroutine,   *)
(* one worker goroutine per claimed job, the API handlers that call the    *)
(* queue's methods, and the life of the process around them.               *)
(*                                                                         *)
(* One action is one critical section: a section under q.mu, one call of a *)
(* Store method (atomic, see JobStore), one operation on a channel, or the *)
(* return of the executor.  Between two of them any other goroutine may    *)
(* take a step.  A crash keeps the tables and loses everything else.       *)
(***************************************************************************)
EXTENDS JobStore

CONSTANTS
  Workers,            \* bound: slots for worker goroutines alive at once
  NoWorker,           \* no cancel function registered
  Clients,            \* API requests that may be in flight at once
  Ops,                \* which single-job and queue operations clients call
  Batches,            \* the batch requests clients send
  ConfigConcurrency,  \* QueueConfig.Concurrency, after NewQueue's default
  StoredConcurrency,  \* what queue_state.concurrency may hold before the first start
  MaxRestarts,        \* bound: crashes and shutdowns
  StoreCanFail        \* whether a Store call may return an error

OpName ==
  {"enqueue", "pause", "resume", "setConcurrency", "cancel", "pauseJob", "resumeJob",
   "retry", "quarantine", "unquarantine", "delete"}

BatchRequest == [action : BatchName, ids : SUBSET JobId, prefix : SUBSET Attrs]

ASSUME WorkersAssumption == NoWorker \notin Workers
ASSUME CallsAssumption == Ops \subseteq OpName /\ Batches \subseteq BatchRequest
ASSUME ConcurrencyAssumption ==
  ConfigConcurrency \in Nat \ {0} /\ StoredConcurrency \subseteq Nat
ASSUME FailureAssumption == MaxRestarts \in Nat /\ StoreCanFail \in BOOLEAN

VARIABLES
  daemon,          \* "down", "up", "closing" (stopCh closed), "draining" (wg.Wait)
  restarts,        \* crashes and shutdowns so far
  paused,          \* q.paused
  concurrency,     \* q.concurrency
  activeJobs,      \* the keys of q.activeJobs
  runningCancels,  \* q.runningCancels: the worker whose context a job's entry cancels
  notifyCh,        \* whether q.notifyCh holds its one token
  dpc, djob,       \* dispatchLoop: where it is, the job it has claimed
  wpc, wjob,       \* runWorker: where it is, its job
  wcancelled,      \* its context was cancelled
  wout,            \* the outcome it is about to record
  client           \* the rest of the request each client has in flight

process == <<daemon, restarts>>
memory == <<paused, concurrency, activeJobs, runningCancels>>
dispatcher == <<dpc, djob>>
workers == <<wpc, wjob, wcancelled, wout>>
vars == <<storeVars, process, memory, notifyCh, dispatcher, workers, client>>

-----------------------------------------------------------------------------
(* A request is over (Idle), about to call notify (Notifying), or about to
   call the store with what it was given. *)
Idle == [op |-> "idle"]
Notifying == [op |-> "notify"]

StoreCall ==
       [op : {"setPaused"}, value : BOOLEAN]
  \cup [op : {"setConcurrency"}, value : Limits]
  \cup [op : {"cancel", "quarantine"}, id : JobId]
  \cup [op : {"batch"}, request : Batches]

StopRequested == daemon \in {"closing", "draining"}  \* stopCh is closed
InFlight(w) == wpc[w] # "idle"                       \* counted by q.wg
Executing(w) == wpc[w] \in {"exec", "record"}        \* has not recorded an outcome

(* q.notify: one token at most waits for the dispatcher. *)
Notify == notifyCh' = TRUE

(* cancel() for the registered contexts of some jobs.  Only a worker that has
   not looked at its context yet can notice. *)
CancelContexts(ids) ==
  wcancelled' = [w \in Workers |->
    wcancelled[w] \/ (wpc[w] = "exec" /\ \E j \in ids : runningCancels[j] = w)]

AllWorkers(value) == [w \in Workers |-> value]
NoCancels == [j \in JobId |-> NoWorker]

(* No process yet.  Its memory has the values NewQueue will give it. *)
Init ==
  /\ jobs = [j \in {} |-> 0]
  /\ lastId = 0
  /\ storedPaused = FALSE
  /\ storedConc \in StoredConcurrency
  /\ daemon = "down" /\ restarts = 0
  /\ paused = FALSE /\ concurrency = ConfigConcurrency
  /\ activeJobs = {} /\ runningCancels = NoCancels
  /\ notifyCh = FALSE
  /\ dpc = "exited" /\ djob = 0
  /\ wpc = AllWorkers("idle") /\ wjob = AllWorkers(0)
  /\ wcancelled = AllWorkers(FALSE) /\ wout = AllWorkers("none")
  /\ client = [c \in Clients |-> Idle]

-----------------------------------------------------------------------------
(* The life of the process. *)

(* Start: recover orphaned jobs, load the stored settings, start dispatchLoop.
   Errors of either are dropped; a recovery may fail between its UPDATEs. *)
Recover ==
  \/ RecoverOrphanedJobs
  \/ StoreCanFail /\ (RequeueOrphans \/ UNCHANGED storeVars)

Start ==
  /\ daemon = "down"
  /\ Recover
  /\ \/ paused' = storedPaused /\ concurrency' = LoadedConcurrency
     \/ StoreCanFail /\ UNCHANGED <<paused, concurrency>>
  /\ daemon' = "up"
  /\ dpc' = "top"
  /\ UNCHANGED <<restarts, activeJobs, runningCancels, notifyCh, djob, workers, client>>

(* The process dies between the two UPDATEs of the recovery. *)
StartInterrupted ==
  /\ daemon = "down" /\ restarts < MaxRestarts
  /\ RequeueOrphans
  /\ restarts' = restarts + 1
  /\ UNCHANGED <<daemon, memory, notifyCh, dispatcher, workers, client>>

(* The process is gone, with every goroutine and everything in memory. *)
Exit ==
  /\ daemon' = "down"
  /\ paused' = FALSE /\ concurrency' = ConfigConcurrency
  /\ activeJobs' = {} /\ runningCancels' = NoCancels
  /\ notifyCh' = FALSE
  /\ dpc' = "exited" /\ djob' = 0
  /\ wpc' = AllWorkers("idle") /\ wjob' = AllWorkers(0)
  /\ wcancelled' = AllWorkers(FALSE) /\ wout' = AllWorkers("none")
  /\ client' = [c \in Clients |-> Idle]
  /\ UNCHANGED storeVars

Crash ==
  /\ daemon # "down" /\ restarts < MaxRestarts
  /\ restarts' = restarts + 1
  /\ Exit

(* Stop: close(stopCh); under q.mu cancel every registered job and forget its
   cancel function; wait for the dispatcher and the workers, then exit.  The
   HTTP handlers that outlive Shutdown's timeout still run. *)
StopClose ==
  /\ daemon = "up" /\ restarts < MaxRestarts
  /\ daemon' = "closing"
  /\ restarts' = restarts + 1
  /\ UNCHANGED <<storeVars, memory, notifyCh, dispatcher, workers, client>>

StopCancel ==
  /\ daemon = "closing"
  /\ daemon' = "draining"
  /\ CancelContexts(JobId)
  /\ runningCancels' = NoCancels
  /\ UNCHANGED <<storeVars, restarts, paused, concurrency, activeJobs, notifyCh,
                 dispatcher, wpc, wjob, wout, client>>

(* Faulty: only the dispatcher is waited for. *)
BadStopReturn ==
  /\ daemon = "draining"
  /\ dpc = "exited"
  /\ Exit
  /\ UNCHANGED restarts

StopReturn ==
  /\ daemon = "draining"
  /\ dpc = "exited" /\ \A w \in Workers : ~ InFlight(w)
  /\ Exit
  /\ UNCHANGED restarts

-----------------------------------------------------------------------------
(* dispatchLoop. *)

DispatchTo(pc) ==
  /\ dpc' = pc
  /\ UNCHANGED <<process, memory, djob, workers, client>>

(* Faulty: stopCh is looked at while parked only. *)
BadDispatchTop ==
  /\ dpc = "top"
  /\ DispatchTo("snapshot")
  /\ UNCHANGED <<storeVars, notifyCh>>

(* The non-blocking look at stopCh at the top of the loop. *)
DispatchTop ==
  /\ dpc = "top"
  /\ DispatchTo(IF StopRequested THEN "exited" ELSE "snapshot")
  /\ UNCHANGED <<storeVars, notifyCh>>

(* Faulty: one more than the limit. *)
BadDispatchSnapshot ==
  /\ dpc = "snapshot"
  /\ DispatchTo(IF paused \/ Cardinality(activeJobs) > concurrency
                  THEN "park" ELSE "claim")
  /\ UNCHANGED <<storeVars, notifyCh>>

(* Under q.mu: copy paused, len(activeJobs) and concurrency, then decide. *)
DispatchSnapshot ==
  /\ dpc = "snapshot"
  /\ DispatchTo(IF paused \/ Cardinality(activeJobs) >= concurrency
                  THEN "park" ELSE "claim")
  /\ UNCHANGED <<storeVars, notifyCh>>

DispatchClaim ==
  /\ dpc = "claim"
  /\ \E j \in JobId : ClaimNextJob(j) /\ djob' = j
  /\ dpc' = "register"
  /\ UNCHANGED <<process, memory, notifyCh, workers, client>>

(* ErrQueueEmpty: wait.  Any other error: sleep, then try again. *)
DispatchNothing ==
  /\ dpc = "claim"
  /\ \/ RowsIn({"queued"}) = {} /\ DispatchTo("park")
     \/ StoreCanFail /\ DispatchTo("top")
  /\ UNCHANGED <<storeVars, notifyCh>>

(* Under q.mu: enter the job in both maps; then wg.Add and go runWorker. *)
DispatchRegister(w) ==
  /\ dpc = "register" /\ ~ InFlight(w)
  /\ activeJobs' = activeJobs \cup {djob}
  /\ runningCancels' = [runningCancels EXCEPT ![djob] = w]
  /\ wpc' = [wpc EXCEPT ![w] = "exec"]
  /\ wjob' = [wjob EXCEPT ![w] = djob]
  /\ dpc' = "top" /\ djob' = 0
  /\ UNCHANGED <<storeVars, process, paused, concurrency, notifyCh, wcancelled, wout,
                 client>>

(* The three-way select: a token, the timeout, or stopCh. *)
DispatchWake ==
  /\ dpc = "park"
  /\ \/ notifyCh /\ notifyCh' = FALSE /\ DispatchTo("top")
     \/ UNCHANGED notifyCh /\ DispatchTo("top")
     \/ StopRequested /\ UNCHANGED notifyCh /\ DispatchTo("exited")
  /\ UNCHANGED storeVars

Dispatch ==
  \/ DispatchTop \/ DispatchSnapshot \/ DispatchClaim \/ DispatchNothing
  \/ (\E w \in Workers : DispatchRegister(w)) \/ DispatchWake

-----------------------------------------------------------------------------
(* runWorker. *)

(* executor.Run returns and the context is looked at: cancelled, success, an
   error isImmediateQuarantineError recognises, or any other error. *)
ExecReturn(w) ==
  /\ wpc[w] = "exec"
  /\ wpc' = [wpc EXCEPT ![w] = "record"]
  /\ \E out \in IF wcancelled[w] THEN {"cancelled"} ELSE {"ok", "fatal", "error"} :
        wout' = [wout EXCEPT ![w] = out]
  /\ wcancelled' = [wcancelled EXCEPT ![w] = FALSE]
  /\ UNCHANGED <<storeVars, process, memory, notifyCh, dispatcher, wjob, client>>

(* Faulty: a cancelled run is not recorded. *)
BadOutcome(j, out) ==
  CASE out = "cancelled" -> UNCHANGED storeVars
    [] out = "ok" -> FinishJob(j, "completed")
    [] out = "fatal" -> QuarantineJob(j)
    [] out = "error" -> FailAndRetryJob(j)

(* The one Store call for the outcome; its error is dropped. *)
Outcome(j, out) ==
  CASE out = "cancelled" -> FinishJob(j, "cancelled")
    [] out = "ok" -> FinishJob(j, "completed")
    [] out = "fatal" -> QuarantineJob(j)
    [] out = "error" -> FailAndRetryJob(j)

RecordOutcome(w) ==
  /\ wpc[w] = "record"
  /\ \/ Outcome(wjob[w], wout[w])
     \/ StoreCanFail /\ UNCHANGED storeVars
  /\ wpc' = [wpc EXCEPT ![w] = "cleanup"]
  /\ wout' = [wout EXCEPT ![w] = "none"]
  /\ UNCHANGED <<process, memory, notifyCh, dispatcher, wjob, wcancelled, client>>

(* Faulty: the cancel function stays registered. *)
BadCleanup(w) ==
  /\ wpc[w] = "cleanup"
  /\ activeJobs' = activeJobs \ {wjob[w]}
  /\ Notify
  /\ wpc' = [wpc EXCEPT ![w] = "idle"]
  /\ wjob' = [wjob EXCEPT ![w] = 0]
  /\ UNCHANGED <<storeVars, process, paused, concurrency, runningCancels, dispatcher,
                 wcancelled, wout, client>>

(* The deferred calls: under q.mu delete the entries under the job's id,
   notify, wg.Done.  A late notify could only add a wakeup, so the three are
   one step. *)
Cleanup(w) ==
  /\ wpc[w] = "cleanup"
  /\ activeJobs' = activeJobs \ {wjob[w]}
  /\ runningCancels' = [runningCancels EXCEPT ![wjob[w]] = NoWorker]
  /\ Notify
  /\ wpc' = [wpc EXCEPT ![w] = "idle"]
  /\ wjob' = [wjob EXCEPT ![w] = 0]
  /\ UNCHANGED <<storeVars, process, paused, concurrency, dispatcher, wcancelled, wout,
                 client>>

-----------------------------------------------------------------------------
(* The API's requests.  Nothing orders them: any request may come at any time
   the daemon serves, and several may be between their steps at once. *)

Serving(c) == daemon # "down" /\ client[c] = Idle
Then(c, rest) == client' = [client EXCEPT ![c] = rest]
OnlyStore == UNCHANGED <<process, memory, notifyCh, dispatcher, workers>>
OnlyMemory == UNCHANGED <<storeVars, process, notifyCh, dispatcher, wpc, wjob, wout>>

Enqueue(c) ==
  /\ "enqueue" \in Ops /\ Serving(c)
  /\ \E a \in Attrs : EnqueueJob(a)
  /\ Then(c, Notifying)
  /\ OnlyStore

(* Pause, Resume and SetConcurrency: the memory under q.mu, then the store. *)
SetPaused(c, p) ==
  /\ (IF p THEN "pause" ELSE "resume") \in Ops /\ Serving(c)
  /\ paused' = p
  /\ Then(c, [op |-> "setPaused", value |-> p])
  /\ OnlyMemory /\ UNCHANGED <<concurrency, activeJobs, runningCancels, wcancelled>>

SetConcurrency(c, n) ==
  /\ "setConcurrency" \in Ops /\ Serving(c)
  /\ concurrency' = n
  /\ Then(c, [op |-> "setConcurrency", value |-> n])
  /\ OnlyMemory /\ UNCHANGED <<paused, activeJobs, runningCancels, wcancelled>>

(* CancelJob: a registered job has its context cancelled and nothing else is
   done; only without a registered one is the store asked. *)
Cancel(c, j) ==
  /\ "cancel" \in Ops /\ Serving(c)
  /\ IF runningCancels[j] # NoWorker
       THEN Then(c, Idle)
       ELSE Then(c, [op |-> "cancel", id |-> j])
  /\ CancelContexts({j})
  /\ OnlyMemory /\ UNCHANGED memory

(* QuarantineJob: cancel the context if there is one, then always the store. *)
Quarantine(c, j) ==
  /\ "quarantine" \in Ops /\ Serving(c)
  /\ CancelContexts({j})
  /\ Then(c, [op |-> "quarantine", id |-> j])
  /\ OnlyMemory /\ UNCHANGED memory

(* BatchJobs: for cancel and quarantine, first cancel and forget the contexts
   of the selected jobs; then BatchAction. *)
BatchRunning(b) ==
  {j \in JobId :
     /\ b.action \in {"cancel", "quarantine"}
     /\ runningCancels[j] # NoWorker
     /\ IF b.ids # {} THEN j \in b.ids
                      ELSE j \in DOMAIN jobs /\ jobs[j].attr \in b.prefix}

BatchJobs(c, b) ==
  /\ Serving(c)
  /\ CancelContexts(BatchRunning(b))
  /\ runningCancels' =
       [j \in JobId |-> IF j \in BatchRunning(b) THEN NoWorker ELSE runningCancels[j]]
  /\ Then(c, [op |-> "batch", request |-> b])
  /\ OnlyMemory /\ UNCHANGED <<paused, concurrency, activeJobs>>

(* The operations that are one call of the store.  RetryJob and
   UnquarantineJob notify when a row was there to change, ResumeJob always. *)
PauseOne(c, j) ==
  /\ "pauseJob" \in Ops /\ Serving(c)
  /\ PauseJob(j) /\ UNCHANGED client /\ OnlyStore

(* Faulty: the dispatcher is not told. *)
BadResumeOne(c, j) ==
  /\ "resumeJob" \in Ops /\ Serving(c)
  /\ ResumeJob(j) /\ UNCHANGED client /\ OnlyStore

ResumeOne(c, j) ==
  /\ "resumeJob" \in Ops /\ Serving(c)
  /\ ResumeJob(j) /\ Then(c, Notifying) /\ OnlyStore

RetryOne(c, j) ==
  /\ "retry" \in Ops /\ Serving(c)
  /\ j \in DOMAIN jobs
  /\ RetryJob(j) /\ OnlyStore
  /\ \E unread \in {FALSE, StoreCanFail} :  \* reset, but reading it back failed
        Then(c, IF unread THEN Idle ELSE Notifying)

UnquarantineOne(c, j) ==
  /\ "unquarantine" \in Ops /\ Serving(c)
  /\ j \in RowsIn({"quarantined"})
  /\ UnquarantineJob(j) /\ Then(c, Notifying) /\ OnlyStore

DeleteOne(c, j) ==
  /\ "delete" \in Ops /\ Serving(c)
  /\ DeleteJob(j) /\ UNCHANGED client /\ OnlyStore

(* The second step of the operations that started in memory. *)
StorePaused(c) ==
  /\ client[c].op = "setPaused"
  /\ SetQueuePaused(client[c].value)
  /\ Then(c, IF client[c].value THEN Idle ELSE Notifying)
  /\ OnlyStore

StoreConcurrency(c) ==
  /\ client[c].op = "setConcurrency"
  /\ SetQueueConcurrency(client[c].value)
  /\ Then(c, Notifying)
  /\ OnlyStore

StoreJob(c) ==
  /\ \/ client[c].op = "cancel" /\ CancelJob(client[c].id)
     \/ client[c].op = "quarantine" /\ QuarantineJob(client[c].id)
  /\ Then(c, Idle)
  /\ OnlyStore

StoreBatch(c) ==
  /\ client[c].op = "batch"
  /\ LET b == client[c].request
     IN  /\ BatchAction(b.action, b.ids, b.prefix)
         /\ Then(c, IF b.action \in {"resume", "unquarantine", "retry"}
                      THEN Notifying ELSE Idle)
  /\ OnlyStore

(* The store call fails: Resume and SetConcurrency notify all the same. *)
StoreFails(c) ==
  /\ StoreCanFail /\ client[c].op \notin {"idle", "notify"}
  /\ Then(c, IF \/ client[c].op = "setConcurrency"
                \/ client[c].op = "setPaused" /\ ~ client[c].value
               THEN Notifying ELSE Idle)
  /\ OnlyStore /\ UNCHANGED storeVars

NotifyDispatcher(c) ==
  /\ client[c] = Notifying
  /\ Notify
  /\ Then(c, Idle)
  /\ UNCHANGED <<storeVars, process, memory, dispatcher, workers>>

NewRequest(c) ==
  \/ Enqueue(c)
  \/ \E p \in BOOLEAN : SetPaused(c, p)
  \/ \E n \in Limits : SetConcurrency(c, n)
  \/ \E j \in JobId :
        \/ Cancel(c, j) \/ Quarantine(c, j) \/ PauseOne(c, j) \/ ResumeOne(c, j)
        \/ RetryOne(c, j) \/ UnquarantineOne(c, j) \/ DeleteOne(c, j)
  \/ \E b \in Batches : BatchJobs(c, b)

FinishRequest(c) ==
  \/ StorePaused(c) \/ StoreConcurrency(c) \/ StoreJob(c) \/ StoreBatch(c)
  \/ StoreFails(c) \/ NotifyDispatcher(c)

-----------------------------------------------------------------------------
Worker(w) == ExecReturn(w) \/ RecordOutcome(w) \/ Cleanup(w)

Next ==
  \/ Start \/ StartInterrupted \/ Crash \/ StopClose \/ StopCancel \/ StopReturn
  \/ Dispatch
  \/ \E w \in Workers : Worker(w)
  \/ \E c \in Clients : NewRequest(c) \/ FinishRequest(c)

Spec == Init /\ [][Next]_vars

(* Every goroutine that can run does: the dispatcher, each worker (a job's
   process ends some time), each request already begun, Stop once called; and
   a stopped daemon is started again (systemd, or the administrator).  No
   client has to send anything, and nothing has to crash. *)
Fairness ==
  /\ WF_vars(Start) /\ WF_vars(StopCancel) /\ WF_vars(StopReturn)
  /\ WF_vars(Dispatch)
  /\ \A w \in Workers : WF_vars(Worker(w))
  /\ \A c \in Clients : WF_vars(FinishRequest(c))

FairSpec == Spec /\ Fairness

-----------------------------------------------------------------------------
(* The type invariant: the store's, and what each goroutine's state may be. *)
TypeOK ==
  /\ StoreTypeOK
  /\ daemon \in {"down", "up", "closing", "draining"} /\ restarts \in 0 .. MaxRestarts
  /\ paused \in BOOLEAN /\ concurrency \in Nat \ {0}
  /\ activeJobs \subseteq JobId
  /\ runningCancels \in [JobId -> Workers \cup {NoWorker}]
  /\ notifyCh \in BOOLEAN
  /\ dpc \in {"top", "snapshot", "claim", "register", "park", "exited"}
  /\ djob \in JobId \cup {0} /\ (dpc = "register" <=> djob # 0)
  /\ wpc \in [Workers -> {"idle", "exec", "record", "cleanup"}]
  /\ wjob \in [Workers -> JobId \cup {0}]
  /\ \A w \in Workers : wpc[w] = "idle" <=> wjob[w] = 0
  /\ wcancelled \in [Workers -> BOOLEAN]
  /\ wout \in [Workers -> {"none", "cancelled", "ok", "fatal", "error"}]
  /\ \A w \in Workers : wpc[w] = "record" => wout[w] # "none"
  /\ client \in [Clients -> {Idle, Notifying} \cup StoreCall]

(* Someone will still write this job's outcome: the dispatcher about to start
   its worker, or a worker that has not recorded yet. *)
Owned(j) ==
  \/ dpc = "register" /\ djob = j
  \/ \E w \in Workers : Executing(w) /\ wjob[w] = j

(* While the daemon runs, a row marked running is never abandoned: whatever
   cancels, resets, retries, batches and stops overlap, some goroutine still
   owns it.  Only a failing store call can leave one behind until the next
   start (the errors runWorker drops, queue.go:214-233). *)
RunningHasOwner ==
  daemon # "down" /\ ~ StoreCanFail => \A j \in RowsIn({"running"}) : Owned(j)

(* No slot of the limit leaks and no cancel function outlives its job: an
   entry of activeJobs or runningCancels is one of a live worker on that job,
   although a worker deletes by job id and so may delete another's entry
   (queue.go:193-196). *)
EntriesAreLive ==
  /\ \A j \in activeJobs : \E w \in Workers : InFlight(w) /\ wjob[w] = j
  /\ \A j \in JobId : runningCancels[j] # NoWorker =>
       /\ j \in activeJobs
       /\ InFlight(runningCancels[j]) /\ wjob[runningCancels[j]] = j

(* The dispatcher never sleeps through work: when it is parked although a job
   is queued and a slot is free, a token waits or someone is about to send
   one, so a new job never waits for the 500ms or 1s timeout. *)
NoLostWakeup ==
  /\ daemon = "up" /\ dpc = "park" /\ ~ StoreCanFail
  /\ ~ paused /\ Cardinality(activeJobs) < concurrency
  /\ RowsIn({"queued"}) # {}
  => \/ notifyCh
     \/ \E c \in Clients : client[c] = Notifying
     \/ \E c \in Clients : client[c].op = "setPaused" /\ ~ client[c].value
     \/ \E c \in Clients : client[c].op = "setConcurrency"
     \/ \E w \in Workers : wpc[w] = "cleanup"

(* Stop returns only when no row is left running, so the next start finds no
   orphan to charge an attempt for (queue.go:90-103). *)
CleanStop ==
  [][StopReturn /\ ~ StoreCanFail => RowsIn({"running"}) = {}]_vars

(* With a limit of one that nobody changes, jobs run strictly one at a time,
   through retries, cancels, resets and restarts (queue.go:124-130, 193-197). *)
OneAtATime ==
  concurrency = 1 /\ Limits = {}
    => \A v, w \in Workers : InFlight(v) /\ InFlight(w) => v = w

(* As long as nobody resets a job, no two workers run the same one: a row a
   worker owns is never claimed a second time (queue.go:162-168). *)
NoResets ==
  /\ Ops \cap {"retry", "unquarantine"} = {}
  /\ \A b \in Batches : b.action \notin {"retry", "unquarantine"}

ExclusiveExecution ==
  NoResets =>
    /\ \A v, w \in Workers : Executing(v) /\ Executing(w) /\ wjob[v] = wjob[w] => v = w
    /\ \A w \in Workers : Executing(w) => wjob[w] # djob

(* What the queue's state says in the terms of JobLease. *)
LeaseStatus(j) ==
  IF j > lastId THEN "none"
  ELSE IF j \notin DOMAIN jobs THEN "gone"
  ELSE IF Owned(j) \/ jobs[j].state = "running" THEN "leased"
  ELSE IF jobs[j].state = "queued" THEN "pending"
  ELSE IF jobs[j].state = "paused" THEN "held"
  ELSE "done"

LeaseCredit(j) ==
  IF LeaseStatus(j) \in {"pending", "held", "leased"}
    THEN jobs[j].attr.maxRetries - jobs[j].retries
    ELSE 0

Leases == INSTANCE JobLease WITH
  Jobs <- JobId,
  status <- [j \in JobId |-> LeaseStatus(j)],
  credit <- [j \in JobId |-> LeaseCredit(j)]

(* Without resets the queue implements JobLease: at most maxRetries + 1
   executions of a job, one at a time, none after it is over, whatever crashes,
   failing store calls, cancels, pauses, batches and deletes come between. *)
LeaseSpec == Leases!Spec

(* Every job that is queued or running leaves these states for good when no
   client resets, pauses or resumes: retries, restarts and shutdowns use up a
   finite budget. *)
EveryJobSettles ==
  \A j \in JobId : <>[](j \notin RowsIn({"queued", "running"}))

(* A shutdown that was begun ends: the dispatcher sees stopCh from wherever it
   is and every worker returns (queue.go:90-103, 114-153). *)
StopEnds == daemon = "closing" ~> daemon = "down"

-----------------------------------------------------------------------------
(* What the documentation says and the code does not do. *)

(* No more jobs execute at once than the limit allows (man/mirrord.1: "Maximum
   number of worker goroutines running mirror jobs simultaneously").  A worker
   that requeues its job and has not yet removed its entry can see the job
   claimed again; it then removes the entry of its successor, which the
   dispatcher no longer counts (queue.go:163, 194). *)
ConcurrencyLimit ==
  Limits = {} => Cardinality({w \in Workers : Executing(w)}) <= concurrency

(* A cancelled job is final: no worker, dispatcher or restart moves it on
   (job.go:34, "no further automatic transitions").  Cancelled between
   ClaimNextJob and its registration, a job runs all the same and its outcome
   overwrites the cancellation (queue.go:142-165, 214-233). *)
CancelledIsFinal ==
  [][\A j \in RowsIn({"cancelled"}) :
       j \in DOMAIN jobs' /\ jobs'[j].state # "cancelled"
         => \E c \in Clients : NewRequest(c) \/ FinishRequest(c)]_vars

(* No host starves: a queued job of the highest priority is claimed some time,
   whatever the other hosts have queued (man/mirrord.1: "without starving any
   single host").  Among idle sites the smallest name always wins. *)
NoHostStarved ==
  \A j \in JobId : j \in RowsIn({"queued"}) ~> j \notin RowsIn({"queued"})
=============================================================================
