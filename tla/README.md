# A verification development for mirrortools

mirrortools mirrors remote collections (web and FTP trees, photo libraries, mailboxes,
repositories) into local directories.  `mirror` runs one mirror job in the foreground;
`mirrord` is a daemon that keeps a queue of such jobs in a SQLite database and executes them
on a bounded number of workers; `mirrorq` and the web interface are its clients.  This
directory holds TLA+ modules of the parts of that program whose correctness depends on
order, concurrency and failure, TLC configurations that check them on small instances, and
TLAPS proofs of what can be said for every instance.

## The system

| part | state | operations | what makes it hard |
|---|---|---|---|
| job store (`internal/daemon/store.go`) | tables `jobs`, `queue_state`, `job_logs`; a mutex | claim, finish, fail and retry, recover, the single-job operations, batches, settings | rows outlive the process; several methods write the same columns under different conditions |
| queue (`internal/daemon/queue.go`) | `paused`, `concurrency`, `activeJobs`, `runningCancels` under `q.mu`; `notifyCh`, `stopCh`, a wait group | `Start`, `Stop`, `dispatchLoop`, `runWorker`, the API operations | three copies of "what is running" (table, two maps, goroutines) changed in different critical sections |
| executors (`executor.go`) | a child process and its pipes | `Run` | cancellation, pipes, children that outlive the daemon |
| log hub (`loghub.go`) | a ring of lines per job, subscriber channels | `Broadcast`, `Subscribe`, `Unsubscribe` | snapshot followed by live lines, slow subscribers |
| HTTP API (`server.go`), authentication (`auth.go`) | configuration, event subscribers; sessions, OAuth states | handlers | a configuration reload replaces the authenticator under running requests |
| daemon process (`cmd/mirrord`) | database, sockets | start, signal, shutdown | the order of opening, recovering, listening |
| clients (`client.go`, `cmd/mirror`, `cmd/mirrorq`) | none | one request per command | none |
| HTTP, FTP mirrors | a table of URLs or paths with their state, files being downloaded | crawl, resume, update | interrupted runs, changed remote content, resuming partial files |
| Gopher, groups.io, SourceForge mirrors | the files on disk, and nothing else | walk a remote tree, skip what is there | listings and downloads are separate requests; failures are passed over; a file that is there may not be the file that is meant |
| archive.org mirror | the files on disk, a `.done` mark | list, download, mark | what a mark still says after a later run |
| Google Photos, iCloud mirrors | an index of what was downloaded, files on disk | list, resolve a name, download, record | the index and the disk disagree after a crash; name collisions; a session with a second factor |
| IMAP mirror | a Maildir and two marker files per folder | select, fetch, mark | UIDs that are renumbered, markers that are two files |
| git mirror | a repository and a temporary one | clone, convert a bare repository, fetch and merge | a dozen commands, any of which may be the last |
| rsync mirror | what `rsync` keeps | run `rsync` | nothing of its own |
| configuration, registry, version, packaging | none that changes | parsing | none |

How they interact: clients call the API; its handlers call methods of the queue, each on a
goroutine of its own; the queue calls the store, which serialises everything under one
mutex; the dispatcher goroutine claims rows and starts worker goroutines; a worker runs the
executor, whose output goes to the log hub and to `job_logs`, and stores one outcome.  The
executor runs the `mirror` program, which knows nothing of the daemon: a mirror method
resumes from what it finds in its destination directory.

What makes each part correct:

* store: a job's attempts stay within its budget; a quarantined row says why; one method
  call is one transition.
* queue: a running row belongs to somebody who will write its outcome; a job is executed by
  one worker at a time, at most `max_retries + 1` times, and never again once it is over; the
  limit on workers holds; no slot leaks; the dispatcher does not sleep through work; a
  shutdown ends and leaves nothing half done; every job settles.
* log hub: a subscriber sees each line once, in order, or loses it because it is slow.
* authentication: a session or OAuth state is accepted only while it is valid, a state once.
* executors: an execution ends, cancelled or not, whatever its pipes fill up with.
* crawlers: a run that reports success has visited everything in scope; a resumed run
  repeats nothing that is complete and skips nothing that is not; a file under its final name
  ought to be one version of the remote file (of the FTP mirror, it need not be: `MCFtpCrawl_pieced`).
* photo and mail mirrors: what the index says is on disk is on disk, two items never share a
  file, a place to resume from is behind nothing that was not looked at.
* walks and archives: a run that reports success has left nothing out, and a mark of
  completeness is true.  (The Gopher and the groups.io mirror promise less: they give up on what
  keeps failing and report success all the same.)
* git: the destination never loses the history it holds; success means the fetched commit, in
  the work tree as well if HEAD is on a branch that upstream still has.

## The plan

Written, in this order: `JobStore`, `Queue` (which extends it), the abstract `JobLease` and
the refinement, `SecondDaemon`, the proofs of the two core modules; `FtpCrawl` with its
proofs, `HttpCrawl`; `FileNames`, `GPhotos` and `ICloud`; `Imap`; `Git`; `LogStream` and
`Auth`; `Archive`, `Gopher`, `GroupsIO` and `SourceForge`; `Mirrors`, the mirror process, which
extends `ICloud` and `Imap` and holds an instance of each other method.  `MCMirrors` gives its
constants values, and `MCServer` (which extends `LogStream` and `Auth`) puts two parts that
share nothing into one run.

To come:

1. An abstract specification of a resumable crawl (known, settled, mirrored) that `FtpCrawl`
   and `HttpCrawl` both implement.
2. `LogStream` composed with `Queue`, in place of the assumption that an execution ends.
3. A proof still worth having: what a Gopher run achieves without `PlacesApart`.

## The modules

`JobStore` is the database.  A row is a record of the columns the queue decides by; a method
of `Store` is one atomic action, since every method holds `s.mu` throughout; `Update` and
`Remove` are SQL's `UPDATE` and `DELETE`, and a `WHERE` clause is the set of rows given to
them.  `StoreSpec` is the store under callers that may do anything in any order: it is the
abstract specification of the table's contents.  The one method that is not one SQL
statement and no transaction, `RecoverOrphanedJobs`, also has its first half as an action,
`RequeueOrphans`, for a crash or an error between its two UPDATEs.

`Queue` extends it with everything that lives in the process.  An action is one critical
section:

| code | actions |
|---|---|
| `Start`, crash, `Stop`, `main` | `Start`, `StartInterrupted`, `Crash`, `StopClose`, `StopCancel`, `StopReturn` |
| `dispatchLoop` | `DispatchTop` (stopCh), `DispatchSnapshot` (under `q.mu`), `DispatchClaim`/`DispatchNothing` (the store), `DispatchRegister` (under `q.mu`, then the goroutine), `DispatchWake` (the select) |
| `runWorker` | `ExecReturn` (executor and context), `RecordOutcome` (one store call), `Cleanup` (the deferred function) |
| API operations | one action for the first critical section, one (`StorePaused`, `StoreConcurrency`, `StoreJob`, `StoreBatch`, or `StoreFails`) for the store call that follows, `NotifyDispatcher` for the notify |

`client[c]` is what the request in flight still has to do.  A worker slot is a goroutine; its
context is cancelled through `runningCancels`, which maps a job to the slot that its cancel
function belongs to, so that an entry deleted by another worker on the same job is visible.

`JobLease` says what the queue promises about executions, with no goroutine, table or
restart in it.  `Queue` instantiates it with a status and a credit computed from its state
(`LeaseStatus`, `LeaseCredit`).  A job claimed and not yet recorded is leased even after
somebody cancelled its row; a requeued or recovered one has paid one credit.

`SecondDaemon` composes `Queue` with a second process on the same tables, which does what
`main` does before it finds out that it is not alone.

`FtpCrawl` is a sequence of calls of `Mirror` of `ftpmirror` on one destination directory.
What outlives a call is the table (`entries`), the mirrored files and the `*.ftpmirror-tmp`
files; `Interrupted` ends a call between any two of its writes and leaves those three as they
are.

| code | actions |
|---|---|
| `Mirror` | `Begin`, `AddRoot` or `AddRootFails`, `Reset` (the UPDATE), `Finish` |
| `run` | `Pick`, which also passes over what is out of scope |
| `process` | `Done`, `Permanent` (5xx), `Transient` (retry or give up), `DiskFails`, `ConnectFails` |
| `listDir` | `ListDir`, `Upsert` for each entry listed, `ListedAll` |
| `download` | `Retrieve` (offset, RETR, opening the partial file), `Receive`, `Rename` |

A file's content is a length and the set of versions its pieces come from: enough to see a
truncated or a mixed file.  The server answers with what it has at the time; a listing and a
transfer may see different versions.

`HttpCrawl` is the same for `httpmirror`.  What it adds is the scope with its exception for
requisites, conditional requests, redirects, and listings that are read and not kept.
`Saved` covers one response from the request to the rename, because nothing in between is
kept; `EnqueueLink`, `EnqueueRequisite` and `MarkDone` are its database writes, one each.
What a page refers to is a constant of each of its versions, so that parsing is not modelled
while its consequences are.

`LogStream` is the output of one job: the child and its two pipes, the scanning goroutines of
`CommandExecutor.Run`, the hub's ring and channels, the `job_logs` table and the clients of
the event stream.  `Scan` is one line from a pipe through `Broadcast`; `AppendLog` follows it
as a step of its own, so that the two scanners interleave.  A program that the child starts
(git) inherits standard error and may outlive it, which is what `Kill` does not end.

`Auth` is the `AuthManager` and the handlers that call it.  A handler reads `s.auth` again
for every call, so a login is approved by one manager (`Login`, `Callback`, `Exchange`) and
may create its session in another (`CreateSession`).

`FileNames` is `resolveFilename`, which the two photo mirrors share; `GPhotos` and `ICloud`
extend it.  In every mirror module the state has three parts: the other side (`library`,
`album`, `mail`, `listing`, ...), what outlives a run (`disk`, `tmp`, an index or a mark), and
the run's memory, which `Forget` empties.  `Crash` ends a run between any two of its writes
(in `Imap`, whose names must not be those of `ICloud`, `LogOut` and `Killed`).

| module | code | actions |
|---|---|---|
| `GPhotos` | `bootstrap`, `refreshSession` | `Start`, `Bootstrap`, `Refresh`, `Abort` |
| | the loop of `Mirror` | `ListPage`, `NextPage`, `Take`, `Record` (the index is saved), `Finish` |
| | `downloadVideoThumbnail`, `downloadCompanions` | `TakePoster`, `ResolveGroup`, `TakeCompanion`, `CompanionsDone` |
| | `writeAtomically` | `Commit`; every failure before it is `FetchFails` |
| `ICloud` | `authenticate` | `Validate`, `NoSaved`, `SignIn`, `Verify`, `SaveSession`, `Abort` |
| | the loop of `Mirror` | `ListPage`, `PassOver`, `Take`, `TakeVideo`, `Commit`, `FetchFails`, `Record`, `PageDone`, `Finish` |
| `Imap` | `mirrorMailbox` | `Select`, `WriteMessage`, `FolderAborts`; the markers are truncated and written in four steps, `TruncateValidity` to `WriteLast` |
| `Git` | a first clone | `RemoveTemp`, `CloneBegins`, `CloneEnds`, `RenameClone` |
| | `convertBareToWorktree` | `ClearTemp`, `MoveAside`, `MakeDir`, `MoveInside`, `Configure` |
| | `updateWorktree` | `SetUrl`, `FetchSucceeds`, `UpdateFails`, `Merge`; upstream has `Push` and `Delete` |
| `Archive` | `Mirror`, `downloadFile`, `pacer.do` | `Start`, `Metadata`, `Skip`, `Download`, `Get`, `Commit`, `RequestFails`, `Fail`, `Finish` (the mark) |
| `Gopher` | `get`, `fetch`, `readMenu`, `writeFile` | `Get`, `ReadMenu`, `Misread`, `Create`, `Commit`, `Empty`, `FetchFails`, `Leave`; a menu's `00README` is truncated and written in two steps, `OpenReadme` and `WriteReadme`, or `ReadmeFails` |
| `GroupsIO` | `walkDir`, `list`, `getFile` | `EnterDir`, `ListPage`, `ListFails`, `GetFile`, `Body`, `Commit`, `DownloadFails`, `LeaveDir` |
| `SourceForge` | `mirrorRoot`, `folder`, `file` | `Redirected`, `FindRoot`, `List`, `EnterFolder`, `File`, `Get`, `Commit`, `Retry`, `GiveUp` (`fail` notes the error), `TimedOut` (it does not), `LeaveFolder` |

Three things these modules keep because a property turns on them.  In `Git` a repository's HEAD
may be detached and upstream may delete or rename its one branch, which `fetch --prune` takes
over: `updateWorktree` then returns without an error and leaves the work tree as it is.  In
`Gopher` a menu's information lines may arrive whole, in part or not at all, and its `00README`
is rewritten in place with what came on each visit; between `OpenReadme` and `WriteReadme` it is
short.  In `SourceForge` an answer that is not the file passes if nothing tells it from the file
(`Mistaken`: no checksum is listed, and it is no HTML or comes from a URL that ends in `.html`).

The recursion of the walks (`readMenu` and `get`, `walkDir`, `folder`) is a stack of the
entries that each level has yet to deal with.

The pages, folders and directories at hand are sets.  What their order decides is a number of
each entry: an item's time (`GPhotos`), a place in a listing that is oldest first (`GroupsIO`,
where it is the number of older entries, so that it moves when one is deleted), the order of
names (`SourceForge`), a line of a menu (`Gopher`).  A run deals with the least entry that is
left.

`Mirrors` is a process of `cmd/mirror`, which resolves a method and calls its `run` once:
`ProcessInit` chooses the method, `ProcessNext` is a step of it, and the variables that only
other methods have stay as they are.  Methods that keep the same kind of thing share a variable
(`at` for where a run is, `kept` for the files), and the constants of each are a record.

The theorems are in eight modules, of which some speak of several components:

| module | proves about |
|---|---|
| `QueueProofs` | `JobStore`, `Queue`, `JobLease` |
| `ServerProofs` | `LogStream`, `Auth` |
| `FtpCrawlProofs`, `HttpCrawlProofs` | `FtpCrawl`, `HttpCrawl` |
| `GPhotosProofs` | `FileNames`, `GPhotos` |
| `CloudMailProofs` | `ICloud`, `Imap` |
| `MirrorProofs` | `Git`, `SourceForge`, `GroupsIO`, `Gopher`, `Archive`, as instances in `Mirrors` |
| `ProcessProofs` | `Mirrors`, and the types of the three walks |

The `MC` modules and the `.cfg` files hold the values for TLC.

## The runs

| run | question | result |
|---|---|---|
| `core` | does any overlap of outcomes, manual quarantines, retries of running jobs, a crash or a shutdown break the table or the maps | holds |
| `wakeup` | can the dispatcher sleep through work | no |
| `lease` | does the queue implement `JobLease` when nobody resets jobs | yes |
| `progress` | does every job settle, does a shutdown end, is a limit of one exclusive | yes |
| `limit` | is the limit on workers kept | **no** |
| `second` | does recovery only touch orphans | **no** |
| `ftp` | is a successful FTP run complete, are its rows and lengths current, is a file that never changed never truncated, does a run end | yes |
| `http` | is a successful HTTP run complete and current, does it stay in scope, does it end | yes |
| `mirrors` | of the eight other methods, whichever is run, killed or failing anywhere: is success complete (of Gopher, groups.io and SourceForge, where nothing failed unnoticed), is no mirrored file overwritten (but for a `00README`), recorded twice or recorded without being there, is a resume point behind nothing that was not looked at, has a git run that succeeds what it fetched | yes |
| `server` | is a log stream without gaps, does an execution return; does a state buy one session, is a session that is over refused | yes |
| `renumbered` | is an IMAP folder that a run completed mirrored whole | **no** |
| `converted` | does a git destination keep its history | **no** |

Eleven more configurations are kept to run by hand; TLC finds each one's property violated:

| configuration | property | what it shows |
|---|---|---|
| `MCQueue_cancelled` | `CancelledIsFinal` | a cancelled job that runs and completes all the same |
| `MCQueue_hosts` | `NoHostStarved` | a host whose job is never picked |
| `MCFtpCrawl_order` | `NothingLeftPending` | success with work left, after a file was mirrored before its directory |
| `MCHttpCrawl_scopes` | `UpdateIsComplete` | a page that is missing after the scope was widened |
| `MCFtpCrawl_pieced` | `UpdateIsWhole` | an updated file made of two versions |
| `MCMirrors_timedout` | `FailuresAreNamed` | a file missing after a SourceForge run that names no failure |
| `MCMirrors_adopted` | `AdoptedIsOwn` | an item recorded with the file of another |
| `MCMirrors_deleted` | `NewItemsFound` | an item skipped for good after a deletion from the album |
| `MCMirrors_forced` | `FailureLeavesNoMarker` | a mark that a failed forced run leaves |
| `MCMirrors_misread` | `MenusAreDirs` | a menu stored as a file |
| `MCMirrors_described` | `AllFilesThere` | a file overwritten by another's description |


Bounds.  Two jobs and two workers are the least with two goroutines on two jobs and on the
same job; the claim order needs no more, since it is a strict order on pairs.  `limit` has
three of each because the flaw needs a third job to start.  One client is enough because one
request already overlaps with the dispatcher, with every worker and with the shutdown; two
requests overlap only in `Pause` and `Resume` (see below).  One restart is a crash or
shutdown at every point, followed by a complete life of the daemon; a second one starts from
the same kind of table.  `max_retries` is 1 or 2: the last attempt, and one before it.
`core`, `wakeup` and `lease` treat the worker slots as symmetric; `progress`, which has
liveness properties, does not.  `wakeup` has no restart: a lost wakeup is a matter of one
life.  The operations each run allows are in its `.cfg`; between them all are used.

`ftp` has a directory, an empty subdirectory and a file: the least with two upserts for one
listing, so that an interruption may come between them, and with something out of scope.  The
file is two pieces long, so that a transfer may break in the middle, and has three versions,
of which two differ in nothing but the mtime.  Three runs are one that mirrors, one that is
cut short while updating, and one that must put things right; two changes outside, one for
each pause between them.  `http` has one URL of each kind: a start page that redirects, a
page that becomes a listing, one that goes, a stylesheet that becomes a redirect, and a page
on another site.  Two attempts are one retry and one failure.

`mirrors` chooses one method at the start and keeps it, as a process does; what the other
methods would use stays 0.  Its instances have no bound on the number of runs: a run may
follow any other.  What is bounded is the other side: versions of a file, uploads, changes.
Each instance is the smallest in which the names that may collide do collide: for Google
Photos a video whose poster wants a photo's name and a RAW capture with its companion, for
iCloud a Live Photo whose video wants another item's name, for Gopher a menu that leads back
to its parent and a text whose path another's goes through, for git a branch that goes away, for groups.io a file named like
another's description and a file named README.  Pages have two entries, so that there is a
next page.  One retry and one IMAP folder are enough: attempts share nothing but their count,
folders nothing but the run.  The folder gets three UIDs and one renumbering; the item that
the iCloud user deletes (`Deletable`) is the Live Photo, the one with two files; the Gopher
entry that appears later (`Later`) is the menu that leads back.

In `server` three lines overfill a pipe (1), the ring (2) and a channel (1) together; every
distribution of the lines over the two pipes, and every choice of the ones that are too long,
is an initial state.  Three tokens are a state, the session made for it, and the one that
must not be made; two browsers race for it; the configuration is saved once.

Deadlock is checked in every other run of the daemon: one that is up can always wait for its
timeout.  The crawlers stop when the bound on runs is reached, so their runs do not check it;
that a run under way never gets stuck is `RunEnds`.  `mirrors` does check it: a new run can
always begin.  `server` does not: a job whose line was too long is stuck, as in the code,
and a behaviour that has drawn all its tokens has nothing left to do.

Fairness.  `FairSpec` is weakly fair to the goroutines the daemon owns: the dispatcher, each
worker, a request already begun, `Stop` once it was called, and the start of a stopped
daemon (`Restart=on-failure` in the service unit, or an administrator).  Go's scheduler runs
every goroutine that can run, and the locks are held for bounded work.  That an execution
ends some time is an assumption on the mirror methods; it is the weakest of these, see the
observations on pipes.  No client has to send anything, so `progress` gives requests no
fairness to start, and its clients send only enqueues and cancels: pausing a job for ever, or
retrying it for ever, keeps it from settling, rightly.  The crawlers are weakly fair to the
whole of `Mirror`: it runs on one goroutine and waits for the server only.  `ftpmirror` bounds
each of these waits; `httpmirror` bounds the wait for a response's header and not its body,
so that the server goes on sending is an assumption there.  Interruptions are never fair, and
none is needed for a run to end.  In `server` every process and goroutine is scheduled, and a
program that has written all it has to write exits; nobody has to connect, read or cancel, and
`RunReturns` holds without it.  `mirrors` has safety properties only and no fairness.

## What the runs found

* `limit`: `runWorker` first stores the outcome and then deletes `activeJobs[id]` and
  `runningCancels[id]`.  If the outcome was "queued again", the dispatcher may claim the job
  and register it in between; the first worker then deletes the second one's entries.  The
  dispatcher counts one active job too few and starts one more than the limit, and the
  second worker can no longer be cancelled.  `OneAtATime` holds all the same: with a limit of
  one the dispatcher does not get that far before the cleanup.
* `MCQueue_cancelled`: between `ClaimNextJob` and its registration a job is running in the table and
  unknown to `q.runningCancels`; a cancel then marks the row cancelled, the worker starts, and
  its outcome overwrites the mark.
* `MCQueue_hosts`: `ClaimNextJob` prefers idle sites, then the smaller site name, then the smaller
  path, and only then the older row.
* `second`: the queue is started before the socket is tried.
* `MCFtpCrawl_order`: `mirror ftp -update` on a directory after one of its files was mirrored by its
  own URL into the same place.  The file's row has the smaller id, the pass is beyond it when
  the listing puts it back to pending, and the run reports success.  The next run does it.
  `PassIsComplete` shows that files as start paths are the only cause.
* `MCHttpCrawl_scopes`: a page mirrored with a narrow scope is done, and its links outside were not
  recorded.  When the scope is widened, the page is not fetched again or answers 304, and is
  not parsed, so what only it links to stays unknown, with `-update` as well.

* `MCFtpCrawl_pieced`: a partial FTP download is resumed by its length alone (`ftpmirror.go:584-607`).  If the
  file changed on the server in between, the result is the beginning of one version and the rest
  of another; it has the listed length, and its row has the new size and mtime, so that no later
  update looks at it again.
* `MCMirrors_timedout`: `fail` drops errors that are `context.DeadlineExceeded` (`sourceforge.go:616-619`).
  Timeouts of the dialler and of the transport are that too, although the run's context is alive;
  one on the last attempt is retried no more and named nowhere, and the run returns no error.
* `renumbered`: `maildirHasUID` knows a message by its UID, and files of an earlier
  UIDVALIDITY keep their names: after a renumbering a message may be taken for one that is
  there, and the markers move past it.
* `converted`: `convertBareToWorktree` moves the bare repository to the temporary name that a
  first clone begins by removing; a run killed in between leaves the next one with nothing at
  the repository's place, and that one removes the only copy.
* `MCMirrors_adopted`: a file that was renamed into place before a crash and never recorded is
  adopted by the first item whose name leads to it, be it another one.
* `MCMirrors_deleted`: the resume point of the iCloud mirror is a rank, and ranks shift when
  items in front are deleted.
* `MCMirrors_forced`: `-f` works on an item whose `.done` stays where it is.
* `MCMirrors_misread`: the root of a Gopher URL without a type is judged by its first read.
* `MCMirrors_described`: `store` overwrites whatever has the name `<file>.desc`.

Observed in the other mirrors, without a run of their own: the iCloud resume point also moves
past items out of the range of dates and items whose download failed (`icloud.go:1337`;
`RankCovers` counts these as passed over); a session that was restored is saved again with the
cookies Apple happened to renew only (`icloud.go:298`); an IMAP run killed while it writes a
marker leaves an empty one, at which every later run fails (`imap.go:507`); archive.org files
with a listed size are judged by that alone, and SourceForge files without a checksum by their
presence; a groups.io run whose context is cancelled below the root logs that and returns no
error (`groupsio.go:281`), though `mirror` never cancels one; a Gopher item that keeps failing is
logged and passed over, as is all below the root of a group, so that success says nothing of it
(`gopher.go:272-273`, `groupsio.go:281`); a Gopher menu that breaks off replaces a longer
`00README` by a shorter one (`gopher.go:402-403`, `446`); a git run reports success and leaves
the old work tree where HEAD is detached or the branch is gone upstream (`git.go:350-358`).

Observed in the crawlers, without a run of their own: a start path that is a file is never
listed, so that `-update` does not notice that it changed (`ftpmirror.go:275-282`); and an HTTP
site that goes back to an earlier version after a run was cut short between the rename and the
row (`httpmirror.go:523`, `542`) answers 304 for a file that is the later one.

Observed in the daemon, without a run of their own: the limit given by `-concurrency` or
the configuration is always replaced by the stored one, whose default is 2
(`queue.go:74-79`, `store.go:674-700`); quarantining a running job ends as cancelled, because
the worker's outcome is written last; a cancel that comes after the worker looked at its
context is acknowledged and has no effect; a shutdown records running jobs as cancelled by
the user, so they are not resumed; a job registered after `Stop` cancelled the others runs to
its end first; `Pause` lets one job start that the dispatcher had already decided on;
overlapping `Pause` and `Resume` may store the setting that the memory does not have;
`RecoverOrphanedJobs` quarantines where its comment says failed; the log hub never forgets a
job (`Clear` has no caller); and a line of more than 64 KiB from a child process ends the
reading of its pipe, after which the child may block for ever (the exception in `RunReturns`).

## What is proved

Of the queue, for any number of jobs, workers, clients, restarts and attributes, from the
named assumptions on the constants in `JobStore` and `Queue` only:

* `StoreInvariant`: under `StoreSpec`, types, `RetryBudget` and `QuarantineExplained`.  The
  invariant is stated row by row (`GoodRow`), since every method maps rows to rows: one lemma
  says that an `UPDATE` whose function keeps a row good keeps the table good.
* `QueueImplementsStore`: every behaviour of `Queue` is one of `StoreSpec`.  With it
  `BudgetKept` and `ReasonKept` are corollaries.
* `TypeCorrect`.
* `NoOrphansWhileUp` and `StopIsClean`: the type invariant with `DownIsEmpty` (a stopped
  daemon has no goroutines) is what makes `RunningHasOwner` inductive: only a claim makes a
  row running, and its owner leaves only by recording an outcome, which is a row state other
  than running.  When `Stop` returns nobody owns anything.
* `EntriesStayLive`: a worker deletes by job id, but only after it is the last or the
  successor's entry is its own; the invariant says what an entry implies, not what a worker
  implies, which is why it holds and `ConcurrencyLimit` does not.
* `NeverTwiceAtOnce`: strengthened by `OwnedRows`: without resets a row that is owned is not
  queued, so it cannot be claimed.
* `LimitOneIsSequential`: strengthened by `Solo`, which follows the dispatcher from its
  snapshot to the registration: while it is about to claim or register, no worker is in
  flight.
* `WorkIsNoticed`: no wakeup is lost.  `NoLostWakeup` is inductive as it stands, read as a
  promise: a step that makes work claimable, frees a slot or parks the dispatcher leaves a
  token or somebody who will send one, and nobody who will is stopped before it.  The other
  store methods never make a row claimable (`NothingQueued`).
* `QueueImplementsLease`: while nobody resets jobs the queue implements `JobLease`, so that a
  job is executed at most `maxRetries + 1` times, by one worker at a time, and never again once
  it is over.  The refinement goes job by job, since every step of `JobLease` does.  A step of
  the queue that records an outcome gives a lease back, which takes two invariants about the
  row of a job that is being executed: it is not queued (`OwnedRows`), or a claim would lease
  the job twice, and it is within its budget whatever a cancel or a quarantine has made of it
  (`OwnedBudget`; `RetryBudget` speaks of live rows only), or a requeue could cost a credit that
  is not there.

Of the FTP crawl, for every tree, every size of the files, and any number of runs, attempts,
changes and interruptions, from the named assumptions in `FtpCrawl`:

* `TypeCorrect`, with `RowsOK`: ids are distinct and at most the number of rows, so that the
  next one is the largest.
* `FilesAreWhole`: a file that never changed on the server is never seen truncated.  The
  strengthening, `PiecesOK`, relates the temporary file, the version being sent and the size
  that was listed, which is what the end of a transfer is judged by.
* `PassIsComplete`: if all start paths are directories, one pass leaves nothing pending.
  `YoungerThanParent` and `DirsUnlisted` say why: an upsert only puts back files, whose ids
  are larger than that of the directory at hand.  `Passed` is the loop's invariant and
  `ErrorsCounted` makes an error of this run show in its result.
* `DoneStaysDone`: without `-update` what is done is left alone; a run only writes the entry
  at hand, which is pending (`CurPending`).
* `TreeIsKnown`: after success all that was listed has a row.  `ListingRest` says it of the
  listing at hand, of which some is still to be recorded, and `DoneIsKnown` of every directory
  that is done, for as long as what the server has is what was listed (`Certain`).
* `UpdateBringsCurrent`: after a successful update each file that was listed and is done has the
  row and the length of the server's version, and its last piece is of that version.
  `ListingCompared` follows a listing through its upserts, `Downloading` the transfer through
  the length at which it was resumed; after the directory a row says what the server has, and
  only a file of that size, completed from that version, is marked done.  Of its other pieces
  nothing can be proved: `UpdateIsWhole` does not hold (`MCFtpCrawl_pieced`).

Of the HTTP crawl, for every site whose redirects have one target, every scope, and any
number of runs, attempts, changes and interruptions, from the named assumptions in
`HttpCrawl`.  A step does one of three things to the rows (`Entered`, `Settled`, `Restarted`)
or none, and the proofs follow these.

* `TypeCorrect`, with `RowsOK`, and `DoneStaysDone`, as for the FTP crawl.
* `ValidatorFitsFile`: the validator of a row that is done is the file's.  It needs an order:
  validators are no newer than their file, files no newer than the server (`FilesOK`), since
  an interruption leaves a new file with an old validator, which must then not be answered 304.
* `UpdateBringsCurrent`: after a successful update every page is as the server has it.  It
  holds from any start URLs: an update begins with no row done (`CurrentOK`).
* `CompleteInOneScope`, and with one source URL `SuccessOfOneSource`: success means a complete
  mirror.  `ValidatorsRecorded` says what a 304 relies on: all that a recorded version refers
  to was recorded, by whichever run; `AtHand` that what is not yet is noted to be.  Since
  earlier runs recorded it, it speaks of their scopes, and holds where these are one
  (`OneScope`); the run `MCHttpCrawl_scopes` shows that it fails where they are not.
* `NoEscapeFromOneScope` and `NoEscapeOfOneSource`: the crawl leaves its scope for requisites
  only, under the same condition and for the same reason: a row outlives the run that made it.

Of the output of a job, for any number of lines and readers, any sizes of the ring, the
channels and the pipes, and whatever the job's programs write, from `SizeAssumption`:

* `StreamHasNoGap`: what a reader has been sent, and what waits for it, is the log from the
  first line it is sent on, and a reader that was too slow still gets its lines in order.
  `Pipes` says that a line is in one place on its way, so that no line is logged twice; `Ring`
  that the hub's buffer is the end of the log, which makes the first batch of a new reader join
  the lines that follow it; `Served` and `Follows` are the two halves of the promise, for a
  reader that nothing was dropped for and for one that has lost lines.

Of the authentication, for any number of browsers, logins, sessions and reloads of the
configuration, from `LimitAssumption`:

* `OneSessionPerState`: an OAuth state buys at most one session.  `StatesUnspent` says where
  an unspent state can be, in the current manager or in the hands of one callback, and
  `FutureIsEmpty` that a manager which a reload creates knows none.
* `OverIsOver`: a session that is over is refused.  `EndedIsUnknown` relates what a handler
  knows to what was over when it began, since it may look in a manager that was replaced.

Of the IMAP mirror, for any folders, any number of messages and any number of runs that end,
fail or are killed, from `BoundAssumption`:

* `RecordedIsMirrored`: the recorded UID of a folder that was never renumbered covers its
  mail.  `Coming` follows the run between the `FETCH` and the markers: what is neither in the
  Maildir nor still to come is newer than all that came and will come.
* `MirroredStays`: the mail that is mirrored stays.
* `TypeCorrect`: a marker is whole and in range, or empty, or was torn by a kill.  `InBounds`
  says of the numbers a run holds that they are those of messages that exist, so that what it
  writes is in range (`NumbersFit`).  The run checks the types of the mirrors as one invariant,
  `AllTypes`.

Of the iCloud mirror, for any album, any file names and any interruptions:

* `ListingIsVerified`: `Verified` says that a token is saved only after the second factor.
* `IndexIsSound`: the index names files that are on disk, each under one entry.  `FilesInv`
  relates the taken names to the index, to the files of the item in hand and to the download.
  It needs no lemma on suffixes: any name that is not taken will do.
* `TypeCorrect`, from `ItemAssumption`: `Walked` relates the page at hand, the entry of it the
  run is at, and the item that was taken there.
* `NothingUnseen`: as long as nothing is deleted from the album, the rank at which the next run
  will begin is behind no item that is neither recorded nor was passed over.  `RankOK` says so
  of the rank in memory and of the saved one, which lags; `PageCovered` follows the page: each
  of its items is still to come, recorded, passed over or without its second record.  Records
  that do not pair are not counted, so that the rank moves by no more than what was looked at.
  The condition is needed: `MCMirrors_deleted` shows what a deletion does.

Of the Google Photos mirror, for any library, any names and times of its items, any page size
and any interruptions, from `RangeAssumption` and `NameAssumption`:

* `TypeCorrect`: `Running` says what is in hand at each step of a run.
* `IndexIsSound` and `NothingOverwritten`: `InHand` says that the names of the item in hand are
  on disk, each once, and that the download's is taken and not on disk, so that a commit
  replaces nothing; `Taken` that the names of the index are taken and not in hand, so that an
  item that is recorded shares no file with another.
* `SuccessIsComplete`: `Covered` follows each item to be fetched: it is recorded or failed, on
  the page at hand, or older than the cursor and still to be listed.  That nothing falls between
  two pages is a fact about the listing: what is not on a page is older than all that is
  (`Listing`, `Oldest`), which needs the least of a set of times (`Least`) and the number of
  the newer items (`Newer`).  Items uploaded during a run are not the run's to fetch.

Of the archive.org mirror, for any files, versions and failures, from `FileAssumption`:

* `MarkedIsComplete`: behind the mark every file of the listing it was made for is there.
  `Mirrored` says so of the mark and of each file the run is done with.  `Versions` orders what
  is compared: the version the mark was made for, the listed one and the item's, of which each
  is the later one, so that a newer file never passes for less than what was listed.
* `TypeCorrect`.

Of the git mirror, for any history and any kills, from `ChangeAssumption`:

* `CloneIsCurrent`: success means that the remote branch is what upstream has, and that the work
  tree is of that commit, or of a later one, with all of its history.  `Unbroken` says what a run
  finds: a repository that is bare or plain, with the files of its head.  It has the conditions
  of the property: no conversion was cut short, and, for the work tree, HEAD is on the branch and
  upstream still has it.

Of the walks, for any tree of any depth, any failures and whatever earlier runs left.  A walk
is complete because of what is still ahead of it: a file is there, or a folder on the way to
it is in hand or on the stack.  `TakeNext` and `PopFolder` say that dealing with an entry loses
nothing but that entry, `WayOn` that listing a folder shows the next step to whatever is below
it.  That a path's beginnings are folders, and no file is one, is an assumption on the tree.

* `ForgeIsComplete` (SourceForge, from `AreaAssumption`): `ForgeCovered` is the above;
  `Unmoved` says that what was listed is what is there as long as nobody changes the area, and
  `Genuine` that what an earlier run left is the file, unless an answer that is not may pass for
  it (`Mistaken`), since a file without a checksum is not looked at again.  It is about runs in
  which no request timed out on its last attempt (`clean`); `MCMirrors_timedout` shows
  that it must be.
* `GroupIsComplete` (groups.io, from `GroupAssumption`): `PagesRead` says that what the next
  page passes over was on the pages before it, which holds of a directory that is left alone
  and needs that no two of its entries have the same age (`Created` is injective).  Of the
  pages, the last ends behind the oldest and newest alike, since an entry's age is less than
  the number of entries (`PageShows`).
* `GopherIsComplete` and `NothingReplaced` (Gopher, from `SelectorAssumption` and
  `PlacesApart`): menus lead anywhere, so a run's end is not that a stack is empty but that
  what was seen is closed: `Entered` says of each menu seen that all it showed is seen or
  waits in a menu the run is in.  `Contents` relates each file and directory to the selector it
  stands for, and `InProgress` the exchange in hand.  `PlacesApart` excludes two things that
  `Place`, a translation of the server's names, may do: a file with the path of a menu, of which
  the second to come is lost, and a file with the path of a menu's `00README`, which
  `os.WriteFile` overwrites without looking.  Menus may share a path.  `00README`s are excepted
  from `NothingReplaced`: each visit writes them anew with the lines that came.  Of them
  `GopherIsComplete` says that a run in which no menu broke off leaves them whole: `NotesInv`
  says that a menu which was left has its whole `00README`, that one the run is in still has its
  lines in hand; a `00README` belongs to one path (`SameReadme`), and if several menus have that
  path it is the last one's.

* `ForgeTypesCorrect`, `GroupTypesCorrect` and `MenuTypesCorrect`: the types of the walks, of
  which the depth is the part that is not obvious.  `Deep` says that what is left on a level of
  the stack is further down the tree than the level; to a folder that is about to be listed
  there lead as many folders as its path has names (`FoldersAbove`), so that the stack never
  has more levels than there are folders.  A Gopher menu may lead back to one the run is in:
  `MenusOnce` says that the menus on the stack were got before and are not in hand, so that no
  menu is entered twice.

Of a mirror process, for every value of the constants of all methods, from `MethodAssumption`
alone, which is the methods' assumptions together:

* `ProcessTypesCorrect`, `ProcessIsCurrent`, `ProcessIndexIsSound`, `ProcessIsComplete` and
  `ProcessKeepsFiles` state of `ProcessSpec` the properties that the run `mirrors` checks.
  `StepOfRun` says that a step of a process is a step of its method or leaves the method's
  variables alone, `RunOfMethod` that its behaviours are therefore behaviours of the method,
  and each theorem then follows from the method's own.  `RunOfPhotos` is the same for Google
  Photos, whose theorems are about a module of its own.  They have the conditions of the
  properties: `ProcessIsCurrent` those of git, `ProcessIsComplete` that nothing failed unnoticed
  (`clean`) where the method may pass over failures, `ProcessKeepsFiles` the exception for
  `00README`s.  Completeness and `Kept` have the
  hypothesis `PlacesApart` of Gopher, which `MCMirrors` assumes of its server, so that TLC
  evaluates it.

With these, every safety property of every run that passes is also a theorem.

Two assumptions were found wanting by these proofs and added: that the files area of SourceForge
is finite, without which its folders have no number, and that no entry of a group has the path
that stands for "nothing in hand" in `GroupsIO`.

Left to TLC: liveness (`EveryJobSettles`, `StopEnds`, `RunEnds`, `RunReturns`), which no
installed prover reaches.

## What is not modelled

Timestamps, log lines, payloads and error texts decide nothing in the queue.  The queries
(`ListJobs`, `GetCounts`, `GetStatus`) change nothing.  SQLite is trusted to make each
statement and transaction atomic and durable, across processes as well.  A child process
that outlives a crashed daemon is not followed.  Of the FTP crawl, symbolic links, file times
and paths that change between file and directory are left out; of the HTTP crawl, the parsing
of pages, URLs that share a local file, sites that go back to an earlier version, and the
hand-over to git.

Of the mirrors in `Mirrors`: encodings (cookies, RPC and CloudKit messages, SRP, CSV, menu
lines, scraped pages, folder names, flags), modification times, waits between requests, and
the checks that keep a name inside the destination.  A download's content is its item and
kind, or a version; a wrong answer is one value that every check which could tell it does
tell.  In `Archive`, `GroupsIO` and `SourceForge` a size tells versions apart unless the
instance says otherwise.  git's own commands are atomic in `Git`: each has its effect or
none, but for a clone, which may be left half done.  A repository has one branch beside what it
fetched of it.  An error that only `Close` reports is left out of `GPhotos`, which ignores it
(`gphotos.go:1032-1042`).

Of `handleSaveConfig`, the reload is modelled that succeeds: when the secrets cannot be read the
old manager stays (`server.go:623-625`), which changes nothing for the sessions, and a
configuration that turns the authentication off admits everybody (`server.go:655-658`).

`handleStreamEvents` and `broadcastEvent` are left out: they send notices that carry the
current state, drop them for a slow reader, and repeat them with a heartbeat.  The API client
sends one request per method and retries nothing.  `rsync.go` runs a program and reports its
exit.  The command lines, the configuration parser, the method registry (a map filled by
`init` functions), the embedded web files and the packaging have no state that changes.
