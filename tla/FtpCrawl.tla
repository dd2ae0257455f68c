------------------------------ MODULE FtpCrawl ------------------------------
(***************************************************************************)
(* The resumable crawl of ftpmirror (ftpmirror/ftpmirror.go): a sequence   *)
(* of runs of Mirror into one destination directory, each of which may be  *)
(* cut short between any two of its writes.  The table entries, the files  *)
(* and the partial downloads stay; everything else is a run's own.         *)
(*                                                                         *)
(* A file's content is a version number on the server.  What is on disk is *)
(* how many pieces long it is and which versions the pieces are from, so   *)
(* that a file put together from two versions shows.  The size and mtime   *)
(* of a listing stand for the version listed.  Symbolic links, times set   *)
(* on local files, and entries that change between file and directory or   *)
(* are deleted on the server are left out; a deleted one answers like one  *)
(* that is refused.                                                        *)
(***************************************************************************)
EXTENDS Integers, FiniteSets, Sequences

CONSTANTS
  Dirs, Files,  \* paths on the server
  Parent,       \* the directory a path is listed in
  Roots,        \* the start paths Mirror is called with
  Size,         \* how many pieces each version of a file has
  MaxAttempts,  \* maxAttempts
  MaxRuns,      \* bound: calls of Mirror
  MaxChanges    \* bound: changes on the server, and files lost on disk

Path == Dirs \cup Files
Version == DOMAIN Size

ASSUME PathsAssumption ==
  /\ Dirs \cap Files = {} /\ Roots \subseteq Path
  /\ Parent \in [Path -> Dirs]
ASSUME SizeAssumption == Size \in Seq(Nat \ {0}) /\ Size # <<>>
ASSUME BoundsAssumption ==
  MaxAttempts \in Nat \ {0} /\ MaxRuns \in Nat /\ MaxChanges \in Nat

VARIABLES
  remote,   \* the server: the version of each file, 0 if it is not there
  entries,  \* table entries: path -> [id, listed, state], for the paths that have a row
  local,    \* the mirrored files
  partial,  \* the *.ftpmirror-tmp files
  pc,       \* where Mirror is
  root, update,  \* its arguments
  lastID,   \* run's lastID
  cur,      \* process: the entry at hand, and which attempt it is
  attempt,
  todo,     \* listDir: the entries of the listing not recorded yet
  sent,     \* download: the version the server is sending
  errors,   \* whether c.errors > 0
  result,   \* of the last run: "ok", "error", or "none" when it was cut short
  quiet,    \* history: nothing changed outside since the last run began
  runs, changes  \* counted for the bounds

disk == <<entries, local, partial>>
call == <<root, update>>
loop == <<lastID, errors>>
task == <<cur, attempt, todo, sent>>
world == <<remote, quiet, runs, changes>>
vars == <<remote, entries, local, partial, pc, root, update, lastID, cur, attempt, todo,
          sent, errors, result, quiet, runs, changes>>

Nothing == [len |-> 0, of |-> {}]
Whole(v) == [len |-> Size[v], of |-> {v}]
Content == [len : Nat, of : SUBSET Version]

(* A row is_dir when its path is in Dirs; directories are listed with no size. *)
State == {"pending", "done", "error", "failed"}
Entry == [id : Nat, listed : Version \cup {0}, state : State]

Listed(p) == IF p \in Files THEN remote[p] ELSE 0
Exists(p) == p \in Files => remote[p] # 0

Init ==
  /\ remote \in [Files -> {0, 1}]
  /\ entries = [p \in {} |-> 0]
  /\ local = [f \in Files |-> Nothing] /\ partial = [f \in Files |-> Nothing]
  /\ pc = "idle" /\ root \in Roots /\ update = FALSE
  /\ lastID = 0 /\ errors = FALSE
  /\ cur = root /\ attempt = 1 /\ todo = [p \in {} |-> 0] /\ sent = 0
  /\ result = "none"
  /\ quiet = TRUE /\ runs = 0 /\ changes = 0

-----------------------------------------------------------------------------
(* Outside: the server's files change, a local file is lost. *)

Outside ==
  /\ changes < MaxChanges /\ changes' = changes + 1
  /\ quiet' = FALSE
  /\ UNCHANGED <<entries, partial, pc, call, loop, task, result, runs>>

RemoteChange(f) ==
  /\ remote[f] + 1 \in Version
  /\ remote' = [remote EXCEPT ![f] = @ + 1]
  /\ Outside /\ UNCHANGED local

LocalLost(f) ==
  /\ local[f] # Nothing
  /\ local' = [local EXCEPT ![f] = Nothing]
  /\ Outside /\ UNCHANGED remote

-----------------------------------------------------------------------------
(* Mirror. *)

Begin(r, u) ==
  /\ pc = "idle" /\ runs < MaxRuns
  /\ runs' = runs + 1
  /\ root' = r /\ update' = u
  /\ pc' = "addRoot"
  /\ result' = "none" /\ quiet' = TRUE
  /\ UNCHANGED <<remote, disk, loop, task, changes>>

Return(res) ==
  /\ pc' = "idle" /\ result' = res
  /\ lastID' = 0 /\ errors' = FALSE
  /\ cur' = root /\ attempt' = 1 /\ todo' = [p \in {} |-> 0] /\ sent' = 0
  /\ UNCHANGED <<disk, call, world>>

(* A crash, or a cancelled context: every early return on it leaves the disk
   as it is. *)
Interrupted == pc # "idle" /\ Return("none")

Insert(p, v) ==
  [q \in DOMAIN entries \cup {p} |->
     IF q = p THEN [id |-> Cardinality(DOMAIN entries) + 1, listed |-> v, state |-> "pending"]
              ELSE entries[q]]

AddRoot ==
  /\ pc = "addRoot"
  /\ \/ root \in DOMAIN entries /\ UNCHANGED entries
     \/ root \notin DOMAIN entries /\ Exists(root) /\ entries' = Insert(root, Listed(root))
  /\ pc' = "reset"
  /\ UNCHANGED <<local, partial, call, loop, task, result, world>>

(* The server cannot be reached, or has no such path. *)
AddRootFails ==
  /\ pc = "addRoot" /\ root \notin DOMAIN entries
  /\ Return("error")

(* Faulty: errors are taken up with -update only. *)
BadAgain(p) == update /\ (p \in Dirs \/ entries[p].state # "done")

(* The UPDATE that gives this run its work. *)
Again(p) ==
  IF update THEN p \in Dirs \/ entries[p].state # "done" ELSE entries[p].state = "error"

Reset ==
  /\ pc = "reset"
  /\ entries' = [p \in DOMAIN entries |->
                   IF Again(p) THEN [entries[p] EXCEPT !.state = "pending"] ELSE entries[p]]
  /\ lastID' = 0 /\ errors' = FALSE
  /\ pc' = "next"
  /\ UNCHANGED <<local, partial, call, task, result, world>>

-----------------------------------------------------------------------------
(* run: the pending entries above lastID in the order of their ids. *)

Ancestors[p \in Path] == {p} \cup IF Parent[p] = p THEN {} ELSE Ancestors[Parent[p]]
InScope(p) == root \in Ancestors[p]

Work == {p \in DOMAIN entries : entries[p].state = "pending" /\ entries[p].id > lastID}

Pick(p) ==
  /\ pc = "next"
  /\ p \in Work /\ \A q \in Work : entries[p].id <= entries[q].id
  /\ lastID' = entries[p].id
  /\ IF InScope(p) THEN pc' = "ask" /\ cur' = p /\ attempt' = 1
                   ELSE UNCHANGED <<pc, cur, attempt>>
  /\ UNCHANGED <<disk, call, errors, todo, sent, result, world>>

Finish ==
  /\ pc = "next" /\ Work = {}
  /\ Return(IF errors THEN "error" ELSE "ok")

-----------------------------------------------------------------------------
(* process: how one attempt ends.  Disconnecting and reconnecting leaves no
   trace, except that a failed connect ends the run. *)

Record(state) ==
  /\ entries' = [entries EXCEPT ![cur].state = state]
  /\ pc' = "next"
  /\ todo' = [p \in {} |-> 0] /\ sent' = 0
  /\ UNCHANGED <<local, cur, attempt, call, lastID, result, world>>

Done == pc = "mark" /\ Record("done") /\ UNCHANGED <<partial, errors>>

(* A 5xx reply. *)
Permanent ==
  /\ pc \in {"ask", "receive"}
  /\ Record("failed") /\ UNCHANGED <<partial, errors>>

(* Faulty: one attempt too many, and no end of attempts. *)
BadLimit == attempt <= MaxAttempts
BadRetry == attempt

(* How often an entry is tried within a run. *)
MayRetry == attempt < MaxAttempts
Retry == attempt + 1

(* A broken connection, a timeout, a 4xx reply, a transfer that came out short,
   an upsert the database refuses. *)
Transient ==
  /\ pc \in {"ask", "upsert", "receive"}
  /\ IF MayRetry
       THEN /\ attempt' = Retry /\ pc' = "ask"
            /\ todo' = [p \in {} |-> 0] /\ sent' = 0
            /\ UNCHANGED <<entries, local, cur, call, loop, result, world>>
       ELSE errors' = TRUE /\ Record("error")
  /\ UNCHANGED partial

(* A localError: the disk is full, a directory is in the way. *)
DiskFails ==
  /\ pc \in {"ask", "receive"}
  /\ errors' = TRUE /\ Record("error") /\ UNCHANGED partial

ConnectFails == pc = "ask" /\ Return("error")

-----------------------------------------------------------------------------
(* listDir: one listing, then one upsert for each of its entries. *)

(* Faulty: the directory is done before its entries are recorded. *)
BadListDir ==
  /\ pc = "ask" /\ cur \in Dirs
  /\ todo' = [p \in {q \in Path \ {cur} : Parent[q] = cur /\ Exists(q)} |-> Listed(p)]
  /\ entries' = [entries EXCEPT ![cur].state = "done"]
  /\ pc' = "upsert"
  /\ UNCHANGED <<local, partial, call, loop, cur, attempt, sent, result, world>>

ListDir ==
  /\ pc = "ask" /\ cur \in Dirs
  /\ todo' = [p \in {q \in Path \ {cur} : Parent[q] = cur /\ Exists(q)} |-> Listed(p)]
  /\ pc' = "upsert"
  /\ UNCHANGED <<disk, call, loop, cur, attempt, sent, result, world>>

(* Faulty: the local copy is not looked at. *)
BadChanged(p, v) == entries[p].listed # v

Changed(p, v) ==
  \/ entries[p].listed # v
  \/ p \in Files /\ local[p].len # Size[v]

(* Faulty: known entries are looked at without -update too. *)
BadUpserted(p) ==
  IF p \notin DOMAIN entries THEN Insert(p, todo[p])
  ELSE IF Changed(p, todo[p])
    THEN [entries EXCEPT ![p].listed = todo[p], ![p].state = "pending"]
    ELSE entries

(* A new entry is queued, a known one with -update only, if it changed. *)
Upserted(p) ==
  IF p \notin DOMAIN entries THEN Insert(p, todo[p])
  ELSE IF update /\ Changed(p, todo[p])
    THEN [entries EXCEPT ![p].listed = todo[p], ![p].state = "pending"]
    ELSE entries

Upsert(p) ==
  /\ pc = "upsert" /\ p \in DOMAIN todo
  /\ entries' = Upserted(p)
  /\ todo' = [q \in DOMAIN todo \ {p} |-> todo[q]]
  /\ UNCHANGED <<local, partial, pc, call, loop, cur, attempt, sent, result, world>>

ListedAll ==
  /\ pc = "upsert" /\ DOMAIN todo = {}
  /\ pc' = "mark"
  /\ UNCHANGED <<disk, call, loop, task, result, world>>

-----------------------------------------------------------------------------
(* download. *)

(* The offset to resume at: the length of the partial file, unless it is as
   long as the file listed. *)
Kept ==
  IF partial[cur].len < Size[entries[cur].listed] THEN partial[cur] ELSE Nothing

(* RETR from the offset; a server that refuses REST is asked from the start.
   Opening the partial file truncates it unless the transfer resumes. *)
Retrieve ==
  /\ pc = "ask" /\ cur \in Files /\ Exists(cur)
  /\ sent' = remote[cur]
  /\ \E kept \in {Kept, Nothing} : partial' = [partial EXCEPT ![cur] = kept]
  /\ pc' = "receive"
  /\ UNCHANGED <<entries, local, call, loop, cur, attempt, todo, result, world>>

(* Some more of the version being sent arrives. *)
Receive ==
  /\ pc = "receive" /\ partial[cur].len < Size[sent]
  /\ partial' = [partial EXCEPT ![cur] = [len |-> @.len + 1, of |-> @.of \cup {sent}]]
  /\ UNCHANGED <<entries, local, pc, call, loop, task, result, world>>

(* Faulty: a short transfer is not noticed. *)
BadRename ==
  /\ pc = "receive"
  /\ local' = [local EXCEPT ![cur] = partial[cur]]
  /\ partial' = [partial EXCEPT ![cur] = Nothing]
  /\ pc' = "mark"
  /\ UNCHANGED <<entries, call, loop, task, result, world>>

(* The transfer ends without an error; it may still have come out short of the
   size that was listed, which is Transient. *)
Rename ==
  /\ pc = "receive" /\ partial[cur].len >= Size[entries[cur].listed]
  /\ local' = [local EXCEPT ![cur] = partial[cur]]
  /\ partial' = [partial EXCEPT ![cur] = Nothing]
  /\ pc' = "mark"
  /\ UNCHANGED <<entries, call, loop, task, result, world>>

-----------------------------------------------------------------------------
Process ==
  \/ Done \/ Permanent \/ Transient \/ DiskFails \/ ConnectFails
  \/ ListDir \/ (\E p \in Path : Upsert(p)) \/ ListedAll
  \/ Retrieve \/ Receive \/ Rename

Mirror ==
  AddRoot \/ AddRootFails \/ Reset \/ (\E p \in Path : Pick(p)) \/ Finish \/ Process

Next ==
  \/ \E r \in Roots, u \in BOOLEAN : Begin(r, u)
  \/ Mirror
  \/ Interrupted
  \/ \E f \in Files : RemoteChange(f) \/ LocalLost(f)

Spec == Init /\ [][Next]_vars

(* A run that was begun goes on: it never waits for anything but the server,
   and every wait on the server times out (guard, idleReader). *)
FairSpec == Spec /\ WF_vars(Mirror)

-----------------------------------------------------------------------------
TypeOK ==
  /\ remote \in [Files -> Version \cup {0}]
  /\ DOMAIN entries \subseteq Path /\ entries \in [DOMAIN entries -> Entry]
  /\ local \in [Files -> Content] /\ partial \in [Files -> Content]
  /\ pc \in {"idle", "addRoot", "reset", "next", "ask", "upsert", "receive", "mark"}
  /\ root \in Roots /\ update \in BOOLEAN
  /\ lastID \in Nat /\ errors \in BOOLEAN
  /\ cur \in Path /\ attempt \in 1 .. MaxAttempts
  /\ DOMAIN todo \subseteq Path /\ todo \in [DOMAIN todo -> Version \cup {0}]
  /\ sent \in Version \cup {0}
  /\ (pc = "receive" => cur \in Files /\ sent # 0)
  /\ (pc \in {"ask", "upsert", "receive", "mark"} => cur \in DOMAIN entries)
  /\ result \in {"none", "ok", "error"} /\ quiet \in BOOLEAN
  /\ runs \in 0 .. MaxRuns /\ changes \in 0 .. MaxChanges

(* When Mirror reports success nothing of what it was asked for is left to do:
   every known entry in scope is done or refused by the server, whatever was
   cut short before (ftpmirror.go:409-443: one pass over ascending ids). *)
NothingLeftPending ==
  result = "ok" =>
    \A p \in DOMAIN entries : InScope(p) => entries[p].state \in {"done", "failed"}

(* A successful run knows the whole tree: no interruption between a listing and
   the records of its entries loses one (ftpmirror.go:460, 523-542). *)
NothingMissed ==
  result = "ok" /\ quiet /\ (update \/ changes = 0) =>
    /\ root \in DOMAIN entries
    /\ \A d \in Dirs \cap DOMAIN entries :
         InScope(d) /\ entries[d].state = "done" =>
           \A p \in Path : Parent[p] = d /\ Exists(p) => p \in DOMAIN entries

(* After a successful run with -update, during which nothing changed, every
   mirrored file was downloaded from the version the server has now, and has its
   length, also when an earlier run was cut short between a download and its
   record (ftpmirror.go:384-388, 635-641).  That much is true of any file; that
   the pieces before its last are of the same version is not (UpdateIsWhole). *)
UpdateCovers(f) ==
  /\ InScope(Parent[f]) /\ Parent[f] \in DOMAIN entries
  /\ entries[f].state = "done" /\ entries[Parent[f]].state = "done"

UpdateIsCurrent ==
  result = "ok" /\ update /\ quiet =>
    \A f \in Files \cap DOMAIN entries : UpdateCovers(f) =>
      /\ entries[f].listed = remote[f]
      /\ local[f].len = Size[remote[f]] /\ remote[f] \in local[f].of

(* What README.md:19 says of -update, that it will "re-download files whose
   listed size or mtime changed", would make of these files the server's.  A
   partial download of an older version is resumed by its length, though
   (ftpmirror.go:584-607), and the rest is another version's. *)
UpdateIsWhole ==
  result = "ok" /\ update /\ quiet =>
    \A f \in Files \cap DOMAIN entries : UpdateCovers(f) => local[f] = Whole(remote[f])

(* A file that never changed on the server is complete under its final name or
   absent, through any number of broken transfers, resumed or restarted
   (ftpmirror.go:584-613, 635-639).  A file that did change may end up as the
   beginning of one version and the rest of another: a partial download is
   resumed by its length alone. *)
NeverTruncated ==
  \A f \in Files : remote[f] <= 1 => local[f] \in {Nothing, Whole(1)}

(* Without -update a run touches neither the row nor the file of what is done
   (ftpmirror/README.md: "By default a re-run doesn't touch anything already
   mirrored"), although a directory may be listed again. *)
MirroredIsLeftAlone ==
  [][\A p \in DOMAIN entries :
       entries[p].state = "done" /\ ~ update =>
         /\ entries'[p] = entries[p]
         /\ p \in Files => local'[p] = local[p] \/ LocalLost(p)]_vars

(* A run ends: its pass over the ids is finite although every listing may add
   entries and every entry is tried several times (ftpmirror.go:414-443). *)
RunEnds == pc # "idle" ~> pc = "idle"
=============================================================================
