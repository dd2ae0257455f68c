------------------------------ MODULE HttpCrawl ------------------------------
(***************************************************************************)
(* The resumable crawl of httpmirror (httpmirror/httpmirror.go): a         *)
(* sequence of runs of Mirror into one destination directory, each of      *)
(* which may be cut short between any two of its writes.                   *)
(*                                                                         *)
(* What the server answers for a URL is a version number, which also       *)
(* stands for the ETag and Last-Modified of that answer; a URL never goes  *)
(* back to an earlier version.  Parsing is a constant: Site says what each *)
(* version is and what it refers to.  Two URLs never share a local file,   *)
(* and Git repositories are left out.                                      *)
(***************************************************************************)
EXTENDS Integers, FiniteSets, Sequences

CONSTANTS
  Url,
  Site,         \* the versions of each URL: sequences of Page
  Scope,        \* the URLs in the directory of a URL, its own among them
  Starts,       \* the source URLs Mirror is called with
  MaxAttempts,  \* maxAttempts
  MaxRuns,      \* bound: calls of Mirror
  MaxChanges    \* bound: changes on the server, and files lost on disk

(* A redirect has one link, its Location; a listing has no query links. *)
Page == [kind : {"html", "listing", "css", "file", "redirect", "gone"},
         links : SUBSET Url, reqs : SUBSET Url]

ASSUME SiteAssumption == Site \in [Url -> Seq(Page)] /\ \A u \in Url : Site[u] # <<>>
ASSUME RedirectsAssumption ==
  \A u \in Url : \A n \in DOMAIN Site[u] :
    Site[u][n].kind = "redirect" => \E l \in Url : Site[u][n].links = {l}
ASSUME StartsAssumption ==
  /\ Starts \subseteq Url
  /\ Scope \in [Url -> SUBSET Url] /\ \A u \in Url : u \in Scope[u]
ASSUME BoundsAssumption ==
  MaxAttempts \in Nat \ {0} /\ MaxRuns \in Nat /\ MaxChanges \in Nat

VARIABLES
  serve,   \* the server: the version of each URL
  urls,    \* table urls: URL -> [id, requisite, state, etag], for those that have a row
  files,   \* the version in each URL's local file, 0 for no file
  meta,    \* table meta: what the start URLs resolved to
  pc,      \* where Mirror is
  start, root, update,  \* its arguments, and the URL the crawl starts from
  lastID,  \* run's lastID
  cur, requisite, attempt,  \* process: its arguments, and which attempt it is
  links, reqs,  \* fetch: the links and requisites to enqueue yet
  etag,    \* the validator to record with the row
  errors,  \* whether c.errors > 0
  result,  \* of the last run: "ok", "error", or "none" when it was cut short
  quiet,   \* history: nothing changed outside since the last run began
  runs, changes  \* counted for the bounds

disk == <<urls, files, meta>>
call == <<start, root, update>>
loop == <<lastID, errors>>
refs == <<links, reqs, etag>>
world == <<serve, quiet, runs, changes>>
vars == <<serve, urls, files, meta, pc, start, root, update, lastID, cur, requisite, attempt,
          links, reqs, etag, errors, result, quiet, runs, changes>>

State == {"pending", "done", "error", "failed"}
Row == [id : Nat, requisite : BOOLEAN, state : State, etag : Nat]

PageOf(u) == Site[u][serve[u]]
InScope(u) == u \in Scope[root]

Init ==
  /\ serve = [u \in Url |-> 1]
  /\ urls = [u \in {} |-> 0] /\ files = [u \in Url |-> 0] /\ meta = [u \in {} |-> 0]
  /\ pc = "idle" /\ start \in Starts /\ root = start /\ update = FALSE
  /\ lastID = 0 /\ errors = FALSE
  /\ cur = start /\ requisite = FALSE /\ attempt = 1
  /\ links = {} /\ reqs = {} /\ etag = 0
  /\ result = "none" /\ quiet = TRUE /\ runs = 0 /\ changes = 0

-----------------------------------------------------------------------------
(* Outside: the site changes, a local file is lost. *)

Outside ==
  /\ changes < MaxChanges /\ changes' = changes + 1
  /\ quiet' = FALSE
  /\ UNCHANGED <<urls, meta, pc, call, loop, cur, requisite, attempt, refs, result, runs>>

SiteChange(u) ==
  /\ serve[u] < Len(Site[u])
  /\ serve' = [serve EXCEPT ![u] = @ + 1]
  /\ Outside /\ UNCHANGED files

FileLost(u) ==
  /\ files[u] # 0
  /\ files' = [files EXCEPT ![u] = 0]
  /\ Outside /\ UNCHANGED serve

-----------------------------------------------------------------------------
(* Mirror. *)

Begin(s, u) ==
  /\ pc = "idle" /\ runs < MaxRuns
  /\ runs' = runs + 1
  /\ start' = s /\ root' = s /\ update' = u
  /\ pc' = "resolve"
  /\ result' = "none" /\ quiet' = TRUE
  /\ UNCHANGED <<serve, changes, disk, loop, cur, requisite, attempt, refs>>

Return(res) ==
  /\ pc' = "idle" /\ result' = res
  /\ lastID' = 0 /\ errors' = FALSE
  /\ cur' = start /\ requisite' = FALSE /\ attempt' = 1
  /\ links' = {} /\ reqs' = {} /\ etag' = 0
  /\ UNCHANGED <<disk, call, world>>

(* A crash, or a cancelled context: every early return on it leaves the disk
   as it is. *)
Interrupted == pc # "idle" /\ Return("none")

(* The URL a request for u is redirected to, and where at most ten requests
   end that follow the redirects from u: once a URL does not redirect, the rest
   of the ten change nothing. *)
Hop(u) == IF PageOf(u).kind = "redirect" THEN CHOOSE l \in PageOf(u).links : TRUE ELSE u
TwoHops(u) == Hop(Hop(u))
FiveHops(u) == Hop(TwoHops(TwoHops(u)))
Resolved(u) == FiveHops(FiveHops(u))

(* The first answer is kept: the scope does not move when the server does. *)
ResolveStart ==
  /\ pc = "resolve"
  /\ root' = IF start \in DOMAIN meta THEN meta[start] ELSE Resolved(start)
  /\ meta' = [s \in DOMAIN meta \cup {start} |-> IF s = start THEN root' ELSE meta[s]]
  /\ pc' = "reset"
  /\ UNCHANGED <<urls, files, start, update, loop, cur, requisite, attempt, refs, result, world>>

ResolveFails == pc = "resolve" /\ start \notin DOMAIN meta /\ Return("error")

(* Faulty: everything is fetched again, with or without -update. *)
BadAgain(u) == TRUE

(* The UPDATE that gives this run its work. *)
Again(u) == update \/ urls[u].state = "error"

Reset ==
  /\ pc = "reset"
  /\ urls' = [u \in DOMAIN urls |->
                IF Again(u) THEN [urls[u] EXCEPT !.state = "pending"] ELSE urls[u]]
  /\ pc' = "root"
  /\ UNCHANGED <<files, meta, call, loop, cur, requisite, attempt, refs, result, world>>

(* enqueue: INSERT ... ON CONFLICT DO UPDATE. *)
Inserted(u, asRequisite) ==
  [v \in DOMAIN urls \cup {u} |->
     IF v # u THEN urls[v]
     ELSE IF u \in DOMAIN urls
       THEN [urls[u] EXCEPT !.requisite = @ /\ asRequisite]
       ELSE [id |-> Cardinality(DOMAIN urls) + 1, requisite |-> asRequisite,
             state |-> "pending", etag |-> 0]]

Enqueued(u, asRequisite) ==
  IF asRequisite \/ InScope(u) THEN Inserted(u, asRequisite) ELSE urls

EnqueueRoot ==
  /\ pc = "root"
  /\ urls' = Enqueued(root, FALSE)
  /\ pc' = "next"
  /\ UNCHANGED <<files, meta, call, loop, cur, requisite, attempt, refs, result, world>>

-----------------------------------------------------------------------------
(* run: the pending rows above lastID in the order of their ids. *)

Work == {u \in DOMAIN urls : urls[u].state = "pending" /\ urls[u].id > lastID}

Pick(u) ==
  /\ pc = "next"
  /\ u \in Work /\ \A v \in Work : urls[u].id <= urls[v].id
  /\ lastID' = urls[u].id
  /\ IF urls[u].requisite \/ InScope(u)
       THEN pc' = "fetch" /\ cur' = u /\ requisite' = urls[u].requisite /\ attempt' = 1
       ELSE UNCHANGED <<pc, cur, requisite, attempt>>
  /\ UNCHANGED <<disk, call, errors, refs, result, world>>

Finish ==
  /\ pc = "next" /\ Work = {}
  /\ Return(IF errors THEN "error" ELSE "ok")

-----------------------------------------------------------------------------
(* process: how one attempt ends. *)

Record(row) ==
  /\ urls' = [urls EXCEPT ![cur] = row]
  /\ pc' = "next"
  /\ links' = {} /\ reqs' = {} /\ etag' = 0
  /\ UNCHANGED <<files, meta, call, lastID, cur, requisite, attempt, result, world>>

(* A 4xx reply other than 408 and 429. *)
Gone ==
  /\ pc = "fetch" /\ PageOf(cur).kind = "gone"
  /\ Record([urls[cur] EXCEPT !.state = "failed"]) /\ UNCHANGED errors

(* Faulty: one attempt too many, and no end of attempts. *)
BadLimit == attempt <= MaxAttempts
BadRetry == attempt

(* How often a URL is tried within a run. *)
MayRetry == attempt < MaxAttempts
Retry == attempt + 1

GiveUp == errors' = TRUE /\ Record([urls[cur] EXCEPT !.state = "error"])

(* A broken connection, a 5xx reply, a write the database refuses. *)
Transient ==
  /\ pc \in {"fetch", "record"}
  /\ IF MayRetry
       THEN /\ attempt' = Retry /\ pc' = "fetch"
            /\ links' = {} /\ reqs' = {} /\ etag' = 0
            /\ UNCHANGED <<disk, cur, requisite, call, loop, result, world>>
       ELSE GiveUp

(* A localError: the disk is full, a directory is in the way. *)
DiskFails == pc = "fetch" /\ GiveUp

-----------------------------------------------------------------------------
(* fetch and save: one response. *)

(* Faulty: the validator is sent although the file is not there. *)
BadUnmodified == urls[cur].etag = serve[cur]

(* The request is conditional, and the server has what the validator names. *)
Unmodified == files[cur] # 0 /\ urls[cur].etag = serve[cur]

(* What a page is parsed for. *)
LinksOf(u) ==
  IF InScope(u) /\ PageOf(u).kind \in {"html", "listing"} THEN PageOf(u).links ELSE {}

(* Faulty: a page outside the scope is parsed too. *)
BadReqsOf(u) == IF PageOf(u).kind \in {"css", "html"} THEN PageOf(u).reqs ELSE {}

(* Requisites of pages in scope, and of stylesheets wherever they are. *)
ReqsOf(u) ==
  IF PageOf(u).kind = "css" \/ (InScope(u) /\ PageOf(u).kind = "html")
  THEN PageOf(u).reqs ELSE {}

IsListing(u) == InScope(u) /\ PageOf(u).kind = "listing"

ToRecord(ls, rs, tag) ==
  /\ links' = ls /\ reqs' = rs /\ etag' = tag
  /\ pc' = "record"
  /\ UNCHANGED <<meta, call, loop, cur, requisite, attempt, result, world>>

NotModified ==
  /\ pc = "fetch" /\ Unmodified
  /\ ToRecord({}, {}, urls[cur].etag) /\ UNCHANGED <<urls, files>>

Redirected ==
  /\ pc = "fetch" /\ ~ Unmodified /\ PageOf(cur).kind = "redirect"
  /\ LET loc == PageOf(cur).links
     IN ToRecord(IF requisite THEN {} ELSE loc, IF requisite THEN loc ELSE {}, 0)
  /\ UNCHANGED <<urls, files>>

ListingRead ==
  /\ pc = "fetch" /\ ~ Unmodified /\ IsListing(cur)
  /\ ToRecord(LinksOf(cur), {}, 0) /\ UNCHANGED <<urls, files>>

(* Faulty: the row is done before the page's references are recorded. *)
BadSaved ==
  /\ pc = "fetch" /\ ~ Unmodified
  /\ PageOf(cur).kind \in {"html", "css", "file", "listing"} /\ ~ IsListing(cur)
  /\ files' = [files EXCEPT ![cur] = serve[cur]]
  /\ urls' = [urls EXCEPT ![cur].state = "done", ![cur].etag = serve[cur]]
  /\ ToRecord(LinksOf(cur), ReqsOf(cur), serve[cur])

(* The body, written aside, is renamed into place. *)
Saved ==
  /\ pc = "fetch" /\ ~ Unmodified
  /\ PageOf(cur).kind \in {"html", "css", "file", "listing"} /\ ~ IsListing(cur)
  /\ files' = [files EXCEPT ![cur] = serve[cur]]
  /\ ToRecord(LinksOf(cur), ReqsOf(cur), serve[cur]) /\ UNCHANGED urls

EnqueueLink(l) ==
  /\ pc = "record" /\ l \in links
  /\ urls' = Enqueued(l, FALSE)
  /\ links' = links \ {l}
  /\ UNCHANGED <<files, meta, pc, call, loop, cur, requisite, attempt, reqs, etag, result, world>>

EnqueueRequisite(r) ==
  /\ pc = "record" /\ links = {} /\ r \in reqs
  /\ urls' = Enqueued(r, TRUE)
  /\ reqs' = reqs \ {r}
  /\ UNCHANGED <<files, meta, pc, call, loop, cur, requisite, attempt, links, etag, result, world>>

(* Faulty: the validator is the one the server has by now. *)
BadMarkDone ==
  /\ pc = "record" /\ links = {} /\ reqs = {}
  /\ Record([urls[cur] EXCEPT !.state = "done", !.etag = serve[cur]]) /\ UNCHANGED errors

MarkDone ==
  /\ pc = "record" /\ links = {} /\ reqs = {}
  /\ Record([urls[cur] EXCEPT !.state = "done", !.etag = etag]) /\ UNCHANGED errors

-----------------------------------------------------------------------------
Process ==
  \/ Gone \/ Transient \/ DiskFails
  \/ NotModified \/ Redirected \/ ListingRead \/ Saved
  \/ (\E u \in Url : EnqueueLink(u) \/ EnqueueRequisite(u)) \/ MarkDone

Mirror ==
  \/ ResolveStart \/ ResolveFails \/ Reset \/ EnqueueRoot
  \/ (\E u \in Url : Pick(u)) \/ Finish \/ Process

Next ==
  \/ \E s \in Starts, u \in BOOLEAN : Begin(s, u)
  \/ Mirror
  \/ Interrupted
  \/ \E u \in Url : SiteChange(u) \/ FileLost(u)

Spec == Init /\ [][Next]_vars

(* A run that was begun goes on.  Every wait is for the server; that a server
   which has begun to answer goes on is assumed, since nothing times out then. *)
FairSpec == Spec /\ WF_vars(Mirror)

-----------------------------------------------------------------------------
TypeOK ==
  /\ serve \in [Url -> Nat] /\ \A u \in Url : serve[u] \in DOMAIN Site[u]
  /\ DOMAIN urls \subseteq Url /\ urls \in [DOMAIN urls -> Row]
  /\ files \in [Url -> Nat]
  /\ DOMAIN meta \subseteq Starts /\ meta \in [DOMAIN meta -> Url]
  /\ pc \in {"idle", "resolve", "reset", "root", "next", "fetch", "record"}
  /\ start \in Starts /\ root \in Url /\ update \in BOOLEAN
  /\ lastID \in Nat /\ errors \in BOOLEAN
  /\ cur \in Url /\ requisite \in BOOLEAN /\ attempt \in 1 .. MaxAttempts
  /\ (pc \in {"fetch", "record"} => cur \in DOMAIN urls)
  /\ links \subseteq Url /\ reqs \subseteq Url /\ etag \in Nat
  /\ result \in {"none", "ok", "error"} /\ quiet \in BOOLEAN
  /\ runs \in 0 .. MaxRuns /\ changes \in 0 .. MaxChanges

(* Everything the crawl should know of is known and was visited: the start
   page, what the pages in scope link to within it, and the requisites. *)
Wanted(u) == urls[u].requisite \/ InScope(u)
Refers(u) ==
  LinksOf(u) \cup ReqsOf(u) \cup IF PageOf(u).kind = "redirect" THEN PageOf(u).links ELSE {}
Needed(u, v) ==
  /\ v \in Refers(u)
  /\ \/ InScope(v) \/ v \in ReqsOf(u)
     \/ PageOf(u).kind = "redirect" /\ urls[u].requisite
Complete ==
  /\ root \in DOMAIN urls
  /\ \A u \in DOMAIN urls : Wanted(u) =>
       /\ urls[u].state \in {"done", "failed"}
       /\ urls[u].state = "done" => \A v \in Url : Needed(u, v) => v \in DOMAIN urls

(* When Mirror reports success the mirror is complete, whatever was cut short
   before: rows are done only after their references are recorded, references
   get higher ids, and a 304 stands for references recorded earlier
   (httpmirror.go:311-345, 437-440, 531-542). *)
SuccessIsComplete ==
  result = "ok" /\ quiet /\ (update \/ changes = 0) => Complete

(* The same of a run with -update alone.  "Mirror recursively downloads
   everything under source's directory" (httpmirror.go:152). *)
UpdateIsComplete == result = "ok" /\ quiet /\ update => Complete

(* After a successful run with -update, during which nothing changed, every
   file that is mirrored holds what the server has: a 304 is never answered to
   a request for a file that is not there or is another version
   (httpmirror.go:424-440, 511-542). *)
CurrentAfterUpdate ==
  result = "ok" /\ quiet /\ update =>
    \A u \in DOMAIN urls :
      /\ Wanted(u) /\ urls[u].state = "done"
      /\ PageOf(u).kind \in {"html", "css", "file"}
      => files[u] = serve[u]

(* The validator of a row that is done belongs to the file on disk, if it is
   still there, although the file and the row are written one after the other
   and the site changes in between (httpmirror.go:511, 542). *)
EtagOfFile ==
  \A u \in DOMAIN urls :
    urls[u].state = "done" /\ urls[u].etag # 0 => files[u] \in {0, urls[u].etag}

(* The crawl never leaves the scope but for requisites, and does not go on from
   there but for stylesheets and redirects: what is known outside the scope is
   a requisite that something known refers to (httpmirror.go:475-476, 548-551;
   httpmirror/README.md: "Requisites aren't crawled any further"). *)
NoEscape ==
  pc \notin {"idle", "resolve"} =>
    \A v \in DOMAIN urls : ~ InScope(v) =>
      /\ urls[v].requisite
      /\ \E u \in DOMAIN urls : \E n \in DOMAIN Site[u] :
           \/ Site[u][n].kind = "html" /\ InScope(u) /\ v \in Site[u][n].reqs
           \/ Site[u][n].kind = "css" /\ v \in Site[u][n].reqs
           \/ Site[u][n].kind = "redirect" /\ v \in Site[u][n].links

(* Without -update a run touches neither the state nor the file of what is done
   (httpmirror/README.md: "By default a re-run doesn't touch anything already
   mirrored"). *)
MirroredIsLeftAlone ==
  [][\A u \in DOMAIN urls :
       urls[u].state = "done" /\ ~ update =>
         /\ urls'[u].state = "done" /\ urls'[u].etag = urls[u].etag
         /\ files'[u] = files[u] \/ FileLost(u)]_vars

(* A run ends although the pages it reads keep adding rows and every row is
   tried several times (httpmirror.go:311-379). *)
RunEnds == pc # "idle" ~> pc = "idle"
=============================================================================
