------------------------------ MODULE GroupsIO ------------------------------
(***************************************************************************)
(* The groups.io mirror, src/groupsio/groupsio.go: one process logs in and *)
(* walks the directories of a group's Files section.  A directory's        *)
(* description is written to its README, its entries are listed page by    *)
(* page, and a file that is not there with the listed size is downloaded,  *)
(* after its own description, from the listed URL or else from the group's *)
(* web page for it.  What fails is logged and skipped.                     *)
(*                                                                         *)
(* A path is a sequence of names.  What is on disk is a version of a file, *)
(* a description, or Garbage, what a wrong URL answers; each has a size of *)
(* its own, if SameSize does not say otherwise.                            *)
(***************************************************************************)
EXTENDS Naturals, FiniteSets, Functions, SequencesExt

CONSTANTS
    Entries,      \* paths of the section's directories, but for the root, and files
    Created,      \* the order in which they came
    Dirs,         \* the directories, the root <<>> among them
    Links,        \* files without a body: links to Box and elsewhere
    DescOf,       \* the path "<file>.desc" of each file
    SameSize,     \* files whose versions all have the same size
    PageSize,     \* entries on a page (100 in the code)
    MaxEdits,     \* bound: the number of changes of the group
    MaxAttempts   \* maxAttempts and maxRateLimitTry (5 in the code)

Files == Entries \ Dirs
Nothing == <<"nothing">>

(* A file's directories are the shorter paths that its own begins with. *)
GroupAssumption ==
    /\ IsFiniteSet(Entries) /\ Created \in [Entries -> Nat] /\ IsInjective(Created)
    /\ Nothing \notin Entries /\ <<>> \in Dirs \ Entries /\ Dirs \subseteq Entries \cup {<<>>}
    /\ \A p \in Entries : /\ p \in Seq(Range(p))
                          /\ \A k \in 0..Len(p) - 1 : SubSeq(p, 1, k) \in Dirs
    /\ Links \cup SameSize \subseteq Files /\ DOMAIN DescOf = Files
    /\ PageSize \in Nat \ {0} /\ MaxEdits \in Nat /\ MaxAttempts \in Nat \ {0}

VARIABLES
    \* groups.io
    group,      \* file -> version, the files of the group
    edits,      \* changes of the group
    \* destination directory
    disk,       \* path -> content
    tmp,        \* the paths with a *.groupsio-tmp beside them
    \* one run
    pc,         \* what the run is about to do
    stack,      \* of each directory it is in, the set of the entries left
    open,       \* the directory or the file in hand
    todo,       \* the entries listed so far of the directory in hand
    pageToken,  \* and how many of them the next page passes over: page_token
    attempt,    \* failures of the request in hand
    alt,        \* whether the file is fetched from its web page
    \* history
    clean,      \* nothing failed in this run, and no listing moved during it
    target      \* the group's files when the run began

run  == <<stack, open, todo, pageToken, attempt, alt>>
hist == <<clean, target>>
vars == <<group, edits, disk, tmp, pc, run, hist>>

NoFiles == [f \in {} |-> 0]
File(f, v) == <<"file", f, v>>
Desc(p)    == <<"desc", p, 0>>
Garbage    == <<"garbage", <<>>, 0>>
ReadmeOf(d) == Append(d, "README")
Put(p, content) == [q \in DOMAIN disk \cup {p} |-> IF q = p THEN content ELSE disk[q]]

Here(d) == {p \in Entries \cap (Dirs \cup DOMAIN group) : Front(p) = d}

Age(p) == Cardinality({q \in Here(Front(p)) : Created[q] < Created[p]})

(* An entry is a path with its version and its place in the listing,       *)
(* oldest first.                                                           *)
Children(d) == {<<p, IF p \in Dirs THEN 0 ELSE group[p], Age(p)>> : p \in Here(d)}

-----------------------------------------------------------------------------
Init ==
    /\ group = [f \in Files |-> 1] /\ edits = 0
    /\ disk = NoFiles /\ tmp = {}
    /\ pc = "idle" /\ stack = <<>> /\ open = Nothing /\ todo = {} /\ pageToken = 0
    /\ attempt = 0 /\ alt = FALSE /\ clean = TRUE /\ target = NoFiles

Edit == edits < MaxEdits /\ edits' = edits + 1 /\ clean' = (clean /\ pc = "idle")

(* A file is added to the group, or replaced. *)
Upload(f) ==
    /\ Edit
    /\ group' = [g \in DOMAIN group \cup {f} |-> IF g = f THEN edits' + 1 ELSE group[g]]
    /\ UNCHANGED <<disk, tmp, pc, run, target>>

(* A file is deleted from the group: later entries move up a page. *)
Delete(f) ==
    /\ Edit /\ f \in DOMAIN group /\ group' = Restrict(group, DOMAIN group \ {f})
    /\ UNCHANGED <<disk, tmp, pc, run, target>>

Forget ==
    /\ pc' = "idle" /\ stack' = <<>> /\ open' = Nothing /\ todo' = {} /\ pageToken' = 0
    /\ attempt' = 0 /\ alt' = FALSE /\ clean' = TRUE /\ target' = NoFiles

(* The session is logged in, the group looked up, its README written. *)
Start ==
    /\ pc = "idle" /\ pc' = "list" /\ open' = <<>> /\ target' = group
    /\ disk' = Put(ReadmeOf(<<>>), Desc(<<>>))
    /\ UNCHANGED <<group, edits, tmp, stack, todo, pageToken, attempt, alt, clean>>

(* Every page taken for the last. *)
BadIsLast(d) == TRUE

(* What the server's has_more denies. *)
IsLast(d) == pageToken + PageSize >= Cardinality(Here(d))

ListPage ==
    /\ pc = "list" /\ attempt' = 0
    /\ LET page == {e \in Children(open) : e[3] \in pageToken..pageToken + PageSize - 1}
       IN  IF IsLast(open)
           THEN /\ stack' = <<todo \cup page>> \o stack /\ pc' = "walk" /\ open' = Nothing
                /\ todo' = {} /\ pageToken' = 0
           ELSE /\ todo' = todo \cup page /\ pageToken' = pageToken + PageSize
                /\ UNCHANGED <<stack, pc, open>>
    /\ UNCHANGED <<group, edits, disk, tmp, alt, hist>>

(* A page fails: withRetry tries it again, or the directory is skipped, or *)
(* for the root the run fails.                                             *)
ListFails ==
    /\ pc = "list"
    /\ IF attempt + 1 < MaxAttempts
       THEN attempt' = attempt + 1 /\ UNCHANGED <<pc, stack, open, todo, pageToken, alt, hist>>
       ELSE IF stack = <<>> THEN Forget
       ELSE /\ pc' = "walk" /\ open' = Nothing /\ todo' = {} /\ pageToken' = 0
            /\ attempt' = 0 /\ clean' = FALSE /\ UNCHANGED <<stack, alt, target>>
    /\ UNCHANGED <<group, edits, disk, tmp>>

(* e, an entry, is next in the directory on top. *)
NextIs(e) ==
    /\ pc = "walk" /\ stack # <<>> /\ e \in Head(stack)
    /\ \A other \in Head(stack) : e[3] <= other[3]
    /\ stack' = <<Head(stack) \ {e}>> \o Tail(stack)

(* A description is written, or that fails and is logged. *)
Store(p, d) ==
    \/ disk' = Put(p, Desc(d)) /\ UNCHANGED clean
    \/ UNCHANGED disk /\ clean' = FALSE

EnterDir(d) ==
    /\ \E k \in 0..Cardinality(Entries) : NextIs(<<d, 0, k>>)
    /\ Store(ReadmeOf(d), d) /\ pc' = "list" /\ open' = d
    /\ UNCHANGED <<group, edits, tmp, todo, pageToken, attempt, alt, target>>

(* By its size, a file is there. *)
Present(f, v) ==
    /\ f \in DOMAIN disk
    /\ \/ disk[f] = File(f, v)
       \/ f \in SameSize /\ \E w \in 1..MaxEdits + 1 : disk[f] = File(f, w)

(* getFile, up to the download. *)
GetFile(f, v) ==
    /\ \E k \in 0..Cardinality(Entries) : NextIs(<<f, v, k>>)
    /\ IF f \in Links \/ Present(f, v)
       THEN UNCHANGED <<pc, open, disk, clean>>
       ELSE pc' = "download" /\ open' = f /\ Store(DescOf[f], f)
    /\ UNCHANGED <<group, edits, tmp, todo, pageToken, attempt, alt, target>>

Body ==
    /\ pc = "download" /\ pc' = "body" /\ tmp' = tmp \cup {open}
    /\ UNCHANGED <<group, edits, disk, run, hist>>

EndFile == pc' = "walk" /\ open' = Nothing /\ attempt' = 0 /\ alt' = FALSE

(* The body is complete, whatever it is: a size that differs is logged.    *)
Commit ==
    /\ pc = "body" /\ EndFile /\ tmp' = tmp \ {open}
    /\ \/ open \in DOMAIN group /\ disk' = Put(open, File(open, group[open])) /\ UNCHANGED clean
       \/ disk' = Put(open, Garbage) /\ clean' = FALSE
    /\ UNCHANGED <<group, edits, stack, todo, pageToken, target>>

(* A download fails: withRetry tries it again, then with the other URL,    *)
(* and then the file is skipped.  The temporary file stays if it was the   *)
(* rename that failed.                                                     *)
DownloadFails ==
    /\ pc \in {"download", "body"}
    /\ UNCHANGED tmp \/ (pc = "body" /\ tmp' = tmp \ {open})
    /\ IF attempt + 1 < MaxAttempts
       THEN pc' = "download" /\ attempt' = attempt + 1 /\ UNCHANGED <<open, alt, clean>>
       ELSE IF ~alt
       THEN pc' = "download" /\ attempt' = 0 /\ alt' = TRUE /\ UNCHANGED <<open, clean>>
       ELSE EndFile /\ clean' = FALSE
    /\ UNCHANGED <<group, edits, disk, stack, todo, pageToken, target>>

LeaveDir ==
    /\ pc = "walk" /\ stack # <<>> /\ Head(stack) = {} /\ stack' = Tail(stack)
    /\ UNCHANGED <<group, edits, disk, tmp, pc, open, todo, pageToken, attempt, alt, hist>>

Finish ==
    /\ pc = "walk" /\ stack = <<>> /\ Forget
    /\ UNCHANGED <<group, edits, disk, tmp>>

(* The process is killed.  A cancelled run goes on instead, to fail in all  *)
(* that is left: downloadWithRetry and list return the context's error.    *)
Crash ==
    /\ pc # "idle" /\ Forget
    /\ UNCHANGED <<group, edits, disk, tmp>>

Next ==
    \/ \E f \in Files : Upload(f) \/ Delete(f) \/ \E v \in 1..MaxEdits + 1 : GetFile(f, v)
    \/ \E d \in Dirs : EnterDir(d)
    \/ Start \/ ListPage \/ ListFails \/ Body \/ Commit
    \/ DownloadFails \/ LeaveDir \/ Finish \/ Crash

Spec == Init /\ [][Next]_vars

-----------------------------------------------------------------------------
(* Type correctness of the group and of the run's memory. *)
TypeOK ==
    /\ DOMAIN group \cup DOMAIN target \subseteq Files
    /\ Range(group) \cup Range(target) \subseteq 1..MaxEdits + 1
    /\ attempt < MaxAttempts /\ Len(stack) <= Cardinality(Dirs)
    /\ pc \in {"list", "download", "body"} <=> open # Nothing

Overwritten(f) == \E g \in Files : DescOf[g] = f

(* A run that returns, with nothing failed and the group left alone, has   *)
(* every file of it, however the listing was paged, whatever earlier runs  *)
(* left and whichever files and descriptions share a name; of a file whose *)
(* size tells its versions, the version the group has.                     *)
DoneMeansAll ==
    pc = "walk" /\ stack = <<>> /\ clean =>
        \A f \in DOMAIN target \ Links : ~Overwritten(f) =>
            /\ f \in DOMAIN disk
            /\ disk[f] = File(f, target[f]) \/ (f \in SameSize /\ disk[f][2] = f)

(* The same without the exception for "<file>.desc": "Mirror downloads     *)
(* every file in the group".                                               *)
AllFilesThere ==
    pc = "walk" /\ stack = <<>> /\ clean =>
        \A f \in DOMAIN target \ Links : f \in DOMAIN disk /\ disk[f][1] = "file"
=============================================================================
