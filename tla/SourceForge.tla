---------------------------- MODULE SourceForge ----------------------------
(***************************************************************************)
(* The SourceForge mirror, src/sourceforge/sourceforge.go: one process     *)
(* walks the folders of a project's files area from the folder or the file *)
(* it was given.  A file that is there, with the listed checksum if one is *)
(* listed, is skipped; another is downloaded and checked.  What fails is   *)
(* noted, unless it is a timeout, and the run returns an error if anything *)
(* was.                                                                    *)
(*                                                                         *)
(* A path is a sequence of names; a file's content is a version of it, or  *)
(* OtherAnswer, whatever else SourceForge may answer.                      *)
(***************************************************************************)
EXTENDS Naturals, FiniteSets, Functions, SequencesExt

CONSTANTS
    Entries,   \* paths of the area's folders, but for the top, and files
    Rank,      \* the order of their names
    Dirs,      \* the folders, the top <<>> among them
    Roots,     \* the folders and files a run may be given
    Links,     \* files that are links elsewhere or not downloadable
    Summed,    \* files that are listed with a checksum
    Mistaken,  \* files without a checksum for which another answer passes: it
               \* is no HTML, or comes from a URL that ends in .html or .htm
    MaxEdits,  \* bound: the number of changes of the area
    Retries    \* -retries

Files == Entries \ Dirs

(* A file's folders are the shorter paths that its own begins with. *)
AreaAssumption ==
    /\ IsFiniteSet(Entries) /\ <<>> \notin Entries /\ Dirs \subseteq Entries \cup {<<>>}
    /\ \A p \in Entries : /\ p \in Seq(Range(p))
                          /\ \A k \in 0..Len(p) - 1 : SubSeq(p, 1, k) \in Dirs
    /\ Rank \in [Entries -> Nat] /\ Roots \subseteq Dirs \cup Files
    /\ Links \cup Summed \cup Mistaken \subseteq Files
    /\ MaxEdits \in Nat /\ Retries \in Nat

VARIABLES
    \* SourceForge
    site,     \* file -> version, the files of the area
    edits,    \* changes of the area
    \* the project's directory
    disk,     \* file -> content
    tmp,      \* the files with a *.sourceforge-tmp beside them
    \* one run
    pc,       \* what the run is about to do
    root,     \* the folder or file it was given
    stack,    \* of each folder it is in, the set of the entries left
    open,     \* the entry in hand: path, version and, once known, answer
    attempt,  \* retries of the request in hand
    failed,   \* m.failed
    \* history
    clean,    \* the area was left alone during this run, and nothing timed out for good
    target    \* the area's files when the run began

area == <<site, edits>>
dest == <<disk, tmp>>
run  == <<root, stack, open, attempt, failed>>
hist == <<clean, target>>
vars == <<area, dest, pc, run, hist>>

NoFiles == [f \in {} |-> 0]
Nothing == <<"nothing">>
OtherAnswer == 0

(* An entry is a path with the version that is listed. *)
Entry(p) == <<p, IF p \in Dirs THEN 0 ELSE site[p]>>

Children(d) ==
    {Entry(p) : p \in {q \in Entries \cap (Dirs \cup DOMAIN site) : Front(q) = d}}

-----------------------------------------------------------------------------
Init ==
    /\ site = [f \in Files |-> 1] /\ edits = 0 /\ disk = NoFiles /\ tmp = {}
    /\ pc = "idle" /\ root = <<>> /\ stack = <<>> /\ open = Nothing /\ attempt = 0
    /\ failed = {} /\ clean = TRUE /\ target = NoFiles

(* A file is added to the area, replaced, or removed. *)
Edit(f) ==
    /\ edits < MaxEdits /\ edits' = edits + 1 /\ clean' = (clean /\ pc = "idle")
    /\ \/ site' = [g \in DOMAIN site \cup {f} |-> IF g = f THEN edits' + 1 ELSE site[g]]
       \/ f \in DOMAIN site /\ site' = Restrict(site, DOMAIN site \ {f})
    /\ UNCHANGED <<dest, pc, run, target>>

Start(p) ==
    /\ pc = "idle" /\ pc' = "list" /\ root' = p /\ open' = <<p, 0>> /\ target' = site
    /\ UNCHANGED <<area, dest, stack, attempt, failed, clean>>

Forget ==
    /\ pc' = "idle" /\ root' = <<>> /\ stack' = <<>> /\ open' = Nothing /\ attempt' = 0
    /\ failed' = {} /\ clean' = TRUE /\ target' = NoFiles

(* A folder's page is read. *)
List ==
    /\ pc = "list" /\ open[1] \in Dirs
    /\ pc' = "walk" /\ stack' = <<Children(open[1])>> \o stack /\ open' = Nothing
    /\ attempt' = 0
    /\ UNCHANGED <<area, dest, root, failed, hist>>

(* A file's page redirects: the folder that has the file is listed.        *)
Redirected ==
    /\ pc = "list" /\ open[1] \in DOMAIN site /\ pc' = "siblings" /\ attempt' = 0
    /\ UNCHANGED <<area, dest, root, stack, open, failed, hist>>

FindRoot ==
    /\ pc = "siblings" /\ root \in DOMAIN site
    /\ pc' = "walk" /\ stack' = <<{Entry(root)}>> /\ open' = Nothing /\ attempt' = 0
    /\ UNCHANGED <<area, dest, root, failed, hist>>

(* e, an entry with its version, is next by name in the folder on top. *)
NextIs(e) ==
    /\ pc = "walk" /\ stack # <<>> /\ e \in Head(stack)
    /\ \A other \in Head(stack) : Rank[e[1]] <= Rank[other[1]]
    /\ stack' = <<Head(stack) \ {e}>> \o Tail(stack)

EnterFolder(d) ==
    /\ NextIs(<<d, 0>>) /\ pc' = "list" /\ open' = <<d, 0>>
    /\ UNCHANGED <<area, dest, root, attempt, failed, hist>>

(* A file that is there, whatever it holds. *)
BadAlreadyHave(f, v) == f \in DOMAIN disk

AlreadyHave(f, v) == f \in DOMAIN disk /\ (f \in Summed => disk[f] = v)

File(f, v) ==
    /\ NextIs(<<f, v>>)
    /\ IF f \in Links \/ AlreadyHave(f, v)
       THEN UNCHANGED <<pc, open>>
       ELSE pc' = "get" /\ open' = <<f, v>>
    /\ UNCHANGED <<area, dest, root, attempt, failed, hist>>

(* The answer begins: the file, or something that is not told from it yet. *)
Get ==
    /\ pc = "get" /\ pc' = "body" /\ tmp' = tmp \cup {open[1]}
    /\ \/ open[1] \in DOMAIN site /\ open' = <<open[1], open[2], site[open[1]]>>
       \/ open[1] \in Summed \cup Mistaken /\ open' = <<open[1], open[2], OtherAnswer>>
    /\ UNCHANGED <<area, disk, root, stack, attempt, failed, hist>>

Commit ==
    /\ pc = "body" /\ (open[1] \in Summed => open[3] = open[2]) /\ pc' = "walk"
    /\ disk' = [g \in DOMAIN disk \cup {open[1]} |-> IF g = open[1] THEN open[3] ELSE disk[g]]
    /\ tmp' = tmp \ {open[1]} /\ open' = Nothing /\ attempt' = 0
    /\ UNCHANGED <<area, root, stack, failed, hist>>

Discard == tmp' = IF pc = "body" THEN tmp \ {open[1]} ELSE tmp

(* A request fails in a way that may pass, or a checksum does not match:   *)
(* pacer.do.                                                               *)
Retry ==
    /\ pc \in {"list", "siblings", "get", "body"} /\ attempt < Retries
    /\ attempt' = attempt + 1 /\ Discard
    /\ pc' = IF pc = "body" THEN "get" ELSE pc
    /\ open' = <<open[1], open[2]>>
    /\ UNCHANGED <<area, disk, root, stack, failed, hist>>

(* A failure that is not retried, or not any more, is noted; the root's    *)
(* ends the run.  The temporary file stays if it was the rename that       *)
(* failed.                                                                 *)
GiveUp ==
    /\ pc \in {"list", "siblings", "get", "body"} /\ (Discard \/ UNCHANGED tmp)
    /\ IF stack = <<>> THEN Forget
       ELSE /\ failed' = failed \cup {open[1]} /\ pc' = "walk" /\ open' = Nothing
            /\ attempt' = 0 /\ UNCHANGED <<root, stack, hist>>
    /\ UNCHANGED <<area, disk>>

(* The last attempt times out before it is answered: an error that fail    *)
(* takes for the end of its context, and does not note.                    *)
TimedOut ==
    /\ pc \in {"list", "get"} /\ stack # <<>> /\ attempt = Retries
    /\ pc' = "walk" /\ open' = Nothing /\ attempt' = 0 /\ clean' = FALSE
    /\ UNCHANGED <<area, dest, root, stack, failed, target>>

LeaveFolder ==
    /\ pc = "walk" /\ stack # <<>> /\ Head(stack) = {} /\ stack' = Tail(stack)
    /\ UNCHANGED <<area, dest, pc, root, open, attempt, failed, hist>>

(* The run returns, with an error if anything failed. *)
Finish ==
    /\ pc = "walk" /\ stack = <<>> /\ Forget
    /\ UNCHANGED <<area, dest>>

(* The process is killed, by a signal or with its daemon, or cancelled. *)
Crash ==
    /\ pc # "idle" /\ Forget
    /\ UNCHANGED <<area, dest>>

Next ==
    \/ \E f \in Files : Edit(f) \/ \E v \in 1..MaxEdits + 1 : File(f, v)
    \/ \E d \in Dirs : EnterFolder(d)
    \/ \E p \in Roots : Start(p)
    \/ List \/ Redirected \/ FindRoot \/ Get \/ Commit \/ Retry \/ GiveUp
    \/ TimedOut \/ LeaveFolder \/ Finish \/ Crash

Spec == Init /\ [][Next]_vars

-----------------------------------------------------------------------------
(* Type correctness of the area and of the run's memory. *)
TypeOK ==
    /\ DOMAIN site \cup DOMAIN target \cup DOMAIN disk \cup tmp \subseteq Files
    /\ Range(site) \subseteq 1..MaxEdits + 1 /\ Range(disk) \subseteq 0..MaxEdits + 1
    /\ attempt \in 0..Retries /\ Len(stack) <= Cardinality(Dirs)
    /\ pc \in {"list", "siblings", "get", "body"} <=> open # Nothing

Complete ==
    \A f \in DOMAIN target \ Links : IsPrefix(root, f) =>
        /\ f \in DOMAIN disk
        /\ f \in Summed => disk[f] = target[f]
        /\ f \notin Mistaken => disk[f] # OtherAnswer

(* A run that reports success, while the area was left alone and nothing   *)
(* timed out on the last attempt, has every file of the area under its     *)
(* root: the listed version of those with a checksum, a version of the     *)
(* others but for those that another answer passes for, wherever earlier   *)
(* runs failed, were killed or mirrored older versions.                    *)
DoneMeansAll == pc = "walk" /\ stack = <<>> /\ failed = {} /\ clean => Complete

(* "Mirror then returns an error naming what failed, so that running it    *)
(* again picks those up" (sourceforge.go:463-465): when nothing is named,  *)
(* everything of an area that never changed is there.                      *)
FailuresAreNamed == pc = "walk" /\ stack = <<>> /\ failed = {} /\ edits = 0 => Complete
=============================================================================
