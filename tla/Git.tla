-------------------------------- MODULE Git --------------------------------
(***************************************************************************)
(* The git mirror, src/git/git.go: a clone made in a temporary directory   *)
(* and renamed, or an update of the clone that is there; a bare repository *)
(* found in the clone's place is first turned into one, in steps.  git     *)
(* itself is external: each of its commands is one step here, that fails   *)
(* or not.                                                                 *)
(*                                                                         *)
(* A repository has one branch, which upstream may delete or rename, and a *)
(* HEAD that names it, or is detached.  A commit is the sequence of the    *)
(* changes that lead to it, so that a commit is an ancestor of those it    *)
(* begins; <<>> is no commit, of a branch that is not there.               *)
(***************************************************************************)
EXTENDS Naturals, Sequences, SequencesExt

CONSTANT MaxChange   \* bound: the number of changes made upstream

ChangeAssumption == MaxChange \in Nat

VARIABLES
    \* upstream
    tip,        \* its branch's commit
    change,     \* the number of changes made so far
    \* the destination directory
    repo,       \* what is at repoDir
    temp,       \* what is at tmpDir
    \* one run
    pc,         \* what the run is about to do
    fetched,    \* the commit the run cloned or fetched
    \* history
    broken      \* whether a conversion was ever cut short

upstream == <<tip, change>>
vars     == <<upstream, repo, temp, pc, fetched, broken>>

(* No directory, an empty or partial one, and a repository: in its bare    *)
(* form at the directory itself, or under .git with a work tree beside it. *)
Absent  == [form |-> "absent"]
Partial == [form |-> "partial"]

Repo(form, isBare, mirror, attached, head, remote, tree) ==
    [form |-> form, isBare |-> isBare, mirror |-> mirror, attached |-> attached,
     head |-> head, remote |-> remote, tree |-> tree]

Bare(c, attached)   == Repo("bare", TRUE, TRUE, attached, c, <<>>, <<>>)
Cloned(c, attached) == Repo(".git", FALSE, FALSE, attached, c, c, c)

(* Whether upstream's HEAD, which a clone takes over, names the branch. *)
Attached == IF tip = <<>> THEN {TRUE} ELSE BOOLEAN

IsRepo(r) == r.form \in {"bare", ".git"}

-----------------------------------------------------------------------------
(* The destination is empty, or holds an earlier git clone --mirror. *)
Init ==
    /\ \E n \in 0..MaxChange : change = n /\ tip = [k \in 1..n |-> k]
    /\ repo \in {Absent} \cup {Bare(tip, attached) : attached \in Attached} /\ temp = Absent
    /\ pc = "idle" /\ fetched = <<>> /\ broken = FALSE

(* A commit is pushed, on top of the branch or in the place of some of it. *)
Push ==
    /\ change < MaxChange /\ change' = change + 1
    /\ \E n \in 0..Len(tip) : tip' = Append(SubSeq(tip, 1, n), change')
    /\ UNCHANGED <<repo, temp, pc, fetched, broken>>

(* The branch is deleted upstream, or has another name from now on. *)
Delete ==
    /\ tip # <<>> /\ tip' = <<>>
    /\ UNCHANGED <<change, repo, temp, pc, fetched, broken>>

(* Mirror: what is there decides what is done. *)
Start ==
    /\ pc = "idle"
    /\ CASE repo.form = "bare" -> pc' = "clear"
         [] repo.form = ".git" -> pc' = "set-url"
         [] OTHER              -> pc' = "remove"
    /\ UNCHANGED <<upstream, repo, temp, fetched, broken>>

End(state) == pc' = state /\ fetched' = IF state = "idle" THEN <<>> ELSE fetched

(* The clone: the old temporary directory is removed, ... *)
RemoveTemp ==
    /\ pc = "remove" /\ pc' = "clone" /\ temp' = Absent
    /\ UNCHANGED <<upstream, repo, fetched, broken>>

(* ... git clone fills a new one, ... *)
CloneBegins ==
    /\ pc = "clone" /\ temp = Absent /\ temp' = Partial
    /\ UNCHANGED <<upstream, repo, pc, fetched, broken>>

CloneEnds ==
    /\ pc = "clone" /\ temp = Partial
    /\ \/ /\ \E attached \in Attached : temp' = Cloned(tip, attached)
          /\ pc' = "rename" /\ fetched' = tip
       \/ temp' = Absent /\ End("idle")
    /\ UNCHANGED <<upstream, repo, broken>>

(* ... and it becomes the repository, unless something else is there. *)
RenameClone ==
    /\ pc = "rename" /\ temp' = Absent
    /\ IF repo = Absent \/ repo = Partial
       THEN repo' = temp /\ pc' = "done" /\ UNCHANGED fetched
       ELSE End("idle") /\ UNCHANGED repo
    /\ UNCHANGED <<upstream, broken>>

(* convertBareToWorktree: the repository is moved aside ... *)
ClearTemp ==
    /\ pc = "clear" /\ pc' = "aside" /\ temp' = Absent
    /\ UNCHANGED <<upstream, repo, fetched, broken>>

MoveAside ==
    /\ pc = "aside" /\ pc' = "mkdir" /\ temp' = repo /\ repo' = Absent
    /\ UNCHANGED <<upstream, fetched, broken>>

(* ... and back, one level deeper; if that fails, to where it was. *)
MakeDir ==
    /\ pc = "mkdir"
    /\ \/ repo' = Partial /\ pc' = "inside" /\ UNCHANGED <<temp, fetched>>
       \/ repo' = temp /\ temp' = Absent /\ End("idle")
    /\ UNCHANGED <<upstream, broken>>

MoveInside ==
    /\ pc = "inside" /\ temp' = Absent
    /\ \/ repo' = [temp EXCEPT !.form = ".git"] /\ pc' = "bare" /\ UNCHANGED fetched
       \/ repo' = temp /\ End("idle")
    /\ UNCHANGED <<upstream, broken>>

(* Its configuration becomes a clone's, its branches the remote's, and     *)
(* HEAD is checked out; a command that fails ends the run here, except     *)
(* those that list the branches and move them.                             *)
Convert(state, next, as) ==
    /\ pc = state
    /\ \/ repo' = as /\ pc' = next /\ UNCHANGED <<fetched, broken>>
       \/ repo' = repo /\ End("idle") /\ broken' = TRUE
    /\ UNCHANGED <<upstream, temp>>

Configure ==
    \/ Convert("bare", "spec", [repo EXCEPT !.isBare = FALSE])
    \/ Convert("spec", "refs", [repo EXCEPT !.mirror = FALSE])
    \/ /\ pc = "refs" /\ pc' = "checkout"
       /\ repo' \in {[repo EXCEPT !.remote = repo.head], repo}
       /\ UNCHANGED <<upstream, temp, fetched, broken>>
    \/ Convert("checkout", "set-url", [repo EXCEPT !.tree = repo.head])

(* updateWorktree: git fetch --prune.  In a mirror it writes the branch    *)
(* itself, and refuses to where a work tree has it checked out.            *)
SetUrl ==
    /\ pc = "set-url"
    /\ pc' = "fetch" /\ UNCHANGED fetched
    /\ UNCHANGED <<upstream, repo, temp, broken>>

FetchSucceeds ==
    /\ pc = "fetch" /\ (repo.mirror /\ repo.attached => repo.isBare \/ tip = <<>>)
    /\ repo' = IF repo.mirror THEN [repo EXCEPT !.head = IF repo.attached THEN tip ELSE @]
               ELSE [repo EXCEPT !.remote = tip]
    /\ fetched' = tip /\ pc' = "merge"
    /\ UNCHANGED <<upstream, temp, broken>>

(* A git command fails: the run ends in an error. *)
UpdateFails ==
    /\ pc \in {"set-url", "fetch", "merge"} /\ End("idle")
    /\ UNCHANGED <<upstream, repo, temp, broken>>

(* Where the branch begins, or is behind, its remote counterpart. *)
FastForwards == IsPrefix(repo.head, repo.remote)

(* A merge whose failure is no error. *)
BadMerge ==
    /\ pc = "merge" /\ pc' = "done"
    /\ repo' = IF repo.attached /\ repo.remote # <<>> /\ FastForwards
               THEN [repo EXCEPT !.head = repo.remote, !.tree = repo.remote] ELSE repo
    /\ UNCHANGED <<upstream, temp, fetched, broken>>

(* The checked-out branch, unless HEAD is detached, follows its remote     *)
(* counterpart if there is one; merge --ff-only fails if upstream's        *)
(* history was rewritten.                                                  *)
Merge ==
    /\ pc = "merge"
    /\ IF ~repo.attached \/ repo.remote = <<>> \/ IsPrefix(repo.remote, repo.head)
       THEN repo' = repo
       ELSE /\ FastForwards
            /\ repo' \in {[repo EXCEPT !.head = repo.remote, !.tree = t] :
                             t \in IF repo.tree = repo.head THEN {repo.remote}
                                   ELSE {repo.tree}}
    /\ pc' = "done"
    /\ UNCHANGED <<upstream, temp, fetched, broken>>

Finish ==
    /\ pc = "done" /\ End("idle")
    /\ UNCHANGED <<upstream, repo, temp, broken>>

Converting == {"aside", "mkdir", "inside", "bare", "spec", "refs", "checkout"}

(* The process is killed, by a signal or with its daemon. *)
Crash ==
    /\ pc # "idle" /\ End("idle")
    /\ broken' = (broken \/ pc \in Converting \ {"aside"})
    /\ UNCHANGED <<upstream, repo, temp>>

Next ==
    \/ Push \/ Delete \/ Start \/ RemoveTemp \/ CloneBegins \/ CloneEnds \/ RenameClone
    \/ ClearTemp \/ MoveAside \/ MakeDir \/ MoveInside \/ Configure
    \/ SetUrl \/ FetchSucceeds \/ UpdateFails \/ Merge \/ Finish \/ Crash

Spec == Init /\ [][Next]_vars

-----------------------------------------------------------------------------
(* A run that reports success leaves a clone with what upstream's branch   *)
(* was when it fetched, and a work tree of the branch with all of that     *)
(* history, unless a conversion was once cut short.  The work tree may be  *)
(* older in the two cases that updateWorktree leaves to the fetch: where   *)
(* HEAD is detached, it stays where it is, and so does a branch that       *)
(* upstream has no more (then nothing was fetched: fetched is <<>>).       *)
DoneIsCurrent ==
    pc = "done" /\ ~broken =>
        /\ repo.form = ".git" /\ repo.tree = repo.head /\ repo.remote = fetched
        /\ repo.attached => IsPrefix(fetched, repo.head)

(* What the destination holds: the commits of its repositories. *)
Held == {c \in UNION {{r.head, r.remote} : r \in {s \in {repo, temp} : IsRepo(s)}} : c # <<>>}

(* A destination that holds some of the history never comes to hold none,  *)
(* whatever fails and wherever the run is killed: a bare repository is     *)
(* "converted in place to a non-bare working-tree clone without            *)
(* re-downloading objects".                                                *)
KeepsHistory == Held # {} => Held' # {}

HistoryKept == [][KeepsHistory]_vars
=============================================================================
