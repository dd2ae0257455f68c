---------------------------- MODULE MirrorProofs ----------------------------
(***************************************************************************)
(* What success means for the mirror methods that keep no index of their   *)
(* own: git, SourceForge, groups.io, Gopher and archive.org.               *)
(***************************************************************************)
EXTENDS Mirrors, SequencesExt, SequenceTheorems, FiniteSetTheorems, TLAPS

-----------------------------------------------------------------------------
(* git: what is at the two places at each step of a run.  A repository is  *)
(* a plain clone unless it is being converted, or that was cut short.      *)
Commits == Seq(Nat)

Repos ==
    [form : {"bare", ".git"}, isBare : BOOLEAN, mirror : BOOLEAN, attached : BOOLEAN,
     head : Commits, remote : Commits, tree : Commits]

Plain(r) == r.form = ".git" /\ ~r.mirror /\ r.tree = r.head

GitTypes ==
    /\ tip \in Commits /\ fetched \in Commits /\ change \in Nat
    /\ repo \in Repos \cup {T!Absent, T!Partial} /\ temp \in Repos \cup {T!Absent, T!Partial}
    /\ at \in {"idle", "remove", "clone", "rename", "clear", "aside", "mkdir", "inside", "bare",
               "spec", "refs", "checkout", "set-url", "fetch", "merge", "done"}
    /\ at \in {"bare", "spec", "refs", "checkout", "set-url", "fetch", "merge", "done"}
          => repo \in Repos /\ repo.form = ".git"
    /\ at \in {"clear", "aside"} => repo \in Repos
    /\ at \in {"mkdir", "inside"} => temp \in Repos
    /\ at = "rename" => \E attached \in BOOLEAN : temp = T!Cloned(fetched, attached)

Unbroken ==
    /\ at \in {"idle", "remove", "clone", "rename", "set-url", "fetch", "merge", "done"} =>
          (repo \in Repos => repo.form = "bare" \/ Plain(repo))
    /\ at \in {"clear", "aside"} => repo.form = "bare"
    /\ at \in {"mkdir", "inside"} => temp.form = "bare"
    /\ at \in {"refs", "checkout"} => ~repo.mirror
    /\ at = "merge" => repo.remote = fetched
    /\ at = "done" => repo.remote = fetched /\ (repo.attached => IsPrefix(fetched, repo.head))

GitInv == GitTypes /\ (~broken => Unbroken)

LEMMA PrefixOfItself ==
  ASSUME NEW c \in Commits
  PROVE  IsPrefix(c, c) /\ IsPrefix(<<>>, c)
<1>1. SubSeq(c, 1, Len(c)) = c /\ Len(c) \in Nat
  BY DEF Commits
<1>2. Len(<<>>) = 0 /\ SubSeq(<<>>, 1, 0) = <<>> /\ SubSeq(c, 1, 0) = <<>>
  BY DEF Commits
<1>. QED
  BY <1>1, <1>2 DEF IsPrefix

LEMMA GitInit ==
  ASSUME T!ChangeAssumption, T!Init
  PROVE  GitInv
<1>1. PICK n \in 0..MaxChange : tip = [k \in 1..n |-> k]
  BY DEF T!Init
<1>2. tip \in Commits /\ <<>> \in Commits /\ change \in Nat
  BY <1>1 DEF T!Init, Commits, T!ChangeAssumption
<1>3. /\ T!Absent.form = "absent" /\ T!Attached \subseteq BOOLEAN
      /\ \A attached \in BOOLEAN : /\ T!Bare(tip, attached) \in Repos
                                  /\ T!Bare(tip, attached).form = "bare"
  BY <1>2 DEF T!Bare, T!Repo, Repos, T!Absent, T!Attached
<1>. QED
  BY <1>2, <1>3 DEF T!Init, GitInv, GitTypes, Unbroken, T!Absent, T!Partial, Repos

GitForms == {"absent", "partial", "bare", ".git"}

LEMMA GitRecords ==
  /\ T!Absent.form = "absent" /\ T!Partial.form = "partial"
  /\ \A r \in Repos : r.form \in {"bare", ".git"} /\ r # T!Absent /\ r # T!Partial
  /\ \A c \in Commits, a \in BOOLEAN :
        /\ T!Cloned(c, a) \in Repos /\ Plain(T!Cloned(c, a))
        /\ T!Cloned(c, a).head = c /\ T!Cloned(c, a).remote = c
<1>1. T!Absent.form = "absent" /\ T!Partial.form = "partial"
  BY DEF T!Absent, T!Partial
<1>2. \A r \in Repos : r.form \in {"bare", ".git"}
  BY DEF Repos
<1>3. ASSUME NEW c \in Commits, NEW a \in BOOLEAN
      PROVE  /\ T!Cloned(c, a) \in Repos /\ Plain(T!Cloned(c, a))
             /\ T!Cloned(c, a).head = c /\ T!Cloned(c, a).remote = c
  BY <1>3 DEF T!Cloned, T!Repo, Repos, Plain
<1>. QED
  BY <1>1, <1>2, <1>3

LEMMA PushStep ==
  ASSUME GitInv, T!Push \/ T!Delete
  PROVE  GitInv'
<1>1. UNCHANGED <<repo, temp, at, fetched, broken>>
  BY DEF T!Push, T!Delete
<1>3. tip \in Commits /\ change \in Nat
  BY DEF GitInv, GitTypes
<1>4. tip' \in Commits /\ change' \in Nat
  <2>1. CASE T!Push
    <3>1. PICK n \in 0..Len(tip) : tip' = Append(SubSeq(tip, 1, n), change + 1)
      BY <2>1 DEF T!Push
    <3>2. SubSeq(tip, 1, n) \in Seq(Nat)
      BY <1>3 DEF Commits
    <3>. QED
      BY <1>3, <2>1, <3>1, <3>2 DEF Commits, T!Push
  <2>2. CASE T!Delete
    BY <1>3, <2>2 DEF Commits, T!Delete
  <2>. QED
    BY <2>1, <2>2
<1>5. GitTypes'
  BY <1>1, <1>4 DEF GitInv, GitTypes, T!Absent, T!Partial, T!Cloned, T!Repo
<1>6. Unbroken' = Unbroken
  BY <1>1 DEF Unbroken, Plain, IsPrefix
<1>. QED
  BY <1>1, <1>5, <1>6 DEF GitInv

(* A run that ends leaves a repository that a later one finds unbroken,    *)
(* unless it was being converted.                                          *)
LEMMA EndStep ==
  ASSUME GitInv, UNCHANGED <<tip, change>>, T!End("idle"),
         repo' \in Repos \cup {T!Absent, T!Partial}, temp' \in Repos \cup {T!Absent, T!Partial},
         ~broken' => (repo' \in Repos => repo'.form = "bare" \/ Plain(repo'))
  PROVE  GitInv'
<1>1. at' = "idle" /\ fetched' = <<>>
  BY DEF T!End
<1>2. GitTypes'
  BY <1>1 DEF GitInv, GitTypes, T!Absent, T!Partial, Commits
<1>3. ~broken' => Unbroken'
  BY <1>1 DEF Unbroken, Plain
<1>. QED
  BY <1>2, <1>3 DEF GitInv

LEMMA CloneStep ==
  ASSUME GitInv, T!Start \/ T!RemoveTemp \/ T!CloneBegins \/ T!CloneEnds
  PROVE  GitInv'
<1>1. CASE T!CloneEnds
  <2>1. CASE temp' = T!Absent /\ T!End("idle")
    BY <1>1, <2>1, EndStep DEF GitInv, GitTypes, Unbroken, T!CloneEnds, T!upstream
  <2>2. CASE /\ \E attached \in T!Attached : temp' = T!Cloned(tip, attached)
             /\ at' = "rename" /\ fetched' = tip
    <3>0. PICK attached \in BOOLEAN : temp' = T!Cloned(tip, attached)
      BY <2>2 DEF T!Attached
    <3>1. UNCHANGED <<tip, change, repo, broken>> /\ at = "clone"
      BY <1>1 DEF T!CloneEnds, T!upstream
    <3>2. temp' \in Repos
      BY <3>0, GitRecords DEF GitInv, GitTypes
    <3>3. GitTypes'
      BY <2>2, <3>0, <3>1, <3>2 DEF GitInv, GitTypes, T!Absent, T!Partial, T!Cloned, T!Repo
    <3>4. ~broken' => Unbroken'
      BY <2>2, <3>1 DEF GitInv, Unbroken, Plain
    <3>. QED
      BY <3>3, <3>4 DEF GitInv
  <2>. QED
    BY <1>1, <2>1, <2>2 DEF T!CloneEnds
<1>2. CASE T!Start
  <2>1. /\ UNCHANGED <<tip, change, repo, temp, fetched, broken>> /\ at = "idle"
        /\ \/ repo.form = "bare" /\ at' = "clear"
           \/ repo.form = ".git" /\ at' = "set-url"
           \/ at' = "remove"
    BY <1>2 DEF T!Start, T!upstream
  <2>2. repo.form \in {"bare", ".git"} => repo \in Repos
    BY GitRecords DEF GitInv, GitTypes
  <2>3. GitTypes'
    BY <2>1, <2>2 DEF GitInv, GitTypes, T!Absent, T!Partial
  <2>4. ~broken' => Unbroken'
    BY <2>1, <2>2 DEF GitInv, Unbroken, Plain
  <2>. QED
    BY <2>3, <2>4 DEF GitInv
<1>3. CASE T!RemoveTemp \/ T!CloneBegins
  <2>1. /\ UNCHANGED <<tip, change, repo, fetched, broken>>
        /\ at \in {"remove", "clone"} /\ at' = "clone" /\ temp' \in {T!Absent, T!Partial}
    BY <1>3 DEF T!RemoveTemp, T!CloneBegins, T!upstream
  <2>2. GitTypes'
    BY <2>1 DEF GitInv, GitTypes, T!Absent, T!Partial
  <2>3. ~broken' => Unbroken'
    BY <2>1 DEF GitInv, Unbroken, Plain
  <2>. QED
    BY <2>2, <2>3 DEF GitInv
<1>. QED
  BY <1>1, <1>2, <1>3

LEMMA RenameStep ==
  ASSUME GitInv, T!RenameClone
  PROVE  GitInv'
<1>1. UNCHANGED <<tip, change, broken>> /\ temp' = T!Absent /\ at = "rename"
  BY DEF T!RenameClone, T!upstream
<1>2. CASE repo' = temp /\ at' = "done" /\ UNCHANGED fetched
  <2>1. /\ repo' \in Repos /\ Plain(repo') /\ repo'.head = fetched /\ repo'.form = ".git"
        /\ repo'.remote = fetched /\ fetched \in Commits
    BY <1>1, <1>2, GitRecords DEF GitInv, GitTypes, Plain
  <2>2. IsPrefix(fetched, repo'.head)
    BY <2>1, PrefixOfItself
  <2>3. GitTypes'
    BY <1>1, <1>2, <2>1 DEF GitInv, GitTypes, T!Absent, T!Partial
  <2>4. Unbroken'
    BY <1>1, <1>2, <2>1, <2>2 DEF Unbroken, Plain, IsPrefix
  <2>. QED
    BY <2>3, <2>4 DEF GitInv
<1>3. CASE T!End("idle") /\ UNCHANGED repo
  BY <1>1, <1>3, EndStep DEF GitInv, GitTypes, Unbroken
<1>. QED
  BY <1>2, <1>3 DEF T!RenameClone

(* A bare repository is moved aside and one level deeper, or back. *)
LEMMA MoveStep ==
  ASSUME GitInv, T!ClearTemp \/ T!MoveAside \/ T!MakeDir \/ T!MoveInside
  PROVE  GitInv'
<1>1. UNCHANGED <<tip, change, broken>>
  BY DEF T!ClearTemp, T!MoveAside, T!MakeDir, T!MoveInside, T!upstream
<1>2. CASE T!ClearTemp \/ T!MoveAside
  <2>1. \/ /\ at = "clear" /\ at' = "aside" /\ temp' = T!Absent /\ UNCHANGED <<repo, fetched>>
        \/ /\ at = "aside" /\ at' = "mkdir" /\ temp' = repo /\ repo' = T!Absent
           /\ UNCHANGED fetched
    BY <1>2 DEF T!ClearTemp, T!MoveAside
  <2>2. GitTypes'
    BY <1>1, <2>1 DEF GitInv, GitTypes, T!Absent, T!Partial
  <2>3. ~broken' => Unbroken'
    BY <1>1, <2>1 DEF GitInv, Unbroken, Plain
  <2>. QED
    BY <2>2, <2>3 DEF GitInv
<1>3. CASE T!MakeDir
  <2>1. at = "mkdir" /\ temp \in Repos /\ (~broken => temp.form = "bare")
    BY <1>3 DEF T!MakeDir, GitInv, GitTypes, Unbroken
  <2>2. CASE repo' = T!Partial /\ at' = "inside" /\ UNCHANGED <<temp, fetched>>
    <3>1. GitTypes'
      BY <1>1, <2>1, <2>2 DEF GitInv, GitTypes, T!Absent, T!Partial
    <3>2. ~broken' => Unbroken'
      BY <1>1, <2>1, <2>2 DEF Unbroken
    <3>. QED
      BY <3>1, <3>2 DEF GitInv
  <2>3. CASE repo' = temp /\ temp' = T!Absent /\ T!End("idle")
    BY <1>1, <2>1, <2>3, EndStep
  <2>. QED
    BY <1>3, <2>2, <2>3 DEF T!MakeDir
<1>4. CASE T!MoveInside
  <2>1. /\ at = "inside" /\ temp \in Repos /\ (~broken => temp.form = "bare")
        /\ temp' = T!Absent
    BY <1>4 DEF T!MoveInside, GitInv, GitTypes, Unbroken
  <2>2. CASE repo' = [temp EXCEPT !.form = ".git"] /\ at' = "bare" /\ UNCHANGED fetched
    <3>1. repo' \in Repos /\ repo'.form = ".git"
      BY <2>1, <2>2 DEF Repos
    <3>2. GitTypes'
      BY <1>1, <2>1, <2>2, <3>1 DEF GitInv, GitTypes, T!Absent, T!Partial
    <3>3. Unbroken'
      BY <2>2 DEF Unbroken
    <3>. QED
      BY <3>2, <3>3 DEF GitInv
  <2>3. CASE repo' = temp /\ T!End("idle")
    BY <1>1, <2>1, <2>3, EndStep
  <2>. QED
    BY <1>4, <2>2, <2>3 DEF T!MoveInside
<1>. QED
  BY <1>2, <1>3, <1>4

(* Its configuration becomes a clone's, and its tree that of the branch. *)
LEMMA ConvertStep ==
  ASSUME GitInv, T!Configure
  PROVE  GitInv'
<1>1. /\ UNCHANGED <<tip, change, temp>> /\ repo \in Repos /\ repo.form = ".git"
      /\ at \in {"bare", "spec", "refs", "checkout"}
  BY DEF T!Configure, T!Convert, T!upstream, GitInv, GitTypes
<1>2. CASE repo' = repo /\ T!End("idle") /\ broken' = TRUE
  BY <1>1, <1>2, EndStep DEF GitInv, GitTypes
<1>3. CASE /\ UNCHANGED <<fetched, broken>>
           /\ \/ at = "bare" /\ at' = "spec" /\ repo' = [repo EXCEPT !.isBare = FALSE]
              \/ at = "spec" /\ at' = "refs" /\ repo' = [repo EXCEPT !.mirror = FALSE]
              \/ /\ at = "refs" /\ at' = "checkout"
                 /\ repo' \in {[repo EXCEPT !.remote = repo.head], repo}
              \/ at = "checkout" /\ at' = "set-url" /\ repo' = [repo EXCEPT !.tree = repo.head]
  <2>1. repo' \in Repos /\ repo'.form = ".git"
    BY <1>1, <1>3 DEF Repos
  <2>2. GitTypes'
    BY <1>1, <1>3, <2>1 DEF GitInv, GitTypes, T!Absent, T!Partial
  <2>3. ~broken => \/ at' = "spec"
                   \/ at' \in {"refs", "checkout"} /\ ~repo'.mirror
                   \/ at' = "set-url" /\ Plain(repo')
    BY <1>1, <1>3 DEF GitInv, Unbroken, Repos, Plain
  <2>4. ~broken' => Unbroken'
    BY <1>3, <2>3 DEF Unbroken, Plain
  <2>. QED
    BY <2>2, <2>4 DEF GitInv
<1>. QED
  BY <1>2, <1>3 DEF T!Configure, T!Convert

(* git fetch, which in a clone moves the remote's branch only. *)
LEMMA FetchStep ==
  ASSUME GitInv, T!SetUrl \/ T!FetchSucceeds \/ T!UpdateFails
  PROVE  GitInv'
<1>1. UNCHANGED <<tip, change, temp, broken>>
  BY DEF T!SetUrl, T!FetchSucceeds, T!UpdateFails, T!upstream
<1>2. CASE T!UpdateFails
  BY <1>1, <1>2, EndStep DEF T!UpdateFails, GitInv, GitTypes, Unbroken
<1>3. CASE T!SetUrl
  <2>1. UNCHANGED <<repo, fetched>> /\ at = "set-url" /\ at' = "fetch"
    BY <1>3 DEF T!SetUrl
  <2>2. GitTypes'
    BY <1>1, <2>1 DEF GitInv, GitTypes, T!Absent, T!Partial
  <2>3. ~broken' => Unbroken'
    BY <1>1, <2>1 DEF GitInv, Unbroken, Plain
  <2>. QED
    BY <2>2, <2>3 DEF GitInv
<1>4. CASE T!FetchSucceeds
  <2>1. /\ at = "fetch" /\ at' = "merge" /\ fetched' = tip /\ repo \in Repos
        /\ repo.form = ".git" /\ tip \in Commits
        /\ repo' = IF repo.mirror THEN [repo EXCEPT !.head = IF repo.attached THEN tip ELSE @]
                   ELSE [repo EXCEPT !.remote = tip]
    BY <1>4 DEF T!FetchSucceeds, GitInv, GitTypes
  <2>2. repo' \in Repos /\ repo'.form = ".git"
    BY <2>1 DEF Repos
  <2>3. GitTypes'
    BY <1>1, <2>1, <2>2 DEF GitInv, GitTypes, T!Absent, T!Partial
  <2>4. ~broken => Plain(repo') /\ repo'.remote = fetched'
    BY <2>1 DEF GitInv, Unbroken, Plain, Repos
  <2>5. ~broken' => Unbroken'
    BY <1>1, <2>1, <2>4 DEF Unbroken, Plain
  <2>. QED
    BY <2>3, <2>5 DEF GitInv
<1>. QED
  BY <1>2, <1>3, <1>4

(* The branch has what was fetched already, or follows it. *)
LEMMA MergeStep ==
  ASSUME GitInv, T!Merge
  PROVE  GitInv'
<1>1. /\ UNCHANGED <<tip, change, temp, fetched, broken>> /\ at = "merge" /\ at' = "done"
      /\ repo \in Repos /\ repo.form = ".git" /\ fetched \in Commits
  BY DEF T!Merge, T!upstream, GitInv, GitTypes
<1>2. repo.head \in Commits /\ repo.remote \in Commits /\ repo.tree \in Commits
  BY <1>1 DEF Repos
<1>3. CASE ~repo.attached \/ repo.remote = <<>> \/ IsPrefix(repo.remote, repo.head)
  <2>1. repo' = repo
    BY <1>3 DEF T!Merge, T!IsPrefix, IsPrefix
  <2>2. IsPrefix(<<>>, repo.head)
    BY <1>2, PrefixOfItself
  <2>3. ~broken => repo.remote = fetched /\ (repo.attached => IsPrefix(fetched, repo.head))
    BY <1>1, <1>3, <2>2 DEF GitInv, Unbroken
  <2>4. GitTypes'
    BY <1>1, <2>1 DEF GitInv, GitTypes, T!Absent, T!Partial
  <2>5. ~broken' => Unbroken'
    BY <1>1, <2>1, <2>3 DEF GitInv, Unbroken, Plain, IsPrefix
  <2>. QED
    BY <2>4, <2>5 DEF GitInv
<1>4. CASE ~(~repo.attached \/ repo.remote = <<>> \/ IsPrefix(repo.remote, repo.head))
  <2>1. PICK t \in IF repo.tree = repo.head THEN {repo.remote} ELSE {repo.tree} :
           repo' = [repo EXCEPT !.head = repo.remote, !.tree = t]
    BY <1>4 DEF T!Merge, T!IsPrefix, IsPrefix
  <2>2. /\ repo' \in Repos /\ repo'.form = ".git" /\ repo'.head = repo.remote
        /\ repo'.mirror = repo.mirror /\ repo'.remote = repo.remote
        /\ repo.tree = repo.head => repo'.tree = repo'.head
    BY <1>1, <1>2, <2>1 DEF Repos
  <2>3. ~broken => Plain(repo') /\ repo'.head = fetched /\ repo'.remote = fetched
    BY <1>1, <2>2 DEF GitInv, Unbroken, Plain
  <2>4. ~broken => IsPrefix(fetched, repo'.head)
    BY <1>1, <2>3, PrefixOfItself
  <2>5. GitTypes'
    BY <1>1, <2>2 DEF GitInv, GitTypes, T!Absent, T!Partial
  <2>6. ~broken' => Unbroken'
    BY <1>1, <2>3, <2>4 DEF Unbroken, Plain, IsPrefix
  <2>. QED
    BY <2>5, <2>6 DEF GitInv
<1>. QED
  BY <1>3, <1>4

(* A kill while a bare repository is converted is a conversion cut short.  *)
LEMMA StopStep ==
  ASSUME GitInv, T!Finish \/ T!Crash
  PROVE  GitInv'
<1>1. UNCHANGED <<tip, change, repo, temp>> /\ T!End("idle")
  BY DEF T!Finish, T!Crash, T!upstream
<1>2. ~broken' => ~broken /\ at \notin {"mkdir", "inside", "bare", "spec", "refs", "checkout"}
  BY DEF T!Finish, T!Crash, T!Converting
<1>3. ~broken' => (repo' \in Repos => repo'.form = "bare" \/ Plain(repo'))
  BY <1>1, <1>2 DEF GitInv, GitTypes, Unbroken, Plain
<1>. QED
  BY <1>1, <1>3, EndStep DEF GitInv, GitTypes

(* What every step of a git run preserves. *)
LEMMA GitInvariant ==
  ASSUME T!ChangeAssumption
  PROVE  T!Spec => []GitInv
<1>1. T!Init => GitInv
  BY GitInit
<1>2. GitInv /\ [T!Next]_(T!vars) => GitInv'
  <2>1. GitInv /\ UNCHANGED T!vars => GitInv'
    <3>1. UNCHANGED T!vars => UNCHANGED <<tip, change, repo, temp, at, fetched, broken>>
      BY DEF T!vars, T!upstream
    <3>2. UNCHANGED <<tip, change, repo, temp, at, fetched, broken>> =>
             GitTypes' = GitTypes /\ Unbroken' = Unbroken
      BY DEF GitTypes, Unbroken, Plain, T!Absent, T!Partial, T!Cloned, T!Repo, IsPrefix
    <3>. QED
      BY <3>1, <3>2 DEF GitInv
  <2>. QED
    BY <2>1, PushStep, CloneStep, RenameStep, MoveStep, ConvertStep, FetchStep, MergeStep,
       StopStep DEF T!Next
<1>. QED
  BY <1>1, <1>2, PTL DEF T!Spec

(* A git run that reports success leaves a clone with what it fetched, and *)
(* a work tree of the checked-out branch with all of that history,         *)
(* wherever earlier runs failed or were killed, unless a bare repository's *)
(* conversion was cut short; where HEAD is detached, or upstream has the   *)
(* branch no more, the work tree stays as it was (Mirror,                  *)
(* convertBareToWorktree and updateWorktree).                              *)
THEOREM CloneIsCurrent ==
  ASSUME T!ChangeAssumption
  PROVE  T!Spec => []T!DoneIsCurrent
<1>1. GitInv => T!DoneIsCurrent
  BY DEF GitInv, GitTypes, Unbroken, Plain, T!DoneIsCurrent, T!IsPrefix, IsPrefix
<1>. QED
  BY <1>1, GitInvariant, PTL

-----------------------------------------------------------------------------
(* Walks of a tree: paths that begin with another, and a stack of what is  *)
(* left of each folder.                                                    *)
LEMMA PrefixOfPath ==
  ASSUME NEW p, p \in Seq(Range(p)), NEW d, IsPrefix(d, p), d \in Seq(Range(d))
  PROVE  /\ Len(d) \in Nat /\ Len(p) \in Nat /\ Len(d) <= Len(p)
         /\ d = SubSeq(p, 1, Len(d)) /\ (Len(d) = Len(p) => d = p)
<1>1. /\ Len(d) \in Nat /\ Len(p) \in Nat /\ SubSeq(d, 1, Len(d)) = d
      /\ SubSeq(p, 1, Len(p)) = p
  OBVIOUS
<1>. QED
  BY <1>1 DEF IsPrefix

(* The path one step further than d on the way to p. *)
LEMMA StepFurther ==
  ASSUME NEW p, p \in Seq(Range(p)), NEW k \in 0..Len(p) - 1
  PROVE  /\ IsPrefix(SubSeq(p, 1, k + 1), p) /\ SubSeq(p, 1, k + 1) # <<>>
         /\ Front(SubSeq(p, 1, k + 1)) = SubSeq(p, 1, k)
         /\ SubSeq(p, 1, k + 1) = p <=> k + 1 = Len(p)
<1>. DEFINE c == SubSeq(p, 1, k + 1)
<1>1. Len(p) \in Nat /\ k + 1 \in 1..Len(p) /\ SubSeq(p, 1, Len(p)) = p
  OBVIOUS
<1>2. /\ c \in Seq(Range(p)) /\ Len(c) = k + 1
      /\ \A i \in 1..k + 1 : c[i] = p[i]
  BY <1>1
<1>3. SubSeq(c, 1, k + 1) = c
  BY <1>2
<1>4. SubSeq(c, 1, k) = SubSeq(p, 1, k)
  <2>1. /\ SubSeq(c, 1, k) \in Seq(Range(p)) /\ Len(SubSeq(c, 1, k)) = k
        /\ \A i \in 1..k : SubSeq(c, 1, k)[i] = c[i]
    BY <1>2
  <2>2. /\ SubSeq(p, 1, k) \in Seq(Range(p)) /\ Len(SubSeq(p, 1, k)) = k
        /\ \A i \in 1..k : SubSeq(p, 1, k)[i] = p[i]
    BY <1>1
  <2>. QED
    BY <1>2, <2>1, <2>2, SeqEqual
<1>5. IsPrefix(c, p)
  BY <1>1, <1>2, <1>3 DEF IsPrefix
<1>6. Front(c) = SubSeq(p, 1, k)
  BY <1>2, <1>4 DEF Front
<1>7. c # <<>> /\ (c = p => k + 1 = Len(p)) /\ (k + 1 = Len(p) => c = p)
  <2>1. k + 1 = Len(p) => c = p
    BY <1>1
  <2>2. Len(c) = k + 1 /\ k + 1 > 0 /\ Len(<<>>) = 0
    BY <1>1, <1>2
  <2>. QED
    BY <2>1, <2>2
<1>. QED
  BY <1>5, <1>6, <1>7

(* The elements of a sequence that is built from the front. *)
LEMMA Prepended ==
  ASSUME NEW X, NEW s \in Seq(X), NEW x \in X
  PROVE  <<x>> \o s \in Seq(X) /\ Range(<<x>> \o s) = {x} \cup Range(s)
<1>1. /\ <<x>> \o s \in Seq(X) /\ Len(s) \in Nat /\ DOMAIN s = 1..Len(s)
      /\ DOMAIN (<<x>> \o s) = 1..Len(s) + 1 /\ (<<x>> \o s)[1] = x
      /\ \A k \in 1..Len(s) : (<<x>> \o s)[k + 1] = s[k]
  OBVIOUS
<1>2. ASSUME NEW y \in Range(<<x>> \o s)
      PROVE  y \in {x} \cup Range(s)
  <2>1. PICK k \in 1..Len(s) + 1 : y = (<<x>> \o s)[k]
    BY <1>1 DEF Range
  <2>2. CASE k > 1
    <3>1. k - 1 \in 1..Len(s) /\ y = s[k - 1]
      BY <1>1, <2>1, <2>2
    <3>. QED
      BY <1>1, <3>1 DEF Range
  <2>. QED
    BY <1>1, <2>1, <2>2
<1>3. ASSUME NEW y \in Range(s)
      PROVE  y \in Range(<<x>> \o s)
  <2>1. PICK k \in 1..Len(s) : y = s[k]
    BY <1>1 DEF Range
  <2>2. k + 1 \in 1..Len(s) + 1 /\ (<<x>> \o s)[k + 1] = y
    BY <1>1, <2>1
  <2>. QED
    BY <1>1, <2>2 DEF Range
<1>4. x \in Range(<<x>> \o s)
  BY <1>1 DEF Range
<1>. QED
  BY <1>1, <1>2, <1>3, <1>4

LEMMA TopAndRest ==
  ASSUME NEW X, NEW s \in Seq(X), s # <<>>
  PROVE  Head(s) \in X /\ Tail(s) \in Seq(X) /\ Range(s) = {Head(s)} \cup Range(Tail(s))
<1>1. Head(s) \in X /\ Tail(s) \in Seq(X) /\ s = <<Head(s)>> \o Tail(s)
  OBVIOUS
<1>. QED
  BY <1>1, Prepended

(* What the walks of a tree have in common: no file of the entries E is a  *)
(* prefix of another, as the folders D are what leads on, and a stack of   *)
(* sets holds what is left of each folder.                                 *)
ForgePaths == Area.Entries \cup {<<>>}
GroupPaths == Section.Entries \cup {<<>>}
Left       == UNION Range(stack)

Tree(E, D) ==
    /\ <<>> \notin E /\ D \subseteq E \cup {<<>>}
    /\ \A p \in E : /\ p \in Seq(Range(p))
                    /\ \A k \in 0..Len(p) - 1 : SubSeq(p, 1, k) \in D

LEMMA TreesOfMethods ==
  /\ S!AreaAssumption => Tree(Area.Entries, Area.Dirs)
  /\ O!GroupAssumption => Tree(Section.Entries, Section.Dirs)
BY DEF S!AreaAssumption, O!GroupAssumption, Tree, S!Range, O!Range, Range

LEMMA PlacesArePaths ==
  ASSUME NEW E, NEW D, Tree(E, D), NEW p \in E \cup {<<>>}
  PROVE  p \in Seq(Range(p))
<1>1. <<>> \in Seq(Range(<<>>))
  OBVIOUS
<1>. QED
  BY <1>1 DEF Tree

(* No path leads on through a file. *)
LEMMA FileIsLeaf ==
  ASSUME NEW E, NEW D, Tree(E, D), NEW f \in E \ D, NEW g \in E \ D, IsPrefix(f, g)
  PROVE  f = g
<1>1. f \in Seq(Range(f)) /\ g \in Seq(Range(g))
  BY PlacesArePaths
<1>2. /\ Len(f) \in Nat /\ Len(g) \in Nat /\ Len(f) <= Len(g)
      /\ f = SubSeq(g, 1, Len(f)) /\ (Len(f) = Len(g) => f = g)
  BY <1>1, PrefixOfPath
<1>3. CASE Len(f) < Len(g)
  <2>1. Len(f) \in 0..Len(g) - 1
    BY <1>2, <1>3
  <2>2. SubSeq(g, 1, Len(f)) \in D
    BY <2>1 DEF Tree
  <2>. QED
    BY <1>2, <2>2
<1>. QED
  BY <1>2, <1>3

(* A folder has an entry on the way to each file below it. *)
LEMMA WayOn ==
  ASSUME NEW E, NEW D, Tree(E, D), NEW d \in D, NEW f \in E \ D, IsPrefix(d, f)
  PROVE  \E c \in E \cap (D \cup {f}) : Front(c) = d /\ IsPrefix(c, f)
<1>1. f \in Seq(Range(f)) /\ d \in Seq(Range(d))
  BY PlacesArePaths DEF Tree
<1>2. /\ Len(d) \in Nat /\ Len(f) \in Nat /\ Len(d) <= Len(f)
      /\ d = SubSeq(f, 1, Len(d)) /\ Len(d) # Len(f)
  BY <1>1, PrefixOfPath
<1>. DEFINE c == SubSeq(f, 1, Len(d) + 1)
<1>3. /\ IsPrefix(c, f) /\ c # <<>> /\ Front(c) = d /\ (c = f <=> Len(d) + 1 = Len(f))
  <2>1. Len(d) \in 0..Len(f) - 1
    BY <1>2
  <2>. QED
    BY <1>1, <1>2, <2>1, StepFurther
<1>4. c \in D \/ c = f
  <2>1. CASE Len(d) + 1 < Len(f)
    <3>1. Len(d) + 1 \in 0..Len(f) - 1
      BY <1>2, <2>1
    <3>. QED
      BY <3>1 DEF Tree
  <2>2. CASE Len(d) + 1 >= Len(f)
    BY <1>2, <1>3, <2>2
  <2>. QED
    BY <1>2, <2>1, <2>2
<1>5. c \in E \cap (D \cup {f})
  BY <1>3, <1>4 DEF Tree
<1>. QED
  BY <1>3, <1>5

LEMMA OneMore ==
  ASSUME NEW X, NEW B
  PROVE  UNION ({X} \cup B) = X \cup UNION B
OBVIOUS

LEMMA PushFolder ==
  ASSUME NEW X, stack \in Seq(SUBSET X), NEW rows \in SUBSET X,
         stack' = <<rows>> \o stack
  PROVE  stack' \in Seq(SUBSET X) /\ Left' = Left \cup rows
<1>1. /\ <<rows>> \o stack \in Seq(SUBSET X)
      /\ Range(<<rows>> \o stack) = {rows} \cup Range(stack)
  BY Prepended
<1>2. Left' = UNION Range(stack')
  BY DEF Left, Range
<1>. QED
  BY <1>1, <1>2, OneMore DEF Left

(* The walk takes an entry of the folder on top, and leaves the others.    *)
LEMMA TakeNext ==
  ASSUME NEW X, stack \in Seq(SUBSET X), stack # <<>>, NEW e \in Head(stack),
         stack' = <<Head(stack) \ {e}>> \o Tail(stack)
  PROVE  /\ e \in X /\ e \in Left /\ stack' \in Seq(SUBSET X)
         /\ Left' \subseteq Left /\ Left \subseteq Left' \cup {e}
<1>1. /\ Head(stack) \in SUBSET X /\ Tail(stack) \in Seq(SUBSET X)
      /\ Range(stack) = {Head(stack)} \cup Range(Tail(stack))
  BY TopAndRest
<1>2. /\ stack' \in Seq(SUBSET X)
      /\ Range(stack') = {Head(stack) \ {e}} \cup Range(Tail(stack))
  <2>1. Head(stack) \ {e} \in SUBSET X
    BY <1>1
  <2>. QED
    BY <1>1, <2>1, Prepended
<1>3. /\ Left = Head(stack) \cup UNION Range(Tail(stack))
      /\ Left' = (Head(stack) \ {e}) \cup UNION Range(Tail(stack))
  <2>1. Left = UNION Range(stack) /\ Left' = UNION Range(stack')
    BY DEF Left, Range
  <2>2. Left = Head(stack) \cup UNION Range(Tail(stack))
    BY <1>1, <2>1, OneMore
  <2>3. Left' = (Head(stack) \ {e}) \cup UNION Range(Tail(stack))
    BY <1>2, <2>1, OneMore
  <2>. QED
    BY <2>2, <2>3
<1>. QED
  BY <1>1, <1>2, <1>3

LEMMA PopFolder ==
  ASSUME NEW X, stack \in Seq(SUBSET X), stack # <<>>, Head(stack) = {}, stack' = Tail(stack)
  PROVE  stack' \in Seq(SUBSET X) /\ Left' = Left
<1>1. Tail(stack) \in Seq(SUBSET X) /\ Range(stack) = {Head(stack)} \cup Range(Tail(stack))
  BY TopAndRest
<1>2. Left' = UNION Range(stack')
  BY DEF Left, Range
<1>. QED
  BY <1>1, <1>2, OneMore DEF Left

-----------------------------------------------------------------------------
(* SourceForge: the folders and files the run has in hand or still has to  *)
(* look at.                                                                *)
Busy     == at \in {"list", "siblings", "get", "body"}
Versions == Nat \ {0}

ForgeTypes ==
    /\ DOMAIN site \subseteq S!Files /\ \A f \in DOMAIN site : site[f] \in Versions
    /\ at \in {"idle", "walk", "list", "siblings", "get", "body"}
    /\ stack \in Seq(SUBSET (ForgePaths \X Nat)) /\ edits \in Nat
    /\ root \in ForgePaths
    /\ Busy => copy[1] \in ForgePaths /\ copy[2] \in Nat
    /\ at = "list" => copy[1] \in Area.Dirs \cup {root}
    /\ at = "siblings" => copy[1] = root
    /\ at \in {"get", "body"} => copy[1] \in S!Files /\ copy[2] \in Versions
    /\ at = "idle" => clean /\ stack = <<>> /\ flawed = {}

(* Another answer is kept only where it passes. *)
NoOther(f, content) == f \notin Area.Summed \cup Area.Mistaken => content # S!OtherAnswer

Genuine ==
    /\ \A f \in DOMAIN kept : NoOther(f, kept[f])
    /\ at = "body" => NoOther(copy[1], copy[3])

(* As long as the area is left alone, what was listed is what is there. *)
Unmoved ==
    at # "idle" /\ clean =>
        /\ goal = site
        /\ \A e \in Left : e[1] \in S!Files => e[1] \in DOMAIN site /\ e[2] = site[e[1]]
        /\ at \in {"get", "body"} => copy[1] \in DOMAIN site /\ copy[2] = site[copy[1]]

Fetched(f) ==
    /\ f \in DOMAIN kept
    /\ f \in Area.Summed => kept[f] = goal[f]
    /\ f \notin Area.Mistaken => kept[f] # S!OtherAnswer

Ahead(f) ==
    \/ Busy /\ IsPrefix(copy[1], f)
    \/ \E e \in Left : IsPrefix(e[1], f)

ForgeCovered ==
    at # "idle" /\ clean /\ flawed = {} =>
        \A f \in DOMAIN goal \ Area.Links : IsPrefix(root, f) => Fetched(f) \/ Ahead(f)

ForgeInv == ForgeTypes /\ Genuine /\ Unmoved /\ ForgeCovered

LEMMA ForgeInit ==
  ASSUME S!AreaAssumption, S!Init
  PROVE  ForgeInv
<1>1. /\ site = [f \in S!Files |-> 1] /\ edits = 0 /\ at = "idle" /\ root = <<>> /\ stack = <<>>
      /\ clean = TRUE /\ DOMAIN kept = {} /\ flawed = {}
  BY DEF S!Init, S!NoFiles
<1>2. ForgeTypes
  BY <1>1 DEF ForgeTypes, Versions, Busy, ForgePaths
<1>. QED
  BY <1>1, <1>2 DEF ForgeInv, Genuine, Unmoved, ForgeCovered

(* A change of the area, after which a run that is on promises nothing.    *)
LEMMA EditStep ==
  ASSUME S!AreaAssumption, ForgeInv, NEW f \in S!Files, S!Edit(f)
  PROVE  ForgeInv'
<1>1. /\ UNCHANGED <<kept, at, root, stack, copy, flawed, goal>>
      /\ edits' = edits + 1 /\ clean' = (clean /\ at = "idle")
      /\ \/ site' = [g \in DOMAIN site \cup {f} |-> IF g = f THEN edits' + 1 ELSE site[g]]
         \/ site' = S!Restrict(site, DOMAIN site \ {f})
  BY DEF S!Edit, S!dest, S!run
<1>2. /\ edits' \in Nat /\ edits' + 1 \in Versions /\ DOMAIN site \subseteq S!Files
      /\ \A g \in DOMAIN site : site[g] \in Versions
  BY <1>1 DEF ForgeInv, ForgeTypes, Versions
<1>3. DOMAIN site' \subseteq S!Files /\ \A g \in DOMAIN site' : site'[g] \in Versions
  <2>1. CASE site' = [g \in DOMAIN site \cup {f} |-> IF g = f THEN edits' + 1 ELSE site[g]]
    BY <1>2, <2>1
  <2>2. CASE site' = S!Restrict(site, DOMAIN site \ {f})
    BY <1>2, <2>2 DEF S!Restrict
  <2>. QED
    BY <1>1, <2>1, <2>2
<1>4. ForgeTypes'
  BY <1>1, <1>2, <1>3 DEF ForgeInv, ForgeTypes, Busy
<1>5. Genuine'
  BY <1>1 DEF ForgeInv, Genuine, NoOther, S!OtherAnswer
<1>6. at' # "idle" => ~clean'
  BY <1>1
<1>. QED
  BY <1>4, <1>5, <1>6 DEF ForgeInv, Unmoved, ForgeCovered

(* The end of a run. *)
LEMMA ForgeForget ==
  ASSUME ForgeInv, S!Forget, UNCHANGED <<site, edits, kept>>
  PROVE  ForgeInv'
<1>1. /\ at' = "idle" /\ root' = <<>> /\ stack' = <<>> /\ clean' = TRUE
      /\ flawed' = {}
  BY DEF S!Forget
<1>2. ForgeTypes'
  BY <1>1 DEF ForgeInv, ForgeTypes, Busy, ForgePaths
<1>3. Genuine'
  BY <1>1 DEF ForgeInv, Genuine, NoOther, S!OtherAnswer
<1>. QED
  BY <1>1, <1>2, <1>3 DEF ForgeInv, Unmoved, ForgeCovered

(* The root: a run begins, and a file's page sends it to the folder. *)
LEMMA RootStep ==
  ASSUME S!AreaAssumption, ForgeInv, (\E p \in Area.Roots : S!Start(p)) \/ S!Redirected
  PROVE  ForgeInv'
<1>1. CASE \E p \in Area.Roots : S!Start(p)
  <2>1. PICK p \in Area.Roots : S!Start(p)
    BY <1>1
  <2>2. /\ at = "idle" /\ at' = "list" /\ root' = p /\ copy' = <<p, 0>> /\ goal' = site
        /\ UNCHANGED <<site, edits, kept, stack, flawed, clean>>
    BY <2>1 DEF S!Start, S!area, S!dest
  <2>3. p \in ForgePaths /\ copy'[1] = p /\ copy'[2] = 0
    BY <2>2 DEF S!AreaAssumption, ForgePaths, S!Files
  <2>4. ForgeTypes'
    BY <2>2, <2>3 DEF ForgeInv, ForgeTypes, Busy
  <2>5. Genuine'
    BY <2>2 DEF ForgeInv, Genuine, NoOther, S!OtherAnswer
  <2>6. Left' = {}
    BY <2>2 DEF ForgeInv, ForgeTypes, Left, Range
  <2>7. Unmoved'
    BY <2>2, <2>6 DEF Unmoved
  <2>8. ForgeCovered'
    BY <2>2, <2>3 DEF ForgeCovered, Ahead, Busy
  <2>. QED
    BY <2>4, <2>5, <2>7, <2>8 DEF ForgeInv
<1>2. CASE S!Redirected
  <2>1. /\ at = "list" /\ copy[1] \in DOMAIN site /\ at' = "siblings"
        /\ UNCHANGED <<site, edits, kept, root, stack, copy, flawed, clean, goal>>
    BY <1>2 DEF S!Redirected, S!area, S!dest, S!hist
  <2>2. copy[1] = root
    BY <2>1 DEF ForgeInv, ForgeTypes, S!Files
  <2>3. ForgeTypes'
    BY <2>1, <2>2 DEF ForgeInv, ForgeTypes, Busy
  <2>4. Genuine'
    BY <2>1 DEF ForgeInv, Genuine, NoOther, S!OtherAnswer
  <2>5. Left' = Left
    BY <2>1 DEF Left
  <2>6. Unmoved'
    BY <2>1, <2>5 DEF ForgeInv, Unmoved
  <2>7. ForgeCovered'
    BY <2>1, <2>5 DEF ForgeInv, ForgeCovered, Ahead, Busy, Fetched
  <2>. QED
    BY <2>3, <2>4, <2>6, <2>7 DEF ForgeInv
<1>. QED
  BY <1>1, <1>2

(* A folder's listing: what it shows leads on to all that is below it. *)
LEMMA ListStep ==
  ASSUME S!AreaAssumption, ForgeInv, S!List
  PROVE  ForgeInv'
<1>. DEFINE C == S!Children(copy[1])
<1>1. /\ at = "list" /\ copy[1] \in Area.Dirs /\ at' = "walk" /\ stack' = <<C>> \o stack
      /\ UNCHANGED <<site, edits, kept, root, flawed, clean, goal>>
  BY DEF S!List, S!area, S!dest, S!hist
<1>2. /\ DOMAIN site \subseteq S!Files /\ \A f \in DOMAIN site : site[f] \in Versions
      /\ stack \in Seq(SUBSET (ForgePaths \X Nat))
  BY DEF ForgeInv, ForgeTypes
<1>3. C \in SUBSET (ForgePaths \X Nat)
  BY <1>2 DEF S!Children, S!Entry, ForgePaths, Versions
<1>4. \A e \in C : e[1] \in S!Files => e[1] \in DOMAIN site /\ e[2] = site[e[1]]
  BY DEF S!Children, S!Entry, S!Files
<1>5. stack' \in Seq(SUBSET (ForgePaths \X Nat)) /\ Left' = Left \cup C
  <2>. HIDE DEF C
  <2>. QED
    BY <1>1, <1>2, <1>3, PushFolder
<1>6. ForgeTypes'
  BY <1>1, <1>5 DEF ForgeInv, ForgeTypes, Busy
<1>7. Genuine'
  BY <1>1 DEF ForgeInv, Genuine, NoOther, S!OtherAnswer
<1>8. Unmoved'
  <2>. HIDE DEF C
  <2>. QED
    BY <1>1, <1>4, <1>5 DEF ForgeInv, Unmoved
<1>9. ForgeCovered'
  <2>. SUFFICES ASSUME clean, flawed = {}, NEW f \in DOMAIN goal \ Area.Links, IsPrefix(root, f)
                PROVE  Fetched(f)' \/ Ahead(f)'
    BY <1>1 DEF ForgeCovered
  <2>1. Fetched(f) \/ Ahead(f)
    BY <1>1 DEF ForgeInv, ForgeCovered
  <2>2. CASE Fetched(f)
    BY <1>1, <2>2 DEF Fetched, S!OtherAnswer
  <2>3. CASE IsPrefix(copy[1], f)
    <3>1. f \in DOMAIN site
      BY <1>1 DEF ForgeInv, Unmoved
    <3>2. \E e \in C : IsPrefix(e[1], f)
      <4>1. f \in Area.Entries \ Area.Dirs
        BY <1>2, <3>1 DEF S!Files
      <4>2. PICK c \in Area.Entries \cap (Area.Dirs \cup {f}) :
                Front(c) = copy[1] /\ IsPrefix(c, f)
        BY <1>1, <2>3, <4>1, WayOn, TreesOfMethods
      <4>3. S!Entry(c) \in C /\ S!Entry(c)[1] = c
        BY <3>1, <4>2 DEF S!Children, S!Entry, S!Front, Front
      <4>. QED
        BY <4>2, <4>3
    <3>. HIDE DEF C
    <3>. QED
      BY <1>5, <3>2 DEF Ahead
  <2>4. CASE \E e \in Left : IsPrefix(e[1], f)
    <3>. HIDE DEF C
    <3>. QED
      BY <1>5, <2>4 DEF Ahead
  <2>. QED
    BY <2>1, <2>2, <2>3, <2>4 DEF Ahead
<1>. QED
  BY <1>6, <1>7, <1>8, <1>9 DEF ForgeInv

(* A file that the run was given is listed by its folder. *)
LEMMA FindRootStep ==
  ASSUME S!AreaAssumption, ForgeInv, S!FindRoot
  PROVE  ForgeInv'
<1>1. /\ at = "siblings" /\ root \in DOMAIN site /\ at' = "walk"
      /\ stack' = <<{S!Entry(root)}>>
      /\ UNCHANGED <<site, edits, kept, root, flawed, clean, goal>>
  BY DEF S!FindRoot, S!area, S!dest, S!hist
<1>2. DOMAIN site \subseteq S!Files /\ \A f \in DOMAIN site : site[f] \in Versions
  BY DEF ForgeInv, ForgeTypes
<1>3. S!Entry(root) = <<root, site[root]>> /\ root \in ForgePaths /\ site[root] \in Nat
  BY <1>1, <1>2 DEF S!Entry, S!Files, ForgePaths, Versions
<1>4. stack' \in Seq(SUBSET (ForgePaths \X Nat)) /\ Left' = {<<root, site[root]>>}
  <2>1. DOMAIN stack' = {1} /\ stack'[1] = {<<root, site[root]>>}
    BY <1>1, <1>3
  <2>2. Range(stack)' = {{<<root, site[root]>>}}
    BY <2>1 DEF Range
  <2>3. {<<root, site[root]>>} \in SUBSET (ForgePaths \X Nat)
    BY <1>3
  <2>4. stack' \in Seq(SUBSET (ForgePaths \X Nat))
    BY <1>1, <1>3, <2>3
  <2>. QED
    BY <2>2, <2>4 DEF Left
<1>5. ForgeTypes'
  BY <1>1, <1>4 DEF ForgeInv, ForgeTypes, Busy
<1>6. Genuine'
  BY <1>1 DEF ForgeInv, Genuine, NoOther, S!OtherAnswer
<1>7. Unmoved'
  BY <1>1, <1>4 DEF ForgeInv, Unmoved
<1>8. ForgeCovered'
  BY <1>1, <1>4 DEF ForgeCovered, Ahead
<1>. QED
  BY <1>5, <1>6, <1>7, <1>8 DEF ForgeInv

LEMMA EnterStep ==
  ASSUME S!AreaAssumption, ForgeInv, NEW d \in Area.Dirs, S!EnterFolder(d)
  PROVE  ForgeInv'
<1>1. /\ S!NextIs(<<d, 0>>) /\ at' = "list" /\ copy' = <<d, 0>>
      /\ UNCHANGED <<site, edits, kept, root, flawed, clean, goal>>
  BY DEF S!EnterFolder, S!area, S!dest, S!hist
<1>2. /\ at = "walk" /\ <<d, 0>> \in ForgePaths \X Nat
      /\ stack' \in Seq(SUBSET (ForgePaths \X Nat))
      /\ Left' \subseteq Left /\ Left \subseteq Left' \cup {<<d, 0>>}
  <2>1. stack \in Seq(SUBSET (ForgePaths \X Nat))
    BY DEF ForgeInv, ForgeTypes
  <2>. QED
    BY <1>1, <2>1, TakeNext DEF S!NextIs
<1>3. copy'[1] = d /\ copy'[2] = 0 /\ d \in ForgePaths
  BY <1>1, <1>2
<1>4. ForgeTypes'
  BY <1>1, <1>2, <1>3 DEF ForgeInv, ForgeTypes, Busy
<1>5. Genuine'
  BY <1>1 DEF ForgeInv, Genuine, NoOther, S!OtherAnswer
<1>6. Unmoved'
  BY <1>1, <1>2 DEF ForgeInv, Unmoved
<1>7. ForgeCovered'
  <2>. SUFFICES ASSUME clean, flawed = {}, NEW f \in DOMAIN goal \ Area.Links, IsPrefix(root, f)
                PROVE  Fetched(f)' \/ Ahead(f)'
    BY <1>1 DEF ForgeCovered
  <2>1. Fetched(f) \/ \E e \in Left : IsPrefix(e[1], f)
    BY <1>1, <1>2 DEF ForgeInv, ForgeCovered, Ahead, Busy
  <2>2. CASE Fetched(f)
    BY <1>1, <2>2 DEF Fetched, S!OtherAnswer
  <2>3. CASE \E e \in Left : IsPrefix(e[1], f)
    <3>1. PICK e \in Left : IsPrefix(e[1], f)
      BY <2>3
    <3>2. e \in Left' \/ e[1] = d
      BY <1>2
    <3>3. Busy'
      BY <1>1 DEF Busy
    <3>. QED
      BY <1>3, <3>1, <3>2, <3>3 DEF Ahead
  <2>. QED
    BY <2>1, <2>2, <2>3
<1>. QED
  BY <1>4, <1>5, <1>6, <1>7 DEF ForgeInv

(* A file is skipped only when it is a link or there, as it should be.     *)
LEMMA FileStep ==
  ASSUME S!AreaAssumption, ForgeInv, NEW f \in S!Files, NEW v \in 1..Area.MaxEdits + 1,
         S!File(f, v)
  PROVE  ForgeInv'
<1>1. /\ S!NextIs(<<f, v>>) /\ UNCHANGED <<site, edits, kept, root, flawed, clean, goal>>
      /\ \/ (f \in Area.Links \/ S!AlreadyHave(f, v)) /\ UNCHANGED <<at, copy>>
         \/ at' = "get" /\ copy' = <<f, v>>
  BY DEF S!File, S!area, S!dest, S!hist
<1>2. /\ at = "walk" /\ <<f, v>> \in Left
      /\ stack' \in Seq(SUBSET (ForgePaths \X Nat))
      /\ Left' \subseteq Left /\ Left \subseteq Left' \cup {<<f, v>>}
  <2>1. stack \in Seq(SUBSET (ForgePaths \X Nat))
    BY DEF ForgeInv, ForgeTypes
  <2>. QED
    BY <1>1, <2>1, TakeNext DEF S!NextIs
<1>3. f \in ForgePaths /\ v \in Nat /\ v \in Versions
  BY DEF S!AreaAssumption, ForgePaths, S!Files, Versions
<1>4. clean => f \in DOMAIN site /\ v = site[f] /\ goal = site
  BY <1>2 DEF ForgeInv, Unmoved
<1>5. ForgeTypes'
  <2>1. copy' = <<f, v>> => copy'[1] = f /\ copy'[2] = v
    OBVIOUS
  <2>. QED
    BY <1>1, <1>2, <1>3, <2>1 DEF ForgeInv, ForgeTypes, Busy
<1>6. Genuine'
  BY <1>1, <1>2 DEF ForgeInv, Genuine, NoOther, S!OtherAnswer
<1>7. Unmoved'
  <2>1. copy' = <<f, v>> => copy'[1] = f /\ copy'[2] = v
    OBVIOUS
  <2>. QED
    BY <1>1, <1>2, <1>4, <2>1 DEF ForgeInv, Unmoved
<1>8. ForgeCovered'
  <2>. SUFFICES ASSUME clean, flawed = {}, NEW g \in DOMAIN goal \ Area.Links, IsPrefix(root, g)
                PROVE  Fetched(g)' \/ Ahead(g)'
    BY <1>1 DEF ForgeCovered
  <2>1. Fetched(g) \/ \E e \in Left : IsPrefix(e[1], g)
    BY <1>1, <1>2 DEF ForgeInv, ForgeCovered, Ahead, Busy
  <2>2. Fetched(g)' = Fetched(g)
    BY <1>1 DEF Fetched, S!OtherAnswer
  <2>3. CASE \E e \in Left : IsPrefix(e[1], g)
    <3>1. PICK e \in Left : IsPrefix(e[1], g)
      BY <2>3
    <3>2. CASE e \in Left'
      BY <3>1, <3>2 DEF Ahead
    <3>3. CASE e = <<f, v>>
      <4>1. g = f
        <5>1. g \in S!Files
          BY <1>4 DEF ForgeInv, ForgeTypes
        <5>2. IsPrefix(f, g)
          BY <3>1, <3>3
        <5>. QED
          BY <5>1, <5>2, FileIsLeaf, TreesOfMethods DEF S!Files
      <4>2. CASE at' = "get" /\ copy' = <<f, v>>
        <5>1. Busy' /\ copy'[1] = f
          BY <4>2 DEF Busy
        <5>. QED
          BY <3>1, <3>3, <5>1 DEF Ahead
      <4>3. CASE S!AlreadyHave(f, v)
        <5>1. f \in DOMAIN kept /\ (f \in Area.Summed => kept[f] = goal[f])
          BY <1>4, <4>3 DEF S!AlreadyHave
        <5>2. goal[f] # S!OtherAnswer
          BY <1>3, <1>4 DEF Versions, S!OtherAnswer
        <5>3. NoOther(f, kept[f])
          BY <5>1 DEF ForgeInv, Genuine
        <5>4. f \notin Area.Mistaken => kept[f] # S!OtherAnswer
          BY <5>1, <5>2, <5>3 DEF NoOther
        <5>. QED
          BY <2>2, <4>1, <5>1, <5>4 DEF Fetched
      <4>. QED
        BY <1>1, <4>1, <4>2, <4>3
    <3>. QED
      BY <1>2, <3>1, <3>2, <3>3
  <2>. QED
    BY <2>1, <2>2, <2>3
<1>. QED
  BY <1>5, <1>6, <1>7, <1>8 DEF ForgeInv

(* A download: what a listed checksum lets through is the listed version,  *)
(* and what comes without one is no web page unless it is named like one.  *)
LEMMA GetStep ==
  ASSUME S!AreaAssumption, ForgeInv, S!Get
  PROVE  ForgeInv'
<1>1. /\ at = "get" /\ at' = "body"
      /\ UNCHANGED <<site, edits, kept, root, stack, flawed, clean, goal>>
      /\ \/ copy[1] \in DOMAIN site /\ copy' = <<copy[1], copy[2], site[copy[1]]>>
         \/ copy[1] \in Area.Summed \cup Area.Mistaken /\ copy' = <<copy[1], copy[2], S!OtherAnswer>>
  BY DEF S!Get, S!area, S!hist
<1>2. copy'[1] = copy[1] /\ copy'[2] = copy[2] /\ NoOther(copy[1], copy'[3])
  <2>1. CASE copy[1] \in DOMAIN site /\ copy' = <<copy[1], copy[2], site[copy[1]]>>
    <3>1. site[copy[1]] # 0
      BY <2>1 DEF ForgeInv, ForgeTypes, Versions
    <3>. QED
      BY <2>1, <3>1 DEF NoOther, S!OtherAnswer
  <2>2. CASE copy[1] \in Area.Summed \cup Area.Mistaken /\ copy' = <<copy[1], copy[2], S!OtherAnswer>>
    BY <2>2 DEF NoOther
  <2>. QED
    BY <1>1, <2>1, <2>2
<1>3. ForgeTypes'
  BY <1>1, <1>2 DEF ForgeInv, ForgeTypes, Busy
<1>4. Genuine'
  BY <1>1, <1>2 DEF ForgeInv, Genuine, NoOther, S!OtherAnswer
<1>5. Left' = Left
  BY <1>1 DEF Left
<1>6. Unmoved'
  BY <1>1, <1>2, <1>5 DEF ForgeInv, Unmoved
<1>7. ForgeCovered'
  <2>1. \A f : Fetched(f)' = Fetched(f)
    BY <1>1 DEF Fetched, S!OtherAnswer
  <2>2. \A f : Ahead(f)' = Ahead(f)
    BY <1>1, <1>2, <1>5 DEF Ahead, Busy
  <2>. QED
    BY <1>1, <2>1, <2>2 DEF ForgeInv, ForgeCovered
<1>. QED
  BY <1>3, <1>4, <1>6, <1>7 DEF ForgeInv

LEMMA CommitFileStep ==
  ASSUME S!AreaAssumption, ForgeInv, S!Commit
  PROVE  ForgeInv'
<1>. DEFINE f == copy[1]
<1>1. /\ at = "body" /\ at' = "walk" /\ (copy[1] \in Area.Summed => copy[3] = copy[2])
      /\ UNCHANGED <<site, edits, root, stack, flawed, clean, goal>>
      /\ DOMAIN kept' = DOMAIN kept \cup {copy[1]} /\ kept'[copy[1]] = copy[3]
      /\ \A g \in DOMAIN kept : g # copy[1] => kept'[g] = kept[g]
  BY DEF S!Commit, S!area, S!hist
<1>2. ForgeTypes'
  BY <1>1 DEF ForgeInv, ForgeTypes, Busy
<1>3. Genuine'
  <2>1. ASSUME NEW g \in DOMAIN kept'
        PROVE  g \notin Area.Summed \cup Area.Mistaken => kept'[g] # S!OtherAnswer
    BY <1>1 DEF ForgeInv, Genuine, NoOther
  <2>. QED
    BY <1>1, <2>1 DEF Genuine, NoOther, S!OtherAnswer
<1>4. Left' = Left
  BY <1>1 DEF Left
<1>5. Unmoved'
  BY <1>1, <1>4 DEF ForgeInv, Unmoved
<1>6. ForgeCovered'
  <2>. SUFFICES ASSUME clean, flawed = {}, NEW g \in DOMAIN goal \ Area.Links, IsPrefix(root, g)
                PROVE  Fetched(g)' \/ Ahead(g)'
    BY <1>1 DEF ForgeCovered
  <2>1. /\ goal = site /\ copy[1] \in DOMAIN site /\ copy[2] = site[copy[1]]
        /\ copy[1] \in S!Files /\ g \in S!Files /\ site[copy[1]] \in Versions
    BY <1>1 DEF ForgeInv, Unmoved, ForgeTypes
  <2>2. Fetched(g) \/ IsPrefix(copy[1], g) \/ \E e \in Left : IsPrefix(e[1], g)
    BY <1>1 DEF ForgeInv, ForgeCovered, Ahead, Busy
  <2>3. CASE g = copy[1]
    <3>1. kept'[g] = copy[3] /\ g \in DOMAIN kept' /\ (g \in Area.Summed => copy[3] = goal[g])
      BY <1>1, <2>1, <2>3
    <3>2. NoOther(g, copy[3])
      BY <1>1, <2>3 DEF ForgeInv, Genuine
    <3>3. g \notin Area.Mistaken => copy[3] # S!OtherAnswer
      BY <2>1, <2>3, <3>1, <3>2 DEF NoOther, S!OtherAnswer, Versions
    <3>. QED
      BY <1>1, <3>1, <3>3 DEF Fetched, S!OtherAnswer
  <2>4. CASE g # copy[1]
    <3>1. ~IsPrefix(copy[1], g)
      BY <2>1, <2>4, FileIsLeaf, TreesOfMethods DEF S!Files
    <3>2. Fetched(g) => Fetched(g)'
      BY <1>1, <2>4 DEF Fetched, S!OtherAnswer
    <3>. QED
      BY <1>4, <2>2, <3>1, <3>2 DEF Ahead
  <2>. QED
    BY <2>3, <2>4
<1>. QED
  BY <1>2, <1>3, <1>5, <1>6 DEF ForgeInv

(* A request that fails is made again, is noted or ends the run, or is passed
   over. *)
LEMMA FailStep ==
  ASSUME S!AreaAssumption, ForgeInv, S!Retry \/ S!GiveUp \/ S!TimedOut
  PROVE  ForgeInv'
<1>1. CASE S!Retry
  <2>1. /\ Busy /\ at' = (IF at = "body" THEN "get" ELSE at)
        /\ copy'[1] = copy[1] /\ copy'[2] = copy[2]
        /\ UNCHANGED <<site, edits, kept, root, stack, flawed, clean, goal>>
    BY <1>1 DEF S!Retry, S!area, S!hist, Busy
  <2>2. Busy' /\ at' # "body"
    BY <2>1 DEF Busy
  <2>3. ForgeTypes'
    BY <2>1, <2>2 DEF ForgeInv, ForgeTypes, Busy
  <2>4. Genuine'
    BY <2>1, <2>2 DEF ForgeInv, Genuine, NoOther, S!OtherAnswer
  <2>5. Left' = Left
    BY <2>1 DEF Left
  <2>6. Unmoved'
    BY <2>1, <2>5 DEF ForgeInv, Unmoved, Busy
  <2>7. ForgeCovered'
    <3>1. \A f : Fetched(f)' = Fetched(f)
      BY <2>1 DEF Fetched, S!OtherAnswer
    <3>2. \A f : Ahead(f)' = Ahead(f)
      BY <2>1, <2>2, <2>5 DEF Ahead
    <3>. QED
      BY <2>1, <3>1, <3>2 DEF ForgeInv, ForgeCovered, Busy
  <2>. QED
    BY <2>3, <2>4, <2>6, <2>7 DEF ForgeInv
<1>2. CASE S!GiveUp
  <2>1. UNCHANGED <<site, edits, kept>>
    BY <1>2 DEF S!GiveUp, S!area
  <2>2. CASE stack = <<>>
    BY <1>2, <2>1, <2>2, ForgeForget DEF S!GiveUp
  <2>3. CASE stack # <<>>
    <3>1. /\ flawed' # {} /\ at' = "walk" /\ UNCHANGED <<root, stack, clean, goal>>
          /\ at # "idle"
      BY <1>2, <2>3 DEF S!GiveUp, S!hist
    <3>2. ForgeTypes'
      BY <2>1, <3>1 DEF ForgeInv, ForgeTypes, Busy
    <3>3. Genuine'
      BY <2>1, <3>1 DEF ForgeInv, Genuine, NoOther, S!OtherAnswer
    <3>4. Left' = Left
      BY <3>1 DEF Left
    <3>5. Unmoved'
      BY <2>1, <3>1, <3>4 DEF ForgeInv, Unmoved
    <3>. QED
      BY <3>1, <3>2, <3>3, <3>5 DEF ForgeInv, ForgeCovered
  <2>. QED
    BY <2>2, <2>3
<1>3. CASE S!TimedOut
  <2>1. /\ at' = "walk" /\ ~clean' /\ at \in {"list", "get"}
        /\ UNCHANGED <<site, edits, kept, root, stack, flawed, goal>>
    BY <1>3 DEF S!TimedOut, S!area, S!dest
  <2>2. ForgeTypes' /\ Genuine'
    BY <2>1 DEF ForgeInv, ForgeTypes, Busy, Genuine, NoOther, S!OtherAnswer
  <2>. QED
    BY <2>1, <2>2 DEF ForgeInv, Unmoved, ForgeCovered
<1>. QED
  BY <1>1, <1>2, <1>3

LEMMA LeaveStep ==
  ASSUME S!AreaAssumption, ForgeInv, S!LeaveFolder
  PROVE  ForgeInv'
<1>1. /\ at = "walk" /\ stack # <<>> /\ Head(stack) = {} /\ stack' = Tail(stack)
      /\ UNCHANGED <<site, edits, kept, at, root, copy, flawed, clean, goal>>
      /\ stack \in Seq(SUBSET (ForgePaths \X Nat))
  BY DEF S!LeaveFolder, S!area, S!dest, S!hist, ForgeInv, ForgeTypes
<1>2. stack' \in Seq(SUBSET (ForgePaths \X Nat)) /\ Left' = Left
  BY <1>1, PopFolder
<1>3. ForgeTypes'
  BY <1>1, <1>2 DEF ForgeInv, ForgeTypes, Busy
<1>4. Genuine'
  BY <1>1 DEF ForgeInv, Genuine, NoOther, S!OtherAnswer
<1>5. Unmoved'
  BY <1>1, <1>2 DEF ForgeInv, Unmoved
<1>6. ForgeCovered'
  BY <1>1, <1>2 DEF ForgeInv, ForgeCovered, Ahead, Busy, Fetched, S!OtherAnswer
<1>. QED
  BY <1>3, <1>4, <1>5, <1>6 DEF ForgeInv

(* What every step of a SourceForge run preserves. *)
LEMMA ForgeInvariant ==
  ASSUME S!AreaAssumption
  PROVE  S!Spec => []ForgeInv
<1>1. S!Init => ForgeInv
  BY ForgeInit
<1>2. ForgeInv /\ [S!Next]_(S!vars) => ForgeInv'
  <2>1. ForgeInv /\ UNCHANGED S!vars => ForgeInv'
    <3>1. UNCHANGED S!vars =>
             UNCHANGED <<site, edits, kept, at, root, stack, copy, flawed, clean, goal>>
      BY DEF S!vars, S!area, S!dest, S!run, S!hist
    <3>2. UNCHANGED <<site, edits, kept, at, root, stack, copy, flawed, clean, goal>> =>
             /\ ForgeTypes' = ForgeTypes /\ Genuine' = Genuine
             /\ Unmoved' = Unmoved /\ ForgeCovered' = ForgeCovered
      BY DEF ForgeTypes, Genuine, Unmoved, ForgeCovered, NoOther, Fetched, Ahead, Busy, Left,
             S!OtherAnswer
    <3>. QED
      BY <3>1, <3>2 DEF ForgeInv
  <2>2. ForgeInv /\ (S!Finish \/ S!Crash) => ForgeInv'
    BY ForgeForget DEF S!Finish, S!Crash, S!area, S!dest
  <2>. QED
    BY <2>1, <2>2, EditStep, RootStep, ListStep, FindRootStep, EnterStep, FileStep, GetStep,
       CommitFileStep, FailStep, LeaveStep DEF S!Next
<1>. QED
  BY <1>1, <1>2, PTL DEF S!Spec

(* A SourceForge run that reports success, while the area was left alone   *)
(* and nothing timed out on its last attempt, has every file below its     *)
(* root: the listed version of those with a checksum, and of the others a  *)
(* version unless another answer passes for it, wherever earlier runs      *)
(* failed, were killed or mirrored other versions (folder, file and        *)
(* downloadFile).                                                          *)
THEOREM ForgeIsComplete ==
  ASSUME S!AreaAssumption
  PROVE  S!Spec => []S!DoneMeansAll
<1>1. ForgeInv => S!DoneMeansAll
  <2>1. \A f : S!IsPrefix(root, f) = IsPrefix(root, f)
    BY DEF S!IsPrefix, IsPrefix
  <2>2. stack = <<>> => Left = {}
    BY DEF Left, Range
  <2>. QED
    BY <2>1, <2>2 DEF ForgeInv, ForgeCovered, Ahead, Busy, Fetched, S!DoneMeansAll,
       S!Complete
<1>. QED
  BY <1>1, ForgeInvariant, PTL

-----------------------------------------------------------------------------
(* groups.io: the walk again, of pages that are numbered by what came      *)
(* before.                                                                 *)
Working == at \in {"list", "download", "body"}
Rows == GroupPaths \X Nat \X Nat

GroupTypes ==
    /\ DOMAIN group \subseteq O!Files /\ (\A f \in DOMAIN group : group[f] \in Nat)
    /\ edits \in Nat
    /\ at = "idle" \/ at = "walk" \/ Working
    /\ stack \in Seq(SUBSET Rows) /\ rest \in SUBSET Rows /\ pageToken \in Nat
    /\ at = "list" => copy \in Section.Dirs
    /\ at \in {"download", "body"} => copy \in O!Files
    /\ at # "list" => rest = {} /\ pageToken = 0
    /\ at = "idle" => clean /\ stack = <<>>

(* As long as the group is left alone, what was listed is what is there,   *)
(* and what the next page passes over is on the pages before it.           *)
Listed ==
    at # "idle" /\ clean =>
        /\ goal = group
        /\ \A e \in Left \cup rest :
              e[1] \in O!Files => e[1] \in DOMAIN group /\ e[2] = group[e[1]]

PagesRead ==
    at = "list" /\ clean =>
        \A p \in O!Here(copy) : O!Age(p) < pageToken => \E e \in rest : e[1] = p

Has(f) ==
    /\ f \in DOMAIN kept
    /\ kept[f] = O!File(f, goal[f]) \/ (f \in Section.SameSize /\ kept[f][2] = f)

ToCome(f) ==
    \/ Working /\ IsPrefix(copy, f)
    \/ \E e \in Left : IsPrefix(e[1], f)

GroupCovered ==
    at # "idle" /\ clean =>
        \A f \in DOMAIN goal \ Section.Links : ~O!Overwritten(f) => Has(f) \/ ToCome(f)

GroupInv == GroupTypes /\ Listed /\ PagesRead /\ GroupCovered

LEMMA OfInstances ==
  /\ \A X : O!IsFiniteSet(X) = IsFiniteSet(X)
  /\ \A X : O!Cardinality(X) = Cardinality(X)
<1>1. ASSUME NEW X PROVE O!IsFiniteSet(X) = IsFiniteSet(X)
  BY DEF O!IsFiniteSet, IsFiniteSet
<1>2. ASSUME NEW X PROVE O!Cardinality(X) = Cardinality(X)
  BY <1>1 DEF O!Cardinality, Cardinality, O!IsFiniteSet, IsFiniteSet
<1>. QED
  BY <1>1, <1>2

(* A place in a listing is one of as many as there are entries. *)
LEMMA PlacesInListing ==
  ASSUME O!GroupAssumption, NEW d, NEW p \in O!Here(d)
  PROVE  O!Age(p) \in Nat /\ Cardinality(O!Here(d)) \in Nat /\ O!Age(p) < Cardinality(O!Here(d))
<1>. DEFINE Older == {q \in O!Here(d) : Section.Created[q] < Section.Created[p]}
<1>1. IsFiniteSet(O!Here(d)) /\ O!Front(p) = d
  <2>1. IsFiniteSet(Section.Entries) /\ O!Here(d) \subseteq Section.Entries /\ O!Front(p) = d
    BY OfInstances DEF O!Here, O!GroupAssumption
  <2>. QED
    BY <2>1, FS_Subset
<1>2. O!Age(p) = Cardinality(Older)
  BY <1>1, OfInstances DEF O!Age
<1>3. p \notin Older /\ Older \subseteq O!Here(d)
  BY DEF O!GroupAssumption, O!Here
<1>4. /\ IsFiniteSet(Older) /\ Cardinality(Older) <= Cardinality(O!Here(d))
      /\ Cardinality(O!Here(d)) = Cardinality(Older) => O!Here(d) = Older
  BY <1>1, <1>3, FS_Subset
<1>5. Cardinality(Older) \in Nat /\ Cardinality(O!Here(d)) \in Nat
  BY <1>1, <1>4, FS_CardinalityType
<1>. QED
  BY <1>1, <1>2, <1>3, <1>4, <1>5

(* What is written at another path does not touch a file. *)
LEMMA PutElsewhere ==
  ASSUME NEW f, NEW p, NEW c, p # f, kept' = O!Put(p, c) \/ kept' = kept, goal' = goal
  PROVE  Has(f) => Has(f)'
<1>1. f \in DOMAIN kept => f \in DOMAIN kept' /\ kept'[f] = kept[f]
  BY DEF O!Put
<1>. QED
  BY <1>1 DEF Has, O!File

LEMMA GroupInit ==
  ASSUME O!GroupAssumption, O!Init
  PROVE  GroupInv
<1>1. /\ group = [f \in O!Files |-> 1] /\ edits = 0 /\ at = "idle" /\ stack = <<>>
      /\ rest = {} /\ pageToken = 0 /\ clean = TRUE
  BY DEF O!Init
<1>2. GroupTypes
  BY <1>1 DEF GroupTypes, Working
<1>. QED
  BY <1>1, <1>2 DEF GroupInv, Listed, PagesRead, GroupCovered

(* A change of the group, after which a run that is on promises nothing.   *)
LEMMA GroupEditStep ==
  ASSUME O!GroupAssumption, GroupInv, NEW f \in O!Files, O!Upload(f) \/ O!Delete(f)
  PROVE  GroupInv'
<1>1. /\ UNCHANGED <<kept, at, stack, copy, rest, pageToken, goal>>
      /\ edits' = edits + 1 /\ clean' = (clean /\ at = "idle")
      /\ \/ group' = [g \in DOMAIN group \cup {f} |-> IF g = f THEN edits' + 1 ELSE group[g]]
         \/ group' = O!Restrict(group, DOMAIN group \ {f})
  BY DEF O!Upload, O!Delete, O!Edit, O!run
<1>2. /\ edits' \in Nat /\ edits' + 1 \in Nat /\ DOMAIN group \subseteq O!Files
      /\ \A g \in DOMAIN group : group[g] \in Nat
  BY <1>1 DEF GroupInv, GroupTypes
<1>3. DOMAIN group' \subseteq O!Files /\ \A g \in DOMAIN group' : group'[g] \in Nat
  <2>1. CASE group' = [g \in DOMAIN group \cup {f} |-> IF g = f THEN edits' + 1 ELSE group[g]]
    BY <1>2, <2>1
  <2>2. CASE group' = O!Restrict(group, DOMAIN group \ {f})
    BY <1>2, <2>2 DEF O!Restrict
  <2>. QED
    BY <1>1, <2>1, <2>2
<1>4. GroupTypes'
  BY <1>1, <1>2, <1>3 DEF GroupInv, GroupTypes, Working, O!Files
<1>5. at' # "idle" => ~clean'
  BY <1>1
<1>. QED
  BY <1>4, <1>5 DEF GroupInv, Listed, PagesRead, GroupCovered

(* The end of a run. *)
LEMMA GroupForget ==
  ASSUME GroupInv, O!Forget, UNCHANGED <<group, edits, kept>>
  PROVE  GroupInv'
<1>1. /\ at' = "idle" /\ stack' = <<>> /\ rest' = {} /\ pageToken' = 0 /\ clean' = TRUE
  BY DEF O!Forget
<1>2. GroupTypes'
  BY <1>1 DEF GroupInv, GroupTypes, Working, O!Files
<1>. QED
  BY <1>1, <1>2 DEF GroupInv, Listed, PagesRead, GroupCovered

LEMMA GroupStart ==
  ASSUME O!GroupAssumption, GroupInv, O!Start
  PROVE  GroupInv'
<1>1. /\ at = "idle" /\ at' = "list" /\ copy' = <<>> /\ goal' = group
      /\ UNCHANGED <<group, edits, stack, rest, pageToken, clean>>
  BY DEF O!Start
<1>2. stack = <<>> /\ rest = {} /\ pageToken = 0 /\ <<>> \in Section.Dirs
  BY <1>1 DEF GroupInv, GroupTypes, O!GroupAssumption
<1>3. GroupTypes'
  BY <1>1, <1>2 DEF GroupInv, GroupTypes, Working, O!Files
<1>4. Left' = {}
  BY <1>1, <1>2 DEF Left, Range
<1>5. Listed'
  BY <1>1, <1>2, <1>4 DEF Listed
<1>6. PagesRead'
  <2>1. \A p : O!Here(p)' = O!Here(p)
    BY <1>1 DEF O!Here, O!Front
  <2>2. \A p \in O!Here(<<>>) : O!Age(p) \in Nat
    BY PlacesInListing
  <2>3. \A p : O!Age(p)' = O!Age(p)
    BY <2>1 DEF O!Age, O!Front, O!Cardinality
  <2>4. O!Here(copy)' = O!Here(<<>>)
    BY <1>1 DEF O!Here, O!Front
  <2>. QED
    BY <1>1, <1>2, <2>2, <2>3, <2>4 DEF PagesRead
<1>7. GroupCovered'
  <2>1. ASSUME NEW f \in DOMAIN goal'
        PROVE  IsPrefix(<<>>, f)
    <3>1. f \in Seq(Range(f))
      BY <1>1, PlacesArePaths, TreesOfMethods DEF GroupInv, GroupTypes, O!Files, GroupPaths
    <3>. QED
      BY <3>1 DEF IsPrefix
  <2>2. Working'
    BY <1>1 DEF Working
  <2>. QED
    BY <1>1, <2>1, <2>2 DEF GroupCovered, ToCome
<1>. QED
  BY <1>3, <1>5, <1>6, <1>7 DEF GroupInv

(* What a page shows is there, and what it ends before is on the pages     *)
(* that are read.                                                          *)
LEMMA PageShows ==
  ASSUME O!GroupAssumption, GroupInv, at = "list", NEW rows,
         rows = {e \in O!Children(copy) : e[3] \in pageToken..pageToken + Section.PageSize - 1}
  PROVE  /\ rows \in SUBSET Rows
         /\ \A e \in rows : e[1] \in O!Files => e[1] \in DOMAIN group /\ e[2] = group[e[1]]
         /\ clean => \A p \in O!Here(copy) :
               O!Age(p) < pageToken + Section.PageSize => \E e \in rest \cup rows : e[1] = p
<1>1. /\ pageToken \in Nat /\ Section.PageSize \in Nat /\ DOMAIN group \subseteq O!Files
      /\ \A f \in DOMAIN group : group[f] \in Nat
  BY DEF GroupInv, GroupTypes, O!GroupAssumption
<1>. DEFINE E(p) == <<p, IF p \in Section.Dirs THEN 0 ELSE group[p], O!Age(p)>>
<1>2. O!Children(copy) = {E(p) : p \in O!Here(copy)}
  BY DEF O!Children
<1>3. ASSUME NEW p \in O!Here(copy)
      PROVE  /\ E(p) \in Rows /\ E(p)[1] = p /\ E(p)[3] = O!Age(p) /\ O!Age(p) \in Nat
             /\ p \in O!Files => p \in DOMAIN group /\ E(p)[2] = group[p]
  <2>1. p \in GroupPaths /\ p \in Section.Dirs \cup DOMAIN group
    BY DEF O!Here, GroupPaths
  <2>2. O!Age(p) \in Nat
    BY PlacesInListing
  <2>. QED
    BY <1>1, <2>1, <2>2 DEF Rows, O!Files
<1>. HIDE DEF E
<1>4. rows \in SUBSET Rows
  BY <1>2, <1>3
<1>5. \A e \in rows : e[1] \in O!Files => e[1] \in DOMAIN group /\ e[2] = group[e[1]]
  BY <1>2, <1>3
<1>6. ASSUME clean, NEW p \in O!Here(copy), O!Age(p) < pageToken + Section.PageSize
      PROVE  \E e \in rest \cup rows : e[1] = p
  <2>1. CASE O!Age(p) < pageToken
    BY <1>6, <2>1 DEF GroupInv, PagesRead
  <2>2. CASE ~(O!Age(p) < pageToken)
    <3>1. O!Age(p) \in pageToken..pageToken + Section.PageSize - 1
      BY <1>1, <1>3, <1>6, <2>2
    <3>. QED
      BY <1>2, <1>3, <3>1
  <2>. QED
    BY <2>1, <2>2
<1>. QED
  BY <1>4, <1>5, <1>6

(* A page more of a directory, or the last, which shows the way on to all  *)
(* that is below the directory.                                            *)
LEMMA ListPageStep ==
  ASSUME O!GroupAssumption, GroupInv, O!ListPage
  PROVE  GroupInv'
<1>1. PICK rows :
         /\ rows = {e \in O!Children(copy) :
                        e[3] \in pageToken..pageToken + Section.PageSize - 1}
         /\ at = "list" /\ UNCHANGED <<group, edits, kept, clean, goal>>
         /\ \/ /\ O!IsLast(copy) /\ stack' = <<rest \cup rows>> \o stack /\ at' = "walk"
               /\ rest' = {} /\ pageToken' = 0
            \/ /\ rest' = rest \cup rows /\ pageToken' = pageToken + Section.PageSize
               /\ UNCHANGED <<stack, at, copy>>
  BY DEF O!ListPage, O!hist
<1>2. /\ rows \in SUBSET Rows
      /\ \A e \in rows : e[1] \in O!Files => e[1] \in DOMAIN group /\ e[2] = group[e[1]]
      /\ clean => \A p \in O!Here(copy) :
            O!Age(p) < pageToken + Section.PageSize => \E e \in rest \cup rows : e[1] = p
  BY <1>1, PageShows
<1>3. /\ stack \in Seq(SUBSET Rows) /\ rest \in SUBSET Rows /\ copy \in Section.Dirs
      /\ pageToken \in Nat /\ Section.PageSize \in Nat
  BY <1>1 DEF GroupInv, GroupTypes, O!GroupAssumption
<1>4. \A f : Has(f)' = Has(f)
  BY <1>1 DEF Has, O!File
<1>5. CASE O!IsLast(copy) /\ stack' = <<rest \cup rows>> \o stack /\ at' = "walk"
           /\ rest' = {} /\ pageToken' = 0
  <2>1. stack' \in Seq(SUBSET Rows) /\ Left' = Left \cup (rest \cup rows)
    <3>1. rest \cup rows \in SUBSET Rows
      BY <1>2, <1>3
    <3>. QED
      BY <1>3, <1>5, <3>1, PushFolder
  <2>2. GroupTypes'
    BY <1>1, <1>5, <2>1 DEF GroupInv, GroupTypes, Working, O!Files
  <2>3. Listed'
    BY <1>1, <1>2, <1>5, <2>1 DEF GroupInv, Listed, O!Files
  <2>4. PagesRead'
    BY <1>5 DEF PagesRead
  <2>5. GroupCovered'
    <3>. SUFFICES ASSUME clean, NEW f \in DOMAIN goal \ Section.Links, ~O!Overwritten(f)
                  PROVE  Has(f)' \/ ToCome(f)'
      BY <1>1 DEF GroupCovered, O!Overwritten, O!Files
    <3>1. Has(f) \/ ToCome(f)
      BY <1>1 DEF GroupInv, GroupCovered
    <3>2. CASE IsPrefix(copy, f)
      <4>1. f \in DOMAIN group /\ f \in Section.Entries \ Section.Dirs
        BY <1>1 DEF GroupInv, GroupTypes, Listed, O!Files
      <4>2. PICK c \in Section.Entries \cap (Section.Dirs \cup {f}) :
                Front(c) = copy /\ IsPrefix(c, f)
        BY <1>3, <3>2, <4>1, WayOn, TreesOfMethods
      <4>3. c \in O!Here(copy)
        BY <4>1, <4>2 DEF O!Here, O!Front, Front
      <4>4. O!Age(c) < pageToken + Section.PageSize
        <5>1. /\ O!Age(c) \in Nat /\ Cardinality(O!Here(copy)) \in Nat
              /\ O!Age(c) < Cardinality(O!Here(copy))
          BY <4>3, PlacesInListing
        <5>2. pageToken + Section.PageSize >= Cardinality(O!Here(copy))
          BY <1>5, OfInstances DEF O!IsLast
        <5>. QED
          BY <1>3, <5>1, <5>2
      <4>5. \E e \in rest \cup rows : e[1] = c
        BY <1>2, <4>3, <4>4
      <4>. QED
        BY <2>1, <4>2, <4>5 DEF ToCome
    <3>3. CASE \E e \in Left : IsPrefix(e[1], f)
      BY <2>1, <3>3 DEF ToCome
    <3>. QED
      BY <1>4, <3>1, <3>2, <3>3 DEF ToCome
  <2>. QED
    BY <2>2, <2>3, <2>4, <2>5 DEF GroupInv
<1>6. CASE /\ rest' = rest \cup rows /\ pageToken' = pageToken + Section.PageSize
           /\ UNCHANGED <<stack, at, copy>>
  <2>1. GroupTypes'
    BY <1>1, <1>2, <1>3, <1>6 DEF GroupInv, GroupTypes, Working, O!Files
  <2>2. Left' = Left
    BY <1>6 DEF Left
  <2>3. Listed'
    BY <1>1, <1>2, <1>6, <2>2 DEF GroupInv, Listed, O!Files
  <2>4. PagesRead'
    <3>1. \A d : O!Here(d)' = O!Here(d)
      BY <1>1 DEF O!Here, O!Front
    <3>2. \A p : O!Age(p)' = O!Age(p)
      BY <3>1 DEF O!Age, O!Front, O!Cardinality
    <3>3. O!Here(copy)' = O!Here(copy)
      BY <1>1, <1>6 DEF O!Here, O!Front
    <3>. QED
      BY <1>1, <1>2, <1>6, <3>2, <3>3 DEF PagesRead
  <2>5. GroupCovered'
    <3>1. \A f : ToCome(f)' = ToCome(f)
      BY <1>6, <2>2 DEF ToCome, Working
    <3>. QED
      BY <1>1, <1>4, <1>6, <3>1 DEF GroupInv, GroupCovered, O!Overwritten, O!Files
  <2>. QED
    BY <2>1, <2>3, <2>4, <2>5 DEF GroupInv
<1>. QED
  BY <1>1, <1>5, <1>6

(* Steps that touch no more than requests and temporary files. *)
LEMMA GroupUnchanged ==
  ASSUME GroupInv,
         UNCHANGED <<group, edits, kept, at, stack, copy, rest, pageToken, clean, goal>>
  PROVE  GroupInv'
<1>1. GroupTypes' = GroupTypes
  BY DEF GroupTypes, Working, O!Files
<1>2. Left' = Left
  BY DEF Left
<1>3. Listed' = Listed
  BY <1>2 DEF Listed, O!Files
<1>4. PagesRead' = PagesRead
  <2>1. \A d : O!Here(d)' = O!Here(d)
    BY DEF O!Here, O!Front
  <2>2. \A p : O!Age(p)' = O!Age(p)
    BY <2>1 DEF O!Age, O!Front, O!Cardinality
  <2>3. O!Here(copy)' = O!Here(copy)
    BY DEF O!Here, O!Front
  <2>. QED
    BY <2>2, <2>3 DEF PagesRead
<1>5. GroupCovered' = GroupCovered
  BY <1>2 DEF GroupCovered, Has, ToCome, Working, O!File, O!Overwritten, O!Files
<1>. QED
  BY <1>1, <1>3, <1>4, <1>5 DEF GroupInv

LEMMA ListFailsStep ==
  ASSUME O!GroupAssumption, GroupInv, O!ListFails
  PROVE  GroupInv'
<1>1. UNCHANGED <<group, edits, kept>> /\ at = "list"
  BY DEF O!ListFails
<1>2. CASE UNCHANGED <<at, stack, copy, rest, pageToken, clean, goal>>
  BY <1>1, <1>2, GroupUnchanged
<1>3. CASE O!Forget
  BY <1>1, <1>3, GroupForget
<1>4. CASE /\ at' = "walk" /\ rest' = {} /\ pageToken' = 0 /\ clean' = FALSE
           /\ UNCHANGED <<stack, goal>>
  <2>1. GroupTypes'
    BY <1>1, <1>4 DEF GroupInv, GroupTypes, Working, O!Files
  <2>. QED
    BY <1>4, <2>1 DEF GroupInv, Listed, PagesRead, GroupCovered
<1>. QED
  BY <1>2, <1>3, <1>4 DEF O!ListFails, O!hist

LEMMA EnterDirStep ==
  ASSUME O!GroupAssumption, GroupInv, NEW d \in Section.Dirs, O!EnterDir(d)
  PROVE  GroupInv'
<1>1. PICK k \in 0..O!Cardinality(Section.Entries) : O!NextIs(<<d, 0, k>>)
  BY DEF O!EnterDir
<1>2. /\ at' = "list" /\ copy' = d /\ UNCHANGED <<group, edits, rest, pageToken, goal>>
      /\ \/ kept' = O!Put(O!ReadmeOf(d), O!Desc(d)) /\ UNCHANGED clean
         \/ UNCHANGED kept /\ clean' = FALSE
  BY DEF O!EnterDir, O!Store
<1>3. /\ at = "walk" /\ stack' \in Seq(SUBSET Rows)
      /\ Left' \subseteq Left /\ Left \subseteq Left' \cup {<<d, 0, k>>}
  <2>1. stack \in Seq(SUBSET Rows)
    BY DEF GroupInv, GroupTypes
  <2>. QED
    BY <1>1, <2>1, TakeNext DEF O!NextIs
<1>4. rest = {} /\ pageToken = 0 /\ d \in GroupPaths
  BY <1>3 DEF GroupInv, GroupTypes, O!GroupAssumption, GroupPaths
<1>5. GroupTypes'
  BY <1>2, <1>3, <1>4 DEF GroupInv, GroupTypes, Working, O!Files
<1>6. Listed'
  BY <1>2, <1>3, <1>4 DEF GroupInv, Listed, O!Files
<1>7. PagesRead'
  <2>1. \A p : O!Here(p)' = O!Here(p)
    BY <1>2 DEF O!Here, O!Front
  <2>2. \A p \in O!Here(d) : O!Age(p) \in Nat
    BY PlacesInListing
  <2>3. \A p : O!Age(p)' = O!Age(p)
    BY <2>1 DEF O!Age, O!Front, O!Cardinality
  <2>4. O!Here(copy)' = O!Here(d)
    BY <1>2 DEF O!Here, O!Front
  <2>. QED
    BY <1>2, <1>4, <2>2, <2>3, <2>4 DEF PagesRead
<1>8. GroupCovered'
  <2>. SUFFICES ASSUME clean, clean', NEW f \in DOMAIN goal \ Section.Links, ~O!Overwritten(f)
                PROVE  Has(f)' \/ ToCome(f)'
    BY <1>2 DEF GroupCovered, O!Overwritten, O!Files
  <2>1. Has(f) \/ \E e \in Left : IsPrefix(e[1], f)
    BY <1>2, <1>3 DEF GroupInv, GroupCovered, ToCome, Working
  <2>2. IsPrefix(d, f) => ToCome(f)'
    BY <1>2 DEF ToCome, Working
  <2>3. CASE Has(f)
    <3>1. CASE f = O!ReadmeOf(d)
      <4>1. d \in Seq(Range(d))
        BY <1>4, PlacesArePaths, TreesOfMethods DEF GroupPaths
      <4>2. IsPrefix(d, Append(d, "README"))
        <5>1. d \in Seq(Range(d) \cup {"README"})
          BY <4>1
        <5>2. /\ Append(d, "README") \in Seq(Range(d) \cup {"README"}) /\ Len(d) \in Nat
              /\ Len(Append(d, "README")) = Len(d) + 1
              /\ \A i \in 1..Len(d) : Append(d, "README")[i] = d[i]
          BY <5>1
        <5>3. SubSeq(Append(d, "README"), 1, Len(d)) = SubSeq(d, 1, Len(d))
          BY <5>1, <5>2
        <5>. QED
          BY <5>1, <5>2, <5>3 DEF IsPrefix
      <4>. QED
        BY <2>2, <3>1, <4>2 DEF O!ReadmeOf
    <3>2. CASE f # O!ReadmeOf(d)
      BY <1>2, <2>3, <3>2, PutElsewhere
    <3>. QED
      BY <3>1, <3>2
  <2>4. CASE \E e \in Left : IsPrefix(e[1], f)
    BY <1>3, <2>2, <2>4 DEF ToCome
  <2>. QED
    BY <2>1, <2>3, <2>4
<1>. QED
  BY <1>5, <1>6, <1>7, <1>8 DEF GroupInv

(* A file is skipped only when it is a link or there, by its size.         *)
LEMMA GetFileStep ==
  ASSUME O!GroupAssumption, GroupInv, NEW f \in O!Files, NEW v \in 1..Section.MaxEdits + 1,
         O!GetFile(f, v)
  PROVE  GroupInv'
<1>1. PICK k \in 0..O!Cardinality(Section.Entries) : O!NextIs(<<f, v, k>>)
  BY DEF O!GetFile
<1>2. /\ UNCHANGED <<group, edits, rest, pageToken, goal>>
      /\ \/ (f \in Section.Links \/ O!Present(f, v)) /\ UNCHANGED <<at, copy, kept, clean>>
         \/ /\ at' = "download" /\ copy' = f
            /\ \/ kept' = O!Put(Section.DescOf[f], O!Desc(f)) /\ UNCHANGED clean
               \/ UNCHANGED kept /\ clean' = FALSE
  BY DEF O!GetFile, O!Store
<1>3. /\ at = "walk" /\ stack' \in Seq(SUBSET Rows) /\ <<f, v, k>> \in Left
      /\ Left' \subseteq Left /\ Left \subseteq Left' \cup {<<f, v, k>>}
  <2>1. stack \in Seq(SUBSET Rows)
    BY DEF GroupInv, GroupTypes
  <2>. QED
    BY <1>1, <2>1, TakeNext DEF O!NextIs
<1>4. GroupTypes'
  BY <1>2, <1>3 DEF GroupInv, GroupTypes, Working, O!Files
<1>5. Listed'
  BY <1>2, <1>3 DEF GroupInv, Listed, O!Files
<1>6. PagesRead'
  BY <1>2, <1>3 DEF PagesRead
<1>7. GroupCovered'
  <2>. SUFFICES ASSUME clean, clean', NEW g \in DOMAIN goal \ Section.Links, ~O!Overwritten(g)
                PROVE  Has(g)' \/ ToCome(g)'
    BY <1>2, <1>3 DEF GroupCovered, O!Overwritten, O!Files, GroupInv, GroupTypes
  <2>1. Has(g) \/ \E e \in Left : IsPrefix(e[1], g)
    BY <1>2, <1>3 DEF GroupInv, GroupCovered, ToCome, Working
  <2>2. Has(g) => Has(g)'
    <3>1. Section.DescOf[f] # g
      BY DEF O!Overwritten
    <3>. QED
      BY <1>2, <3>1, PutElsewhere
  <2>3. CASE \E e \in Left : IsPrefix(e[1], g)
    <3>1. PICK e \in Left : IsPrefix(e[1], g)
      BY <2>3
    <3>2. CASE e \in Left'
      BY <3>1, <3>2 DEF ToCome
    <3>3. CASE e = <<f, v, k>>
      <4>1. g = f
        <5>1. g \in O!Files
          BY <1>3 DEF GroupInv, GroupTypes, Listed
        <5>2. IsPrefix(f, g)
          BY <3>1, <3>3
        <5>. QED
          BY <5>1, <5>2, FileIsLeaf, TreesOfMethods DEF O!Files
      <4>2. CASE at' = "download" /\ copy' = f
        BY <3>1, <3>3, <4>2 DEF ToCome, Working
      <4>3. CASE O!Present(f, v)
        <5>1. goal[f] = v
          BY <1>3 DEF GroupInv, Listed
        <5>2. Has(f)
          BY <4>3, <5>1 DEF O!Present, O!File, Has
        <5>. QED
          BY <2>2, <4>1, <5>2
      <4>. QED
        BY <1>2, <4>1, <4>2, <4>3
    <3>. QED
      BY <1>3, <3>1, <3>2, <3>3
  <2>. QED
    BY <2>1, <2>2, <2>3
<1>. QED
  BY <1>4, <1>5, <1>6, <1>7 DEF GroupInv

(* A download ends, well or after all that can be tried. *)
LEMMA DownloadStep ==
  ASSUME O!GroupAssumption, GroupInv, O!Body \/ O!Commit \/ O!DownloadFails
  PROVE  GroupInv'
<1>1. /\ at \in {"download", "body"} /\ at' \in {"download", "body", "walk"}
      /\ UNCHANGED <<group, edits, stack, rest, pageToken, goal>>
  BY DEF O!Body, O!Commit, O!DownloadFails, O!EndFile, O!run, O!hist
<1>2. \/ /\ at' # "walk" /\ UNCHANGED <<copy, kept, clean>>
      \/ clean' = FALSE
      \/ /\ at' = "walk" /\ UNCHANGED clean /\ copy \in DOMAIN group
         /\ kept' = O!Put(copy, O!File(copy, group[copy]))
  BY DEF O!Body, O!Commit, O!DownloadFails, O!EndFile, O!run, O!hist
<1>3. at' # "walk" => copy' = copy
  BY DEF O!Body, O!Commit, O!DownloadFails, O!EndFile, O!run, O!hist
<1>4. GroupTypes'
  BY <1>1, <1>3 DEF GroupInv, GroupTypes, Working, O!Files
<1>5. Left' = Left
  BY <1>1 DEF Left
<1>6. Listed'
  BY <1>1, <1>2, <1>5 DEF GroupInv, Listed, O!Files
<1>7. PagesRead'
  BY <1>1 DEF PagesRead
<1>8. GroupCovered'
  <2>. SUFFICES ASSUME clean', clean, NEW f \in DOMAIN goal \ Section.Links, ~O!Overwritten(f)
                PROVE  Has(f)' \/ ToCome(f)'
    BY <1>1, <1>2 DEF GroupCovered, O!Overwritten, O!Files
  <2>1. Has(f) \/ ToCome(f)
    BY <1>1 DEF GroupInv, GroupCovered
  <2>2. CASE at' # "walk" /\ UNCHANGED <<copy, kept, clean>>
    <3>1. Has(f)' = Has(f) /\ ToCome(f)' = ToCome(f)
      BY <1>1, <1>5, <2>2 DEF Has, ToCome, Working, O!File
    <3>. QED
      BY <2>1, <3>1
  <2>3. CASE /\ at' = "walk" /\ copy \in DOMAIN group
             /\ kept' = O!Put(copy, O!File(copy, group[copy]))
    <3>1. goal = group /\ copy \in O!Files /\ f \in O!Files
      BY <1>1 DEF GroupInv, GroupTypes, Listed
    <3>2. CASE f = copy
      BY <1>1, <2>3, <3>1, <3>2 DEF Has, O!Put, O!File
    <3>3. CASE f # copy
      <4>1. ~IsPrefix(copy, f)
        BY <3>1, <3>3, FileIsLeaf, TreesOfMethods DEF O!Files
      <4>2. Has(f) => Has(f)'
        BY <1>1, <2>3, <3>3, PutElsewhere
      <4>. QED
        BY <1>5, <2>1, <4>1, <4>2 DEF ToCome
    <3>. QED
      BY <3>2, <3>3
  <2>. QED
    BY <1>2, <2>2, <2>3
<1>. QED
  BY <1>4, <1>6, <1>7, <1>8 DEF GroupInv

LEMMA LeaveDirStep ==
  ASSUME O!GroupAssumption, GroupInv, O!LeaveDir
  PROVE  GroupInv'
<1>1. /\ at = "walk" /\ stack # <<>> /\ Head(stack) = {} /\ stack' = Tail(stack)
      /\ UNCHANGED <<group, edits, kept, at, copy, rest, pageToken, clean, goal>>
  BY DEF O!LeaveDir, O!hist
<1>2. stack' \in Seq(SUBSET Rows) /\ Left' = Left
  <2>1. stack \in Seq(SUBSET Rows)
    BY DEF GroupInv, GroupTypes
  <2>. QED
    BY <1>1, <2>1, PopFolder
<1>3. GroupTypes'
  BY <1>1, <1>2 DEF GroupInv, GroupTypes, Working, O!Files
<1>4. Listed'
  BY <1>1, <1>2 DEF GroupInv, Listed, O!Files
<1>5. PagesRead'
  BY <1>1 DEF PagesRead
<1>6. GroupCovered'
  BY <1>1, <1>2 DEF GroupInv, GroupCovered, Has, ToCome, Working, O!File, O!Overwritten, O!Files
<1>. QED
  BY <1>3, <1>4, <1>5, <1>6 DEF GroupInv

(* What every step of a groups.io run preserves. *)
LEMMA GroupInvariant ==
  ASSUME O!GroupAssumption
  PROVE  O!Spec => []GroupInv
<1>1. O!Init => GroupInv
  BY GroupInit
<1>2. GroupInv /\ [O!Next]_(O!vars) => GroupInv'
  <2>1. GroupInv /\ UNCHANGED O!vars => GroupInv'
    <3>1. UNCHANGED O!vars =>
             UNCHANGED <<group, edits, kept, at, stack, copy, rest, pageToken, clean, goal>>
      BY DEF O!vars, O!run, O!hist
    <3>. QED
      BY <3>1, GroupUnchanged
  <2>2. GroupInv /\ (O!Finish \/ O!Crash) => GroupInv'
    BY GroupForget DEF O!Finish, O!Crash
  <2>. QED
    BY <2>1, <2>2, GroupEditStep, GroupStart, ListPageStep, ListFailsStep, EnterDirStep,
       GetFileStep, DownloadStep, LeaveDirStep DEF O!Next
<1>. QED
  BY <1>1, <1>2, PTL DEF O!Spec

(* A groups.io run that returns with nothing failed, while the group was   *)
(* left alone, has every file of the group but for those that bear the     *)
(* name of another's description, in the group's version if the size of a  *)
(* file tells its versions; however the directories are paged, whatever    *)
(* earlier runs left, and although descriptions are written among the      *)
(* files (Mirror, walkDir, list, getFile, download and store).             *)
THEOREM GroupIsComplete ==
  ASSUME O!GroupAssumption
  PROVE  O!Spec => []O!DoneMeansAll
<1>1. GroupInv => O!DoneMeansAll
  <2>1. stack = <<>> => Left = {}
    BY DEF Left, Range
  <2>. QED
    BY <2>1 DEF GroupInv, GroupCovered, ToCome, Working, Has, O!DoneMeansAll
<1>. QED
  BY <1>1, GroupInvariant, PTL

-----------------------------------------------------------------------------
(* Gopher: a walk of menus that lead anywhere, where no file has the path  *)
(* of a menu or of a menu's 00README.                                      *)
Frames ==
    {f \in [menu : Hole.Selectors \cup {P!NoMenu}, left : SUBSET (Nat \X Hole.Selectors),
           info : {P!Readme, P!Cut, P!NoInfo}, attempt : Nat] :
        f.info # P!NoInfo => f.menu \in Hole.Info}

Fetching == at \in {"fetch", "body"}

GopherTypes ==
    /\ at \in {"idle", "walk", "fetch", "body", "readme"}
    /\ stack \in Seq(Frames) /\ attempt \in Nat /\ visited \subseteq Hole.Selectors
    /\ goal \subseteq shown
    /\ Fetching => copy[1] \in Hole.Selectors /\ copy[2] \in BOOLEAN
    /\ at = "body" => ~copy[2]
    /\ at = "idle" => stack = <<>> /\ visited = {} /\ clean

(* A directory is a menu's or on the way to a file; no menu is a file, but *)
(* for a root that was misread.                                            *)
MadeFor(p) ==
    \E t \in Hole.Selectors :
        IsPrefix(p, Hole.Place[t]) /\ (t \in Hole.Menus \/ p # Hole.Place[t])

Contents ==
    \A p \in DOMAIN kept :
        \/ kept[p] = P!Dir /\ MadeFor(p)
        \/ kept[p] \in P!Notes /\ p # <<>> /\ Last(p) = P!Readme
        \/ /\ kept[p] \in Hole.Selectors /\ Hole.Place[kept[p]] = p
           /\ kept[p] \in Hole.Menus => kept[p] = Hole.Root

InProgress ==
    Fetching =>
        /\ copy[2] => MadeFor(Hole.Place[copy[1]])
        /\ ~copy[2] => /\ ~P!IsFile(Hole.Place[copy[1]])
                       /\ copy[1] \in Hole.Menus => copy[1] = Hole.Root /\ ~clean

(* What a menu shows is dealt with, or waits in the menus the run is in.   *)
Awaited == UNION {frame.left : frame \in Range(stack)}

Known(s) == s \in visited \/ \E e \in Awaited : e[2] = s

There(s) ==
    /\ Hole.Place[s] \in DOMAIN kept
    /\ s \in Hole.Menus \/ P!Shadowed(s) \/ kept[Hole.Place[s]] = s

InFetch(s) == Fetching /\ copy[1] = s

EnteredMenu(m) == \A s \in Range(Hole.Lines[m]) \cap goal : P!FollowedIn(s) => Known(s)

GopherCovered ==
    clean /\ at # "idle" =>
        /\ Known(Hole.Root)
        /\ \A s \in visited : P!FollowedIn(s) => There(s) \/ InFetch(s)
        /\ \A m \in visited \cap Hole.Menus :
              P!FollowedIn(m) => InFetch(m) \/ P!IsFile(Hole.Place[m]) \/ EnteredMenu(m)

GopherInv == GopherTypes /\ Contents /\ InProgress /\ GopherCovered

(* The 00README in hand has been made.                                     *)
Writing ==
    at = "readme" =>
        /\ stack # <<>> /\ Head(stack).left = {} /\ Head(stack).info # P!NoInfo
        /\ P!ReadmeOf(Head(stack).menu) \in DOMAIN kept
        /\ kept[P!ReadmeOf(Head(stack).menu)] \in P!Notes

(* A 00README is whole, or waits for a menu that the run is in.            *)
BeingRead(m) ==
    \E f \in Range(stack) : f.menu \in Hole.Info /\ Hole.Place[f.menu] = Hole.Place[m]

Noted(m) == P!ReadmeOf(m) \in DOMAIN kept /\ kept[P!ReadmeOf(m)] = P!Readme

NotesWhole ==
    clean /\ at # "idle" =>
        /\ \A f \in Range(stack) : f.menu \in Hole.Info => f.info = P!Readme
        /\ \A m \in visited \cap Hole.Info : P!FollowedIn(m) =>
              InFetch(m) \/ P!IsFile(Hole.Place[m]) \/ BeingRead(m) \/ Noted(m)

NotesInv == Writing /\ NotesWhole

LEMMA PlacesOfSelectors ==
  ASSUME P!SelectorAssumption
  PROVE  /\ \A s \in Hole.Selectors : /\ Hole.Place[s] \in Seq(Range(Hole.Place[s]))
                                     /\ IsPrefix(Hole.Place[s], Hole.Place[s])
                                      /\ Len(Hole.Place[s]) \in Nat
         /\ \A p, q : P!IsPrefix(p, q) = IsPrefix(p, q)
<1>1. \A s \in Hole.Selectors : Hole.Place[s] \in Seq(Range(Hole.Place[s]))
  BY DEF P!SelectorAssumption, P!Range, Range
<1>2. ASSUME NEW s \in Hole.Selectors
      PROVE  IsPrefix(Hole.Place[s], Hole.Place[s]) /\ Len(Hole.Place[s]) \in Nat
  <2>1. Hole.Place[s] \in Seq(Range(Hole.Place[s]))
    BY <1>1
  <2>2. /\ SubSeq(Hole.Place[s], 1, Len(Hole.Place[s])) = Hole.Place[s]
        /\ Len(Hole.Place[s]) \in Nat
    BY <2>1
  <2>. QED
    BY <2>2 DEF IsPrefix
<1>3. \A p, q : P!IsPrefix(p, q) = IsPrefix(p, q)
  BY DEF P!IsPrefix, IsPrefix
<1>. QED
  BY <1>1, <1>2, <1>3

(* The menus the run is in: one more, one less, an entry less. *)
LEMMA PushFrame ==
  ASSUME stack \in Seq(Frames), NEW f \in Frames, stack' = <<f>> \o stack
  PROVE  stack' \in Seq(Frames) /\ Awaited' = Awaited \cup f.left
<1>1. <<f>> \o stack \in Seq(Frames) /\ Range(<<f>> \o stack) = {f} \cup Range(stack)
  BY Prepended
<1>2. Awaited' = UNION {x.left : x \in Range(stack')}
  BY DEF Awaited, Range
<1>3. Awaited' = UNION {x.left : x \in {f} \cup Range(stack)}
  BY <1>1, <1>2
<1>. QED
  BY <1>1, <1>3 DEF Awaited

LEMMA PopFrame ==
  ASSUME stack \in Seq(Frames), stack # <<>>, stack' = Tail(stack), Head(stack).left = {}
  PROVE  stack' \in Seq(Frames) /\ Awaited' = Awaited
<1>1. Tail(stack) \in Seq(Frames) /\ Range(stack) = {Head(stack)} \cup Range(Tail(stack))
  BY TopAndRest
<1>2. Awaited' = UNION {x.left : x \in Range(stack')}
  BY DEF Awaited, Range
<1>3. Awaited = UNION {x.left : x \in {Head(stack)} \cup Range(Tail(stack))}
  BY <1>1 DEF Awaited
<1>. QED
  BY <1>1, <1>2, <1>3

LEMMA TakeEntry ==
  ASSUME stack \in Seq(Frames), stack # <<>>, NEW e \in Head(stack).left,
         stack' = <<[Head(stack) EXCEPT !.left = @ \ {e}]>> \o Tail(stack)
  PROVE  /\ stack' \in Seq(Frames) /\ e \in Nat \X Hole.Selectors
         /\ Awaited' \subseteq Awaited /\ Awaited \subseteq Awaited' \cup {e}
         /\ \A x \in Range(stack') : \E y \in Range(stack) : x.menu = y.menu /\ x.info = y.info
         /\ \A y \in Range(stack) : \E x \in Range(stack') : x.menu = y.menu /\ x.info = y.info
<1>. DEFINE f == [Head(stack) EXCEPT !.left = @ \ {e}]
<1>1. /\ Head(stack) \in Frames /\ Tail(stack) \in Seq(Frames)
      /\ Range(stack) = {Head(stack)} \cup Range(Tail(stack))
  BY TopAndRest
<1>2. /\ f \in Frames /\ f.left = Head(stack).left \ {e} /\ e \in Nat \X Hole.Selectors
      /\ f.menu = Head(stack).menu /\ f.info = Head(stack).info
  BY <1>1 DEF Frames
<1>. HIDE DEF f
<1>3. <<f>> \o Tail(stack) \in Seq(Frames)
      /\ Range(<<f>> \o Tail(stack)) = {f} \cup Range(Tail(stack))
  BY <1>1, <1>2, Prepended
<1>4. Awaited' = UNION {x.left : x \in Range(stack')}
  BY DEF Awaited, Range
<1>5. Awaited' = UNION {x.left : x \in {f} \cup Range(Tail(stack))}
  BY <1>3, <1>4 DEF f
<1>6. Awaited = UNION {x.left : x \in {Head(stack)} \cup Range(Tail(stack))}
  BY <1>1 DEF Awaited
<1>7. stack' \in Seq(Frames)
  BY <1>3 DEF f
<1>8. Range(stack') = {f} \cup Range(Tail(stack))
  BY <1>3 DEF f
<1>9. /\ \A x \in Range(stack') : \E y \in Range(stack) : x.menu = y.menu /\ x.info = y.info
      /\ \A y \in Range(stack) : \E x \in Range(stack') : x.menu = y.menu /\ x.info = y.info
  BY <1>1, <1>2, <1>8
<1>10. Awaited' \subseteq Awaited /\ Awaited \subseteq Awaited' \cup {e}
  BY <1>2, <1>5, <1>6
<1>. QED
  BY <1>2, <1>7, <1>9, <1>10

(* What is there stays what it is when a menu or a file arrives. *)
Same == \A p \in DOMAIN kept : p \in DOMAIN kept' /\ kept'[p] = kept[p]

LEMMA SameStep ==
  ASSUME GopherInv, P!ReadMenu \/ P!Create \/ P!Commit \/ UNCHANGED kept
  PROVE  Same /\ P!KeepsFiles
<1>1. CASE P!ReadMenu
  <2>1. PICK dirs : P!CanMake(dirs) /\ kept' = P!MadeDirs(dirs)
    BY <1>1 DEF P!ReadMenu
  <2>. QED
    BY <2>1 DEF P!CanMake, P!MadeDirs, P!KeepsFiles, P!IsFile, Same
<1>2. CASE P!Create
  <2>1. PICK dirs : P!CanMake(dirs) /\ kept' = P!MadeDirs(dirs)
    BY <1>2 DEF P!Create
  <2>. QED
    BY <2>1 DEF P!CanMake, P!MadeDirs, P!KeepsFiles, P!IsFile, Same
<1>3. CASE P!Commit
  <2>1. /\ at = "body" /\ ~P!IsDir(Hole.Place[copy[1]])
        /\ kept' = [q \in DOMAIN kept \cup {Hole.Place[copy[1]]} |->
                       IF q = Hole.Place[copy[1]] THEN copy[1] ELSE kept[q]]
    BY <1>3 DEF P!Commit
  <2>2. Hole.Place[copy[1]] \notin DOMAIN kept
    BY <2>1 DEF GopherInv, GopherTypes, InProgress, Fetching, P!IsDir, P!IsFile
  <2>. QED
    BY <2>1, <2>2 DEF P!KeepsFiles, Same
<1>4. CASE UNCHANGED kept
  BY <1>4 DEF P!KeepsFiles, Same
<1>. QED
  BY <1>1, <1>2, <1>3, <1>4

(* A menu's 00README has a path that no selector has. *)
LEMMA ReadmePath ==
  ASSUME P!SelectorAssumption, NEW m \in Hole.Selectors
  PROVE  /\ P!ReadmeOf(m) # <<>> /\ Last(P!ReadmeOf(m)) = P!Readme
         /\ P!PlacesApart => \A s \in Hole.Selectors : Hole.Place[s] # P!ReadmeOf(m)
<1>. DEFINE p == P!ReadmeOf(m)
<1>1. Hole.Place[m] \in Seq(Range(Hole.Place[m]) \cup {P!Readme})
  BY PlacesOfSelectors
<1>2. /\ Len(p) = Len(Hole.Place[m]) + 1 /\ Len(Hole.Place[m]) \in Nat
      /\ p[Len(Hole.Place[m]) + 1] = P!Readme
  BY <1>1 DEF P!ReadmeOf
<1>. HIDE DEF p
<1>3. p # <<>>
  BY <1>2
<1>4. Last(p) = p[Len(p)]
  BY DEF Last
<1>5. p # <<>> /\ Last(p) = P!Readme
  BY <1>2, <1>3, <1>4
<1>. QED
  BY <1>5 DEF p, P!PlacesApart, P!Last, Last

LEMMA SameFront ==
  ASSUME NEW X, NEW e \in X, NEW s \in Seq(X), NEW t \in Seq(X), Append(s, e) = Append(t, e)
  PROVE  s = t
<1>1. Append(s, e) = Append(t, e) <=> s = t /\ e = e
  BY AppendInjective
<1>. QED
  BY <1>1

(* Menus with one 00README are at one path. *)
LEMMA SameReadme ==
  ASSUME P!SelectorAssumption, NEW m \in Hole.Selectors, NEW n \in Hole.Selectors,
         P!ReadmeOf(m) = P!ReadmeOf(n)
  PROVE  Hole.Place[m] = Hole.Place[n]
<1>1. PICK X : P!Readme \in X /\ Hole.Place[m] \in Seq(X) /\ Hole.Place[n] \in Seq(X)
  <2>. DEFINE X == Range(Hole.Place[m]) \cup Range(Hole.Place[n]) \cup {P!Readme}
  <2>1. Hole.Place[m] \in Seq(X) /\ Hole.Place[n] \in Seq(X) /\ P!Readme \in X
    BY PlacesOfSelectors
  <2>. QED
    BY <2>1
<1>2. Append(Hole.Place[m], P!Readme) = Append(Hole.Place[n], P!Readme)
  BY DEF P!ReadmeOf
<1>. QED
  BY <1>1, <1>2, SameFront

(* The 00README that is made, or written, replaces none but a 00README. *)
LEMMA ReadmeStep ==
  ASSUME P!SelectorAssumption, P!PlacesApart, GopherInv, Writing, P!OpenReadme \/ P!WriteReadme
  PROVE  /\ Head(stack) \in Frames /\ stack # <<>>
         /\ Head(stack).menu \in Hole.Info /\ Head(stack).menu \in Hole.Selectors
         /\ Head(stack).left = {} /\ Head(stack).info \in P!Notes
         /\ DOMAIN kept' = DOMAIN kept \cup {P!ReadmeOf(Head(stack).menu)}
         /\ kept'[P!ReadmeOf(Head(stack).menu)] =
              IF P!OpenReadme THEN P!Cut ELSE Head(stack).info
         /\ \A p \in DOMAIN kept \ {P!ReadmeOf(Head(stack).menu)} : kept'[p] = kept[p]
         /\ P!KeepsFiles
<1>. DEFINE q == P!ReadmeOf(Head(stack).menu)
<1>1. /\ stack # <<>> /\ Head(stack).left = {} /\ Head(stack).info # P!NoInfo
      /\ stack \in Seq(Frames)
  BY DEF P!OpenReadme, P!WriteReadme, P!MayLeave, P!Top, Writing, GopherInv, GopherTypes
<1>2. Head(stack) \in Frames
  BY <1>1
<1>3. /\ Head(stack).menu \in Hole.Info /\ Head(stack).menu \in Hole.Selectors
      /\ Head(stack).info \in P!Notes
  BY <1>1, <1>2 DEF Frames, P!Notes, P!SelectorAssumption
<1>4. q \in DOMAIN kept => kept[q] \in P!Notes
  <2>1. CASE P!OpenReadme
    <3>1. ~P!IsDir(q)
      BY <2>1 DEF P!OpenReadme, P!Top
    <3>2. \A s \in Hole.Selectors : Hole.Place[s] # q
      BY <1>3, ReadmePath
    <3>. HIDE DEF q
    <3>. QED
      BY <3>1, <3>2 DEF GopherInv, Contents, P!IsDir
  <2>2. CASE P!WriteReadme
    BY <2>2 DEF P!WriteReadme, Writing
  <2>. QED
    BY <2>1, <2>2
<1>5. /\ DOMAIN kept' = DOMAIN kept \cup {q}
      /\ kept'[q] = IF P!OpenReadme THEN P!Cut ELSE Head(stack).info
      /\ \A p \in DOMAIN kept \ {q} : kept'[p] = kept[p]
  <2>1. CASE P!OpenReadme
    <3>1. kept' = [p \in DOMAIN kept \cup {q} |-> IF p = q THEN P!Cut ELSE kept[p]]
      BY <2>1 DEF P!OpenReadme, P!Top
    <3>. HIDE DEF q
    <3>. QED
      BY <2>1, <3>1
  <2>2. CASE ~P!OpenReadme
    <3>1. kept' = [kept EXCEPT ![q] = Head(stack).info] /\ q \in DOMAIN kept
      BY <2>2 DEF P!WriteReadme, P!Top, Writing
    <3>. HIDE DEF q
    <3>. QED
      BY <2>2, <3>1
  <2>. QED
    BY <2>1, <2>2
<1>6. P!KeepsFiles
  <2>. HIDE DEF q
  <2>. SUFFICES ASSUME NEW p \in DOMAIN kept
                PROVE  /\ p \in DOMAIN kept'
                       /\ kept'[p] = kept[p] \/ (kept[p] \in P!Notes /\ kept'[p] \in P!Notes)
    BY DEF P!KeepsFiles
  <2>1. CASE p = q
    BY <1>3, <1>4, <1>5, <2>1 DEF P!Notes
  <2>2. CASE p # q
    BY <1>5, <2>2
  <2>. QED
    BY <2>1, <2>2
<1>. QED
  BY <1>1, <1>2, <1>3, <1>5, <1>6

(* What is there stays there, and stays what it is unless it is a 00README. *)
LEMMA KeepsStep ==
  ASSUME P!SelectorAssumption, P!PlacesApart, GopherInv, Writing, P!Next
  PROVE  P!KeepsFiles
<1>1. CASE P!OpenReadme \/ P!WriteReadme
  BY <1>1, ReadmeStep
<1>2. CASE P!ReadMenu \/ P!Create \/ P!Commit \/ UNCHANGED kept
  BY <1>2, SameStep
<1>. QED
  BY <1>1, <1>2
     DEF P!Next, P!Grow, P!Start, P!Get, P!Misread, P!Empty, P!FetchFails, P!Leave,
         P!ReadmeFails, P!Finish, P!Crash

LEMMA StillThere ==
  ASSUME P!SelectorAssumption, P!KeepsFiles
  PROVE  /\ \A s \in Hole.Selectors : There(s) => There(s)'
         /\ \A p : P!IsFile(p) => P!IsFile(p)'
BY DEF P!KeepsFiles, There, P!IsFile, P!Shadowed, P!Dir, P!Readme, P!Cut, P!Notes,
       P!SelectorAssumption

(* What the run knows of carries over, when it looks at no less. *)
LEMMA StillKnown ==
  ASSUME visited \subseteq visited', Awaited \subseteq Awaited', goal' = goal
  PROVE  /\ \A s : Known(s) => Known(s)'
         /\ \A m : EnteredMenu(m) => EnteredMenu(m)'
<1>1. \A s : Known(s) => Known(s)'
  BY DEF Known
<1>. QED
  BY <1>1 DEF EnteredMenu, P!FollowedIn, P!InScope

(* Steps that leave the disk and the menus in hand as they are. *)
LEMMA GopherForget ==
  ASSUME GopherInv, P!Forget, UNCHANGED <<shown, kept>>
  PROVE  GopherInv'
<1>1. /\ at' = "idle" /\ visited' = {} /\ stack' = <<>> /\ attempt' = 0 /\ clean' = TRUE
      /\ goal' = {}
  BY DEF P!Forget
<1>2. GopherTypes'
  BY <1>1 DEF GopherInv, GopherTypes, Fetching
<1>3. Contents'
  BY DEF GopherInv, Contents, MadeFor, P!Dir, P!Readme, P!Cut, P!Notes
<1>. QED
  BY <1>1, <1>2, <1>3 DEF GopherInv, InProgress, Fetching, GopherCovered

LEMMA GopherInit ==
  ASSUME P!SelectorAssumption, P!Init
  PROVE  GopherInv
<1>1. /\ DOMAIN kept = {} /\ at = "idle" /\ visited = {} /\ stack = <<>> /\ attempt = 0
      /\ clean = TRUE /\ goal = {}
  BY DEF P!Init
<1>. QED
  BY <1>1 DEF GopherInv, GopherTypes, Contents, InProgress, Fetching, GopherCovered

LEMMA GopherUnchanged ==
  ASSUME GopherInv, shown \subseteq shown',
         UNCHANGED <<kept, at, visited, stack, copy, attempt, clean, goal>>
  PROVE  GopherInv'
<1>1. GopherTypes'
  BY DEF GopherInv, GopherTypes, Fetching
<1>2. Contents'
  BY DEF GopherInv, Contents, MadeFor, P!Dir, P!Readme, P!Cut, P!Notes
<1>3. InProgress'
  BY DEF GopherInv, InProgress, Fetching, MadeFor, P!IsFile, P!Dir
<1>4. Awaited' = Awaited
  BY DEF Awaited
<1>5. GopherCovered'
  <2>1. \A s : Known(s)' = Known(s) /\ There(s)' = There(s) /\ InFetch(s)' = InFetch(s)
    BY <1>4 DEF Known, There, InFetch, Fetching, P!Shadowed
  <2>2. \A m : EnteredMenu(m)' = EnteredMenu(m)
    BY <2>1 DEF EnteredMenu, P!FollowedIn, P!InScope
  <2>. QED
    BY <2>1, <2>2 DEF GopherInv, GopherCovered, P!FollowedIn, P!InScope, P!IsFile, P!Dir
<1>. QED
  BY <1>1, <1>2, <1>3, <1>5 DEF GopherInv

LEMMA GopherStart ==
  ASSUME P!SelectorAssumption, GopherInv, P!Start
  PROVE  GopherInv'
<1>. DEFINE f == [menu |-> P!NoMenu, left |-> {<<1, Hole.Root>>}, info |-> P!NoInfo,
                   attempt |-> 0]
<1>1. /\ at = "idle" /\ at' = "walk" /\ stack' = <<f>> /\ goal' = shown
      /\ UNCHANGED <<shown, kept, visited, attempt>>
  BY DEF P!Start
<1>2. /\ f \in Frames /\ f.left = {<<1, Hole.Root>>}
  BY DEF Frames, P!SelectorAssumption
<1>. HIDE DEF f
<1>3. stack = <<>> /\ visited = {}
  BY <1>1 DEF GopherInv, GopherTypes
<1>4. stack' \in Seq(Frames) /\ Awaited' = {<<1, Hole.Root>>}
  <2>1. stack \in Seq(Frames) /\ stack' = <<f>> \o stack
    BY <1>1, <1>2, <1>3
  <2>2. Awaited = {}
    BY <1>3 DEF Awaited, Range
  <2>. QED
    BY <1>2, <2>1, <2>2, PushFrame
<1>5. GopherTypes'
  BY <1>1, <1>3, <1>4 DEF GopherInv, GopherTypes, Fetching
<1>6. Contents'
  BY <1>1 DEF GopherInv, Contents, MadeFor, P!Dir, P!Readme, P!Cut, P!Notes
<1>7. InProgress'
  BY <1>1 DEF InProgress, Fetching
<1>8. GopherCovered'
  BY <1>1, <1>3, <1>4 DEF GopherCovered, Known
<1>. QED
  BY <1>5, <1>6, <1>7, <1>8 DEF GopherInv

(* An entry is dealt with: it is fetched, unless there is nothing to be    *)
(* fetched for it.                                                         *)
LEMMA GetEntryStep ==
  ASSUME P!SelectorAssumption, P!PlacesApart, GopherInv, P!Get
  PROVE  GopherInv'
<1>1. PICK e \in Head(stack).left :
         /\ at = "walk" /\ stack # <<>>
         /\ visited' = (IF e[2] \in Hole.Foreign THEN visited ELSE visited \cup {e[2]})
         /\ stack' = <<[Head(stack) EXCEPT !.left = @ \ {e}]>> \o Tail(stack)
         /\ \/ P!Settled(e[2]) /\ UNCHANGED <<at, copy, attempt>>
            \/ /\ ~P!Settled(e[2]) /\ at' = "fetch" /\ attempt' = 1
               /\ copy' = <<e[2], e[2] \in Hole.Menus \/ P!IsDir(Hole.Place[e[2]])>>
         /\ UNCHANGED <<shown, kept, clean, goal>>
  BY DEF P!Get, P!Top, P!hist
<1>2. /\ stack' \in Seq(Frames) /\ e \in Nat \X Hole.Selectors
      /\ Awaited' \subseteq Awaited /\ Awaited \subseteq Awaited' \cup {e}
  <2>1. stack \in Seq(Frames)
    BY DEF GopherInv, GopherTypes
  <2>. QED
    BY <1>1, <2>1, TakeEntry
<1>. DEFINE s == e[2]
<1>3. s \in Hole.Selectors
  BY <1>2
<1>4. at' = "fetch" => copy'[1] = s /\ copy'[2] = (s \in Hole.Menus \/ P!IsDir(Hole.Place[s]))
  BY <1>1
<1>5. GopherTypes'
  <2>1. visited' \subseteq Hole.Selectors /\ attempt' \in Nat /\ at' \in {"walk", "fetch"}
    BY <1>1, <1>3 DEF GopherInv, GopherTypes
  <2>2. at' = "fetch" => copy'[1] \in Hole.Selectors /\ copy'[2] \in BOOLEAN
    <3>1. (s \in Hole.Menus \/ P!IsDir(Hole.Place[s])) \in BOOLEAN
      BY DEF P!IsDir
    <3>. QED
      BY <1>3, <1>4, <3>1
  <2>3. goal' \subseteq shown'
    BY <1>1 DEF GopherInv, GopherTypes
  <2>. QED
    BY <1>2, <2>1, <2>2, <2>3 DEF GopherTypes, Fetching
<1>6. Contents'
  BY <1>1 DEF GopherInv, Contents, MadeFor, P!Dir, P!Readme, P!Cut, P!Notes
<1>7. InProgress'
  <2>1. CASE at' # "fetch"
    BY <1>1, <2>1 DEF InProgress, Fetching
  <2>2. CASE at' = "fetch"
    <3>1. ~P!IsFile(Hole.Place[s])
      BY <1>1, <2>2 DEF P!Settled
    <3>2. s \in Hole.Menus => MadeFor(Hole.Place[s])
      BY <1>3, PlacesOfSelectors DEF MadeFor
    <3>3. P!IsDir(Hole.Place[s]) => MadeFor(Hole.Place[s])
      BY DEF GopherInv, Contents, P!IsDir, P!Dir, P!Readme, P!Cut, P!Notes,
         P!SelectorAssumption
    <3>4. (P!IsFile(Hole.Place[s]))' = P!IsFile(Hole.Place[s])
      BY <1>1 DEF P!IsFile, P!Dir
    <3>. QED
      BY <1>1, <1>4, <2>2, <3>1, <3>2, <3>3 DEF InProgress, MadeFor, P!IsFile, P!Dir
  <2>. QED
    BY <2>1, <2>2
<1>8. GopherCovered'
  <2>. SUFFICES ASSUME clean
                PROVE  /\ Known(Hole.Root)'
                       /\ \A x \in visited' : P!FollowedIn(x) => There(x)' \/ InFetch(x)'
                       /\ \A m \in visited' \cap Hole.Menus : P!FollowedIn(m) =>
                             InFetch(m)' \/ P!IsFile(Hole.Place[m])' \/ EnteredMenu(m)'
    BY <1>1 DEF GopherCovered, P!FollowedIn, P!InScope
  <2>1. /\ Known(Hole.Root)
        /\ \A x \in visited : P!FollowedIn(x) => There(x)
        /\ \A m \in visited \cap Hole.Menus : P!FollowedIn(m) =>
              P!IsFile(Hole.Place[m]) \/ EnteredMenu(m)
    BY <1>1 DEF GopherInv, GopherCovered, InFetch, Fetching
  <2>2. \A x : Known(x) /\ x \notin Hole.Foreign => Known(x)'
    BY <1>1, <1>2 DEF Known
  <2>3. Known(Hole.Root)'
    BY <2>1, <2>2 DEF P!SelectorAssumption
  <2>4. \A m : EnteredMenu(m) => EnteredMenu(m)'
    BY <1>1, <2>2 DEF EnteredMenu, P!FollowedIn, P!InScope
  <2>5. /\ \A x : There(x) => There(x)'
        /\ \A p : P!IsFile(p) => P!IsFile(p)'
    BY <1>1 DEF There, P!Shadowed, P!IsFile, P!Dir
  <2>6. CASE s \in visited \/ ~P!FollowedIn(s)
    BY <1>1, <2>1, <2>3, <2>4, <2>5, <2>6
  <2>7. CASE s \notin visited /\ P!FollowedIn(s)
    <3>1. CASE P!IsFile(Hole.Place[s])
      <4>1. There(s)
        <5>1. PICK t \in Hole.Selectors :
                  kept[Hole.Place[s]] = t /\ Hole.Place[t] = Hole.Place[s]
          BY <1>3, <3>1 DEF GopherInv, Contents, P!IsFile, P!PlacesApart, P!Last, Last
        <5>2. t # s => P!Shadowed(s)
          <6>1. IsPrefix(Hole.Place[s], Hole.Place[t])
            BY <1>3, <5>1, PlacesOfSelectors
          <6>. QED
            BY <6>1, PlacesOfSelectors DEF P!Shadowed
        <5>. QED
          BY <3>1, <5>1, <5>2 DEF There, P!IsFile
      <4>2. P!IsFile(Hole.Place[s])'
        BY <2>5, <3>1
      <4>. QED
        BY <1>1, <2>1, <2>3, <2>4, <2>5, <4>1, <4>2
    <3>2. CASE ~P!IsFile(Hole.Place[s])
      <4>1. at' = "fetch" /\ copy'[1] = s
        BY <1>1, <1>4, <2>7, <3>2 DEF P!Settled, P!FollowedIn
      <4>2. InFetch(s)'
        BY <4>1 DEF InFetch, Fetching
      <4>. QED
        BY <1>1, <2>1, <2>3, <2>4, <2>5, <4>2
    <3>. QED
      BY <3>1, <3>2
  <2>. QED
    BY <2>6, <2>7
<1>. QED
  BY <1>5, <1>6, <1>7, <1>8 DEF GopherInv

(* Directories are made only where there is no file. *)
LEMMA DirsMade ==
  ASSUME P!SelectorAssumption, GopherInv, NEW dirs, P!CanMake(dirs), kept' = P!MadeDirs(dirs),
         \A p \in dirs : MadeFor(p)
  PROVE  /\ Contents'
         /\ DOMAIN kept' = DOMAIN kept \cup dirs
         /\ \A p \in dirs : kept'[p] = P!Dir
         /\ \A p : P!IsFile(p)' = P!IsFile(p)
<1>1. /\ DOMAIN kept' = DOMAIN kept \cup dirs
      /\ \A p \in dirs : kept'[p] = P!Dir
      /\ \A p \in DOMAIN kept \ dirs : kept'[p] = kept[p]
  BY DEF P!MadeDirs
<1>2. \A p : P!IsFile(p)' = P!IsFile(p)
  BY <1>1 DEF P!CanMake, P!IsFile, P!Dir
<1>3. Contents'
  <2>. SUFFICES ASSUME NEW p \in DOMAIN kept'
                PROVE  \/ kept'[p] = P!Dir /\ MadeFor(p)
                       \/ kept'[p] \in P!Notes /\ p # <<>> /\ Last(p) = P!Readme
                       \/ /\ kept'[p] \in Hole.Selectors /\ Hole.Place[kept'[p]] = p
                          /\ (kept'[p] \in Hole.Menus => kept'[p] = Hole.Root)
    BY DEF Contents, MadeFor, P!Dir, P!Readme, P!Cut, P!Notes
  <2>1. CASE p \in dirs
    BY <1>1, <2>1
  <2>2. CASE p \notin dirs
    BY <1>1, <2>2 DEF GopherInv, Contents
  <2>. QED
    BY <2>1, <2>2
<1>. QED
  BY <1>1, <1>2, <1>3

LEMMA OnTheWay ==
  ASSUME P!SelectorAssumption, NEW s \in Hole.Selectors
  PROVE  \A p \in P!Ancestors(Hole.Place[s]) : MadeFor(p)
<1>1. Hole.Place[s] \in Seq(Range(Hole.Place[s])) /\ Len(Hole.Place[s]) \in Nat
  BY PlacesOfSelectors
<1>2. ASSUME NEW k \in 1..Len(Hole.Place[s]) - 1
      PROVE  MadeFor(SubSeq(Hole.Place[s], 1, k))
  <2>1. k - 1 \in 0..Len(Hole.Place[s]) - 1 /\ k - 1 + 1 = k /\ k # Len(Hole.Place[s])
    BY <1>1
  <2>2. /\ IsPrefix(SubSeq(Hole.Place[s], 1, k), Hole.Place[s])
        /\ SubSeq(Hole.Place[s], 1, k) # Hole.Place[s]
    BY <1>1, <2>1, StepFurther
  <2>. QED
    BY <2>2 DEF MadeFor
<1>. QED
  BY <1>2 DEF P!Ancestors

(* A menu that arrives whole shows all that it showed when the run began.  *)
LEMMA ReadMenuStep ==
  ASSUME P!SelectorAssumption, P!PlacesApart, GopherInv, P!ReadMenu
  PROVE  GopherInv'
<1>0. PICK s : s = copy[1]
  OBVIOUS
<1>. DEFINE dirs == P!Ancestors(Hole.Place[s]) \cup {Hole.Place[s]}
<1>1. /\ at = "fetch" /\ copy[2] /\ P!CanMake(dirs) /\ kept' = P!MadeDirs(dirs)
      /\ at' = "walk" /\ attempt' = 0 /\ UNCHANGED <<shown, visited, goal>>
  BY <1>0 DEF P!ReadMenu
<1>2. PICK k \in 0..P!Length(s), info \in P!Arrived(s) :
         /\ stack' = <<[menu |-> s, left |-> P!Entries(s, k), info |-> info, attempt |-> attempt]>> \o stack
         /\ clean' => clean /\ P!Entries(s, k) = P!Entries(s, P!Length(s))
         /\ clean' => (s \in Hole.Info => info = P!Readme)
  BY <1>0 DEF P!ReadMenu
<1>. DEFINE f == [menu |-> s, left |-> P!Entries(s, k), info |-> info, attempt |-> attempt]
<1>3. s \in Hole.Selectors /\ stack \in Seq(Frames) /\ attempt \in Nat /\ MadeFor(Hole.Place[s])
  BY <1>0, <1>1 DEF GopherInv, GopherTypes, InProgress, Fetching
<1>4. k = 0 \/ (s \in Hole.Menus /\ Len(Hole.Lines[s]) \in Nat /\ k \in 0..Len(Hole.Lines[s]))
  BY <1>2 DEF P!Length, P!SelectorAssumption
<1>5. P!Entries(s, k) \in SUBSET (Nat \X Hole.Selectors)
  BY <1>4 DEF P!Entries, P!SelectorAssumption
<1>6. f \in Frames /\ f.left = P!Entries(s, k)
  BY <1>3, <1>5 DEF Frames, P!Arrived
<1>. HIDE DEF f, dirs
<1>7. stack' \in Seq(Frames) /\ Awaited' = Awaited \cup P!Entries(s, k)
  <2>1. stack' = <<f>> \o stack
    BY <1>2 DEF f
  <2>. QED
    BY <1>3, <1>6, <2>1, PushFrame
<1>8. /\ Contents'
      /\ DOMAIN kept' = DOMAIN kept \cup dirs
      /\ \A p \in dirs : kept'[p] = P!Dir
      /\ \A p : P!IsFile(p)' = P!IsFile(p)
  <2>1. \A p \in dirs : MadeFor(p)
    BY <1>3, OnTheWay DEF dirs
  <2>. QED
    BY <1>1, <2>1, DirsMade
<1>12. visited \subseteq Hole.Selectors
  BY DEF GopherInv, GopherTypes
<1>9. GopherTypes'
  BY <1>1, <1>3, <1>7 DEF GopherInv, GopherTypes, Fetching
<1>10. InProgress'
  BY <1>1 DEF InProgress, Fetching
<1>11. GopherCovered'
  <2>. SUFFICES ASSUME clean, P!Entries(s, k) = P!Entries(s, P!Length(s))
                PROVE  /\ Known(Hole.Root)'
                       /\ \A x \in visited : P!FollowedIn(x) => There(x)' \/ InFetch(x)'
                       /\ \A m \in visited \cap Hole.Menus : P!FollowedIn(m) =>
                             InFetch(m)' \/ P!IsFile(Hole.Place[m])' \/ EnteredMenu(m)'
    BY <1>1, <1>2 DEF GopherCovered, P!FollowedIn, P!InScope
  <2>1. /\ Known(Hole.Root)
        /\ \A x \in visited : P!FollowedIn(x) => There(x) \/ x = s
        /\ \A m \in visited \cap Hole.Menus : P!FollowedIn(m) =>
              m = s \/ P!IsFile(Hole.Place[m]) \/ EnteredMenu(m)
    BY <1>0, <1>1 DEF GopherInv, GopherCovered, InFetch
  <2>2. /\ \A x : Known(x) => Known(x)'
        /\ \A m : EnteredMenu(m) => EnteredMenu(m)'
    BY <1>1, <1>7, StillKnown
  <2>3. \A x \in Hole.Selectors : There(x) => There(x)'
    <3>1. P!KeepsFiles
      BY SameStep
    <3>. QED
      BY <3>1, StillThere
  <2>4. There(s)'
    <3>1. Hole.Place[s] \in DOMAIN kept'
      BY <1>8 DEF dirs
    <3>2. PICK t \in Hole.Selectors : /\ IsPrefix(Hole.Place[s], Hole.Place[t])
                                      /\ t \in Hole.Menus \/ Hole.Place[s] # Hole.Place[t]
      BY <1>3 DEF MadeFor
    <3>3. s \in Hole.Menus \/ P!Shadowed(s)
      BY <3>2, PlacesOfSelectors DEF P!Shadowed
    <3>4. There(s)' <=> /\ Hole.Place[s] \in DOMAIN kept'
                        /\ s \in Hole.Menus \/ P!Shadowed(s) \/ kept'[Hole.Place[s]] = s
      BY DEF There, P!Shadowed
    <3>. QED
      BY <3>1, <3>3, <3>4
  <2>5. s \in Hole.Menus => EnteredMenu(s)'
    <3>. SUFFICES ASSUME s \in Hole.Menus, NEW x \in Range(Hole.Lines[s]) \cap goal
                  PROVE  Known(x)'
      BY <1>1 DEF EnteredMenu
    <3>1. PICK i \in 1..Len(Hole.Lines[s]) : Hole.Lines[s][i] = x
      BY DEF P!SelectorAssumption, Range
    <3>2. x \in shown
      BY DEF GopherInv, GopherTypes
    <3>3. <<i, x>> \in P!Entries(s, P!Length(s))
      BY <3>1, <3>2 DEF P!Entries, P!Length
    <3>4. <<i, x>> \in Awaited' /\ <<i, x>>[2] = x
      BY <1>7, <3>3
    <3>. QED
      BY <3>4 DEF Known
  <2>. QED
    BY <1>8, <1>12, <2>1, <2>2, <2>3, <2>4, <2>5
<1>. QED
  BY <1>8, <1>9, <1>10, <1>11 DEF GopherInv

LEMMA CreateStep ==
  ASSUME P!SelectorAssumption, P!PlacesApart, GopherInv, P!Create
  PROVE  GopherInv'
<1>0. PICK s : s = copy[1]
  OBVIOUS
<1>1. /\ at = "fetch" /\ ~copy[2] /\ at' = "body"
      /\ P!CanMake(P!Ancestors(Hole.Place[s])) /\ kept' = P!MadeDirs(P!Ancestors(Hole.Place[s]))
      /\ UNCHANGED <<shown, visited, stack, copy, attempt, clean, goal>>
  BY <1>0 DEF P!Create, P!run, P!hist
<1>2. s \in Hole.Selectors
  BY <1>0, <1>1 DEF GopherInv, GopherTypes, Fetching
<1>3. Contents' /\ \A p : P!IsFile(p)' = P!IsFile(p)
  BY <1>1, <1>2, DirsMade, OnTheWay
<1>4. GopherTypes'
  BY <1>1 DEF GopherInv, GopherTypes, Fetching
<1>5. InProgress'
  <2>1. ~P!IsFile(Hole.Place[s])'
    BY <1>0, <1>1, <1>3 DEF GopherInv, InProgress, Fetching
  <2>2. P!IsFile(Hole.Place[copy[1]])' = P!IsFile(Hole.Place[s])'
    BY <1>0, <1>1 DEF P!IsFile, P!Dir
  <2>. QED
    BY <1>0, <1>1, <2>1, <2>2 DEF GopherInv, InProgress, Fetching
<1>6. GopherCovered'
  <2>1. /\ \A x : Known(x) => Known(x)'
        /\ \A m : EnteredMenu(m) => EnteredMenu(m)'
    <3>1. Awaited' = Awaited
      BY <1>1 DEF Awaited
    <3>. QED
      BY <1>1, <3>1, StillKnown
  <2>2. \A x \in Hole.Selectors : There(x) => There(x)'
    <3>1. P!KeepsFiles
      BY SameStep
    <3>. QED
      BY <3>1, StillThere
  <2>3. \A x : InFetch(x) => InFetch(x)'
    BY <1>1 DEF InFetch, Fetching
  <2>4. visited \subseteq Hole.Selectors
    BY DEF GopherInv, GopherTypes
  <2>. QED
    BY <1>1, <1>3, <2>1, <2>2, <2>3, <2>4 DEF GopherInv, GopherCovered, P!FollowedIn, P!InScope
<1>. QED
  BY <1>3, <1>4, <1>5, <1>6 DEF GopherInv

(* A file that is complete is there, and no menu's. *)
LEMMA CommitItemStep ==
  ASSUME P!SelectorAssumption, P!PlacesApart, GopherInv, P!Commit
  PROVE  GopherInv'
<1>0. PICK s : s = copy[1]
  OBVIOUS
<1>1. /\ at = "body" /\ at' = "walk" /\ attempt' = 0
      /\ kept' = [q \in DOMAIN kept \cup {Hole.Place[s]} |->
                     IF q = Hole.Place[s] THEN s ELSE kept[q]]
      /\ UNCHANGED <<shown, visited, stack, clean, goal>>
  BY <1>0 DEF P!Commit, P!hist
<1>2. /\ s \in Hole.Selectors /\ (s \in Hole.Menus => s = Hole.Root /\ ~clean)
  BY <1>0, <1>1 DEF GopherInv, GopherTypes, InProgress, Fetching
<1>3. /\ DOMAIN kept' = DOMAIN kept \cup {Hole.Place[s]} /\ kept'[Hole.Place[s]] = s
      /\ \A p \in DOMAIN kept : p # Hole.Place[s] => kept'[p] = kept[p]
  BY <1>1
<1>4. GopherTypes'
  BY <1>1 DEF GopherInv, GopherTypes, Fetching
<1>5. Contents'
  <2>. SUFFICES ASSUME NEW p \in DOMAIN kept'
                PROVE  \/ kept'[p] = P!Dir /\ MadeFor(p)
                       \/ kept'[p] \in P!Notes /\ p # <<>> /\ Last(p) = P!Readme
                       \/ /\ kept'[p] \in Hole.Selectors /\ Hole.Place[kept'[p]] = p
                          /\ (kept'[p] \in Hole.Menus => kept'[p] = Hole.Root)
    BY DEF Contents, MadeFor, P!Dir, P!Readme, P!Cut, P!Notes
  <2>1. CASE p = Hole.Place[s]
    BY <1>2, <1>3, <2>1
  <2>2. CASE p # Hole.Place[s]
    BY <1>3, <2>2 DEF GopherInv, Contents
  <2>. QED
    BY <2>1, <2>2
<1>6. InProgress'
  BY <1>1 DEF InProgress, Fetching
<1>7. GopherCovered'
  <2>. SUFFICES ASSUME clean
                PROVE  /\ Known(Hole.Root)'
                       /\ \A x \in visited : P!FollowedIn(x) => There(x)' \/ InFetch(x)'
                       /\ \A m \in visited \cap Hole.Menus : P!FollowedIn(m) =>
                             InFetch(m)' \/ P!IsFile(Hole.Place[m])' \/ EnteredMenu(m)'
    BY <1>1 DEF GopherCovered, P!FollowedIn, P!InScope
  <2>1. /\ Known(Hole.Root)
        /\ \A x \in visited : P!FollowedIn(x) => There(x) \/ x = s
        /\ \A m \in visited \cap Hole.Menus : P!FollowedIn(m) =>
              P!IsFile(Hole.Place[m]) \/ EnteredMenu(m)
    BY <1>0, <1>1, <1>2 DEF GopherInv, GopherCovered, InFetch
  <2>2. /\ \A x : Known(x) => Known(x)'
        /\ \A m : EnteredMenu(m) => EnteredMenu(m)'
    <3>1. Awaited' = Awaited
      BY <1>1 DEF Awaited
    <3>. QED
      BY <1>1, <3>1, StillKnown
  <2>3. /\ \A x \in Hole.Selectors : There(x) => There(x)'
        /\ \A p : P!IsFile(p) => P!IsFile(p)'
    <3>1. P!KeepsFiles
      BY SameStep
    <3>. QED
      BY <3>1, StillThere
  <2>4. There(s)'
    BY <1>3 DEF There
  <2>5. visited \subseteq Hole.Selectors
    BY DEF GopherInv, GopherTypes
  <2>. QED
    BY <2>1, <2>2, <2>3, <2>4, <2>5
<1>. QED
  BY <1>4, <1>5, <1>6, <1>7 DEF GopherInv

(* An exchange that fails, breaks off before its first byte or is misread. *)
LEMMA FetchFailsStep ==
  ASSUME P!SelectorAssumption, P!PlacesApart, GopherInv, Writing,
         P!Misread \/ P!Empty \/ P!FetchFails \/ P!ReadmeFails
  PROVE  GopherInv'
<1>1. /\ clean' = FALSE /\ UNCHANGED <<shown, kept, visited, goal>>
      /\ at \in {"walk", "fetch", "body", "readme"}
  BY DEF P!MayLeave, P!Misread, P!Empty, P!FetchFails, P!ReadmeFails
<1>2. Contents'
  BY <1>1 DEF GopherInv, Contents, MadeFor, P!Dir, P!Readme, P!Cut, P!Notes
<1>3. GopherCovered'
  BY <1>1 DEF GopherCovered
<1>4. CASE P!Misread
  <2>1. /\ at = "fetch" /\ UNCHANGED <<at, stack, attempt>>
        /\ Hole.Place[Hole.Root] \notin DOMAIN kept
        /\ copy'[1] = Hole.Root /\ copy'[2] = FALSE
    BY <1>4 DEF P!Misread
  <2>2. GopherTypes'
    BY <1>1, <2>1 DEF GopherInv, GopherTypes, Fetching, P!SelectorAssumption
  <2>3. InProgress'
    BY <1>1, <2>1 DEF InProgress, P!IsFile, P!Dir
  <2>. QED
    BY <1>2, <1>3, <2>2, <2>3 DEF GopherInv
<1>5. CASE P!Empty \/ P!FetchFails
  <2>1. /\ at' \in {"walk", "fetch"} /\ attempt' \in Nat /\ UNCHANGED stack
        /\ at' = "fetch" => /\ copy'[1] = copy[1] /\ Fetching
                            /\ copy'[2] = (copy[1] \in Hole.Menus \/ copy[2])
    BY <1>5 DEF P!Empty, P!FetchFails, GopherInv, GopherTypes, Fetching
  <2>2. GopherTypes'
    BY <1>1, <2>1 DEF GopherInv, GopherTypes, Fetching
  <2>3. InProgress'
    <3>1. at' = "fetch" /\ copy[1] \in Hole.Menus => MadeFor(Hole.Place[copy[1]])
      BY <2>1, PlacesOfSelectors DEF MadeFor, GopherInv, GopherTypes
    <3>. QED
      BY <1>1, <2>1, <3>1 DEF GopherInv, InProgress, Fetching, MadeFor, P!IsFile, P!Dir
  <2>. QED
    BY <1>2, <1>3, <2>2, <2>3 DEF GopherInv
<1>6. CASE P!ReadmeFails
  <2>. DEFINE m == Head(stack).menu
  <2>1. /\ stack # <<>> /\ stack' = Tail(stack) /\ Head(stack).left = {}
        /\ Head(stack).info # P!NoInfo
        /\ \/ /\ at' = "fetch" /\ copy' = <<m, TRUE>>
              /\ attempt' = Head(stack).attempt + 1
           \/ at' = "walk" /\ UNCHANGED <<copy, attempt>>
    BY <1>6 DEF P!ReadmeFails, P!MayLeave, P!Top, Writing
  <2>2. Head(stack) \in Frames /\ stack \in Seq(Frames)
    BY <2>1, TopAndRest DEF GopherInv, GopherTypes
  <2>3. stack' \in Seq(Frames)
    BY <2>1, <2>2, PopFrame
  <2>4. m \in Hole.Selectors /\ m \in Hole.Menus /\ Head(stack).attempt \in Nat
    BY <2>1, <2>2 DEF P!SelectorAssumption, Frames, P!NoInfo
  <2>5. MadeFor(Hole.Place[m])
    BY <2>4, PlacesOfSelectors DEF MadeFor
  <2>. HIDE DEF m
  <2>6. attempt' \in Nat /\ (at' = "walk" \/ (at' = "fetch" /\ copy'[1] = m /\ copy'[2] = TRUE))
    <3>1. CASE at' = "fetch" /\ copy' = <<m, TRUE>> /\ attempt' = Head(stack).attempt + 1
      <4>1. copy'[1] = m /\ copy'[2] = TRUE
        BY <3>1
      <4>2. attempt' \in Nat
        BY <3>1, <2>4
      <4>. QED
        BY <3>1, <4>1, <4>2
    <3>2. CASE at' = "walk" /\ UNCHANGED <<copy, attempt>>
      BY <3>2 DEF GopherInv, GopherTypes
    <3>. QED
      BY <2>1, <3>1, <3>2
  <2>7. GopherTypes'
    BY <1>1, <2>3, <2>4, <2>6 DEF GopherInv, GopherTypes, Fetching
  <2>8. InProgress'
    BY <2>5, <2>6 DEF InProgress, Fetching, MadeFor
  <2>. QED
    BY <1>2, <1>3, <2>7, <2>8 DEF GopherInv
<1>. QED
  BY <1>4, <1>5, <1>6

(* A menu is left, after its 00README is written if it has one. *)
LEMMA LeaveMenuStep ==
  ASSUME P!SelectorAssumption, P!PlacesApart, GopherInv, Writing,
         P!Leave \/ P!OpenReadme \/ P!WriteReadme
  PROVE  GopherInv'
<1>. DEFINE q == P!ReadmeOf(Head(stack).menu)
<1>1. /\ at \in {"walk", "readme"} /\ at' \in {"walk", "readme"}
      /\ stack # <<>> /\ Head(stack).left = {} /\ stack \in Seq(Frames)
      /\ UNCHANGED <<shown, visited, attempt, clean, goal>>
      /\ stack' = stack \/ stack' = Tail(stack)
  BY DEF P!Leave, P!OpenReadme, P!WriteReadme, P!MayLeave, P!Top, P!hist, P!run, Writing,
         GopherInv, GopherTypes
<1>2. stack' \in Seq(Frames) /\ Awaited' = Awaited
  <2>1. CASE stack' = stack
    BY <1>1, <2>1 DEF Awaited
  <2>2. CASE stack' = Tail(stack)
    BY <1>1, <2>2, PopFrame
  <2>. QED
    BY <1>1, <2>1, <2>2
<1>3. GopherTypes'
  BY <1>1, <1>2 DEF GopherInv, GopherTypes, Fetching
<1>4. /\ P!KeepsFiles
      /\ \A p \in DOMAIN kept' :
            \/ p \in DOMAIN kept /\ kept'[p] = kept[p]
            \/ kept'[p] \in P!Notes /\ p # <<>> /\ Last(p) = P!Readme
  <2>1. CASE P!Leave
    BY <2>1, SameStep DEF P!Leave
  <2>2. CASE P!OpenReadme \/ P!WriteReadme
    <3>1. /\ q # <<>> /\ Last(q) = P!Readme
          /\ DOMAIN kept' = DOMAIN kept \cup {q} /\ kept'[q] \in P!Notes
          /\ \A p \in DOMAIN kept \ {q} : kept'[p] = kept[p]
      BY <2>2, ReadmeStep, ReadmePath DEF P!Notes
    <3>. HIDE DEF q
    <3>. QED
      BY <2>2, <3>1, ReadmeStep
  <2>. QED
    BY <2>1, <2>2
<1>5. Contents'
  <2>. SUFFICES ASSUME NEW p \in DOMAIN kept'
                PROVE  \/ kept'[p] = P!Dir /\ MadeFor(p)
                       \/ kept'[p] \in P!Notes /\ p # <<>> /\ Last(p) = P!Readme
                       \/ /\ kept'[p] \in Hole.Selectors /\ Hole.Place[kept'[p]] = p
                          /\ (kept'[p] \in Hole.Menus => kept'[p] = Hole.Root)
    BY DEF Contents, MadeFor, P!Dir, P!Readme, P!Cut, P!Notes
  <2>. QED
    BY <1>4 DEF GopherInv, Contents
<1>6. InProgress'
  BY <1>1 DEF InProgress, Fetching
<1>7. GopherCovered'
  <2>1. /\ \A x : Known(x) => Known(x)'
        /\ \A x : EnteredMenu(x) => EnteredMenu(x)'
    BY <1>1, <1>2, StillKnown
  <2>2. /\ \A x \in Hole.Selectors : There(x) => There(x)'
        /\ \A p : P!IsFile(p) => P!IsFile(p)'
    BY <1>4, StillThere
  <2>3. \A x : ~InFetch(x)
    BY <1>1 DEF InFetch, Fetching
  <2>4. visited \subseteq Hole.Selectors
    BY DEF GopherInv, GopherTypes
  <2>. QED
    BY <1>1, <2>1, <2>2, <2>3, <2>4 DEF GopherInv, GopherCovered, P!FollowedIn, P!InScope
<1>. QED
  BY <1>3, <1>5, <1>6, <1>7 DEF GopherInv

(* The 00READMEs that are whole, or to be written, when the disk and the   *)
(* menus the run is in change.                                             *)
LEMMA NotesFrame ==
  ASSUME NotesWhole, Same, P!KeepsFiles,
         at # "idle", clean' => clean, visited' = visited,
         \A f \in Range(stack)' : f.menu \in Hole.Info => f.info = P!Readme \/ f \in Range(stack),
         \A f \in Range(stack) : f.menu \in Hole.Info => f \in Range(stack)',
         clean' => \A m \in visited \cap Hole.Info : P!FollowedIn(m) /\ InFetch(m) =>
                      InFetch(m)' \/ BeingRead(m)'
  PROVE  NotesWhole'
<1>. SUFFICES ASSUME clean', at' # "idle"
              PROVE  /\ \A f \in Range(stack)' : f.menu \in Hole.Info => f.info = P!Readme
                     /\ \A m \in visited \cap Hole.Info : P!FollowedIn(m) =>
                          InFetch(m)' \/ P!IsFile(Hole.Place[m])' \/ BeingRead(m)' \/ Noted(m)'
  BY DEF NotesWhole, P!Readme, P!FollowedIn, P!InScope, Range
<1>1. \A f \in Range(stack)' : f.menu \in Hole.Info => f.info = P!Readme
  BY DEF NotesWhole
<1>2. \A m : BeingRead(m) => BeingRead(m)'
  BY DEF BeingRead, Range
<1>3. \A m : /\ Noted(m) => Noted(m)'
             /\ P!IsFile(Hole.Place[m]) => P!IsFile(Hole.Place[m])'
  BY DEF Noted, Same, P!ReadmeOf, P!Readme, P!IsFile, P!Dir
<1>. QED
  BY <1>1, <1>2, <1>3 DEF NotesWhole

LEMMA NotesUnchanged ==
  ASSUME NotesInv, UNCHANGED <<kept, at, visited, stack, copy, clean>>
  PROVE  NotesInv'
<1>1. Writing'
  BY DEF NotesInv, Writing, P!NoInfo, P!Notes, P!Readme, P!Cut, P!ReadmeOf
<1>2. \A m : /\ InFetch(m)' = InFetch(m) /\ BeingRead(m)' = BeingRead(m)
             /\ Noted(m)' = Noted(m) /\ P!IsFile(Hole.Place[m])' = P!IsFile(Hole.Place[m])
  BY DEF InFetch, Fetching, BeingRead, Range, Noted, P!ReadmeOf, P!Readme, P!IsFile, P!Dir
<1>3. NotesWhole'
  BY <1>2 DEF NotesInv, NotesWhole, Range, P!Readme, P!FollowedIn, P!InScope
<1>. QED
  BY <1>1, <1>3 DEF NotesInv

(* Steps that end a run, or leave the 00READMEs and the menus alone. *)
LEMMA NotesEasy ==
  ASSUME P!SelectorAssumption, GopherInv, NotesInv,
         P!Start \/ P!Misread \/ P!Empty \/ P!FetchFails \/ P!ReadmeFails \/ P!Finish \/ P!Crash
  PROVE  NotesInv'
<1>1. CASE P!Start
  <2>. DEFINE f == [menu |-> P!NoMenu, left |-> {<<1, Hole.Root>>}, info |-> P!NoInfo,
                    attempt |-> 0]
  <2>1. at = "idle" /\ at' = "walk" /\ stack' = <<f>> /\ visited' = visited
    BY <1>1 DEF P!Start
  <2>2. visited = {} /\ f.menu = P!NoMenu
    BY <2>1 DEF GopherInv, GopherTypes
  <2>. HIDE DEF f
  <2>3. Range(stack)' = {f}
    BY <2>1 DEF Range
  <2>4. P!NoMenu \notin Hole.Info
    BY DEF P!SelectorAssumption
  <2>. QED
    BY <2>1, <2>2, <2>3, <2>4 DEF NotesInv, Writing, NotesWhole
<1>2. CASE P!Misread \/ P!Empty \/ P!FetchFails \/ P!ReadmeFails
  <2>1. clean' = FALSE /\ at' \in {"walk", "fetch"}
    BY <1>2 DEF P!Misread, P!Empty, P!FetchFails, P!ReadmeFails
  <2>. QED
    BY <2>1 DEF NotesInv, Writing, NotesWhole
<1>3. CASE P!Finish \/ P!Crash
  <2>1. at' = "idle"
    BY <1>3 DEF P!Finish, P!Crash, P!Forget
  <2>. QED
    BY <2>1 DEF NotesInv, Writing, NotesWhole
<1>. QED
  BY <1>1, <1>2, <1>3

LEMMA NotesArrive ==
  ASSUME P!SelectorAssumption, P!PlacesApart, GopherInv, NotesInv,
         P!ReadMenu \/ P!Create \/ P!Commit
  PROVE  NotesInv'
<1>1. /\ at \in {"fetch", "body"} /\ at' \in {"walk", "body"} /\ visited' = visited
      /\ NotesWhole
  BY DEF P!ReadMenu, P!Create, P!Commit, P!run, NotesInv
<1>0. PICK s : s = copy[1]
  OBVIOUS
<1>2. Same /\ P!KeepsFiles
  BY SameStep
<1>3. CASE P!ReadMenu
  <2>1. PICK k \in 0..P!Length(s), info \in P!Arrived(s) :
           /\ stack' = <<[menu |-> s, left |-> P!Entries(s, k), info |-> info,
                          attempt |-> attempt]>> \o stack
           /\ clean' => clean /\ (s \in Hole.Info => info = P!Readme)
    BY <1>0, <1>3 DEF P!ReadMenu
  <2>. DEFINE f == [menu |-> s, left |-> P!Entries(s, k), info |-> info,
                    attempt |-> attempt]
  <2>2. f.menu = s /\ f.info = info
    OBVIOUS
  <2>3. stack' = <<f>> \o stack /\ stack \in Seq(Frames \cup {f})
    BY <2>1 DEF GopherInv, GopherTypes
  <2>. HIDE DEF f
  <2>4. Range(stack)' = {f} \cup Range(stack)
    <3>1. Range(<<f>> \o stack) = {f} \cup Range(stack)
      BY <2>3, Prepended
    <3>. QED
      BY <2>3, <3>1 DEF Range
  <2>5. CASE clean'
    <3>1. \A m : InFetch(m) => m = s
      BY <1>0 DEF InFetch
    <3>2. s \in Hole.Info => BeingRead(s)'
      BY <2>2, <2>4 DEF BeingRead, Range
    <3>3. NotesWhole'
      BY <1>1, <1>2, <2>1, <2>2, <2>4, <2>5, <3>1, <3>2, NotesFrame
    <3>. QED
      BY <1>1, <3>3 DEF NotesInv, Writing
  <2>6. CASE ~clean'
    BY <1>1, <2>6 DEF NotesInv, Writing, NotesWhole
  <2>. QED
    BY <2>5, <2>6
<1>4. CASE P!Create \/ P!Commit
  <2>1. stack' = stack /\ clean' = clean
    BY <1>4 DEF P!Create, P!Commit, P!run, P!hist
  <2>2. Range(stack)' = Range(stack)
    BY <2>1 DEF Range
  <2>3. clean' => \A m \in visited \cap Hole.Info : ~InFetch(m)
    <3>1. ~copy[2] /\ Fetching
      BY <1>1, <1>4 DEF P!Create, P!Commit, GopherInv, GopherTypes, Fetching
    <3>2. Hole.Info \subseteq Hole.Menus
      BY DEF P!SelectorAssumption
    <3>. QED
      BY <2>1, <3>1, <3>2 DEF GopherInv, InProgress, InFetch
  <2>4. NotesWhole'
    BY <1>1, <1>2, <2>1, <2>2, <2>3, NotesFrame
  <2>. QED
    BY <1>1, <2>4 DEF NotesInv, Writing
<1>. QED
  BY <1>3, <1>4

LEMMA NotesGet ==
  ASSUME P!SelectorAssumption, GopherInv, NotesInv, P!Get
  PROVE  NotesInv'
<1>1. PICK e \in Head(stack).left :
         /\ at = "walk" /\ stack # <<>>
         /\ visited' = (IF e[2] \in Hole.Foreign THEN visited ELSE visited \cup {e[2]})
         /\ stack' = <<[Head(stack) EXCEPT !.left = @ \ {e}]>> \o Tail(stack)
         /\ \/ P!Settled(e[2]) /\ UNCHANGED <<at, copy, attempt>>
            \/ /\ ~P!Settled(e[2]) /\ at' = "fetch" /\ attempt' = 1
               /\ copy' = <<e[2], e[2] \in Hole.Menus \/ P!IsDir(Hole.Place[e[2]])>>
         /\ UNCHANGED <<shown, kept, clean, goal>>
  BY DEF P!Get, P!Top, P!hist
<1>2. stack \in Seq(Frames) /\ Range(stack)' = Range(stack')
  BY DEF GopherInv, GopherTypes, Range
<1>3. /\ \A x \in Range(stack)' : \E y \in Range(stack) : x.menu = y.menu /\ x.info = y.info
      /\ \A y \in Range(stack) : \E x \in Range(stack)' : x.menu = y.menu /\ x.info = y.info
  BY <1>1, <1>2, TakeEntry
<1>4. \A m : BeingRead(m) => BeingRead(m)'
  BY <1>3 DEF BeingRead, Range
<1>5. \A m : /\ Noted(m)' = Noted(m) /\ P!IsFile(Hole.Place[m])' = P!IsFile(Hole.Place[m])
             /\ ~InFetch(m)
  BY <1>1 DEF Noted, P!ReadmeOf, P!Readme, P!IsFile, P!Dir, InFetch, Fetching
<1>6. ASSUME clean, NEW m \in visited' \cap Hole.Info, P!FollowedIn(m)
      PROVE  InFetch(m)' \/ P!IsFile(Hole.Place[m])' \/ BeingRead(m)' \/ Noted(m)'
  <2>1. CASE m \in visited
    BY <1>1, <1>4, <1>5, <1>6, <2>1 DEF NotesInv, NotesWhole
  <2>2. CASE m \notin visited
    <3>1. m = e[2]
      BY <1>1, <1>6, <2>2
    <3>2. P!Settled(m) => P!IsFile(Hole.Place[m])
      BY <1>6, <2>2 DEF P!Settled, P!FollowedIn
    <3>3. at' = "fetch" /\ copy'[1] = m => InFetch(m)'
      BY DEF InFetch, Fetching
    <3>. QED
      BY <1>1, <1>5, <3>1, <3>2, <3>3
  <2>. QED
    BY <2>1, <2>2
<1>7. \A x \in Range(stack)' : clean /\ x.menu \in Hole.Info => x.info = P!Readme
  BY <1>1, <1>3 DEF NotesInv, NotesWhole
<1>8. NotesWhole'
  BY <1>1, <1>6, <1>7 DEF NotesWhole, P!FollowedIn, P!InScope, P!Readme, Range
<1>. QED
  BY <1>1, <1>8 DEF NotesInv, Writing

(* The menu that is left had no information lines, or they are all there. *)
LEMMA NotesLeave ==
  ASSUME P!SelectorAssumption, P!PlacesApart, GopherInv, NotesInv,
         P!Leave \/ P!OpenReadme \/ P!WriteReadme
  PROVE  NotesInv'
<1>. DEFINE top == Head(stack)
            q   == P!ReadmeOf(top.menu)
<1>1. /\ UNCHANGED <<visited, clean>> /\ at \in {"walk", "readme"}
      /\ NotesWhole /\ Writing /\ stack \in Seq(Frames)
  BY DEF P!Leave, P!OpenReadme, P!WriteReadme, P!MayLeave, P!run, P!hist, NotesInv, GopherInv,
         GopherTypes
<1>2. CASE P!Leave
  <2>1. /\ stack # <<>> /\ stack' = Tail(stack) /\ top.info = P!NoInfo /\ at' = "walk"
        /\ kept' = kept
    BY <1>2 DEF P!Leave, P!MayLeave, P!Top
  <2>2. Range(stack) = {top} \cup Range(stack')
    BY <1>1, <2>1, TopAndRest
  <2>3. clean' => top.menu \notin Hole.Info
    BY <1>1, <2>1, <2>2 DEF NotesWhole, P!NoInfo, P!Readme
  <2>4. Same /\ P!KeepsFiles
    BY <2>1, SameStep
  <2>5. Range(stack)' = Range(stack')
    BY DEF Range
  <2>6. \A m : ~InFetch(m)
    BY <1>1 DEF InFetch, Fetching
  <2>7. CASE clean'
    <3>1. NotesWhole'
      BY <1>1, <2>2, <2>3, <2>4, <2>5, <2>6, <2>7, NotesFrame
    <3>. QED
      BY <2>1, <3>1 DEF NotesInv, Writing
  <2>8. CASE ~clean'
    BY <2>1, <2>8 DEF NotesInv, Writing, NotesWhole
  <2>. QED
    BY <2>7, <2>8
<1>3. CASE P!OpenReadme \/ P!WriteReadme
  <2>1. /\ stack # <<>> /\ top.menu \in Hole.Info /\ top.menu \in Hole.Selectors
        /\ top.left = {} /\ top.info \in P!Notes
        /\ DOMAIN kept' = DOMAIN kept \cup {q}
        /\ kept'[q] = (IF P!OpenReadme THEN P!Cut ELSE top.info)
        /\ \A p \in DOMAIN kept \ {q} : kept'[p] = kept[p]
        /\ P!KeepsFiles
    BY <1>1, <1>3, ReadmeStep
  <2>2. Range(stack) = {top} \cup Range(Tail(stack))
    BY <1>1, <2>1, TopAndRest
  <2>3. \A m : P!IsFile(Hole.Place[m]) => P!IsFile(Hole.Place[m])'
    BY <2>1, StillThere
  <2>4. \A m \in Hole.Selectors : P!ReadmeOf(m) = q => Hole.Place[m] = Hole.Place[top.menu]
    BY <2>1, SameReadme
  <2>5. \A m : P!ReadmeOf(m) # q /\ Noted(m) => Noted(m)'
    BY <2>1 DEF Noted, P!ReadmeOf, P!Readme
  <2>6. /\ visited \subseteq Hole.Selectors /\ \A m : ~InFetch(m)
    BY <1>1 DEF GopherInv, GopherTypes, InFetch, Fetching
  <2>. HIDE DEF top, q
  <2>7. CASE P!OpenReadme
    <3>1. stack' = stack /\ at' = "readme" /\ Range(stack)' = Range(stack)
      BY <2>7 DEF P!OpenReadme, P!run, Range
    <3>2. Writing'
      <4>1. Head(stack') = top /\ P!ReadmeOf(Head(stack').menu) = q /\ kept'[q] \in P!Notes
        BY <2>1, <2>7, <3>1 DEF top, q, P!Notes
      <4>2. /\ stack' # <<>> /\ Head(stack').left = {} /\ Head(stack').info # P!NoInfo
            /\ P!ReadmeOf(Head(stack').menu) \in DOMAIN kept'
            /\ kept'[P!ReadmeOf(Head(stack').menu)] \in P!Notes
        BY <2>1, <3>1, <4>1 DEF P!Notes, P!Readme, P!Cut, P!NoInfo
      <4>. QED
        BY <4>2 DEF Writing, P!NoInfo, P!Notes, P!Readme, P!Cut, P!ReadmeOf
    <3>3. \A m : BeingRead(m)' = BeingRead(m)
      BY <3>1 DEF BeingRead, Range
    <3>4. \A m \in Hole.Selectors : P!ReadmeOf(m) = q => BeingRead(m)
      BY <2>1, <2>2, <2>4 DEF BeingRead
    <3>5. NotesWhole'
      <4>1. SUFFICES ASSUME clean
                     PROVE  /\ \A f \in Range(stack)' : f.menu \in Hole.Info => f.info = P!Readme
                            /\ \A m \in visited \cap Hole.Info : P!FollowedIn(m) =>
                                  P!IsFile(Hole.Place[m])' \/ BeingRead(m)' \/ Noted(m)'
        BY <1>1 DEF NotesWhole, P!FollowedIn, P!InScope, P!Readme, Range
      <4>2. /\ \A f \in Range(stack) : f.menu \in Hole.Info => f.info = P!Readme
            /\ \A m \in visited \cap Hole.Info : P!FollowedIn(m) =>
                  P!IsFile(Hole.Place[m]) \/ BeingRead(m) \/ Noted(m)
        BY <1>1, <2>6, <4>1 DEF NotesWhole
      <4>. QED
        BY <2>3, <2>5, <2>6, <3>1, <3>3, <3>4, <4>2
    <3>. QED
      BY <3>2, <3>5 DEF NotesInv
  <2>8. CASE ~P!OpenReadme
    <3>1. stack' = Tail(stack) /\ at' = "walk" /\ Range(stack)' = Range(Tail(stack))
      BY <1>3, <2>8 DEF P!WriteReadme, Range
    <3>2. NotesWhole'
      <4>1. SUFFICES ASSUME clean
                     PROVE  /\ \A f \in Range(stack)' : f.menu \in Hole.Info => f.info = P!Readme
                            /\ \A m \in visited \cap Hole.Info : P!FollowedIn(m) =>
                                  P!IsFile(Hole.Place[m])' \/ BeingRead(m)' \/ Noted(m)'
        BY <1>1 DEF NotesWhole, P!FollowedIn, P!InScope, P!Readme, Range
      <4>2. /\ \A f \in Range(stack) : f.menu \in Hole.Info => f.info = P!Readme
            /\ \A m \in visited \cap Hole.Info : P!FollowedIn(m) =>
                  P!IsFile(Hole.Place[m]) \/ BeingRead(m) \/ Noted(m)
        BY <1>1, <2>6, <4>1 DEF NotesWhole
      <4>3. kept'[q] = P!Readme
        BY <2>1, <2>2, <2>8, <4>2
      <4>4. \A m : P!ReadmeOf(m) = q => Noted(m)'
        BY <2>1, <4>3 DEF Noted, P!ReadmeOf, P!Readme
      <4>5. \A m : Hole.Place[top.menu] = Hole.Place[m] => P!ReadmeOf(m) = q
        BY DEF P!ReadmeOf, q
      <4>6. \A m : BeingRead(m) => BeingRead(m)' \/ Noted(m)'
        BY <2>2, <3>1, <4>4, <4>5 DEF BeingRead, Range
      <4>. QED
        BY <2>2, <2>3, <2>5, <2>6, <3>1, <4>2, <4>4, <4>6
    <3>. QED
      BY <3>1, <3>2 DEF NotesInv, Writing
  <2>. QED
    BY <2>7, <2>8
<1>. QED
  BY <1>2, <1>3

LEMMA GopherNextStep ==
  ASSUME P!SelectorAssumption, P!PlacesApart, GopherInv, NotesInv, [P!Next]_(P!vars)
  PROVE  GopherInv' /\ NotesInv'
<1>1. CASE UNCHANGED P!vars
  <2>1. UNCHANGED <<shown, kept, at, visited, stack, copy, attempt, clean, goal>>
    BY <1>1 DEF P!vars, P!run, P!hist
  <2>. QED
    BY <2>1, GopherUnchanged, NotesUnchanged
<1>2. CASE \E s \in Hole.Selectors : P!Grow(s)
  <2>1. /\ shown \subseteq shown'
        /\ UNCHANGED <<kept, at, visited, stack, copy, attempt, clean, goal>>
    BY <1>2 DEF P!Grow, P!run, P!hist
  <2>. QED
    BY <2>1, GopherUnchanged, NotesUnchanged
<1>3. CASE P!Finish \/ P!Crash
  <2>1. GopherInv'
    BY <1>3, GopherForget DEF P!Finish, P!Crash
  <2>. QED
    BY <1>3, <2>1, NotesEasy
<1>4. CASE P!Start \/ P!Get \/ P!ReadMenu \/ P!Create \/ P!Commit
  BY <1>4, GopherStart, GetEntryStep, ReadMenuStep, CreateStep, CommitItemStep,
     NotesEasy, NotesArrive, NotesGet
<1>5. CASE P!Misread \/ P!Empty \/ P!FetchFails \/ P!ReadmeFails
  <2>1. GopherInv'
    BY <1>5, FetchFailsStep DEF NotesInv
  <2>. QED
    BY <1>5, <2>1, NotesEasy
<1>6. CASE P!Leave \/ P!OpenReadme \/ P!WriteReadme
  <2>1. GopherInv'
    BY <1>6, LeaveMenuStep DEF NotesInv
  <2>. QED
    BY <1>6, <2>1, NotesLeave
<1>. QED
  BY <1>1, <1>2, <1>3, <1>4, <1>5, <1>6 DEF P!Next

LEMMA NotesInit ==
  ASSUME P!Init
  PROVE  NotesInv
BY DEF P!Init, NotesInv, Writing, NotesWhole

(* Gopher: no run ever replaces or removes a file that is mirrored, or a   *)
(* directory, as long as no file has the path of a menu or is named like a *)
(* 00README (PlacesApart); a 00README, which each visit writes anew with   *)
(* the lines that came, only stays one (writeFile, readMenu, get).         *)
THEOREM NothingReplaced ==
  ASSUME P!SelectorAssumption, P!PlacesApart
  PROVE  P!Spec => P!Kept
<1>1. P!Init => GopherInv /\ NotesInv
  BY GopherInit, NotesInit
<1>2. GopherInv /\ NotesInv /\ [P!Next]_(P!vars) => GopherInv' /\ NotesInv'
  BY GopherNextStep
<1>3. GopherInv /\ NotesInv /\ [P!Next]_(P!vars) => [P!KeepsFiles]_(P!vars)
  BY KeepsStep DEF NotesInv
<1>. QED
  BY <1>1, <1>2, <1>3, PTL DEF P!Spec, P!Kept

(* A Gopher run in which no exchange failed or broke off, when it returns, *)
(* has been to every menu that leads on from its root, has fetched all     *)
(* they showed when it began and has left their 00READMEs whole, through   *)
(* menus that lead back to each other or have grown since, files that      *)
(* earlier runs fetched and 00READMEs that they left short; unless the     *)
(* root was once taken for a file, and as long as no file has the path of  *)
(* a menu or is named like a 00README (Mirror, get, fetch, readMenu,       *)
(* writeFile).                                                             *)
THEOREM GopherIsComplete ==
  ASSUME P!SelectorAssumption, P!PlacesApart
  PROVE  P!Spec => []P!DoneMeansAll
<1>1. P!Init => GopherInv /\ NotesInv
  BY GopherInit, NotesInit
<1>2. GopherInv /\ NotesInv /\ [P!Next]_(P!vars) => GopherInv' /\ NotesInv'
  BY GopherNextStep
<1>3. GopherInv /\ NotesInv => P!DoneMeansAll
  <2>. SUFFICES ASSUME GopherInv, NotesInv, at = "walk", stack = <<>>, clean,
                       ~P!IsFile(Hole.Place[Hole.Root])
                PROVE  /\ Hole.Root \in visited
                       /\ \A m \in visited \cap Hole.Menus : P!FollowedIn(m) =>
                             /\ m \in Hole.Info => Noted(m)
                             /\ \A s \in P!Range(Hole.Lines[m]) \cap goal : P!FollowedIn(s) =>
                                   /\ s \in visited /\ Hole.Place[s] \in DOMAIN kept
                                   /\ s \in Hole.Menus \/ P!Shadowed(s) \/ kept[Hole.Place[s]] = s
    BY DEF P!DoneMeansAll, Noted, P!ReadmeOf, P!Readme
  <2>1. \A s : Known(s) <=> s \in visited
    <3>1. Awaited = {}
      BY DEF Awaited, Range
    <3>. QED
      BY <3>1 DEF Known
  <2>2. /\ Hole.Root \in visited /\ \A s \in visited : P!FollowedIn(s) => There(s)
        /\ \A m \in visited \cap Hole.Menus : P!FollowedIn(m) =>
              P!IsFile(Hole.Place[m]) \/ EnteredMenu(m)
    BY <2>1 DEF GopherInv, GopherCovered, InFetch, Fetching
  <2>3. \A m \in Hole.Menus : ~P!IsFile(Hole.Place[m])
    <3>. SUFFICES ASSUME NEW m \in Hole.Menus, P!IsFile(Hole.Place[m])
                  PROVE  FALSE
      OBVIOUS
    <3>1. m \in Hole.Selectors
      BY DEF P!SelectorAssumption
    <3>2. PICK t \in Hole.Selectors :
              /\ kept[Hole.Place[m]] = t /\ Hole.Place[t] = Hole.Place[m]
              /\ t \in Hole.Menus => t = Hole.Root
      BY <3>1 DEF GopherInv, Contents, P!IsFile, P!PlacesApart, P!Last, Last
    <3>3. t = Hole.Root
      BY <3>2 DEF P!PlacesApart
    <3>. QED
      BY <3>2, <3>3
  <2>4. ASSUME NEW m \in visited \cap Hole.Menus, m \in Hole.Info, P!FollowedIn(m)
        PROVE  Noted(m)
    <3>1. ~InFetch(m) /\ ~P!IsFile(Hole.Place[m]) /\ ~BeingRead(m)
      BY <2>3 DEF InFetch, Fetching, BeingRead, Range
    <3>. QED
      BY <2>4, <3>1 DEF NotesInv, NotesWhole
  <2>5. \A m \in visited \cap Hole.Menus : P!FollowedIn(m) =>
            \A s \in P!Range(Hole.Lines[m]) \cap goal : P!FollowedIn(s) =>
               /\ s \in visited /\ Hole.Place[s] \in DOMAIN kept
               /\ s \in Hole.Menus \/ P!Shadowed(s) \/ kept[Hole.Place[s]] = s
    BY <2>1, <2>2, <2>3 DEF EnteredMenu, There, P!Range, Range
  <2>. QED
    BY <2>2, <2>4, <2>5
<1>. QED
  BY <1>1, <1>2, <1>3, PTL DEF P!Spec

-----------------------------------------------------------------------------
(* archive.org: what the mark in an item's directory stands for.           *)
Loading == {"get", "body"}
ItemSteps == Loading \cup {"idle", "metadata", "file"}

-----------------------------------------------------------------------------
(* The types of the directory and of the run's memory, and of the file in  *)
(* hand at each step of a run.                                             *)
ItemTypes ==
    /\ DOMAIN listing \subseteq Item.Files
    /\ \A f \in DOMAIN listing : listing[f] \in 1..Item.MaxVersion
    /\ DOMAIN kept \subseteq Item.Files /\ \A f \in DOMAIN kept : kept[f] \in 0..Item.MaxVersion
    /\ parts \subseteq Item.Files /\ marker \in BOOLEAN
    /\ at \in ItemSteps /\ attempt \in 0..Item.Retries
    /\ rest \subseteq DOMAIN md

ItemInHand ==
    /\ at \in Loading => copy # A!NoFile /\ copy[1] \in rest
    /\ at \notin Loading => copy = A!NoFile
    /\ at = "body" => copy[2] \in 0..Item.MaxVersion

(* Versions only grow, from the one that the last mark was made for to the *)
(* one the run was told of and to the item's.                              *)
NoLater(old, new) ==
    /\ DOMAIN old \subseteq DOMAIN new
    /\ \A f \in DOMAIN old : old[f] \in 1..Item.MaxVersion /\ old[f] <= new[f]

VersionsGrow ==
    /\ NoLater(md, listing) /\ NoLater(goal, listing)
    /\ at \in Loading \cup {"file"} => NoLater(goal, md)

(* File f is there, and is what the listing m shows as far as the code     *)
(* looks.                                                                  *)
IsThere(f, m) ==
    /\ f \in DOMAIN kept
    /\ f \in Item.Summed => /\ kept[f] # A!Garbage
                            /\ kept[f] >= m[f] \/ f \in Item.SameSize \cap Item.Sized

(* Each file the run is done with is there, and so are those of the mark.  *)
ItemMirrored ==
    /\ at \in Loading \cup {"file"} => \A f \in DOMAIN md \ rest : IsThere(f, md)
    /\ marker => \A f \in DOMAIN goal : IsThere(f, goal)

ItemInv == ItemTypes /\ ItemInHand /\ VersionsGrow /\ ItemMirrored

-----------------------------------------------------------------------------
LEMMA ItemInit ==
  ASSUME A!FileAssumption, A!Init
  PROVE  ItemInv
<1>1. PICK F \in SUBSET Item.Files : listing = [f \in F |-> 1]
  BY DEF A!Init
<1>2. 1 \in 1..Item.MaxVersion /\ 0 \in 0..Item.Retries
  BY DEF A!FileAssumption
<1>3. DOMAIN md = {} /\ DOMAIN goal = {} /\ DOMAIN kept = {}
  BY DEF A!Init, A!NoFiles
<1>. QED
  BY <1>1, <1>2, <1>3 DEF A!Init, ItemInv, ItemTypes, ItemInHand, VersionsGrow, NoLater,
     ItemMirrored, ItemSteps, Loading

(* A file gets a version that none before it had. *)
LEMMA PublishStep ==
  ASSUME A!FileAssumption, ItemInv, NEW f \in Item.Files, A!Publish(f)
  PROVE  ItemInv'
<1>1. UNCHANGED <<kept, parts, marker, at, md, rest, copy, attempt, goal>>
  BY DEF A!Publish, A!dest, A!run
<1>2. /\ DOMAIN listing' = DOMAIN listing \cup {f} /\ listing'[f] <= Item.MaxVersion
      /\ listing'[f] = IF f \in DOMAIN listing THEN listing[f] + 1 ELSE 1
      /\ \A g \in DOMAIN listing \ {f} : listing'[g] = listing[g]
  BY DEF A!Publish, A!Put
<1>3. \A g \in DOMAIN listing : listing[g] \in 1..Item.MaxVersion
  BY DEF ItemInv, ItemTypes
<1>4. listing'[f] \in 1..Item.MaxVersion /\ \A g \in DOMAIN listing : listing[g] <= listing'[g]
  BY <1>2, <1>3 DEF A!FileAssumption
<1>5. \A g \in DOMAIN listing' : listing'[g] \in 1..Item.MaxVersion
  BY <1>2, <1>3, <1>4
<1>6. ItemTypes'
  BY <1>1, <1>2, <1>5 DEF ItemInv, ItemTypes
<1>7. ItemInHand' /\ ItemMirrored'
  BY <1>1 DEF ItemInv, ItemInHand, ItemMirrored, IsThere
<1>8. ASSUME NEW m, NoLater(m, listing)
      PROVE  NoLater(m, listing')
  <2>1. \A g \in DOMAIN m : /\ m[g] \in 1..Item.MaxVersion /\ g \in DOMAIN listing
                            /\ m[g] <= listing[g] /\ listing[g] \in 1..Item.MaxVersion
                            /\ listing'[g] \in 1..Item.MaxVersion /\ listing[g] <= listing'[g]
    BY <1>2, <1>3, <1>4, <1>5, <1>8 DEF NoLater
  <2>. QED
    BY <1>2, <2>1 DEF NoLater, A!FileAssumption
<1>9. VersionsGrow'
  BY <1>1, <1>8 DEF ItemInv, VersionsGrow, NoLater
<1>. QED
  BY <1>6, <1>7, <1>9 DEF ItemInv

(* The end of a run forgets the listing, and leaves the directory. *)
LEMMA ItemForget ==
  ASSUME A!FileAssumption, ItemInv, A!Forget, UNCHANGED <<listing, kept>>,
         parts' \subseteq Item.Files,
         \/ UNCHANGED <<marker, goal>>
         \/ at = "file" /\ rest = {} /\ marker' = TRUE /\ goal' = md
  PROVE  ItemInv'
<1>1. /\ at' = "idle" /\ md' = A!NoFiles /\ rest' = {} /\ copy' = A!NoFile /\ attempt' = 0
      /\ DOMAIN md' = {} /\ 0 \in 0..Item.Retries
  BY DEF A!Forget, A!NoFiles, A!FileAssumption
<1>2. ItemTypes'
  BY <1>1 DEF ItemInv, ItemTypes, ItemSteps
<1>3. ItemInHand'
  BY <1>1 DEF ItemInHand, Loading
<1>4. VersionsGrow'
  BY <1>1 DEF ItemInv, VersionsGrow, NoLater, Loading
<1>5. ItemMirrored'
  BY <1>1 DEF ItemInv, ItemMirrored, IsThere, Loading
<1>. QED
  BY <1>2, <1>3, <1>4, <1>5 DEF ItemInv

LEMMA MetadataStep ==
  ASSUME A!FileAssumption, ItemInv, A!Metadata
  PROVE  ItemInv'
<1>1. /\ UNCHANGED <<listing, kept, parts, marker, copy, goal>>
      /\ at = "metadata" /\ at' = "file" /\ md' = listing /\ rest' = DOMAIN listing
      /\ attempt' = 0 /\ 0 \in 0..Item.Retries
  BY DEF A!Metadata, A!dest, A!FileAssumption
<1>2. ItemTypes' /\ ItemInHand'
  BY <1>1 DEF ItemInv, ItemTypes, ItemInHand, ItemSteps, Loading
<1>3. VersionsGrow'
  BY <1>1 DEF ItemInv, ItemTypes, VersionsGrow, NoLater, Loading, A!FileAssumption
<1>4. ItemMirrored'
  BY <1>1 DEF ItemInv, ItemMirrored, IsThere
<1>. QED
  BY <1>2, <1>3, <1>4 DEF ItemInv

(* A file that is there by its size is no other file, as far as the size   *)
(* can tell.                                                               *)
LEMMA SkipItemStep ==
  ASSUME A!FileAssumption, ItemInv, NEW f \in Item.Files, A!Skip(f)
  PROVE  ItemInv'
<1>1. /\ UNCHANGED <<listing, kept, parts, marker, at, md, copy, attempt, goal>>
      /\ at = "file" /\ f \in rest /\ A!AlreadyHave(f) /\ rest' = rest \ {f}
  BY DEF A!Skip, A!dest
<1>2. IsThere(f, md)
  <2>1. f \in DOMAIN md /\ md[f] \in 1..Item.MaxVersion /\ kept[f] \in 0..Item.MaxVersion
    BY <1>1 DEF ItemInv, ItemTypes, VersionsGrow, NoLater, A!AlreadyHave
  <2>. QED
    BY <1>1, <2>1 DEF A!AlreadyHave, IsThere, A!Garbage, A!FileAssumption
<1>3. ItemTypes' /\ ItemInHand'
  BY <1>1 DEF ItemInv, ItemTypes, ItemInHand, Loading
<1>4. VersionsGrow'
  BY <1>1 DEF ItemInv, VersionsGrow, NoLater
<1>5. ItemMirrored'
  BY <1>1, <1>2 DEF ItemInv, ItemMirrored, IsThere
<1>. QED
  BY <1>3, <1>4, <1>5 DEF ItemInv

LEMMA RequestStep ==
  ASSUME A!FileAssumption, ItemInv, \/ \E f \in Item.Files : A!Download(f)
                              \/ \E force \in BOOLEAN : A!Start(force)
                              \/ A!Get
  PROVE  ItemInv'
<1>1. /\ UNCHANGED <<listing, kept, marker, md, rest, attempt, goal>>
      /\ \/ at = "idle" /\ at' = "metadata" /\ UNCHANGED <<parts, copy>>
         \/ /\ at = "file" /\ at' = "get" /\ UNCHANGED parts
            /\ copy' # A!NoFile /\ copy'[1] \in rest
         \/ /\ at = "get" /\ at' = "body" /\ parts' = parts \cup {copy[1]}
            /\ copy' # A!NoFile /\ copy'[1] = copy[1]
            /\ copy'[2] \in {listing[copy[1]], A!Garbage}
  BY DEF A!Download, A!Start, A!Get, A!dest, A!run, A!NoFile
<1>2. at = "get" => /\ copy[1] \in rest /\ copy[1] \in DOMAIN listing /\ copy[1] \in Item.Files
                    /\ listing[copy[1]] \in 0..Item.MaxVersion
                    /\ A!Garbage \in 0..Item.MaxVersion
  BY DEF ItemInv, ItemTypes, ItemInHand, Loading, VersionsGrow, NoLater, A!Garbage,
         A!FileAssumption
<1>3. ItemTypes'
  BY <1>1, <1>2 DEF ItemInv, ItemTypes, ItemSteps, Loading
<1>4. ItemInHand'
  BY <1>1, <1>2 DEF ItemInv, ItemInHand, Loading
<1>5. VersionsGrow'
  BY <1>1 DEF ItemInv, VersionsGrow, NoLater, Loading
<1>6. ItemMirrored'
  BY <1>1 DEF ItemInv, ItemMirrored, IsThere, Loading
<1>. QED
  BY <1>3, <1>4, <1>5, <1>6 DEF ItemInv

(* A file that comes with its checksum is at least as late as the last     *)
(* mark's, so that a forced run does not make the mark untrue.             *)
LEMMA SaveItemStep ==
  ASSUME A!FileAssumption, ItemInv, A!Commit
  PROVE  ItemInv'
<1>. DEFINE f == copy[1]
<1>1. /\ UNCHANGED <<listing, marker, md, goal>>
      /\ at = "body" /\ A!Verified(f, copy[2]) /\ at' = "file" /\ parts' = parts \ {f}
      /\ rest' = rest \ {f} /\ copy' = A!NoFile /\ attempt' = 0 /\ 0 \in 0..Item.Retries
  BY DEF A!Commit, A!FileAssumption
<1>2. /\ DOMAIN kept' = DOMAIN kept \cup {f} /\ kept'[f] = copy[2]
      /\ \A g \in DOMAIN kept \ {f} : kept'[g] = kept[g]
  BY DEF A!Commit, A!Put
<1>3. /\ f \in rest /\ f \in DOMAIN md /\ f \in Item.Files /\ copy[2] \in 0..Item.MaxVersion
      /\ md[f] \in 1..Item.MaxVersion /\ (f \in Item.Summed => copy[2] = md[f])
      /\ f \in DOMAIN goal => goal[f] \in 1..Item.MaxVersion /\ goal[f] <= md[f]
  BY <1>1 DEF ItemInv, ItemTypes, ItemInHand, VersionsGrow, NoLater, Loading, A!Verified
<1>4. ItemTypes'
  BY <1>1, <1>2, <1>3 DEF ItemInv, ItemTypes, ItemSteps
<1>5. ItemInHand' /\ VersionsGrow'
  BY <1>1 DEF ItemInv, ItemInHand, VersionsGrow, NoLater, Loading
<1>6. f \in Item.Summed => /\ kept'[f] # A!Garbage /\ kept'[f] >= md[f]
                           /\ f \in DOMAIN goal => kept'[f] >= goal[f]
  BY <1>2, <1>3 DEF A!Garbage, A!FileAssumption
<1>7. ItemMirrored'
  <2>1. \A g \in DOMAIN md \ rest : IsThere(g, md)
    BY <1>1 DEF ItemInv, ItemMirrored, Loading
  <2>2. marker => \A g \in DOMAIN goal : IsThere(g, goal)
    BY DEF ItemInv, ItemMirrored
  <2>. QED
    BY <1>1, <1>2, <1>6, <2>1, <2>2 DEF ItemMirrored, IsThere
<1>. QED
  BY <1>4, <1>5, <1>7 DEF ItemInv

LEMMA ItemFailStep ==
  ASSUME A!FileAssumption, ItemInv, A!RequestFails \/ A!Fail \/ A!Finish \/ A!Crash
  PROVE  ItemInv'
<1>1. CASE A!Fail \/ A!Finish \/ A!Crash \/ (A!RequestFails /\ attempt >= Item.Retries)
  <2>1. parts \subseteq Item.Files /\ attempt \in 0..Item.Retries /\ Item.Retries \in Nat
    BY DEF ItemInv, ItemTypes, A!FileAssumption
  <2>2. /\ A!Forget /\ UNCHANGED <<listing, kept>> /\ parts' \subseteq Item.Files
        /\ \/ UNCHANGED <<marker, goal>>
           \/ at = "file" /\ rest = {} /\ marker' = TRUE /\ goal' = md
    BY <1>1, <2>1 DEF A!Fail, A!Finish, A!Crash, A!RequestFails, A!dest
  <2>. QED
    BY <2>2, ItemForget
<1>2. CASE A!RequestFails /\ attempt < Item.Retries
  <2>1. /\ UNCHANGED <<listing, kept, marker, goal, md, rest>>
        /\ at \in {"metadata", "get", "body"} /\ parts' \subseteq parts
        /\ attempt' = attempt + 1 /\ at' = IF at = "body" THEN "get" ELSE at
        /\ copy' = IF at = "body" THEN <<copy[1]>> ELSE copy
    BY <1>2 DEF A!RequestFails
  <2>2. attempt' \in 0..Item.Retries
    BY <1>2, <2>1 DEF ItemInv, ItemTypes, A!FileAssumption
  <2>3. ItemTypes'
    BY <2>1, <2>2 DEF ItemInv, ItemTypes, ItemSteps, Loading
  <2>4. ItemInHand'
    BY <2>1 DEF ItemInv, ItemInHand, Loading, A!NoFile
  <2>5. VersionsGrow'
    BY <2>1 DEF ItemInv, VersionsGrow, NoLater, Loading
  <2>6. ItemMirrored'
    BY <2>1 DEF ItemInv, ItemMirrored, IsThere, Loading
  <2>. QED
    BY <2>3, <2>4, <2>5, <2>6 DEF ItemInv
<1>3. attempt \in Nat /\ Item.Retries \in Nat
  BY DEF ItemInv, ItemTypes, A!FileAssumption
<1>. QED
  BY <1>1, <1>2, <1>3

LEMMA ItemNextStep ==
  ASSUME A!FileAssumption, ItemInv, [A!Next]_(A!vars)
  PROVE  ItemInv'
<1>1. CASE UNCHANGED A!vars
  <2>1. UNCHANGED <<listing, kept, parts, marker, at, md, rest, copy, attempt, goal>>
    BY <1>1 DEF A!vars, A!dest, A!run
  <2>. QED
    BY <2>1 DEF ItemInv, ItemTypes, ItemInHand, VersionsGrow, NoLater, ItemMirrored, IsThere
<1>. QED
  BY <1>1, PublishStep, SkipItemStep, RequestStep, MetadataStep, SaveItemStep, ItemFailStep
     DEF A!Next

-----------------------------------------------------------------------------
(* The directory holds files of the item, the run has a file in hand just  *)
(* while it is downloaded, and no request is tried more often than the     *)
(* options allow (pacer.do, downloadFile).                                 *)
THEOREM ItemTypesCorrect ==
  ASSUME A!FileAssumption
  PROVE  A!Spec => []A!TypeOK
<1>1. A!Init => ItemInv
  BY ItemInit
<1>2. ItemInv /\ [A!Next]_(A!vars) => ItemInv'
  BY ItemNextStep
<1>3. ItemInv => A!TypeOK
  BY DEF ItemInv, ItemTypes, ItemInHand, A!TypeOK, A!Range, Loading
<1>. QED
  BY <1>1, <1>2, <1>3, PTL DEF A!Spec

(* A directory that is marked .done has each file the marking run was told *)
(* of, and those with a checksum are no older than they were then, whatever*)
(* was published, retried, killed or forced since (Mirror).                *)
THEOREM MarkedIsComplete ==
  ASSUME A!FileAssumption
  PROVE  A!Spec => []A!DoneMeansAll
<1>1. A!Init => ItemInv
  BY ItemInit
<1>2. ItemInv /\ [A!Next]_(A!vars) => ItemInv'
  BY ItemNextStep
<1>3. ItemInv => A!DoneMeansAll
  BY DEF ItemInv, ItemMirrored, IsThere, A!DoneMeansAll
<1>. QED
  BY <1>1, <1>2, <1>3, PTL DEF A!Spec
=============================================================================
