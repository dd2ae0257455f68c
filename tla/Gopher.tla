------------------------------- MODULE Gopher -------------------------------
(***************************************************************************)
(* The Gopher mirror, src/gopher/gopher.go: one process walks a tree of    *)
(* menus depth first from the URL it was given.  Every selector is dealt   *)
(* with once in a run; a file that is on disk is not fetched again, a      *)
(* directory on disk is fetched as a menu.  An exchange that fails is      *)
(* tried again, and then given up without ending the run.  The protocol    *)
(* has no lengths: a menu that breaks off is used as far as it came.       *)
(*                                                                         *)
(* A path is a sequence of names; what is on disk at a path is the         *)
(* selector whose file it is, Dir, or a 00README: the information lines of *)
(* a menu, which do not change, or some of them, or none.                  *)
(***************************************************************************)
EXTENDS Naturals, FiniteSets, Functions, SequencesExt

CONSTANTS
    Selectors,    \* the selectors of the server
    Root,         \* the one in the URL
    Menus,        \* the selectors that are menus
    Lines,        \* the selectors in each menu, in its order
    Later,        \* selectors that no menu shows at first
    Info,         \* menus with information lines
    Foreign,      \* selectors of other hosts or of types not followed
    Place,        \* the path of each selector
    MaxAttempts   \* maxAttempts (5 in the code)

Dir    == "dir"
Readme == "readme"
Cut    == "cut"
Notes  == {Readme, Cut}
NoInfo == "no info"
NoItem == <<>>
NoMenu == "none"

SelectorAssumption ==
    /\ Root \in Selectors \ (Foreign \cup Later) /\ Menus \cup Foreign \cup Later \subseteq Selectors
    /\ Lines \in [Menus -> Seq(Selectors)] /\ Info \subseteq Menus
    /\ DOMAIN Place = Selectors /\ \A s \in Selectors : Place[s] \in Seq(Range(Place[s]))
    /\ {Dir, Readme, Cut, NoMenu} \cap Selectors = {} /\ MaxAttempts \in Nat \ {0}

(* No file has the path of a menu, or is named like a menu's 00README,     *)
(* which replaces what is there.  Else two selectors may have the same     *)
(* path, or one's go through the other's.                                  *)
PlacesApart ==
    /\ \A m \in Menus, s \in Selectors : Place[s] = Place[m] => s \in Menus
    /\ \A s \in Selectors : Place[s] # <<>> => Last(Place[s]) # Readme

VARIABLES
    \* the server
    shown,      \* the selectors that its menus show by now
    \* the destination directory
    disk,       \* path -> what is there
    tmp,        \* the paths with a *.gopher-tmp beside them
    \* one run
    pc,         \* what the run is about to do
    seen,       \* selectors that were dealt with
    stack,      \* the menus it is in: menu, numbered entries left, information
                \* lines that came, and attempt
    open,       \* the selector in hand, and as what it is fetched
    attempt,
    \* history
    clean,      \* no exchange of this run failed, broke off or was misread
    target      \* what the menus showed when the run began

run  == <<seen, stack, open, attempt>>
hist == <<clean, target>>
vars == <<shown, disk, tmp, pc, run, hist>>

Top == Head(stack)

-----------------------------------------------------------------------------
Init ==
    /\ shown = Selectors \ Later
    /\ disk = [p \in {} |-> Dir] /\ tmp = {}
    /\ pc = "idle" /\ seen = {} /\ stack = <<>> /\ open = NoItem /\ attempt = 0
    /\ clean = TRUE /\ target = {}

(* A menu comes to show one more entry. *)
Grow(s) ==
    /\ s \notin shown /\ shown' = shown \cup {s}
    /\ UNCHANGED <<disk, tmp, pc, run, hist>>

(* The root is got like the only entry of a menu of its own. *)
Start ==
    /\ pc = "idle" /\ pc' = "walk"
    /\ stack' = <<[menu |-> NoMenu, left |-> {<<1, Root>>}, info |-> NoInfo,
                 attempt |-> 0]>>
    /\ target' = shown
    /\ UNCHANGED <<shown, disk, tmp, seen, open, attempt, clean>>

Forget ==
    /\ pc' = "idle" /\ seen' = {} /\ stack' = <<>> /\ open' = NoItem /\ attempt' = 0
    /\ clean' = TRUE /\ target' = {}

IsDir(p)  == p \in DOMAIN disk /\ disk[p] = Dir
IsFile(p) == p \in DOMAIN disk /\ disk[p] # Dir
InScope(s) == IsPrefix(Place[Root], Place[s])
FollowedIn(s) == s \notin Foreign /\ InScope(s)

(* A directory on disk taken for a finished download. *)
BadSettled(s) ==
    s \in Foreign \/ s \in seen \/ ~InScope(s) \/ Place[s] \in DOMAIN disk

(* Nothing is to be fetched for s. *)
Settled(s) == s \in Foreign \/ s \in seen \/ ~InScope(s) \/ IsFile(Place[s])

(* get, called for the next entry of the menu on top. *)
Get ==
    /\ pc = "walk" /\ stack # <<>>
    /\ \E e \in Top.left :
          LET s == e[2]
          IN  /\ \A other \in Top.left : e[1] <= other[1]
              /\ seen' = IF s \in Foreign THEN seen ELSE seen \cup {s}
              /\ stack' = <<[Top EXCEPT !.left = @ \ {e}]>> \o Tail(stack)
              /\ IF Settled(s)
                 THEN UNCHANGED <<pc, open, attempt>>
                 ELSE /\ pc' = "fetch" /\ attempt' = 1
                      /\ open' = <<s, s \in Menus \/ IsDir(Place[s])>>
    /\ UNCHANGED <<shown, disk, tmp, hist>>

Ancestors(p) == {SubSeq(p, 1, k) : k \in 1..Len(p) - 1}

MadeDirs(dirs) == [p \in DOMAIN disk \cup dirs |-> IF p \in dirs THEN Dir ELSE disk[p]]

CanMake(dirs) == \A p \in dirs : ~IsFile(p)

(* What the first k lines of a menu show; a file has no menu lines. *)
Entries(s, k) == {<<i, Lines[s][i]>> : i \in {j \in 1..k : Lines[s][j] \in shown}}

Length(s) == IF s \in Menus THEN Len(Lines[s]) ELSE 0

(* The menu arrives, whole or as far as it came, and is entered. *)
Arrived(s) == IF s \in Info THEN {Readme, Cut, NoInfo} ELSE {NoInfo}

ReadMenu ==
    /\ pc = "fetch" /\ open[2]
    /\ LET s    == open[1]
           dirs == Ancestors(Place[s]) \cup {Place[s]}
       IN  /\ CanMake(dirs) /\ disk' = MadeDirs(dirs)
           /\ \E k \in 0..Length(s), info \in Arrived(s) :
                 /\ stack' = <<[menu |-> s, left |-> Entries(s, k), info |-> info,
                                attempt |-> attempt]>> \o stack
                 /\ clean' = /\ clean /\ Entries(s, k) = Entries(s, Length(s))
                             /\ s \in Info => info = Readme
    /\ pc' = "walk" /\ open' = NoItem /\ attempt' = 0
    /\ UNCHANGED <<shown, tmp, seen, target>>

(* The first bytes of a root of unknown type are no complete menu entry:   *)
(* sniffIsMenu takes the menu for a file.                                  *)
Misread ==
    /\ pc = "fetch" /\ open = <<Root, TRUE>> /\ Place[Root] \notin DOMAIN disk
    /\ open' = <<Root, FALSE>> /\ clean' = FALSE
    /\ UNCHANGED <<shown, disk, tmp, pc, seen, stack, attempt, target>>

(* The file's first bytes arrive. *)
Create ==
    /\ pc = "fetch" /\ ~open[2] /\ pc' = "body"
    /\ LET p == Place[open[1]]
       IN  /\ CanMake(Ancestors(p)) /\ disk' = MadeDirs(Ancestors(p))
           /\ tmp' = tmp \cup {p}
    /\ UNCHANGED <<shown, run, hist>>

(* The peer closed the connection, and the file is renamed into place. *)
Commit ==
    /\ pc = "body" /\ pc' = "walk"
    /\ LET p == Place[open[1]]
       IN  /\ ~IsDir(p) /\ disk' = [q \in DOMAIN disk \cup {p} |->
                                       IF q = p THEN open[1] ELSE disk[q]]
           /\ tmp' = tmp \ {p}
    /\ open' = NoItem /\ attempt' = 0
    /\ UNCHANGED <<shown, seen, stack, hist>>

(* An empty response is taken for an answer. *)
Empty ==
    /\ pc = "fetch" /\ pc' = "walk" /\ open' = NoItem /\ attempt' = 0 /\ clean' = FALSE
    /\ UNCHANGED <<shown, disk, tmp, seen, stack, target>>

(* The exchange fails: it is tried again, and a root of unknown type is    *)
(* looked at again, or given up.  The temporary file stays if it was the   *)
(* rename that failed.                                                     *)
FetchFails ==
    /\ pc \in {"fetch", "body"} /\ clean' = FALSE
    /\ UNCHANGED tmp \/ (pc = "body" /\ tmp' = tmp \ {Place[open[1]]})
    /\ IF attempt < MaxAttempts
       THEN /\ pc' = "fetch" /\ attempt' = attempt + 1
            /\ open' = <<open[1], open[1] \in Menus \/ open[2]>>
       ELSE pc' = "walk" /\ attempt' = 0 /\ open' = NoItem
    /\ UNCHANGED <<shown, disk, seen, stack, target>>

ReadmeOf(m) == Append(Place[m], Readme)

MayLeave == pc = "walk" /\ stack # <<>> /\ Top.left = {}

(* A menu's entries are dealt with, and no information lines have come. *)
Leave ==
    /\ MayLeave /\ Top.info = NoInfo /\ stack' = Tail(stack)
    /\ UNCHANGED <<shown, disk, tmp, pc, seen, open, attempt, hist>>

(* Some have: the menu's 00README is made or truncated, and then written. *)
OpenReadme ==
    /\ MayLeave /\ Top.info # NoInfo /\ ~IsDir(ReadmeOf(Top.menu)) /\ pc' = "readme"
    /\ disk' = [p \in DOMAIN disk \cup {ReadmeOf(Top.menu)} |->
                   IF p = ReadmeOf(Top.menu) THEN Cut ELSE disk[p]]
    /\ UNCHANGED <<shown, tmp, run, hist>>

WriteReadme ==
    /\ pc = "readme" /\ pc' = "walk" /\ stack' = Tail(stack)
    /\ disk' = [disk EXCEPT ![ReadmeOf(Top.menu)] = Top.info]
    /\ UNCHANGED <<shown, tmp, seen, open, attempt, hist>>

(* 00README cannot be written: the menu's exchange has failed. *)
ReadmeFails ==
    /\ (MayLeave /\ Top.info # NoInfo) \/ pc = "readme"
    /\ IF Top.attempt < MaxAttempts
       THEN pc' = "fetch" /\ open' = <<Top.menu, TRUE>> /\ attempt' = Top.attempt + 1
       ELSE pc' = "walk" /\ UNCHANGED <<open, attempt>>
    /\ stack' = Tail(stack) /\ clean' = FALSE
    /\ UNCHANGED <<shown, disk, tmp, seen, target>>

Finish ==
    /\ pc = "walk" /\ stack = <<>> /\ Forget
    /\ UNCHANGED <<shown, disk, tmp>>

(* The process is killed, by a signal or with its daemon, or cancelled. *)
Crash ==
    /\ pc # "idle" /\ Forget
    /\ UNCHANGED <<shown, disk, tmp>>

Next ==
    \/ \E s \in Selectors : Grow(s)
    \/ Start \/ Get \/ ReadMenu \/ Misread \/ Create \/ Commit \/ Empty \/ FetchFails
    \/ Leave \/ OpenReadme \/ WriteReadme \/ ReadmeFails \/ Finish \/ Crash

Spec == Init /\ [][Next]_vars

-----------------------------------------------------------------------------
(* Type correctness of the run's memory; a menu is in the stack once. *)
TypeOK ==
    /\ shown \cup seen \cup target \subseteq Selectors /\ attempt \in 0..MaxAttempts
    /\ pc \in {"fetch", "body"} <=> open # NoItem
    /\ \A i, j \in 1..Len(stack) : stack[i].menu = stack[j].menu => i = j

(* A file whose path another selector's path goes through. *)
Shadowed(s) == \E t \in Selectors \ {s} : IsPrefix(Place[s], Place[t])

(* A run that returns, without an exchange that failed or broke off, has   *)
(* fetched whatever the menus it read showed when it began, and left their *)
(* 00READMEs whole (the last one's, of menus that share a path), through   *)
(* menus that lead back to each other, entries that earlier runs fetched,  *)
(* menus that have grown since, and 00READMEs that they left short; unless *)
(* an earlier run took the root for a file.                                *)
DoneMeansAll ==
    pc = "walk" /\ stack = <<>> /\ clean /\ ~IsFile(Place[Root]) =>
        /\ Root \in seen
        /\ \A m \in seen \cap Menus : FollowedIn(m) =>
              /\ m \in Info => ReadmeOf(m) \in DOMAIN disk /\ disk[ReadmeOf(m)] = Readme
              /\ \A s \in Range(Lines[m]) \cap target : FollowedIn(s) =>
                    /\ s \in seen /\ Place[s] \in DOMAIN disk
                    /\ s \in Menus \/ Shadowed(s) \/ disk[Place[s]] = s

(* No file that was mirrored, and no directory, is replaced or removed; of *)
(* a 00README no more is said than that it stays one: a menu that breaks   *)
(* off, or a kill, makes a whole one shorter or empty.                     *)
KeepsFiles ==
    \A p \in DOMAIN disk :
        p \in DOMAIN disk' /\ (disk'[p] = disk[p] \/ {disk[p], disk'[p]} \subseteq Notes)

Kept == [][KeepsFiles]_vars

(* A menu is mirrored as a directory. *)
MenusAreDirs == \A s \in Menus : ~IsFile(Place[s])
=============================================================================
